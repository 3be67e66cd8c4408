-------------------------- MODULE OfficialSession ---------------------------
(***************************************************************************)
(* One persistent session of an official agent (official_agent_runtime.py):*)
(* the state that CodexAppServerSession and ClaudeStreamSession share, the *)
(* processes it launches one after the other, and the calls of the threads *)
(* of the workbench.  Every launch is a generation with a process, a       *)
(* reader of its stdout and a watcher of its exit; both outlive the        *)
(* process and its place in the session.                                   *)
(*                                                                         *)
(* An ask <<g, i>> is the request for permission that the process of       *)
(* generation g numbers i: numbering starts over with every process.       *)
(***************************************************************************)
EXTENDS ApprovalBroker, Sequences

CONSTANTS
  Kinds,        (* pairs of a client and an approval mode                    *)
  Ids,
  Callers,      (* threads that call the session's methods                   *)
  Uses,         (* Uses[c]: the methods that thread c calls                  *)
  Fickle,       (* asks a process may take back, bound of the model          *)
  MaxLaunches, MaxTurns    (* bounds of the model                            *)

Clients == {"claude", "codex"}
Gens == 1..MaxLaunches

ASSUME SessionAssumption ==
  /\ Asks = Gens \X Ids
  /\ Kinds \subseteq Clients \X Modes
  /\ DOMAIN Uses = Callers
  /\ Fickle \subseteq Asks
  /\ {MaxLaunches, MaxTurns} \subseteq Nat

VARIABLES
  client,       (* the class of the session                                  *)
  session,      (* its _state, _busy, _generation, whether _thread_id and    *)
                (* _turn_id are known, and the turns submitted so far        *)
  agent,        (* agent[g]: the process, what it wrote and nobody has read, *)
                (* the requests it has yet to serve, its unfinished turns    *)
  told,         (* told[a]: what the process that asked a has heard          *)
  control,      (* _claude_control_requests: the generation under an id      *)
  call          (* call[c]: the method thread c is in, how far, and the      *)
                (* generation it found when it began                         *)

sessionVars == <<session, agent, told, control, call>>
allVars == <<client, brokerVars, sessionVars>>

Terminal == {"stopped", "ended"}    \* "ended": completed or failed
Allows   == {"allow-once", "allow-session"}
Idle     == [at |-> "idle", op |-> "none", gen |-> 0, left |-> {}, reply |-> "none"]
Message(what, of) == [what |-> what, of |-> of]

SessionInit ==
  /\ \E k \in Kinds : client = k[1] /\ mode = k[2]
  /\ BrokerInit
  /\ session = [state |-> "created", busy |-> FALSE, gen |-> 0, ready |-> FALSE,
                turn |-> FALSE, turns |-> 0]
  /\ agent = [g \in Gens |-> [process |-> "none", out |-> <<>>, inbox |-> <<>>, open |-> 0]]
  /\ told = [a \in Asks |-> "unasked"]
  /\ control = [i \in Ids |-> 0]
  /\ call = [c \in Callers |-> Idle]

Alive(g) == g \in Gens /\ agent[g].process = "alive"

Current(g) == g = session.gen /\ session.state = "running"

Calls(c, op) == call[c] = Idle /\ op \in Uses[c]

Returns(c) == call' = [call EXCEPT ![c] = Idle]

---------------------------------------------------------------------------
(* The process: beyond the protocol, it owes nothing. *)

\* Only the turns of the process make it ask, and it asks under every id once.
AsksFor(g, i) ==
  /\ Alive(g) /\ agent[g].open > 0
  /\ told[<<g, i>>] = "unasked"
  /\ told' = [told EXCEPT ![<<g, i>>] = "asked"]
  /\ agent' = [agent EXCEPT ![g].out = Append(@, Message("ask", i))]
  /\ UNCHANGED <<client, brokerVars, session, control, call>>

\* Only Claude takes a request back.
Withdraws(g, i) ==
  /\ client = "claude" /\ Alive(g)
  /\ <<g, i>> \in Fickle /\ told[<<g, i>>] = "asked"
  /\ told' = [told EXCEPT ![<<g, i>>] = "withdrawn"]
  /\ agent' = [agent EXCEPT ![g].out = Append(@, Message("withdraw", i))]
  /\ UNCHANGED <<client, brokerVars, session, control, call>>

Finishes(g) ==
  /\ Alive(g) /\ agent[g].open > 0
  /\ \A i \in Ids : told[<<g, i>>] # "asked"
  /\ agent' = [agent EXCEPT ![g].out = Append(@, Message("done", 0)), ![g].open = @ - 1]
  /\ UNCHANGED <<client, brokerVars, session, told, control, call>>

\* What it has written stays to be read.
Ended(g) == [agent EXCEPT ![g].process = "dead", ![g].inbox = <<>>, ![g].open = 0]

\* The process exits, or is killed for too much output.
Dies(g) ==
  /\ Alive(g)
  /\ agent' = Ended(g)
  /\ UNCHANGED <<client, brokerVars, session, told, control, call>>

---------------------------------------------------------------------------
(* The threads of the session. *)

\* Mutant: the exit of any process ends the turn.
WatchEndsTurn(g) ==
  /\ agent[g].process = "dead"
  /\ agent' = [agent EXCEPT ![g].process = "reaped"]
  /\ session' = [session EXCEPT
       !.state = IF g # session.gen THEN @ ELSE IF @ = "stopping" THEN "stopped" ELSE "ended",
       !.busy = FALSE]
  /\ UNCHANGED <<client, brokerVars, told, control, call>>

\* _watch_process; Codex answers every request that waits.
Watch(g) ==
  /\ agent[g].process = "dead"
  /\ agent' = [agent EXCEPT ![g].process = "reaped"]
  /\ IF g = session.gen
     THEN /\ session' = [session EXCEPT
               !.state = IF @ = "stopping" THEN "stopped" ELSE "ended",
               !.busy = FALSE]
          /\ call' = [c \in Callers |->
               IF call[c].at = "wait" THEN [call[c] EXCEPT !.reply = "error"] ELSE call[c]]
     ELSE UNCHANGED <<session, call>>
  /\ UNCHANGED <<client, brokerVars, told, control>>

Tells(a, decision) ==
  told' = [told EXCEPT ![a] = IF @ = "asked" THEN decision ELSE @]

ReadsOne(g) ==
  /\ agent[g].out # <<>>
  /\ agent' = [agent EXCEPT ![g].out = Tail(@)]
  /\ UNCHANGED client

StartsAsk(g, i) ==
  /\ thread' = [thread EXCEPT ![<<g, i>>] = "begun"]
  /\ UNCHANGED <<mode, record, session, told, control, call>>

\* The end of a turn, as far as it is the current process that tells of it.
ReadsDone(g) ==
  /\ ReadsOne(g)
  /\ Head(agent[g].out).what = "done"
  /\ session' = IF g = session.gen THEN [session EXCEPT !.busy = FALSE, !.turn = FALSE]
                ELSE session
  /\ UNCHANGED <<brokerVars, told, control, call>>

\* The operator decides on what snapshot shows as pending.
ResolvesAsk(a) ==
  /\ \E decision \in Decisions : Resolve(a, decision)
  /\ UNCHANGED <<client, sessionVars>>

LosesPatience(a) ==
  /\ TimesOut(a)
  /\ UNCHANGED <<client, sessionVars>>

---------------------------------------------------------------------------
(* The callers. *)

Goes(c, op, at, g) ==
  call' = [call EXCEPT ![c] = [Idle EXCEPT !.at = at, !.op = op, !.gen = g]]

Start(c) ==
  /\ Calls(c, "start")
  /\ session.state = "created"
  /\ Goes(c, "start", "launch", session.gen)
  /\ UNCHANGED <<client, brokerVars, session, agent, told, control>>

Resume(c) ==
  /\ Calls(c, "resume")
  /\ session.state \in Terminal
  /\ client = "codex" => session.ready
  /\ Goes(c, "resume", "launch", session.gen)
  /\ UNCHANGED <<client, brokerVars, session, agent, told, control>>

\* stop, also called by stop_all and when start fails: first cancel_all.
Stopping(c) ==
  call' = [call EXCEPT ![c] =
    [Idle EXCEPT !.at = "cancel", !.op = "stop", !.left = Pending]]

Stop(c) ==
  /\ Calls(c, "stop")
  /\ Stopping(c)
  /\ UNCHANGED <<client, brokerVars, session, agent, told, control>>

CancelsOne(c) ==
  /\ call[c].at = "cancel"
  /\ \E a \in call[c].left :
       /\ CancelAsk(a)
       /\ call' = [call EXCEPT ![c].left = @ \ {a}]
  /\ UNCHANGED <<client, session, agent, told, control>>

Marks(c) ==
  /\ call[c].at = "cancel" /\ call[c].left = {}
  /\ IF session.state \in Terminal \/ session.gen = 0
     THEN /\ session' = IF session.gen = 0 THEN [session EXCEPT !.state = "stopped"]
                        ELSE session
          /\ Returns(c)
     ELSE /\ session' = [session EXCEPT !.state = "stopping"]
          /\ Goes(c, "stop", "kill", session.gen)
  /\ UNCHANGED <<client, brokerVars, agent, told, control>>

\* Mutant: fork launches beside the process it replaces.
KillsToStop(c) ==
  /\ call[c].at = "kill"
  /\ agent' = IF Alive(call[c].gen) /\ call[c].op # "fork"
              THEN Ended(call[c].gen) ELSE agent
  /\ IF call[c].op = "fork" THEN Goes(c, "fork", "launch", call[c].gen) ELSE Returns(c)
  /\ UNCHANGED <<client, brokerVars, session, told, control>>

\* terminate_process_tree, of the process the caller saw.
Kills(c) ==
  /\ call[c].at = "kill"
  /\ agent' = IF Alive(call[c].gen) THEN Ended(call[c].gen)
              ELSE agent
  /\ IF call[c].op = "fork" THEN Goes(c, "fork", "launch", call[c].gen) ELSE Returns(c)
  /\ UNCHANGED <<client, brokerVars, session, told, control>>

LaunchFails(c) ==
  /\ call[c].at = "launch"
  /\ IF call[c].op = "start" THEN Stopping(c) ELSE Returns(c)
  /\ UNCHANGED <<client, brokerVars, session, agent, told, control>>

\* _launch up to its threads; what follows is the caller's.
Spawns(c) ==
  /\ call[c].at = "launch" /\ session.gen < MaxLaunches
  /\ agent' = [agent EXCEPT ![session.gen + 1].process = "alive"]
  /\ session' = [session EXCEPT !.state = "running", !.gen = @ + 1,
                                !.busy = @ /\ client = "codex"]
  /\ UNCHANGED <<client, brokerVars, told, control>>
=============================================================================
