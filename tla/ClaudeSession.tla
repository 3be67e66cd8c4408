--------------------------- MODULE ClaudeSession ----------------------------
(***************************************************************************)
(* ClaudeStreamSession: turns are written to the process under the lock,   *)
(* every ask gets a thread of its own as long as there are slots.          *)
(***************************************************************************)
EXTENDS OfficialSession

CONSTANT Slots    \* _claude_approval_slots

ASSUME SlotsAssumption == Slots \in Nat \ {0}

ClaudeLaunches(c) ==
  /\ client = "claude"
  /\ Spawns(c)
  /\ Returns(c)

ClaudeSubmits(c) ==
  /\ client = "claude" /\ Calls(c, "submit")
  /\ session.state = "running" /\ ~session.busy /\ Alive(session.gen)
  /\ session.turns < MaxTurns
  /\ session' = [session EXCEPT !.busy = TRUE, !.turns = @ + 1]
  /\ agent' = [agent EXCEPT ![session.gen].open = @ + 1]
  /\ UNCHANGED <<client, brokerVars, told, control, call>>

ClaudeInterrupts(c) ==
  /\ client = "claude" /\ Calls(c, "interrupt")
  /\ session.state = "running"
  /\ session' = [session EXCEPT !.state = "stopping"]
  /\ Goes(c, "interrupt", "kill", session.gen)
  /\ UNCHANGED <<client, brokerVars, agent, told, control>>

Forks(c) ==
  /\ client = "claude" /\ Calls(c, "fork")
  /\ ~session.busy
  /\ session.state \in {"running"} \cup Terminal
  /\ session' = IF session.state = "running" THEN [session EXCEPT !.state = "stopping"]
                ELSE session
  /\ Goes(c, "fork", "kill", session.gen)
  /\ UNCHANGED <<client, brokerVars, agent, told, control>>

---------------------------------------------------------------------------
\* Mutant: threads are started without a slot.
AnySlot == TRUE

SlotFree == Cardinality(AtWork) < Slots

ClaudeReadsAsk(g) ==
  /\ client = "claude"
  /\ ReadsOne(g)
  /\ Head(agent[g].out).what = "ask"
  /\ LET i == Head(agent[g].out).of IN
       \/ /\ SlotFree
          /\ StartsAsk(g, i)
       \/ /\ ~SlotFree
          /\ IF Current(g) /\ Alive(g) THEN Tells(<<g, i>>, "deny") ELSE UNCHANGED told
          /\ UNCHANGED <<brokerVars, session, control, call>>

\* A cancellation that comes before the record does is lost.
ClaudeReadsWithdrawal(g) ==
  /\ client = "claude"
  /\ ReadsOne(g)
  /\ Head(agent[g].out).what = "withdraw"
  /\ LET i == Head(agent[g].out).of IN
       IF control[i] = 0 THEN UNCHANGED brokerVars ELSE CancelAsk(<<control[i], i>>)
  /\ UNCHANGED <<session, told, control, call>>

\* _handle_claude_control_request up to the wait, and after a timeout: when
\* request raises, the entry under the id goes.
ClaudeEnters(a) ==
  /\ client = "claude"
  /\ Register(a) \/ Expires(a)
  /\ control' = [control EXCEPT ![a[2]] =
       IF thread'[a] = "raised" THEN 0 ELSE IF thread[a] = "begun" THEN a[1] ELSE @]
  /\ UNCHANGED <<client, session, agent, told, call>>

\* Mutant: the answer goes to the process the session has by now.
AddresseeNow(a) == <<session.gen, a[2]>>

\* _send_claude_control_response reaches the process that asked or nobody.
Addressee(a) == IF Current(a[1]) THEN a ELSE <<0, a[2]>>

ClaudeAnswers(a) ==
  /\ client = "claude" /\ Ready(a)
  /\ thread' = [thread EXCEPT ![a] = "done"]
  /\ control' = [control EXCEPT ![a[2]] = 0]
  /\ \/ /\ Alive(Addressee(a)[1])
        /\ Tells(Addressee(a), Said(a))
        /\ UNCHANGED agent
     \/ /\ Alive(Addressee(a)[1])       \* the write fails or takes too long
        /\ agent' = Ended(a[1])
        /\ UNCHANGED told
     \/ /\ ~Alive(Addressee(a)[1])
        /\ UNCHANGED <<agent, told>>
  /\ UNCHANGED <<client, mode, record, session, call>>

ClaudeReads(g) == ClaudeReadsAsk(g) \/ ClaudeReadsWithdrawal(g)

ClaudeThread(a) == ClaudeEnters(a) \/ ClaudeAnswers(a)

ClaudeCalls(c) == ClaudeSubmits(c) \/ ClaudeInterrupts(c) \/ Forks(c)
=============================================================================
