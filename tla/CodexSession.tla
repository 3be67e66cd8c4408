---------------------------- MODULE CodexSession ----------------------------
(***************************************************************************)
(* CodexAppServerSession: a JSON-RPC peer.  A caller sends a request and   *)
(* waits for its reply; the reader of stdout delivers the replies, and     *)
(* while it waits for an approval it reads nothing.                        *)
(***************************************************************************)
EXTENDS OfficialSession

\* The reader is in an approval, or one has raised and ended it.
ReaderFree(g) == \A i \in Ids : thread[<<g, i>>] \in {"none", "done"}

CodexLaunches(c) ==
  /\ client = "codex"
  /\ Spawns(c)
  /\ Goes(c, call[c].op, "send", 0)

CodexSubmits(c) ==
  /\ client = "codex" /\ Calls(c, "submit")
  /\ session.state = "running" /\ session.ready /\ ~session.busy
  /\ session.turns < MaxTurns
  /\ session' = [session EXCEPT !.busy = TRUE, !.turns = @ + 1]
  /\ Goes(c, "submit", "send", 0)
  /\ UNCHANGED <<client, brokerVars, agent, told, control>>

Unserved(what) ==
  LET inbox == agent[session.gen].inbox IN
    \E k \in DOMAIN inbox : inbox[k].what = what

CodexInterrupts(c) ==
  /\ client = "codex" /\ Calls(c, "interrupt")
  /\ session.busy /\ session.ready /\ session.turn
  /\ ~Unserved("interrupt")      \* bound of the model
  /\ Goes(c, "interrupt", "send", 0)
  /\ UNCHANGED <<client, brokerVars, session, agent, told, control>>

\* _request: under its id the reply will be found, whichever process sends it.
Sends(c) ==
  /\ call[c].at = "send" /\ Alive(session.gen)
  /\ agent' = [agent EXCEPT ![session.gen].inbox = Append(@, Message(call[c].op, c))]
  /\ call' = [call EXCEPT ![c].at = "wait"]
  /\ UNCHANGED <<client, brokerVars, session, told, control>>

\* initialize, thread/start or thread/resume; turn/start; turn/interrupt.
Succeeds(c) ==
  /\ call[c].at = "wait" /\ call[c].reply = "result"
  /\ Returns(c)
  /\ session' = [session EXCEPT !.ready = @ \/ call[c].op \in {"start", "resume"},
                                !.turn = @ \/ call[c].op = "submit"]
  /\ UNCHANGED <<client, brokerVars, agent, told, control>>

\* Nobody waits for the reply any more: it is not found under its id.
Disowned(c, inbox) ==
  [k \in DOMAIN inbox |-> [inbox[k] EXCEPT !.of = IF @ = c THEN 0 ELSE @]]

\* A caller has one request at a time, so there is one such reply at most.
RepliesTo(c, out) == {k \in DOMAIN out : out[k].what \in {"result", "error"} /\ out[k].of = c}

Without(out, k) == [j \in 1..Len(out) - 1 |-> IF j < k THEN out[j] ELSE out[j + 1]]

Unread(c, out) ==
  IF RepliesTo(c, out) = {} THEN out ELSE Without(out, CHOOSE k \in RepliesTo(c, out) : TRUE)

\* The request cannot be sent, is refused, or is given up after 45 s.
Fails(c) ==
  /\ \/ call[c].at = "send" /\ ~Alive(session.gen)
     \/ call[c].at = "wait" /\ call[c].reply # "result"
  /\ agent' = [g \in Gens |-> [agent[g] EXCEPT !.inbox = Disowned(c, @),
                                               !.out = Unread(c, @)]]
  /\ session' = [session EXCEPT !.busy = @ /\ call[c].op # "submit"]
  /\ IF call[c].op = "start" THEN Stopping(c) ELSE Returns(c)
  /\ UNCHANGED <<client, brokerVars, told, control>>

\* The app-server takes its requests in order, and begins turns.
Serves(g) ==
  /\ Alive(g) /\ agent[g].inbox # <<>>
  /\ LET request == Head(agent[g].inbox)
         Replied(out, what) == IF request.of = 0 THEN out
                               ELSE Append(out, Message(what, request.of))
     IN \/ agent' = [agent EXCEPT
             ![g].inbox = Tail(@),
             ![g].out   = Replied(@, "result"),
             ![g].open  = IF request.what = "submit" THEN @ + 1 ELSE @]
        \/ agent' = [agent EXCEPT ![g].inbox = Tail(@), ![g].out = Replied(@, "error")]
  /\ UNCHANGED <<client, brokerVars, session, told, control, call>>

CodexReadsReply(g) ==
  /\ client = "codex" /\ ReaderFree(g)
  /\ ReadsOne(g)
  /\ LET reply == Head(agent[g].out) IN
       /\ reply.what \in {"result", "error"}
       /\ call' = [call EXCEPT ![reply.of].reply = reply.what]
  /\ UNCHANGED <<brokerVars, session, told, control>>

CodexReadsAsk(g) ==
  /\ client = "codex" /\ ReaderFree(g)
  /\ ReadsOne(g)
  /\ Head(agent[g].out).what = "ask"
  /\ StartsAsk(g, Head(agent[g].out).of)

CodexEnters(a) ==
  /\ client = "codex"
  /\ Register(a) \/ Expires(a)
  /\ UNCHANGED <<client, sessionVars>>

\* _send writes to the process that the session has by now.
CodexAnswers(a) ==
  /\ client = "codex" /\ Ready(a)
  /\ thread' = [thread EXCEPT ![a] = "done"]
  /\ \/ /\ Alive(session.gen)
        /\ Tells(<<session.gen, a[2]>>, Said(a))
        /\ UNCHANGED agent
     \/ /\ Alive(session.gen)           \* the write takes too long
        /\ agent' = Ended(session.gen)
        /\ UNCHANGED told
     \/ /\ ~Alive(session.gen)
        /\ UNCHANGED <<agent, told>>
  /\ UNCHANGED <<client, mode, record, session, control, call>>

CodexReads(g) == CodexReadsReply(g) \/ CodexReadsAsk(g)

CodexThread(a) == CodexEnters(a) \/ CodexAnswers(a)

CodexCalls(c) == CodexSubmits(c) \/ CodexInterrupts(c)

CodexReturns(c) == CodexLaunches(c) \/ Sends(c) \/ Succeeds(c) \/ Fails(c)
=============================================================================
