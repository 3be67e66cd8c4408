------------------------- MODULE AgentSessionProofs -------------------------
(***************************************************************************)
(* Proofs about AgentSession.tla: for any number of requests, callers and  *)
(* launches, a session of either class keeps its types and its limits; a   *)
(* Claude process that was allowed something was allowed it by the         *)
(* decision on its own request, and has one turn at most; and a process    *)
(* comes to live beside another one only by a launch that another one has  *)
(* overtaken since its check.                                              *)
(*                                                                         *)
(* What makes these inductive is in the pipes: a request stands there once *)
(* and before its thread begins (Asked), and the end of a turn that is     *)
(* still to be read keeps the session busy (TurnOK).                       *)
(***************************************************************************)
EXTENDS AgentSession, SequenceTheorems, FiniteSetTheorems, TLAPS

Methods == {"none", "start", "resume", "fork", "submit", "interrupt", "stop"}

Letter == [what : Methods \cup {"ask", "withdraw", "done", "result", "error"},
           of : Ids \cup Callers \cup {0}]

SessionRow == [state : {"created", "running", "stopping"} \cup Terminal,
               busy : BOOLEAN, gen : 0..MaxLaunches, ready : BOOLEAN,
               turn : BOOLEAN, turns : 0..MaxTurns]

ProcessRow == [process : {"none", "alive", "dead", "reaped"},
               out : Seq(Letter), inbox : Seq(Letter), open : Nat]

CallRow == [at : {"idle", "launch", "send", "wait", "cancel", "kill"},
            op : Methods, gen : 0..MaxLaunches, left : SUBSET Asks,
            reply : {"none", "result", "error"}]

Typed ==
  /\ BrokerTypeOK
  /\ <<client, mode>> \in Kinds
  /\ session \in SessionRow
  /\ agent \in [Gens -> ProcessRow]
  /\ told \in [Asks -> {"unasked", "asked", "withdrawn"} \cup Decisions]
  /\ control \in [Ids -> 0..MaxLaunches]
  /\ call \in [Callers -> CallRow]

\* The requests in a pipe, each of them once.
AsksIn(out) == {out[k].of : k \in {k \in DOMAIN out : out[k].what = "ask"}}

OnceEach(out) ==
  \A j, k \in DOMAIN out :
    (out[j].what = "ask" /\ out[k].what = "ask" /\ out[j].of = out[k].of) => j = k

\* The ends of turns in a pipe.
Dones(out) == {k \in DOMAIN out : out[k].what = "done"}

OneDone(out) == \A j, k \in Dones(out) : j = k

\* A process that does not live has no turn, one that never lived has written
\* nothing.
RowOK(p) ==
  /\ p.process # "alive" => p.open = 0
  /\ p.process = "none" => p.out = <<>>
  /\ OnceEach(p.out)

\* The turn of the current process keeps the session busy until its end has
\* been read.
TurnOK(p, busy) ==
  /\ p.open = 1 => busy /\ Dones(p.out) = {}
  /\ Dones(p.out) # {} => busy
  /\ OneDone(p.out)

Processes ==
  \A g \in Gens : RowOK(agent[g]) /\ (g > session.gen => agent[g].process = "none")

Turns ==
  client = "claude" =>
    /\ \A g \in Gens :
         /\ agent[g].inbox = <<>> /\ agent[g].open <= 1
         /\ g = session.gen /\ agent[g].process = "alive" => TurnOK(agent[g], session.busy)
    /\ \A c \in Callers : call[c].at \notin {"send", "wait"}

\* A request in a pipe was made, and nobody has begun to answer it.
Asked ==
  \A g \in Gens : \A i \in AsksIn(agent[g].out) :
    i \in Ids /\ thread[<<g, i>>] = "none" /\ told[<<g, i>>] # "unasked"

Granted(a, word) ==
  \/ record[a] = word
  \/ record[a] = "none" /\ mode # "approval-required"

ThreadOK(a) ==
  /\ thread[a] # "none" => told[a] # "unasked"
  /\ thread[a] \in {"none", "begun"} => record[a] = "none"
  /\ thread[a] \in {"waiting", "late"} => record[a] # "none"
  /\ thread[a] = "answer" => Granted(a, "deny")
  /\ client = "claude" /\ told[a] \in Allows => thread[a] = "done" /\ Granted(a, told[a])

Limited ==
  /\ IsFiniteSet(Pending) /\ Cardinality(Pending) <= MaxPending
  /\ client = "claude" => IsFiniteSet(AtWork) /\ Cardinality(AtWork) <= Slots

SessionInv ==
  /\ Typed /\ Limited /\ Processes /\ Turns /\ Asked
  /\ \A a \in Asks : ThreadOK(a)

\* The session shows no end while its process is alive.
EndsAreReal == session.state \in {"running", "stopping"} \/ ~Alive(session.gen)

\* A caller has seen no later generation than the current one, and one that is
\* about to launch finds its process dead, if it is still that one.
Launches(c) ==
  /\ call[c].gen <= session.gen
  /\ call[c].at = "launch" /\ call[c].gen = session.gen => ~Alive(session.gen)

LoneInv == EndsAreReal /\ \A c \in Callers : Launches(c)

\* What all steps do but a launch that comes too late.
StaysLone == LoneInv' /\ (OneProcess => OneProcess')

-----------------------------------------------------------------------------
(* Pipes.                                                                  *)

\* The rest of a pipe, after its first letter was read.
LEMMA TailFacts ==
  ASSUME NEW out \in Seq(Letter), out # <<>>
  PROVE  /\ Tail(out) \in Seq(Letter) /\ Head(out) \in Letter
         /\ Head(out) = out[1] /\ 1 \in DOMAIN out
         /\ \A k \in DOMAIN Tail(out) : k + 1 \in DOMAIN out /\ Tail(out)[k] = out[k + 1] /\ k \in Nat /\ k >= 1
  OBVIOUS

\* What is left of a pipe has the requests and the ends of turns that the pipe
\* had, but for the one that was read.
LEMMA TailPipe ==
  ASSUME NEW out \in Seq(Letter), out # <<>>
  PROVE  /\ AsksIn(Tail(out)) \subseteq AsksIn(out)
         /\ OnceEach(out) => OnceEach(Tail(out))
         /\ OnceEach(out) /\ Head(out).what = "ask" =>
              Head(out).of \in AsksIn(out) /\ Head(out).of \notin AsksIn(Tail(out))
         /\ Dones(out) = {} => Dones(Tail(out)) = {}
         /\ OneDone(out) => OneDone(Tail(out))
         /\ OneDone(out) /\ Head(out).what = "done" => Dones(Tail(out)) = {} /\ Dones(out) # {}
<1>1. /\ Head(out) = out[1] /\ 1 \in DOMAIN out
      /\ \A k \in DOMAIN Tail(out) : k + 1 \in DOMAIN out /\ Tail(out)[k] = out[k + 1] /\ k \in Nat /\ k >= 1
  BY TailFacts
<1> DEFINE t == Tail(out)
           h == Head(out)
<1> HIDE DEF t, h
<1>2. AsksIn(t) \subseteq AsksIn(out)
  BY <1>1 DEF AsksIn, t
<1>3. OnceEach(out) => OnceEach(t)
  BY <1>1 DEF OnceEach, t
<1>4. OnceEach(out) /\ h.what = "ask" => h.of \in AsksIn(out) /\ h.of \notin AsksIn(t)
  BY <1>1 DEF OnceEach, AsksIn, t, h
<1>5. Dones(out) = {} => Dones(t) = {}
  BY <1>1 DEF Dones, t
<1>6. OneDone(out) => OneDone(t)
  BY <1>1 DEF Dones, OneDone, t
<1>7. OneDone(out) /\ h.what = "done" => Dones(t) = {} /\ Dones(out) # {}
  BY <1>1 DEF Dones, OneDone, t, h
<1> QED BY <1>2, <1>3, <1>4, <1>5, <1>6, <1>7 DEF t, h

\* A pipe in which one more letter has been written.
LEMMA AppendPipe ==
  ASSUME NEW out \in Seq(Letter), NEW m \in Letter
  PROVE  /\ Append(out, m) \in Seq(Letter)
         /\ AsksIn(Append(out, m)) \subseteq AsksIn(out) \cup (IF m.what = "ask" THEN {m.of} ELSE {})
         /\ OnceEach(out) /\ (m.what = "ask" => m.of \notin AsksIn(out)) => OnceEach(Append(out, m))
         /\ m.what # "done" => Dones(Append(out, m)) = Dones(out)
         /\ Dones(out) = {} => OneDone(Append(out, m))
<1> DEFINE t == Append(out, m)
           n == Len(out) + 1
<1>1. /\ t \in Seq(Letter) /\ n \in Nat /\ DOMAIN t = 1..n /\ DOMAIN out = 1..(n - 1) /\ t[n] = m
      /\ \A k \in 1..(n - 1) : t[k] = out[k]
  OBVIOUS
<1> HIDE DEF t, n
<1>2. \A k \in 1..n : k \in 1..(n - 1) \/ k = n
  BY <1>1
<1>3. AsksIn(t) \subseteq AsksIn(out) \cup (IF m.what = "ask" THEN {m.of} ELSE {})
  BY <1>1, <1>2 DEF AsksIn
<1>4. OnceEach(out) /\ (m.what = "ask" => m.of \notin AsksIn(out)) => OnceEach(t)
  BY <1>1, <1>2 DEF OnceEach, AsksIn
<1>5. m.what # "done" => Dones(t) = Dones(out)
  BY <1>1, <1>2 DEF Dones
<1>6. Dones(out) = {} => OneDone(t)
  BY <1>1, <1>2 DEF Dones, OneDone
<1> QED BY <1>1, <1>3, <1>4, <1>5, <1>6 DEF t

\* A pipe without one of its letters.
LEMMA WithoutPipe ==
  ASSUME NEW out \in Seq(Letter), NEW k \in DOMAIN out
  PROVE  /\ Without(out, k) \in Seq(Letter)
         /\ AsksIn(Without(out, k)) \subseteq AsksIn(out)
         /\ OnceEach(out) => OnceEach(Without(out, k))
<1> DEFINE t == Without(out, k)
           n == Len(out)
<1>1. n \in Nat /\ DOMAIN out = 1..n /\ k \in 1..n /\ n - 1 \in Nat /\ \A j \in 1..n : out[j] \in Letter
  OBVIOUS
<1>2. DOMAIN t = 1..(n - 1) /\ \A j \in 1..(n - 1) : t[j] = IF j < k THEN out[j] ELSE out[j + 1]
  BY DEF Without
<1>3. t = [j \in 1..(n - 1) |-> IF j < k THEN out[j] ELSE out[j + 1]]
  BY DEF Without
<1> HIDE DEF n
<1>4. t \in [1..(n - 1) -> Letter]
  <2>1. \A j \in 1..(n - 1) : (IF j < k THEN out[j] ELSE out[j + 1]) \in Letter
    BY <1>1
  <2> HIDE DEF t
  <2> QED BY <1>3, <2>1
<1>5. t \in Seq(Letter)
  <2> HIDE DEF t
  <2> QED BY <1>1, <1>4, SeqDef
<1> HIDE DEF t
<1>6. AsksIn(t) \subseteq AsksIn(out)
  BY <1>1, <1>2 DEF AsksIn
<1>7. OnceEach(out) => OnceEach(t)
  <2> SUFFICES ASSUME OnceEach(out), NEW i \in 1..(n - 1), NEW j \in 1..(n - 1),
                      t[i].what = "ask", t[j].what = "ask", t[i].of = t[j].of
               PROVE  i = j
    BY <1>2 DEF OnceEach
  <2>1. PICK x \in 1..n : t[i] = out[x] /\ x = (IF i < k THEN i ELSE i + 1)
    BY <1>1, <1>2
  <2>2. PICK y \in 1..n : t[j] = out[y] /\ y = (IF j < k THEN j ELSE j + 1)
    BY <1>1, <1>2
  <2>3. x = y
    BY <1>1, <2>1, <2>2 DEF OnceEach
  <2> QED BY <1>1, <2>1, <2>2, <2>3
<1> QED BY <1>5, <1>6, <1>7 DEF t

\* What a caller that gives up leaves of a pipe.
LEMMA UnreadPipe ==
  ASSUME NEW out \in Seq(Letter), NEW c
  PROVE  /\ Unread(c, out) \in Seq(Letter)
         /\ AsksIn(Unread(c, out)) \subseteq AsksIn(out)
         /\ OnceEach(out) => OnceEach(Unread(c, out))
         /\ out = <<>> => Unread(c, out) = <<>>
<1>1. CASE RepliesTo(c, out) = {}
  BY <1>1 DEF Unread
<1>2. CASE RepliesTo(c, out) # {}
  <2> DEFINE k == CHOOSE k \in RepliesTo(c, out) : TRUE
  <2>1. k \in DOMAIN out /\ Unread(c, out) = Without(out, k)
    BY <1>2 DEF Unread, RepliesTo
  <2>2. out # <<>>
    BY <2>1
  <2> HIDE DEF k
  <2> QED BY <2>1, <2>2, WithoutPipe
<1> QED BY <1>1, <1>2

\* What a caller that gives up leaves of the requests to be served.
LEMMA DisownedPipe ==
  ASSUME NEW inbox \in Seq(Letter), NEW c
  PROVE  Disowned(c, inbox) \in Seq(Letter)
<1> DEFINE n == Len(inbox)
           t == Disowned(c, inbox)
<1>1. n \in Nat /\ DOMAIN inbox = 1..n /\ \A k \in 1..n : inbox[k] \in Letter
  OBVIOUS
<1>2. \A m \in Letter : [m EXCEPT !.of = IF @ = c THEN 0 ELSE @] \in Letter
  BY DEF Letter
<1>3. t = [k \in 1..n |-> [inbox[k] EXCEPT !.of = IF @ = c THEN 0 ELSE @]]
  BY <1>1 DEF Disowned
<1> HIDE DEF n, t
<1>4. t \in [1..n -> Letter]
  BY <1>1, <1>2, <1>3
<1>5. t \in Seq(Letter)
  BY <1>1, <1>4, SeqDef
<1> QED BY <1>5 DEF t

-----------------------------------------------------------------------------
(* Callers.                                                                *)

\* A caller has gone on, and the others stand where they stood.
Moved(c) == call' \in [Callers -> CallRow] /\ \A d \in Callers \ {c} : call'[d] = call[d]

\* A caller that is in no method.
LEMMA IdleRow == Idle \in CallRow /\ Idle.at = "idle" /\ Idle.gen = 0
  BY SessionAssumption DEF Idle, CallRow, Methods

\* A call that ends.
LEMMA ReturnsMoves ==
  ASSUME Typed, NEW c \in Callers, Returns(c)
  PROVE  Moved(c) /\ call'[c] = Idle /\ call'[c].at = "idle" /\ call'[c].gen = 0
<1>1. call' = [call EXCEPT ![c] = Idle] /\ call \in [Callers -> CallRow]
  BY DEF Returns, Typed
<1> QED BY <1>1, IdleRow DEF Moved

\* A call that is somewhere.
LEMMA GoesMoves ==
  ASSUME Typed, NEW c \in Callers, NEW op \in Methods,
         NEW at \in {"idle", "launch", "send", "wait", "cancel", "kill"},
         NEW g \in 0..MaxLaunches, Goes(c, op, at, g)
  PROVE  Moved(c) /\ call'[c].at = at /\ call'[c].op = op /\ call'[c].gen = g
<1> DEFINE row == [Idle EXCEPT !.at = at, !.op = op, !.gen = g]
<1>1. Idle \in CallRow
  BY IdleRow
<1>2. row \in CallRow /\ row.at = at /\ row.op = op /\ row.gen = g
  BY <1>1 DEF CallRow
<1>3. call' = [call EXCEPT ![c] = row] /\ call \in [Callers -> CallRow]
  BY DEF Goes, Typed
<1> HIDE DEF row
<1> QED BY <1>2, <1>3 DEF Moved

\* stop begins.
LEMMA StoppingMoves ==
  ASSUME Typed, NEW c \in Callers, Stopping(c)
  PROVE  Moved(c) /\ call'[c].at = "cancel" /\ call'[c].op = "stop" /\ call'[c].gen = 0
<1> DEFINE row == [Idle EXCEPT !.at = "cancel", !.op = "stop", !.left = Pending]
<1>1. Idle \in CallRow /\ Pending \in SUBSET Asks /\ "stop" \in Methods
  BY IdleRow DEF Pending, Methods
<1>2. row \in CallRow /\ row.at = "cancel" /\ row.op = "stop" /\ row.gen = 0
  <2> HIDE DEF Pending
  <2> QED BY <1>1, IdleRow DEF CallRow
<1>3. call' = [call EXCEPT ![c] = row] /\ call \in [Callers -> CallRow]
  BY DEF Stopping, Typed
<1> HIDE DEF row
<1> QED BY <1>2, <1>3 DEF Moved

-----------------------------------------------------------------------------
(* Processes and their turns.                                              *)

\* No caller of a Claude session waits for a reply.
NoReplies == client = "claude" => \A c \in Callers : call[c].at \notin {"send", "wait"}

\* The processes are as they were.
LEMMA AgentStays ==
  ASSUME SessionInv, UNCHANGED <<client, agent>>, session'.gen = session.gen,
         session.busy => session'.busy, NoReplies'
  PROVE  Processes' /\ Turns'
<1>1. Processes'
  BY DEF SessionInv, Processes, RowOK
<1>2. Turns'
  BY DEF SessionInv, Turns, TurnOK, NoReplies
<1> QED BY <1>1, <1>2

\* One process is in another state.
LEMMA RowMoves ==
  ASSUME SessionInv, NEW g \in Gens, NEW p \in ProcessRow, agent' = [agent EXCEPT ![g] = p],
         UNCHANGED client, session'.gen = session.gen, NoReplies', RowOK(p),
         g > session.gen => p.process = "none",
         g = session.gen \/ (session.busy => session'.busy),
         client = "claude" =>
           /\ p.inbox = <<>> /\ p.open <= 1
           /\ g = session.gen /\ p.process = "alive" => TurnOK(p, session'.busy)
  PROVE  agent' \in [Gens -> ProcessRow] /\ Processes' /\ Turns'
<1>1. agent \in [Gens -> ProcessRow]
  BY DEF SessionInv, Typed
<1>2. /\ agent' \in [Gens -> ProcessRow] /\ agent'[g] = p
      /\ \A h \in Gens \ {g} : agent'[h] = agent[h]
  BY <1>1
<1>3. Processes'
  BY <1>2 DEF SessionInv, Processes, RowOK
<1>4. Turns'
  <2> SUFFICES ASSUME client = "claude", NEW h \in Gens
               PROVE  /\ agent'[h].inbox = <<>> /\ agent'[h].open <= 1
                      /\ h = session.gen /\ agent'[h].process = "alive" =>
                           TurnOK(agent'[h], session'.busy)
    BY DEF Turns, NoReplies, TurnOK
  <2>1. CASE h = g
    BY <1>2, <2>1
  <2>2. CASE h # g
    BY <1>2, <2>2 DEF SessionInv, Turns, TurnOK
  <2> QED BY <2>1, <2>2
<1> QED BY <1>2, <1>3, <1>4

\* A process has ended.
LEMMA EndedRow ==
  ASSUME SessionInv, NEW g \in Gens, Alive(g), agent' = Ended(g),
         UNCHANGED client, session'.gen = session.gen,
         session.busy => session'.busy, NoReplies'
  PROVE  /\ agent' \in [Gens -> ProcessRow] /\ Processes' /\ Turns'
         /\ \A h \in Gens : agent'[h].out = agent[h].out
<1> DEFINE p == [agent[g] EXCEPT !.process = "dead", !.inbox = <<>>, !.open = 0]
<1>1. agent[g] \in ProcessRow /\ agent \in [Gens -> ProcessRow] /\ RowOK(agent[g])
  BY DEF SessionInv, Typed, Processes
<1>2. p.process = "dead" /\ p.inbox = <<>> /\ p.open = 0 /\ p.out = agent[g].out
  BY <1>1 DEF ProcessRow
<1>3. p \in ProcessRow
  <2>1. <<>> \in Seq(Letter) /\ 0 \in Nat
    OBVIOUS
  <2> QED BY <1>1, <2>1 DEF ProcessRow
<1>4. agent' = [agent EXCEPT ![g] = p]
  <2>1. agent' = [agent EXCEPT ![g] = [[[agent[g] EXCEPT !.process = "dead"] EXCEPT !.inbox = <<>>] EXCEPT !.open = 0]]
    BY <1>1 DEF Ended
  <2>2. p = [[[agent[g] EXCEPT !.process = "dead"] EXCEPT !.inbox = <<>>] EXCEPT !.open = 0]
    OBVIOUS
  <2> QED BY <2>1, <2>2
<1>5. RowOK(p) /\ ~(g > session.gen)
  <2>1. ~(g > session.gen)
    BY DEF SessionInv, Processes, Alive
  <2> HIDE DEF p
  <2> QED BY <1>1, <1>2, <2>1 DEF RowOK
<1> HIDE DEF p
<1>6. p.open <= 1 /\ p.process # "alive"
  BY <1>2
<1>7. agent' \in [Gens -> ProcessRow] /\ Processes' /\ Turns'
  BY <1>2, <1>3, <1>4, <1>5, <1>6, RowMoves
<1> QED BY <1>1, <1>2, <1>4, <1>7

-----------------------------------------------------------------------------
(* Requests in the pipes.                                                  *)

ToldOn   == \A a \in Asks : told[a] # "unasked" => told'[a] # "unasked"
ThreadOn == \A a \in Asks : thread[a] = "none" => thread'[a] = "none"

\* No request is written, and none of those in the pipes is begun.
LEMMA AskedStays ==
  ASSUME SessionInv, ToldOn, ThreadOn,
         \A g \in Gens : AsksIn(agent'[g].out) \subseteq AsksIn(agent[g].out)
  PROVE  Asked'
<1> SUFFICES ASSUME NEW g \in Gens, NEW i \in AsksIn(agent'[g].out)
             PROVE  i \in Ids /\ thread'[<<g, i>>] = "none" /\ told'[<<g, i>>] # "unasked"
  BY DEF Asked
<1>1. i \in Ids /\ thread[<<g, i>>] = "none" /\ told[<<g, i>>] # "unasked"
  BY DEF SessionInv, Asked
<1>2. <<g, i>> \in Asks
  BY <1>1, SessionAssumption
<1> QED BY <1>1, <1>2 DEF ToldOn, ThreadOn

\* One pipe is written or read.
LEMMA AskedMoves ==
  ASSUME SessionInv, ToldOn, NEW g \in Gens,
         \A h \in Gens \ {g} : agent'[h].out = agent[h].out,
         \A a \in Asks : a[1] # g /\ thread[a] = "none" => thread'[a] = "none",
         \A i \in AsksIn(agent'[g].out) :
           i \in Ids /\ thread'[<<g, i>>] = "none" /\ told'[<<g, i>>] # "unasked"
  PROVE  Asked'
<1> SUFFICES ASSUME NEW h \in Gens \ {g}, NEW i \in AsksIn(agent'[h].out)
             PROVE  i \in Ids /\ thread'[<<h, i>>] = "none" /\ told'[<<h, i>>] # "unasked"
  BY DEF Asked
<1>1. i \in Ids /\ thread[<<h, i>>] = "none" /\ told[<<h, i>>] # "unasked"
  BY DEF SessionInv, Asked
<1>2. <<h, i>> \in Asks /\ <<h, i>>[1] = h
  BY <1>1, SessionAssumption
<1> QED BY <1>1, <1>2 DEF ToldOn

-----------------------------------------------------------------------------
(* Steps that change neither the broker nor what the processes were told.  *)

\* The broker and the processes know what they knew.
LEMMA BrokerStays ==
  ASSUME SessionInv, UNCHANGED <<client, brokerVars, told>>
  PROVE  /\ Limited' /\ \A a \in Asks : ThreadOK(a)'
         /\ BrokerTypeOK' /\ <<client, mode>>' \in Kinds
         /\ told' \in [Asks -> {"unasked", "asked", "withdrawn"} \cup Decisions]
         /\ ToldOn /\ ThreadOn
<1>1. Limited'
  BY DEF SessionInv, Limited, Pending, AtWork, brokerVars
<1>2. \A a \in Asks : ThreadOK(a)'
  BY DEF SessionInv, ThreadOK, Granted, brokerVars
<1>3. BrokerTypeOK' /\ <<client, mode>>' \in Kinds
  BY DEF SessionInv, Typed, BrokerTypeOK, brokerVars
<1>4. told' \in [Asks -> {"unasked", "asked", "withdrawn"} \cup Decisions]
  BY DEF SessionInv, Typed
<1>5. ToldOn /\ ThreadOn
  BY DEF ToldOn, ThreadOn, brokerVars
<1> QED BY <1>1, <1>2, <1>3, <1>4, <1>5

\* A step of the session's row, of its callers and of its processes, which
\* ask for nothing.
LEMMA QuietStep ==
  ASSUME SessionInv, UNCHANGED <<client, brokerVars, told, control>>,
         session' \in SessionRow, agent' \in [Gens -> ProcessRow],
         call' \in [Callers -> CallRow], Processes', Turns',
         \A g \in Gens : AsksIn(agent'[g].out) \subseteq AsksIn(agent[g].out)
  PROVE  SessionInv'
<1>1. /\ Limited' /\ \A a \in Asks : ThreadOK(a)'
      /\ BrokerTypeOK' /\ <<client, mode>>' \in Kinds
      /\ told' \in [Asks -> {"unasked", "asked", "withdrawn"} \cup Decisions]
      /\ ToldOn /\ ThreadOn
  BY BrokerStays
<1>2. Asked'
  BY <1>1, AskedStays
<1>3. control' \in [Ids -> 0..MaxLaunches]
  BY DEF SessionInv, Typed
<1>4. Typed'
  BY <1>1, <1>3 DEF Typed
<1> QED BY <1>1, <1>2, <1>4 DEF SessionInv

\* A caller moves, and does not begin to wait for a Claude process.
LEMMA NoRepliesMoved ==
  ASSUME SessionInv, UNCHANGED client, NEW c \in Callers, Moved(c),
         client = "claude" => call'[c].at \notin {"send", "wait"}
  PROVE  NoReplies'
  BY DEF SessionInv, Turns, Moved, NoReplies

\* A step of the session's row and of one caller.
LEMMA CallerStep ==
  ASSUME SessionInv, UNCHANGED <<client, brokerVars, agent, told, control>>,
         session' \in SessionRow, session'.gen = session.gen, session.busy => session'.busy,
         NEW c \in Callers, Moved(c),
         client = "claude" => call'[c].at \notin {"send", "wait"}
  PROVE  SessionInv'
<1>1. NoReplies'
  BY NoRepliesMoved
<1>2. Processes' /\ Turns'
  BY <1>1, AgentStays
<1>3. agent' \in [Gens -> ProcessRow] /\ call' \in [Callers -> CallRow]
  BY DEF SessionInv, Typed, Moved
<1>4. \A g \in Gens : AsksIn(agent'[g].out) \subseteq AsksIn(agent[g].out)
  OBVIOUS
<1> QED BY <1>2, <1>3, <1>4, QuietStep

\* The session's row in another state, or with one more turn.
LEMMA RowFields ==
  ASSUME Typed
  PROVE  /\ session \in SessionRow /\ session.gen \in 0..MaxLaunches /\ 0 \in 0..MaxLaunches
         /\ \A s \in {"created", "running", "stopping"} \cup Terminal :
              LET row == [session EXCEPT !.state = s]
              IN  row \in SessionRow /\ row.gen = session.gen /\ row.busy = session.busy
         /\ session.turns < MaxTurns =>
              LET row == [session EXCEPT !.busy = TRUE, !.turns = @ + 1]
              IN  row \in SessionRow /\ row.gen = session.gen /\ row.busy
<1>1. session \in SessionRow
  BY DEF Typed
<1>2. session.gen \in 0..MaxLaunches /\ 0 \in 0..MaxLaunches
  BY <1>1, SessionAssumption DEF SessionRow
<1>3. \A s \in {"created", "running", "stopping"} \cup Terminal :
        LET row == [session EXCEPT !.state = s]
        IN  row \in SessionRow /\ row.gen = session.gen /\ row.busy = session.busy
  BY <1>1 DEF SessionRow
<1>4. ASSUME session.turns < MaxTurns
      PROVE  LET row == [session EXCEPT !.busy = TRUE, !.turns = @ + 1]
             IN  row \in SessionRow /\ row.gen = session.gen /\ row.busy
  <2>1. session.turns + 1 \in 0..MaxTurns
    BY <1>1, <1>4, SessionAssumption DEF SessionRow
  <2> QED BY <1>1, <2>1 DEF SessionRow
<1> QED BY <1>1, <1>2, <1>3, <1>4

\* The methods that do not touch a process begin, and stop goes on.
LEMMA CommandSteps ==
  ASSUME SessionInv, NEW c \in Callers,
         \/ Start(c) \/ Resume(c) \/ Stop(c) \/ ClaudeInterrupts(c) \/ Forks(c)
         \/ CodexInterrupts(c) \/ CodexSubmits(c) \/ LaunchFails(c)
  PROVE  SessionInv'
<1> USE DEF SessionInv
<1>1. Typed /\ session \in SessionRow /\ session.gen \in 0..MaxLaunches /\ 0 \in 0..MaxLaunches
  BY RowFields
<1>2. {"start", "resume", "fork", "submit", "interrupt", "stop"} \subseteq Methods
  BY DEF Methods
<1>3. CASE Start(c)
  <2>1. Moved(c) /\ call'[c].at = "launch"
    BY <1>1, <1>2, <1>3, GoesMoves DEF Start
  <2> QED BY <1>1, <1>3, <2>1, CallerStep DEF Start
<1>4. CASE Resume(c)
  <2>1. Moved(c) /\ call'[c].at = "launch"
    BY <1>1, <1>2, <1>4, GoesMoves DEF Resume
  <2> QED BY <1>1, <1>4, <2>1, CallerStep DEF Resume
<1>5. CASE Stop(c)
  <2>1. Moved(c) /\ call'[c].at = "cancel"
    BY <1>1, <1>5, StoppingMoves DEF Stop
  <2> QED BY <1>1, <1>5, <2>1, CallerStep DEF Stop
<1>6. CASE ClaudeInterrupts(c)
  <2>1. Moved(c) /\ call'[c].at = "kill"
    BY <1>1, <1>2, <1>6, GoesMoves DEF ClaudeInterrupts
  <2>2. session' \in SessionRow /\ session'.gen = session.gen /\ session'.busy = session.busy
    BY <1>1, <1>6, RowFields DEF ClaudeInterrupts
  <2> QED BY <1>6, <2>1, <2>2, CallerStep DEF ClaudeInterrupts
<1>7. CASE Forks(c)
  <2>1. Moved(c) /\ call'[c].at = "kill"
    BY <1>1, <1>2, <1>7, GoesMoves DEF Forks
  <2>2. session' \in SessionRow /\ session'.gen = session.gen /\ session'.busy = session.busy
    BY <1>1, <1>7, RowFields DEF Forks
  <2> QED BY <1>7, <2>1, <2>2, CallerStep DEF Forks
<1>8. CASE CodexInterrupts(c)
  <2>1. Moved(c)
    BY <1>1, <1>2, <1>8, GoesMoves DEF CodexInterrupts
  <2>2. client # "claude"
    BY <1>8 DEF CodexInterrupts
  <2> QED BY <1>1, <1>8, <2>1, <2>2, CallerStep DEF CodexInterrupts
<1>9. CASE CodexSubmits(c)
  <2>1. Moved(c)
    BY <1>1, <1>2, <1>9, GoesMoves DEF CodexSubmits
  <2>2. client # "claude"
    BY <1>9 DEF CodexSubmits
  <2>3. session' \in SessionRow /\ session'.gen = session.gen /\ session'.busy
    BY <1>1, <1>9, RowFields DEF CodexSubmits
  <2> QED BY <1>9, <2>1, <2>2, <2>3, CallerStep DEF CodexSubmits
<1>10. CASE LaunchFails(c)
  <2>1. Moved(c) /\ call'[c].at \in {"cancel", "idle"}
    BY <1>1, <1>10, StoppingMoves, ReturnsMoves DEF LaunchFails
  <2> QED BY <1>1, <1>10, <2>1, CallerStep DEF LaunchFails
<1> QED BY <1>3, <1>4, <1>5, <1>6, <1>7, <1>8, <1>9, <1>10

\* stop marks the session, unless there is nothing to stop.
LEMMA MarksStep ==
  ASSUME SessionInv, NEW c \in Callers, Marks(c)
  PROVE  SessionInv'
<1>1. Typed /\ session \in SessionRow /\ session.gen \in 0..MaxLaunches
  BY RowFields DEF SessionInv
<1>2. "stop" \in Methods
  BY DEF Methods
<1>3. CASE session.state \in Terminal \/ session.gen = 0
  <2>1. Moved(c) /\ call'[c].at = "idle"
    BY <1>1, <1>3, ReturnsMoves DEF Marks
  <2>2. session' \in SessionRow /\ session'.gen = session.gen /\ session'.busy = session.busy
    BY <1>1, <1>3, RowFields DEF Marks, Terminal
  <2> QED BY <2>1, <2>2, CallerStep DEF Marks
<1>4. CASE ~(session.state \in Terminal \/ session.gen = 0)
  <2>1. Moved(c) /\ call'[c].at = "kill"
    BY <1>1, <1>2, <1>4, GoesMoves DEF Marks
  <2>2. session' \in SessionRow /\ session'.gen = session.gen /\ session'.busy = session.busy
    BY <1>1, <1>4, RowFields DEF Marks
  <2> QED BY <2>1, <2>2, CallerStep DEF Marks
<1> QED BY <1>3, <1>4

\* The process is ended, and a fork goes on to launch another one.
LEMMA KillsStep ==
  ASSUME SessionInv, NEW c \in Callers, Kills(c)
  PROVE  SessionInv'
<1>1. /\ Typed /\ session \in SessionRow /\ 0 \in 0..MaxLaunches /\ "fork" \in Methods
      /\ call[c].gen \in 0..MaxLaunches
  BY RowFields DEF SessionInv, Methods, Typed, CallRow
<1>2. Moved(c) /\ call'[c].at \in {"launch", "idle"}
  BY <1>1, GoesMoves, ReturnsMoves DEF Kills
<1>3. UNCHANGED <<client, brokerVars, session, told, control>>
  BY DEF Kills
<1>4. CASE Alive(call[c].gen)
  <2>1. PICK g \in Gens : g = call[c].gen /\ Alive(g)
    BY <1>4 DEF Alive
  <2>2. agent' = Ended(g)
    BY <1>4, <2>1 DEF Kills
  <2>3. NoReplies'
    BY <1>2, <1>3, NoRepliesMoved
  <2>4. /\ agent' \in [Gens -> ProcessRow] /\ Processes' /\ Turns'
        /\ \A h \in Gens : agent'[h].out = agent[h].out
    BY <1>3, <2>1, <2>2, <2>3, EndedRow
  <2>5. call' \in [Callers -> CallRow] /\ session' \in SessionRow
    BY <1>1, <1>2, <1>3 DEF Moved
  <2> QED BY <1>3, <2>4, <2>5, QuietStep
<1>5. CASE ~Alive(call[c].gen)
  <2>1. UNCHANGED agent
    BY <1>5 DEF Kills
  <2> QED BY <1>1, <1>2, <1>3, <2>1, CallerStep
<1> QED BY <1>4, <1>5

\* The process exits.
LEMMA DiesStep ==
  ASSUME SessionInv, NEW g \in Gens, Dies(g)
  PROVE  SessionInv'
<1>1. UNCHANGED <<client, brokerVars, session, told, control, call>> /\ Alive(g) /\ agent' = Ended(g)
  BY DEF Dies
<1>2. NoReplies'
  BY <1>1 DEF SessionInv, Turns, NoReplies
<1>3. /\ agent' \in [Gens -> ProcessRow] /\ Processes' /\ Turns'
      /\ \A h \in Gens : agent'[h].out = agent[h].out
  BY <1>1, <1>2, EndedRow
<1>4. call' \in [Callers -> CallRow] /\ session' \in SessionRow
  BY <1>1 DEF SessionInv, Typed
<1> QED BY <1>1, <1>3, <1>4, QuietStep

\* Somebody has seen the process end.
LEMMA WatchStep ==
  ASSUME SessionInv, NEW g \in Gens, Watch(g)
  PROVE  SessionInv'
<1>1. UNCHANGED <<client, brokerVars, told, control>> /\ agent[g].process = "dead"
  BY DEF Watch
<1>2. agent \in [Gens -> ProcessRow] /\ session \in SessionRow /\ call \in [Callers -> CallRow]
  BY DEF SessionInv, Typed
<1>3. PICK p : p = [agent[g] EXCEPT !.process = "reaped"]
  OBVIOUS
<1>4. agent' = [agent EXCEPT ![g] = p]
  BY <1>3 DEF Watch
<1>5. /\ p \in ProcessRow /\ p.process = "reaped" /\ p.out = agent[g].out /\ p.inbox = agent[g].inbox
      /\ p.open = agent[g].open
  BY <1>2, <1>3 DEF ProcessRow
<1>6. RowOK(p) /\ ~(g > session.gen)
  BY <1>1, <1>5 DEF SessionInv, Processes, RowOK
<1>7. /\ session' \in SessionRow /\ session'.gen = session.gen
      /\ g = session.gen \/ session'.busy = session.busy
      /\ call' \in [Callers -> CallRow]
      /\ \A c \in Callers : call'[c].at = call[c].at
  <2>1. CASE g = session.gen
    <3>1. session' = [session EXCEPT !.state = IF @ = "stopping" THEN "stopped" ELSE "ended", !.busy = FALSE]
      BY <2>1 DEF Watch
    <3>2. session' \in SessionRow /\ session'.gen = session.gen
      BY <1>2, <3>1 DEF SessionRow, Terminal
    <3>3. \A c \in Callers : [call[c] EXCEPT !.reply = "error"] \in CallRow
                             /\ [call[c] EXCEPT !.reply = "error"].at = call[c].at
      BY <1>2 DEF CallRow
    <3>4. call' = [c \in Callers |-> IF call[c].at = "wait" THEN [call[c] EXCEPT !.reply = "error"] ELSE call[c]]
      BY <2>1 DEF Watch
    <3>5. call' \in [Callers -> CallRow] /\ \A c \in Callers : call'[c].at = call[c].at
      BY <1>2, <3>3, <3>4
    <3> QED BY <2>1, <3>2, <3>5
  <2>2. CASE g # session.gen
    BY <1>2, <2>2 DEF Watch
  <2> QED BY <2>1, <2>2
<1>8. NoReplies'
  BY <1>1, <1>7 DEF SessionInv, Turns, NoReplies
<1>9. client = "claude" => p.inbox = <<>> /\ p.open <= 1
  BY <1>5 DEF SessionInv, Turns
<1>10. agent' \in [Gens -> ProcessRow] /\ Processes' /\ Turns'
  BY <1>1, <1>4, <1>5, <1>6, <1>7, <1>8, <1>9, RowMoves
<1>11. \A h \in Gens : agent'[h].out = agent[h].out
  BY <1>2, <1>4, <1>5
<1> QED BY <1>1, <1>7, <1>10, <1>11, QuietStep

\* A turn is written to a Claude process that has none.
LEMMA ClaudeSubmitsStep ==
  ASSUME SessionInv, NEW c \in Callers, ClaudeSubmits(c)
  PROVE  SessionInv'
<1>1. Typed /\ session \in SessionRow /\ agent \in [Gens -> ProcessRow]
  BY DEF SessionInv, Typed
<1>2. /\ UNCHANGED <<client, brokerVars, told, control, call>>
      /\ client = "claude" /\ ~session.busy /\ session.turns < MaxTurns /\ Alive(session.gen)
  BY DEF ClaudeSubmits
<1>3. PICK g \in Gens : g = session.gen
  BY <1>2 DEF Alive
<1>4. PICK p : p = [agent[g] EXCEPT !.open = @ + 1]
  OBVIOUS
<1>5. agent' = [agent EXCEPT ![g] = p]
  BY <1>1, <1>3, <1>4 DEF ClaudeSubmits
<1>6. /\ p \in ProcessRow /\ p.process = agent[g].process /\ p.out = agent[g].out
      /\ p.inbox = agent[g].inbox /\ p.open = agent[g].open + 1
  <2>1. agent[g] \in ProcessRow /\ agent[g].open + 1 \in Nat
    BY <1>1 DEF ProcessRow
  <2> QED BY <1>4, <2>1 DEF ProcessRow
<1>7. session' \in SessionRow /\ session'.gen = session.gen /\ session'.busy
  BY <1>1, <1>2, RowFields DEF ClaudeSubmits
<1>8. agent[g].process = "alive" /\ agent[g].open = 0 /\ Dones(agent[g].out) = {} /\ agent[g].inbox = <<>>
  <2>1. agent[g].process = "alive" /\ agent[g].open <= 1 /\ agent[g].open \in Nat /\ agent[g].inbox = <<>>
    BY <1>1, <1>2, <1>3 DEF Alive, SessionInv, Turns, ProcessRow
  <2>2. TurnOK(agent[g], session.busy)
    BY <1>2, <1>3, <2>1 DEF SessionInv, Turns
  <2> QED BY <1>2, <2>1, <2>2 DEF TurnOK
<1>9. RowOK(p) /\ ~(g > session.gen)
  BY <1>1, <1>3, <1>6, <1>8 DEF SessionInv, Processes, RowOK, SessionRow
<1>10. p.inbox = <<>> /\ p.open <= 1 /\ TurnOK(p, session'.busy)
  BY <1>6, <1>7, <1>8 DEF TurnOK, OneDone
<1>11. NoReplies'
  BY <1>2 DEF SessionInv, Turns, NoReplies
<1>12. agent' \in [Gens -> ProcessRow] /\ Processes' /\ Turns'
  BY <1>2, <1>3, <1>5, <1>6, <1>7, <1>9, <1>10, <1>11, RowMoves
<1>13. \A h \in Gens : agent'[h].out = agent[h].out
  BY <1>1, <1>5, <1>6
<1>14. call' \in [Callers -> CallRow]
  BY <1>1, <1>2 DEF Typed
<1> QED BY <1>2, <1>7, <1>12, <1>13, <1>14, QuietStep

\* A process tells that its turn is over.
LEMMA FinishesStep ==
  ASSUME SessionInv, NEW g \in Gens, Finishes(g)
  PROVE  SessionInv'
<1>1. Typed /\ session \in SessionRow /\ agent \in [Gens -> ProcessRow]
  BY DEF SessionInv, Typed
<1>2. /\ UNCHANGED <<client, brokerVars, session, told, control, call>>
      /\ agent[g].process = "alive" /\ agent[g].open > 0
  BY DEF Finishes, Alive
<1>3. PICK m : m = Message("done", 0)
  OBVIOUS
<1>4. m \in Letter /\ m.what = "done"
  BY <1>3 DEF Message, Letter
<1>5. PICK p : p = [[agent[g] EXCEPT !.out = Append(@, m)] EXCEPT !.open = @ - 1]
  OBVIOUS
<1>6. agent' = [agent EXCEPT ![g] = p]
  BY <1>1, <1>3, <1>5 DEF Finishes
<1>7. /\ agent[g].out \in Seq(Letter) /\ agent[g].open \in Nat
      /\ RowOK(agent[g]) /\ ~(g > session.gen)
  BY <1>1, <1>2 DEF SessionInv, Processes, ProcessRow
<1>8. /\ Append(agent[g].out, m) \in Seq(Letter)
      /\ AsksIn(Append(agent[g].out, m)) \subseteq AsksIn(agent[g].out)
      /\ OnceEach(agent[g].out) => OnceEach(Append(agent[g].out, m))
      /\ Dones(agent[g].out) = {} => OneDone(Append(agent[g].out, m))
  BY <1>4, <1>7, AppendPipe
<1>9. /\ p \in ProcessRow /\ p.process = agent[g].process /\ p.out = Append(agent[g].out, m)
      /\ p.inbox = agent[g].inbox /\ p.open = agent[g].open - 1
  <2>1. agent[g].open - 1 \in Nat
    BY <1>2, <1>7
  <2> QED BY <1>1, <1>5, <1>8, <2>1 DEF ProcessRow
<1>10. RowOK(p)
  BY <1>2, <1>7, <1>8, <1>9 DEF RowOK
<1>11. ASSUME client = "claude"
       PROVE  /\ p.inbox = <<>> /\ p.open <= 1
              /\ g = session.gen /\ p.process = "alive" => TurnOK(p, session'.busy)
  <2>1. agent[g].open = 1 /\ agent[g].inbox = <<>>
    BY <1>2, <1>7, <1>11 DEF SessionInv, Turns
  <2>2. CASE g = session.gen
    <3>1. TurnOK(agent[g], session.busy)
      BY <1>2, <1>11, <2>2 DEF SessionInv, Turns
    <3>2. session.busy /\ Dones(agent[g].out) = {}
      BY <2>1, <3>1 DEF TurnOK
    <3>3. p.open = 0 /\ OneDone(p.out) /\ session'.busy
      BY <1>2, <1>8, <1>9, <2>1, <3>2
    <3> QED BY <1>9, <2>1, <3>3 DEF TurnOK
  <2> QED BY <1>9, <2>1, <2>2
<1>12. NoReplies'
  BY <1>2 DEF SessionInv, Turns, NoReplies
<1>13. agent' \in [Gens -> ProcessRow] /\ Processes' /\ Turns'
  BY <1>2, <1>6, <1>7, <1>9, <1>10, <1>11, <1>12, RowMoves
<1>14. \A h \in Gens : AsksIn(agent'[h].out) \subseteq AsksIn(agent[h].out)
  BY <1>1, <1>6, <1>8, <1>9
<1>15. call' \in [Callers -> CallRow] /\ session' \in SessionRow
  BY <1>1, <1>2 DEF Typed
<1> QED BY <1>2, <1>13, <1>14, <1>15, QuietStep

\* The end of a turn is read.
LEMMA ReadsDoneStep ==
  ASSUME SessionInv, NEW g \in Gens, ReadsDone(g)
  PROVE  SessionInv'
<1>1. Typed /\ session \in SessionRow /\ agent \in [Gens -> ProcessRow]
  BY DEF SessionInv, Typed
<1>2. /\ UNCHANGED <<client, brokerVars, told, control, call>>
      /\ agent[g].out # <<>> /\ Head(agent[g].out).what = "done"
  BY DEF ReadsDone, ReadsOne
<1>3. PICK p : p = [agent[g] EXCEPT !.out = Tail(@)]
  OBVIOUS
<1>4. agent' = [agent EXCEPT ![g] = p]
  BY <1>1, <1>3 DEF ReadsDone, ReadsOne
<1>5. agent[g].out \in Seq(Letter) /\ RowOK(agent[g]) /\ (g > session.gen => agent[g].process = "none")
  BY <1>1 DEF SessionInv, Processes, ProcessRow
<1>6. /\ Tail(agent[g].out) \in Seq(Letter)
      /\ AsksIn(Tail(agent[g].out)) \subseteq AsksIn(agent[g].out)
      /\ OnceEach(agent[g].out) => OnceEach(Tail(agent[g].out))
      /\ OneDone(agent[g].out) => OneDone(Tail(agent[g].out))
      /\ OneDone(agent[g].out) => Dones(Tail(agent[g].out)) = {} /\ Dones(agent[g].out) # {}
  BY <1>2, <1>5, TailFacts, TailPipe
<1>7. /\ p \in ProcessRow /\ p.process = agent[g].process /\ p.out = Tail(agent[g].out)
      /\ p.inbox = agent[g].inbox /\ p.open = agent[g].open
  BY <1>1, <1>3, <1>6 DEF ProcessRow
<1>8. RowOK(p)
  BY <1>2, <1>5, <1>6, <1>7 DEF RowOK
<1>9. /\ session' \in SessionRow /\ session'.gen = session.gen
      /\ g = session.gen \/ session'.busy = session.busy
  BY <1>1 DEF ReadsDone, SessionRow
<1>10. ASSUME client = "claude"
       PROVE  /\ p.inbox = <<>> /\ p.open <= 1
              /\ g = session.gen /\ p.process = "alive" => TurnOK(p, session'.busy)
  <2>1. agent[g].open <= 1 /\ agent[g].inbox = <<>>
    BY <1>10 DEF SessionInv, Turns
  <2>2. CASE g = session.gen /\ p.process = "alive"
    <3>1. TurnOK(agent[g], session.busy)
      BY <1>7, <1>10, <2>2 DEF SessionInv, Turns
    <3>2. Dones(p.out) = {} /\ OneDone(p.out) /\ agent[g].open # 1
      BY <1>6, <1>7, <3>1 DEF TurnOK
    <3> QED BY <1>7, <2>1, <3>2 DEF TurnOK
  <2> QED BY <1>7, <2>1, <2>2
<1>11. NoReplies'
  BY <1>2 DEF SessionInv, Turns, NoReplies
<1>12. agent' \in [Gens -> ProcessRow] /\ Processes' /\ Turns'
  BY <1>2, <1>4, <1>5, <1>7, <1>8, <1>9, <1>10, <1>11, RowMoves
<1>13. \A h \in Gens : AsksIn(agent'[h].out) \subseteq AsksIn(agent[h].out)
  BY <1>1, <1>4, <1>6, <1>7
<1>14. call' \in [Callers -> CallRow]
  BY <1>1, <1>2 DEF Typed
<1> QED BY <1>2, <1>9, <1>12, <1>13, <1>14, QuietStep

\* An app-server takes a request and replies, if somebody still waits for it.
LEMMA ServesStep ==
  ASSUME SessionInv, NEW g \in Gens, Serves(g)
  PROVE  SessionInv'
<1>1. Typed /\ session \in SessionRow /\ agent \in [Gens -> ProcessRow]
  BY DEF SessionInv, Typed
<1>2. /\ UNCHANGED <<client, brokerVars, session, told, control, call>>
      /\ agent[g].process = "alive" /\ agent[g].inbox # <<>>
  BY DEF Serves, Alive
<1>3. client # "claude"
  BY <1>2 DEF SessionInv, Turns
<1>4. PICK request : request = Head(agent[g].inbox)
  OBVIOUS
<1>5. /\ agent[g].inbox \in Seq(Letter) /\ agent[g].out \in Seq(Letter) /\ agent[g].open \in Nat
      /\ RowOK(agent[g]) /\ ~(g > session.gen)
  BY <1>1, <1>2 DEF SessionInv, Processes, ProcessRow
<1>6. request \in Letter /\ Tail(agent[g].inbox) \in Seq(Letter)
  BY <1>2, <1>4, <1>5, TailFacts
<1>7. PICK out, open :
        /\ \/ out = agent[g].out
           \/ \E what \in {"result", "error"} : out = Append(agent[g].out, Message(what, request.of))
        /\ open \in {agent[g].open, agent[g].open + 1}
        /\ agent' = [agent EXCEPT ![g].inbox = Tail(@), ![g].out = out, ![g].open = open]
  <2>1. CASE agent' = [agent EXCEPT
                ![g].inbox = Tail(@),
                ![g].out   = IF request.of = 0 THEN @ ELSE Append(@, Message("result", request.of)),
                ![g].open  = IF request.what = "submit" THEN @ + 1 ELSE @]
    <3> DEFINE out == IF request.of = 0 THEN agent[g].out ELSE Append(agent[g].out, Message("result", request.of))
               open == IF request.what = "submit" THEN agent[g].open + 1 ELSE agent[g].open
    <3>1. agent' = [agent EXCEPT ![g].inbox = Tail(@), ![g].out = out, ![g].open = open]
      BY <1>1, <2>1
    <3>2. \/ out = agent[g].out
          \/ out = Append(agent[g].out, Message("result", request.of))
      OBVIOUS
    <3>3. open \in {agent[g].open, agent[g].open + 1}
      OBVIOUS
    <3> HIDE DEF out, open
    <3> QED BY <3>1, <3>2, <3>3
  <2>2. CASE agent' = [agent EXCEPT
                ![g].inbox = Tail(@),
                ![g].out   = IF request.of = 0 THEN @ ELSE Append(@, Message("error", request.of))]
    <3> DEFINE out == IF request.of = 0 THEN agent[g].out ELSE Append(agent[g].out, Message("error", request.of))
    <3>1. agent' = [agent EXCEPT ![g].inbox = Tail(@), ![g].out = out, ![g].open = agent[g].open]
      BY <1>1, <1>5, <2>2 DEF ProcessRow
    <3>2. \/ out = agent[g].out
          \/ out = Append(agent[g].out, Message("error", request.of))
      OBVIOUS
    <3> HIDE DEF out
    <3> QED BY <3>1, <3>2
  <2> QED BY <1>4, <2>1, <2>2 DEF Serves
<1>8. /\ out \in Seq(Letter)
      /\ AsksIn(out) \subseteq AsksIn(agent[g].out)
      /\ OnceEach(agent[g].out) => OnceEach(out)
  <2>1. CASE out = agent[g].out
    BY <1>5, <2>1
  <2>2. ASSUME NEW what \in {"result", "error"}, out = Append(agent[g].out, Message(what, request.of))
        PROVE  /\ out \in Seq(Letter)
               /\ AsksIn(out) \subseteq AsksIn(agent[g].out)
               /\ OnceEach(agent[g].out) => OnceEach(out)
    <3>1. PICK m : m = Message(what, request.of)
      OBVIOUS
    <3>2. m \in Letter /\ m.what # "ask"
      BY <1>6, <3>1 DEF Message, Letter
    <3> QED BY <1>5, <2>2, <3>1, <3>2, AppendPipe
  <2> QED BY <1>7, <2>1, <2>2
<1>9. PICK p : p = [[[agent[g] EXCEPT !.inbox = Tail(@)] EXCEPT !.out = out] EXCEPT !.open = open]
  OBVIOUS
<1>10. agent' = [agent EXCEPT ![g] = p]
  BY <1>1, <1>7, <1>9
<1>11. p \in ProcessRow /\ p.process = "alive" /\ p.out = out
  <2>1. open \in Nat
    BY <1>5, <1>7
  <2> QED BY <1>1, <1>2, <1>6, <1>8, <1>9, <2>1 DEF ProcessRow
<1>12. RowOK(p)
  BY <1>5, <1>8, <1>11 DEF RowOK
<1>13. NoReplies'
  BY <1>2, <1>3 DEF NoReplies
<1>14. agent' \in [Gens -> ProcessRow] /\ Processes' /\ Turns'
  BY <1>2, <1>3, <1>5, <1>10, <1>11, <1>12, <1>13, RowMoves
<1>15. \A h \in Gens : AsksIn(agent'[h].out) \subseteq AsksIn(agent[h].out)
  BY <1>1, <1>8, <1>10, <1>11
<1>16. call' \in [Callers -> CallRow] /\ session' \in SessionRow
  BY <1>1, <1>2 DEF Typed
<1> QED BY <1>2, <1>14, <1>15, <1>16, QuietStep

\* A caller writes its request to the app-server.
LEMMA SendsStep ==
  ASSUME SessionInv, NEW c \in Callers, Sends(c)
  PROVE  SessionInv'
<1>1. /\ Typed /\ session \in SessionRow /\ agent \in [Gens -> ProcessRow]
      /\ call \in [Callers -> CallRow]
  BY DEF SessionInv, Typed
<1>2. /\ UNCHANGED <<client, brokerVars, session, told, control>>
      /\ call[c].at = "send" /\ Alive(session.gen)
  BY DEF Sends
<1>3. client # "claude"
  BY <1>2 DEF SessionInv, Turns
<1>4. PICK g \in Gens : g = session.gen /\ agent[g].process = "alive"
  BY <1>2 DEF Alive
<1>5. PICK m : m = Message(call[c].op, c)
  OBVIOUS
<1>6. m \in Letter
  BY <1>1, <1>5 DEF Message, Letter, CallRow
<1>7. PICK p : p = [agent[g] EXCEPT !.inbox = Append(@, m)]
  OBVIOUS
<1>8. agent' = [agent EXCEPT ![g] = p]
  BY <1>1, <1>4, <1>5, <1>7 DEF Sends
<1>9. /\ p \in ProcessRow /\ p.process = "alive" /\ p.out = agent[g].out
      /\ RowOK(agent[g]) /\ ~(g > session.gen)
  <2>1. Append(agent[g].inbox, m) \in Seq(Letter)
    BY <1>1, <1>6 DEF ProcessRow
  <2>2. RowOK(agent[g]) /\ ~(g > session.gen)
    BY <1>4 DEF SessionInv, Processes
  <2> QED BY <1>1, <1>4, <1>7, <2>1, <2>2 DEF ProcessRow
<1>10. RowOK(p)
  BY <1>9 DEF RowOK
<1>11. NoReplies'
  BY <1>2, <1>3 DEF NoReplies
<1>12. agent' \in [Gens -> ProcessRow] /\ Processes' /\ Turns'
  BY <1>2, <1>3, <1>4, <1>8, <1>9, <1>10, <1>11, RowMoves
<1>13. \A h \in Gens : agent'[h].out = agent[h].out
  BY <1>1, <1>8, <1>9
<1>14. call' \in [Callers -> CallRow]
  <2>1. call' = [call EXCEPT ![c].at = "wait"]
    BY DEF Sends
  <2> QED BY <1>1, <2>1 DEF CallRow
<1> QED BY <1>1, <1>2, <1>12, <1>13, <1>14, QuietStep

\* A caller has its result.
LEMMA SucceedsStep ==
  ASSUME SessionInv, NEW c \in Callers, Succeeds(c)
  PROVE  SessionInv'
<1>1. Typed /\ session \in SessionRow
  BY DEF SessionInv, Typed
<1>2. Moved(c) /\ call'[c].at = "idle"
  BY <1>1, ReturnsMoves DEF Succeeds
<1>3. session' \in SessionRow /\ session'.gen = session.gen /\ session'.busy = session.busy
  <2>1. PICK r \in BOOLEAN, t \in BOOLEAN : session' = [session EXCEPT !.ready = r, !.turn = t]
    <3> DEFINE r == session.ready \/ call[c].op \in {"start", "resume"}
               t == session.turn \/ call[c].op = "submit"
    <3>1. session' = [session EXCEPT !.ready = r, !.turn = t]
      BY DEF Succeeds
    <3>2. r \in BOOLEAN /\ t \in BOOLEAN
      OBVIOUS
    <3> HIDE DEF r, t
    <3> QED BY <3>1, <3>2
  <2> QED BY <1>1, <2>1 DEF SessionRow
<1>4. UNCHANGED <<client, brokerVars, agent, told, control>>
  BY DEF Succeeds
<1> QED BY <1>2, <1>3, <1>4, CallerStep

\* A caller gives up.
LEMMA FailsStep ==
  ASSUME SessionInv, NEW c \in Callers, Fails(c)
  PROVE  SessionInv'
<1>1. Typed /\ session \in SessionRow /\ agent \in [Gens -> ProcessRow]
  BY DEF SessionInv, Typed
<1>2. UNCHANGED <<client, brokerVars, told, control>> /\ call[c].at \in {"send", "wait"}
  BY DEF Fails
<1>3. client # "claude"
  BY <1>2 DEF SessionInv, Turns
<1>4. Moved(c)
  BY <1>1, StoppingMoves, ReturnsMoves DEF Fails
<1>5. session' \in SessionRow /\ session'.gen = session.gen
  <2>1. PICK b \in BOOLEAN : session' = [session EXCEPT !.busy = b]
    <3> DEFINE b == session.busy /\ call[c].op # "submit"
    <3>1. session' = [session EXCEPT !.busy = b] /\ b \in BOOLEAN
      BY DEF Fails
    <3> HIDE DEF b
    <3> QED BY <3>1
  <2> QED BY <1>1, <2>1 DEF SessionRow
<1>6. \A g \in Gens :
        /\ agent'[g] \in ProcessRow /\ agent'[g].process = agent[g].process
        /\ agent'[g].open = agent[g].open /\ agent'[g].out = Unread(c, agent[g].out)
  <2>1. TAKE g \in Gens
  <2>2. PICK i, o : i = Disowned(c, agent[g].inbox) /\ o = Unread(c, agent[g].out)
    OBVIOUS
  <2>3. agent'[g] = [[agent[g] EXCEPT !.inbox = i] EXCEPT !.out = o]
    BY <1>1, <2>2 DEF Fails, ProcessRow
  <2>4. agent[g] \in ProcessRow /\ i \in Seq(Letter) /\ o \in Seq(Letter)
    <3>1. agent[g].inbox \in Seq(Letter) /\ agent[g].out \in Seq(Letter)
      BY <1>1 DEF ProcessRow
    <3> QED BY <1>1, <2>2, <3>1, DisownedPipe, UnreadPipe
  <2> QED BY <2>2, <2>3, <2>4 DEF ProcessRow
<1>7. \A g \in Gens :
        /\ AsksIn(agent'[g].out) \subseteq AsksIn(agent[g].out)
        /\ OnceEach(agent[g].out) => OnceEach(agent'[g].out)
        /\ agent[g].out = <<>> => agent'[g].out = <<>>
  BY <1>1, <1>6, UnreadPipe DEF ProcessRow
<1>8. agent' \in [Gens -> ProcessRow]
  <2>1. PICK F : F = agent' /\ F = [g \in Gens |-> F[g]]
    BY DEF Fails
  <2>2. \A g \in Gens : F[g] \in ProcessRow
    BY <1>6, <2>1
  <2> QED BY <2>1, <2>2
<1>9. Processes'
  <2> SUFFICES ASSUME NEW g \in Gens
               PROVE  RowOK(agent'[g]) /\ (g > session'.gen => agent'[g].process = "none")
    BY DEF Processes, RowOK
  <2> QED BY <1>5, <1>6, <1>7 DEF SessionInv, Processes, RowOK
<1>10. Turns'
  BY <1>2, <1>3 DEF Turns
<1>11. call' \in [Callers -> CallRow]
  BY <1>4 DEF Moved
<1> QED BY <1>2, <1>5, <1>7, <1>8, <1>9, <1>10, <1>11, QuietStep

\* The reader of an app-server gives a reply to the caller that waits for it.
LEMMA CodexReadsReplyStep ==
  ASSUME SessionInv, NEW g \in Gens, CodexReadsReply(g)
  PROVE  SessionInv'
<1>1. /\ Typed /\ session \in SessionRow /\ agent \in [Gens -> ProcessRow]
      /\ call \in [Callers -> CallRow]
  BY DEF SessionInv, Typed
<1>2. /\ UNCHANGED <<client, brokerVars, session, told, control>>
      /\ agent[g].out # <<>> /\ client = "codex"
  BY DEF CodexReadsReply, ReadsOne
<1>3. PICK p : p = [agent[g] EXCEPT !.out = Tail(@)]
  OBVIOUS
<1>4. agent' = [agent EXCEPT ![g] = p]
  BY <1>1, <1>3 DEF CodexReadsReply, ReadsOne
<1>5. agent[g].out \in Seq(Letter) /\ RowOK(agent[g]) /\ (g > session.gen => agent[g].process = "none")
  BY <1>1 DEF SessionInv, Processes, ProcessRow
<1>6. /\ Tail(agent[g].out) \in Seq(Letter)
      /\ AsksIn(Tail(agent[g].out)) \subseteq AsksIn(agent[g].out)
      /\ OnceEach(agent[g].out) => OnceEach(Tail(agent[g].out))
  BY <1>2, <1>5, TailFacts, TailPipe
<1>7. /\ p \in ProcessRow /\ p.process = agent[g].process /\ p.out = Tail(agent[g].out)
      /\ p.open = agent[g].open
  BY <1>1, <1>3, <1>6 DEF ProcessRow
<1>8. RowOK(p)
  BY <1>2, <1>5, <1>6, <1>7 DEF RowOK
<1>9. NoReplies'
  BY <1>2 DEF NoReplies
<1>10. agent' \in [Gens -> ProcessRow] /\ Processes' /\ Turns'
  BY <1>2, <1>4, <1>5, <1>7, <1>8, <1>9, RowMoves
<1>11. \A h \in Gens : AsksIn(agent'[h].out) \subseteq AsksIn(agent[h].out)
  BY <1>1, <1>4, <1>6, <1>7
<1>12. call' \in [Callers -> CallRow]
  <2>1. PICK d, what : call' = [call EXCEPT ![d].reply = what] /\ what \in {"result", "error"}
    <3>1. PICK reply : reply = Head(agent[g].out)
      OBVIOUS
    <3> QED BY <3>1 DEF CodexReadsReply
  <2>2. CASE d \in Callers
    BY <1>1, <2>1, <2>2 DEF CallRow
  <2>3. CASE d \notin Callers
    BY <1>1, <2>1, <2>3
  <2> QED BY <2>2, <2>3
<1> QED BY <1>1, <1>2, <1>10, <1>11, <1>12, QuietStep

\* The next process of a session.
LEMMA SpawnsProcess ==
  ASSUME SessionInv, NEW c \in Callers, Spawns(c)
  PROVE  /\ session.gen + 1 \in Gens /\ session'.gen = session.gen + 1
         /\ session' \in SessionRow /\ session'.state = "running"
         /\ agent' \in [Gens -> ProcessRow]
         /\ \A h \in Gens \ {session.gen + 1} : agent'[h] = agent[h]
         /\ LET p == agent'[session.gen + 1]
            IN  p.process = "alive" /\ p.out = <<>> /\ p.open = 0
         /\ agent[session.gen + 1].process = "none"
         /\ Processes'
         /\ \A h \in Gens : agent'[h].out = agent[h].out
         /\ (client = "claude" => \A d \in Callers : call'[d].at \notin {"send", "wait"}) => Turns'
<1>1. /\ Typed /\ session \in SessionRow /\ agent \in [Gens -> ProcessRow]
      /\ UNCHANGED client /\ session.gen < MaxLaunches
  BY DEF SessionInv, Typed, Spawns
<1>2. PICK g \in Gens : g = session.gen + 1
  BY <1>1, SessionAssumption DEF SessionRow, Gens
<1>3. agent[g].process = "none" /\ agent[g].out = <<>> /\ agent[g].open = 0
  <2>1. g > session.gen
    BY <1>1, <1>2 DEF SessionRow
  <2> QED BY <2>1 DEF SessionInv, Processes, RowOK
<1>4. PICK p : p = [agent[g] EXCEPT !.process = "alive"]
  OBVIOUS
<1>5. agent' = [agent EXCEPT ![g] = p]
  BY <1>1, <1>2, <1>4 DEF Spawns
<1>6. /\ p \in ProcessRow /\ p.process = "alive" /\ p.out = <<>> /\ p.open = 0
      /\ p.inbox = agent[g].inbox
  BY <1>1, <1>3, <1>4 DEF ProcessRow
<1>7. session' \in SessionRow /\ session'.gen = g /\ session'.state = "running"
      /\ (client = "claude" => ~session'.busy)
  <2>1. PICK b \in BOOLEAN : b = (session.busy /\ client = "codex")
    OBVIOUS
  <2>2. session' = [session EXCEPT !.state = "running", !.gen = g, !.busy = b]
    BY <1>2, <2>1 DEF Spawns
  <2>3. g \in 0..MaxLaunches
    BY <1>2, SessionAssumption DEF Gens
  <2> QED BY <1>1, <2>1, <2>2, <2>3 DEF SessionRow
<1>8. agent' \in [Gens -> ProcessRow] /\ agent'[g] = p /\ \A h \in Gens \ {g} : agent'[h] = agent[h]
  BY <1>1, <1>5, <1>6
<1>9. Processes'
  <2> SUFFICES ASSUME NEW h \in Gens
               PROVE  RowOK(agent'[h]) /\ (h > session'.gen => agent'[h].process = "none")
    BY DEF Processes, RowOK
  <2>1. CASE h = g
    <3>1. ~(h > session'.gen)
      BY <1>7, <2>1 DEF Gens
    <3>2. OnceEach(<<>>)
      BY DEF OnceEach
    <3> QED BY <1>6, <1>8, <2>1, <3>1, <3>2 DEF RowOK
  <2>2. CASE h # g
    <3>1. h > session'.gen => h > session.gen
      BY <1>1, <1>2, <1>7 DEF SessionRow, Gens
    <3> QED BY <1>8, <2>2, <3>1 DEF SessionInv, Processes
  <2> QED BY <2>1, <2>2
<1>10. \A h \in Gens : agent'[h].out = agent[h].out
  BY <1>3, <1>6, <1>8
<1>11. ASSUME client = "claude" => \A d \in Callers : call'[d].at \notin {"send", "wait"}
       PROVE  Turns'
  <2> SUFFICES ASSUME client = "claude", NEW h \in Gens
               PROVE  /\ agent'[h].inbox = <<>> /\ agent'[h].open <= 1
                      /\ h = session'.gen /\ agent'[h].process = "alive" =>
                           TurnOK(agent'[h], session'.busy)
    BY <1>1, <1>11 DEF Turns, TurnOK
  <2>1. CASE h = g
    <3>1. agent[g].inbox = <<>>
      BY DEF SessionInv, Turns
    <3>2. TurnOK(p, session'.busy)
      BY <1>6 DEF TurnOK, Dones, OneDone
    <3> QED BY <1>6, <1>8, <2>1, <3>1, <3>2
  <2>2. CASE h # g
    BY <1>7, <1>8, <2>2 DEF SessionInv, Turns
  <2> QED BY <2>1, <2>2
<1> QED BY <1>2, <1>3, <1>6, <1>7, <1>8, <1>9, <1>10, <1>11

\* A process is launched.
LEMMA LaunchesStep ==
  ASSUME SessionInv, NEW c \in Callers, ClaudeLaunches(c) \/ CodexLaunches(c)
  PROVE  SessionInv'
<1>1. Typed /\ Spawns(c) /\ UNCHANGED <<client, brokerVars, told, control>> /\ call[c] \in CallRow
  BY DEF SessionInv, Typed, ClaudeLaunches, CodexLaunches, Spawns
<1>2. Moved(c) /\ (client = "claude" => call'[c].at = "idle")
  <2>1. CASE ClaudeLaunches(c)
    BY <1>1, <2>1, ReturnsMoves DEF ClaudeLaunches
  <2>2. CASE CodexLaunches(c)
    <3>1. call[c].op \in Methods /\ 0 \in 0..MaxLaunches
      BY <1>1, RowFields DEF CallRow
    <3> QED BY <1>1, <2>2, <3>1, GoesMoves DEF CodexLaunches
  <2> QED BY <2>1, <2>2
<1>3. client = "claude" => \A d \in Callers : call'[d].at \notin {"send", "wait"}
  BY <1>2 DEF SessionInv, Turns, Moved
<1>4. /\ session' \in SessionRow /\ agent' \in [Gens -> ProcessRow] /\ Processes' /\ Turns'
      /\ \A h \in Gens : agent'[h].out = agent[h].out
  BY <1>1, <1>3, SpawnsProcess
<1>5. call' \in [Callers -> CallRow]
  BY <1>2 DEF Moved
<1> QED BY <1>1, <1>4, <1>5, QuietStep

-----------------------------------------------------------------------------
(* Steps that change what the broker or a process knows.                   *)

\* An ask has a generation and a number.
LEMMA AskParts ==
  /\ \A a \in Asks : a = <<a[1], a[2]>> /\ a[1] \in Gens /\ a[2] \in Ids
  /\ \A g \in Gens, i \in Ids : <<g, i>> \in Asks
  BY SessionAssumption

\* The session's row and its callers are as they were, and so is the client.
SameCalls == UNCHANGED <<client, session, call>>

\* The callers and the session's row keep their types.
LEMMA CallsStay ==
  ASSUME SessionInv, SameCalls
  PROVE  session' \in SessionRow /\ call' \in [Callers -> CallRow] /\ NoReplies'
  BY DEF SessionInv, Typed, SameCalls, NoReplies, Turns

\* A process writes a letter that is not the end of a turn.
LEMMA WritesRow ==
  ASSUME SessionInv, NEW g \in Gens, Alive(g), NEW m \in Letter, m.what # "done",
         m.what = "ask" => m.of \notin AsksIn(agent[g].out), SameCalls,
         agent' = [agent EXCEPT ![g].out = Append(@, m)]
  PROVE  /\ agent' \in [Gens -> ProcessRow] /\ Processes' /\ Turns'
         /\ \A h \in Gens \ {g} : agent'[h].out = agent[h].out
         /\ AsksIn(agent'[g].out) \subseteq AsksIn(agent[g].out) \cup (IF m.what = "ask" THEN {m.of} ELSE {})
<1>1. Typed /\ agent \in [Gens -> ProcessRow] /\ UNCHANGED <<client, session>>
  BY DEF SessionInv, Typed, SameCalls
<1>2. /\ agent[g].process = "alive" /\ agent[g].out \in Seq(Letter) /\ RowOK(agent[g])
      /\ ~(g > session.gen)
  BY <1>1 DEF SessionInv, Processes, ProcessRow, Alive
<1>3. /\ Append(agent[g].out, m) \in Seq(Letter)
      /\ AsksIn(Append(agent[g].out, m)) \subseteq AsksIn(agent[g].out) \cup (IF m.what = "ask" THEN {m.of} ELSE {})
      /\ OnceEach(Append(agent[g].out, m))
      /\ Dones(Append(agent[g].out, m)) = Dones(agent[g].out)
  BY <1>2, AppendPipe DEF RowOK
<1>4. PICK p : p = [agent[g] EXCEPT !.out = Append(@, m)]
  OBVIOUS
<1>5. agent' = [agent EXCEPT ![g] = p]
  BY <1>1, <1>4
<1>6. /\ p \in ProcessRow /\ p.process = "alive" /\ p.out = Append(agent[g].out, m)
      /\ p.inbox = agent[g].inbox /\ p.open = agent[g].open
  BY <1>1, <1>2, <1>3, <1>4 DEF ProcessRow
<1>7. RowOK(p)
  BY <1>2, <1>3, <1>6 DEF RowOK
<1>8. ASSUME client = "claude"
      PROVE  /\ p.inbox = <<>> /\ p.open <= 1
             /\ g = session.gen /\ p.process = "alive" => TurnOK(p, session'.busy)
  <2>1. agent[g].open <= 1 /\ agent[g].inbox = <<>>
    BY <1>8 DEF SessionInv, Turns
  <2>2. CASE g = session.gen
    <3>1. TurnOK(agent[g], session.busy)
      BY <1>2, <1>8, <2>2 DEF SessionInv, Turns
    <3>2. TurnOK(p, session'.busy)
      BY <1>1, <1>3, <1>6, <3>1 DEF TurnOK, OneDone
    <3> QED BY <1>6, <2>1, <3>2
  <2> QED BY <1>6, <2>1, <2>2
<1>9. NoReplies'
  BY CallsStay
<1>10. agent' \in [Gens -> ProcessRow] /\ Processes' /\ Turns'
  BY <1>1, <1>2, <1>5, <1>6, <1>7, <1>8, <1>9, RowMoves
<1> QED BY <1>1, <1>3, <1>5, <1>6, <1>10

\* A reader takes a letter that is not the end of a turn.
LEMMA ReadsRow ==
  ASSUME SessionInv, NEW g \in Gens, ReadsOne(g), SameCalls
  PROVE  /\ agent' \in [Gens -> ProcessRow] /\ Processes' /\ Turns'
         /\ \A h \in Gens \ {g} : agent'[h].out = agent[h].out
         /\ AsksIn(agent'[g].out) \subseteq AsksIn(agent[g].out)
         /\ Head(agent[g].out).what = "ask" =>
              Head(agent[g].out).of \in AsksIn(agent[g].out) \ AsksIn(agent'[g].out)
<1>1. /\ Typed /\ agent \in [Gens -> ProcessRow] /\ UNCHANGED <<client, session>>
      /\ agent[g].out # <<>>
  BY DEF SessionInv, Typed, SameCalls, ReadsOne
<1>2. PICK p : p = [agent[g] EXCEPT !.out = Tail(@)]
  OBVIOUS
<1>3. agent' = [agent EXCEPT ![g] = p]
  BY <1>1, <1>2 DEF ReadsOne
<1>4. agent[g].out \in Seq(Letter) /\ RowOK(agent[g]) /\ (g > session.gen => agent[g].process = "none")
  BY <1>1 DEF SessionInv, Processes, ProcessRow
<1>5. /\ Tail(agent[g].out) \in Seq(Letter)
      /\ AsksIn(Tail(agent[g].out)) \subseteq AsksIn(agent[g].out)
      /\ OnceEach(Tail(agent[g].out))
      /\ Dones(agent[g].out) = {} => Dones(Tail(agent[g].out)) = {}
      /\ OneDone(agent[g].out) => OneDone(Tail(agent[g].out))
      /\ Dones(Tail(agent[g].out)) # {} => Dones(agent[g].out) # {}
      /\ Head(agent[g].out).what = "ask" =>
           Head(agent[g].out).of \in AsksIn(agent[g].out) \ AsksIn(Tail(agent[g].out))
  BY <1>1, <1>4, TailFacts, TailPipe DEF RowOK
<1>6. /\ p \in ProcessRow /\ p.process = agent[g].process /\ p.out = Tail(agent[g].out)
      /\ p.inbox = agent[g].inbox /\ p.open = agent[g].open
  BY <1>1, <1>2, <1>5 DEF ProcessRow
<1>7. RowOK(p)
  BY <1>1, <1>4, <1>5, <1>6 DEF RowOK
<1>8. ASSUME client = "claude"
      PROVE  /\ p.inbox = <<>> /\ p.open <= 1
             /\ g = session.gen /\ p.process = "alive" => TurnOK(p, session'.busy)
  <2>1. agent[g].open <= 1 /\ agent[g].inbox = <<>>
    BY <1>8 DEF SessionInv, Turns
  <2>2. CASE g = session.gen /\ p.process = "alive"
    <3>1. TurnOK(agent[g], session.busy)
      BY <1>6, <1>8, <2>2 DEF SessionInv, Turns
    <3>2. TurnOK(p, session'.busy)
      BY <1>1, <1>5, <1>6, <3>1 DEF TurnOK
    <3> QED BY <1>6, <2>1, <3>2
  <2> QED BY <1>6, <2>1, <2>2
<1>9. NoReplies'
  BY CallsStay
<1>10. agent' \in [Gens -> ProcessRow] /\ Processes' /\ Turns'
  BY <1>1, <1>3, <1>4, <1>6, <1>7, <1>8, <1>9, RowMoves
<1> QED BY <1>1, <1>3, <1>5, <1>6, <1>10

\* A process asks for permission.
LEMMA AsksForStep ==
  ASSUME SessionInv, NEW g \in Gens, NEW i \in Ids, AsksFor(g, i)
  PROVE  SessionInv'
<1>1. /\ UNCHANGED <<client, mode, record, thread, session, control, call>> /\ Alive(g)
      /\ SameCalls
  BY DEF AsksFor, brokerVars, SameCalls
<1>2. PICK a \in Asks : a = <<g, i>>
  BY AskParts
<1>3. told \in [Asks -> {"unasked", "asked", "withdrawn"} \cup Decisions]
  BY DEF SessionInv, Typed
<1>4. told[a] = "unasked" /\ told' = [told EXCEPT ![a] = "asked"]
  BY <1>2 DEF AsksFor
<1>5. thread[a] = "none" /\ i \notin AsksIn(agent[g].out)
  BY <1>2, <1>4 DEF SessionInv, ThreadOK, Asked
<1>6. PICK m : m = Message("ask", i)
  OBVIOUS
<1>7. m \in Letter /\ m.what = "ask" /\ m.of = i
  BY <1>6 DEF Message, Letter
<1>8. agent' = [agent EXCEPT ![g].out = Append(@, m)]
  BY <1>6 DEF AsksFor
<1>9. /\ agent' \in [Gens -> ProcessRow] /\ Processes' /\ Turns'
      /\ \A h \in Gens \ {g} : agent'[h].out = agent[h].out
      /\ AsksIn(agent'[g].out) \subseteq AsksIn(agent[g].out) \cup {i}
  BY <1>1, <1>5, <1>7, <1>8, WritesRow
<1>10. told' \in [Asks -> {"unasked", "asked", "withdrawn"} \cup Decisions] /\ ToldOn
  BY <1>3, <1>4 DEF ToldOn
<1>11. Asked'
  <2>1. \A j \in AsksIn(agent'[g].out) :
          j \in Ids /\ thread'[<<g, j>>] = "none" /\ told'[<<g, j>>] # "unasked"
    <3>1. TAKE j \in AsksIn(agent'[g].out)
    <3>2. CASE j = i
      BY <1>1, <1>2, <1>3, <1>4, <1>5, <3>2
    <3>3. CASE j # i
      <4>1. j \in AsksIn(agent[g].out)
        BY <1>9, <3>3
      <4>2. j \in Ids /\ thread[<<g, j>>] = "none" /\ told[<<g, j>>] # "unasked"
        BY <4>1 DEF SessionInv, Asked
      <4> QED BY <1>1, <1>10, <4>2, AskParts DEF ToldOn
    <3> QED BY <3>2, <3>3
  <2> QED BY <1>1, <1>9, <1>10, <2>1, AskedMoves
<1>12. \A b \in Asks : ThreadOK(b)'
  <2> SUFFICES ASSUME NEW b \in Asks PROVE ThreadOK(b)'
    OBVIOUS
  <2>1. ThreadOK(b) /\ (told'[b] = told[b] \/ told'[b] = "asked")
    BY <1>3, <1>4 DEF SessionInv
  <2> QED BY <1>1, <2>1 DEF ThreadOK, Granted, Allows
<1>13. Limited'
  BY <1>1 DEF SessionInv, Limited, Pending, AtWork
<1>14. Typed'
  BY <1>1, <1>9, <1>10 DEF SessionInv, Typed, BrokerTypeOK
<1> QED BY <1>9, <1>11, <1>12, <1>13, <1>14 DEF SessionInv

\* A process takes a request back.
LEMMA WithdrawsStep ==
  ASSUME SessionInv, NEW g \in Gens, NEW i \in Ids, Withdraws(g, i)
  PROVE  SessionInv'
<1>1. /\ UNCHANGED <<client, mode, record, thread, session, control, call>> /\ Alive(g)
      /\ SameCalls
  BY DEF Withdraws, brokerVars, SameCalls
<1>2. PICK a \in Asks : a = <<g, i>>
  BY AskParts
<1>3. told \in [Asks -> {"unasked", "asked", "withdrawn"} \cup Decisions]
  BY DEF SessionInv, Typed
<1>4. told[a] = "asked" /\ told' = [told EXCEPT ![a] = "withdrawn"]
  BY <1>2 DEF Withdraws
<1>5. PICK m : m = Message("withdraw", i)
  OBVIOUS
<1>6. m \in Letter /\ m.what = "withdraw"
  BY <1>5 DEF Message, Letter
<1>7. agent' = [agent EXCEPT ![g].out = Append(@, m)]
  BY <1>5 DEF Withdraws
<1>8. /\ agent' \in [Gens -> ProcessRow] /\ Processes' /\ Turns'
      /\ \A h \in Gens : AsksIn(agent'[h].out) \subseteq AsksIn(agent[h].out)
  BY <1>1, <1>6, <1>7, WritesRow
<1>9. /\ told' \in [Asks -> {"unasked", "asked", "withdrawn"} \cup Decisions]
      /\ ToldOn /\ ThreadOn
  BY <1>1, <1>3, <1>4 DEF ToldOn, ThreadOn
<1>10. Asked'
  BY <1>8, <1>9, AskedStays
<1>11. \A b \in Asks : ThreadOK(b)'
  <2> SUFFICES ASSUME NEW b \in Asks PROVE ThreadOK(b)'
    OBVIOUS
  <2>1. ThreadOK(b) /\ (told'[b] = told[b] \/ (told[b] = "asked" /\ told'[b] = "withdrawn"))
    BY <1>3, <1>4 DEF SessionInv
  <2> QED BY <1>1, <2>1 DEF ThreadOK, Granted, Allows
<1>12. Limited'
  BY <1>1 DEF SessionInv, Limited, Pending, AtWork
<1>13. Typed'
  BY <1>1, <1>8, <1>9 DEF SessionInv, Typed, BrokerTypeOK
<1> QED BY <1>8, <1>10, <1>11, <1>12, <1>13 DEF SessionInv

\* Fewer requests wait and fewer threads ask than before.
LEMMA LimitsKept ==
  ASSUME SessionInv, UNCHANGED client, Pending' \subseteq Pending, AtWork' \subseteq AtWork
  PROVE  Limited'
<1>1. IsFiniteSet(Pending) /\ Cardinality(Pending) <= MaxPending
  BY DEF SessionInv, Limited
<1>2. IsFiniteSet(Pending') /\ Cardinality(Pending') <= MaxPending
  <2>1. IsFiniteSet(Pending') /\ Cardinality(Pending') <= Cardinality(Pending)
    BY <1>1, FS_Subset
  <2>2. Cardinality(Pending) \in Nat /\ Cardinality(Pending') \in Nat /\ MaxPending \in Nat
    BY <1>1, <2>1, FS_CardinalityType, BrokerAssumption
  <2> QED BY <1>1, <2>1, <2>2
<1>3. ASSUME client = "claude"
      PROVE  IsFiniteSet(AtWork') /\ Cardinality(AtWork') <= Slots
  <2>1. IsFiniteSet(AtWork) /\ Cardinality(AtWork) <= Slots
    BY <1>3 DEF SessionInv, Limited
  <2>2. IsFiniteSet(AtWork') /\ Cardinality(AtWork') <= Cardinality(AtWork)
    BY <2>1, FS_Subset
  <2>3. Cardinality(AtWork) \in Nat /\ Cardinality(AtWork') \in Nat /\ Slots \in Nat
    BY <2>1, <2>2, FS_CardinalityType, SlotsAssumption
  <2> QED BY <2>1, <2>2, <2>3
<1> QED BY <1>2, <1>3 DEF Limited

\* A cancellation decides a request that waits, or changes nothing.
LEMMA CancelDecides ==
  ASSUME Typed, NEW a, CancelAsk(a)
  PROVE  UNCHANGED record \/ \E b \in Asks, d \in Decisions : Finalize(b, d)
<1>1. CASE Finalize(a, "deny")
  <2>1. a \in Asks /\ "deny" \in Decisions
    BY <1>1 DEF Finalize, Undecided, Pending, Decisions
  <2> QED BY <1>1, <2>1
<1> QED BY <1>1 DEF CancelAsk

\* A request that waits is decided, or none is.
LEMMA RecordStep ==
  ASSUME SessionInv, UNCHANGED <<client, mode, thread, told>>,
         UNCHANGED record \/ \E a \in Asks, d \in Decisions : Finalize(a, d),
         session' \in SessionRow, agent' \in [Gens -> ProcessRow],
         call' \in [Callers -> CallRow], control' \in [Ids -> 0..MaxLaunches],
         Processes', Turns',
         \A g \in Gens : AsksIn(agent'[g].out) \subseteq AsksIn(agent[g].out)
  PROVE  SessionInv'
<1>1. ToldOn /\ ThreadOn
  BY DEF ToldOn, ThreadOn
<1>2. Asked'
  BY <1>1, AskedStays
<1>3. record \in [Asks -> {"none", "pending"} \cup Decisions]
  BY DEF SessionInv, Typed, BrokerTypeOK
<1>4. /\ record' \in [Asks -> {"none", "pending"} \cup Decisions]
      /\ \A b \in Asks : record'[b] = record[b] \/ (record[b] = "pending" /\ record'[b] \in Decisions)
  <2>1. CASE UNCHANGED record
    BY <1>3, <2>1
  <2>2. CASE \E a \in Asks, d \in Decisions : Finalize(a, d)
    <3>1. PICK a \in Asks, d \in Decisions : Finalize(a, d)
      BY <2>2
    <3>2. record[a] = "pending" /\ record' = [record EXCEPT ![a] = d]
      BY <3>1 DEF Finalize, Undecided, Pending
    <3> QED BY <1>3, <3>2
  <2> QED BY <2>1, <2>2
<1>5. "pending" \notin Decisions
  BY DEF Decisions
<1>6. Pending' \subseteq Pending /\ AtWork' \subseteq AtWork
  BY <1>4, <1>5 DEF Pending, AtWork
<1>7. Limited'
  BY <1>6, LimitsKept
<1>8. \A b \in Asks : ThreadOK(b)'
  <2> SUFFICES ASSUME NEW b \in Asks PROVE ThreadOK(b)'
    OBVIOUS
  <2>1. ThreadOK(b)
    BY DEF SessionInv
  <2>2. CASE record'[b] = record[b]
    BY <2>1, <2>2 DEF ThreadOK, Granted
  <2>3. CASE record[b] = "pending" /\ record'[b] \in Decisions
    <3>1. record'[b] # "none"
      BY <2>3 DEF Decisions
    <3> QED BY <2>1, <2>3, <3>1 DEF ThreadOK, Granted, Allows
  <2> QED BY <1>4, <2>2, <2>3
<1>9. Typed'
  <2>1. BrokerTypeOK' /\ <<client, mode>>' \in Kinds
    BY <1>4 DEF SessionInv, Typed, BrokerTypeOK
  <2>2. told' \in [Asks -> {"unasked", "asked", "withdrawn"} \cup Decisions]
    BY DEF SessionInv, Typed
  <2> QED BY <2>1, <2>2 DEF Typed
<1> QED BY <1>2, <1>7, <1>8, <1>9 DEF SessionInv

\* The operator decides.
LEMMA ResolvesAskStep ==
  ASSUME SessionInv, NEW a \in Asks, ResolvesAsk(a)
  PROVE  SessionInv'
<1>1. UNCHANGED <<client, mode, thread, told, session, agent, call, control>> /\ SameCalls
  BY DEF ResolvesAsk, Resolve, sessionVars, SameCalls
<1>2. \E b \in Asks, d \in Decisions : Finalize(b, d)
  BY DEF ResolvesAsk, Resolve
<1>3. NoReplies'
  BY <1>1, CallsStay
<1>4. Processes' /\ Turns'
  BY <1>1, <1>3, AgentStays
<1>5. /\ session' \in SessionRow /\ agent' \in [Gens -> ProcessRow]
      /\ call' \in [Callers -> CallRow] /\ control' \in [Ids -> 0..MaxLaunches]
  BY <1>1 DEF SessionInv, Typed
<1>6. \A g \in Gens : AsksIn(agent'[g].out) \subseteq AsksIn(agent[g].out)
  BY <1>1
<1> QED BY <1>1, <1>2, <1>4, <1>5, <1>6, RecordStep

\* stop cancels one of the requests that waited when it began.
LEMMA CancelsOneStep ==
  ASSUME SessionInv, NEW c \in Callers, CancelsOne(c)
  PROVE  SessionInv'
<1>1. Typed /\ call \in [Callers -> CallRow]
  BY DEF SessionInv, Typed
<1>2. PICK a \in call[c].left : CancelAsk(a) /\ call' = [call EXCEPT ![c].left = @ \ {a}]
  BY DEF CancelsOne
<1>3. UNCHANGED <<client, mode, thread, told, session, agent, control>>
  BY <1>2 DEF CancelsOne, CancelAsk
<1>4. UNCHANGED record \/ \E b \in Asks, d \in Decisions : Finalize(b, d)
  BY <1>1, <1>2, CancelDecides
<1>5. call' \in [Callers -> CallRow] /\ \A d \in Callers : call'[d].at = call[d].at
  BY <1>1, <1>2 DEF CallRow
<1>6. NoReplies'
  BY <1>3, <1>5 DEF SessionInv, Turns, NoReplies
<1>7. Processes' /\ Turns'
  BY <1>3, <1>6, AgentStays
<1>8. session' \in SessionRow /\ agent' \in [Gens -> ProcessRow] /\ control' \in [Ids -> 0..MaxLaunches]
  BY <1>3 DEF SessionInv, Typed
<1>9. \A g \in Gens : AsksIn(agent'[g].out) \subseteq AsksIn(agent[g].out)
  BY <1>3
<1> QED BY <1>3, <1>4, <1>5, <1>7, <1>8, <1>9, RecordStep

\* A withdrawal cancels the request under its id, if there is one.
LEMMA ClaudeReadsWithdrawalStep ==
  ASSUME SessionInv, NEW g \in Gens, ClaudeReadsWithdrawal(g)
  PROVE  SessionInv'
<1>1. ReadsOne(g) /\ UNCHANGED <<client, mode, thread, told, session, call, control>> /\ SameCalls
  BY DEF ClaudeReadsWithdrawal, ReadsOne, CancelAsk, brokerVars, SameCalls
<1>2. UNCHANGED record \/ \E b \in Asks, d \in Decisions : Finalize(b, d)
  <2>1. UNCHANGED record \/ \E a : CancelAsk(a)
    BY DEF ClaudeReadsWithdrawal, brokerVars
  <2> QED BY <2>1, CancelDecides DEF SessionInv
<1>3. /\ agent' \in [Gens -> ProcessRow] /\ Processes' /\ Turns'
      /\ \A h \in Gens : AsksIn(agent'[h].out) \subseteq AsksIn(agent[h].out)
  BY <1>1, ReadsRow
<1>4. session' \in SessionRow /\ call' \in [Callers -> CallRow]
  BY <1>1, CallsStay
<1>5. control' \in [Ids -> 0..MaxLaunches]
  BY <1>1 DEF SessionInv, Typed
<1> QED BY <1>1, <1>2, <1>3, <1>4, <1>5, RecordStep

\* A request that was read gets the thread that will answer it.
LEMMA StartsAskStep ==
  ASSUME SessionInv, NEW g \in Gens, ReadsOne(g), Head(agent[g].out).what = "ask",
         StartsAsk(g, Head(agent[g].out).of), client = "claude" => SlotFree
  PROVE  SessionInv'
<1>1. PICK i : i = Head(agent[g].out).of
  OBVIOUS
<1>2. /\ UNCHANGED <<client, mode, record, told, session, call, control>> /\ SameCalls
      /\ thread' = [thread EXCEPT ![<<g, i>>] = "begun"]
  BY <1>1 DEF StartsAsk, ReadsOne, SameCalls
<1>3. /\ agent' \in [Gens -> ProcessRow] /\ Processes' /\ Turns'
      /\ \A h \in Gens \ {g} : agent'[h].out = agent[h].out
      /\ AsksIn(agent'[g].out) \subseteq AsksIn(agent[g].out)
      /\ i \in AsksIn(agent[g].out) \ AsksIn(agent'[g].out)
  BY <1>1, <1>2, ReadsRow
<1>4. i \in Ids /\ thread[<<g, i>>] = "none" /\ told[<<g, i>>] # "unasked"
  BY <1>3 DEF SessionInv, Asked
<1>5. PICK a \in Asks : a = <<g, i>>
  BY <1>4, AskParts
<1>6. thread \in [Asks -> Stages]
  BY DEF SessionInv, Typed, BrokerTypeOK
<1>7. /\ thread' \in [Asks -> Stages] /\ thread'[a] = "begun"
      /\ \A b \in Asks \ {a} : thread'[b] = thread[b]
  BY <1>2, <1>5, <1>6 DEF Stages
<1>8. Asked'
  <2>1. ToldOn
    BY <1>2 DEF ToldOn
  <2>2. \A b \in Asks : b[1] # g /\ thread[b] = "none" => thread'[b] = "none"
    BY <1>5, <1>7
  <2>3. \A j \in AsksIn(agent'[g].out) :
          j \in Ids /\ thread'[<<g, j>>] = "none" /\ told'[<<g, j>>] # "unasked"
    <3>1. TAKE j \in AsksIn(agent'[g].out)
    <3>2. j \in AsksIn(agent[g].out) /\ j # i
      BY <1>3
    <3>3. j \in Ids /\ thread[<<g, j>>] = "none" /\ told[<<g, j>>] # "unasked"
      BY <3>2 DEF SessionInv, Asked
    <3>4. <<g, j>> \in Asks \ {a}
      BY <1>5, <3>2, <3>3, AskParts
    <3> QED BY <1>2, <1>7, <3>3, <3>4
  <2> QED BY <1>3, <2>1, <2>2, <2>3, AskedMoves
<1>9. \A b \in Asks : ThreadOK(b)'
  <2> SUFFICES ASSUME NEW b \in Asks PROVE ThreadOK(b)'
    OBVIOUS
  <2>1. ThreadOK(b)
    BY DEF SessionInv
  <2>2. CASE b = a
    BY <1>2, <1>4, <1>5, <1>7, <2>1, <2>2 DEF ThreadOK
  <2>3. CASE b # a
    BY <1>2, <1>7, <2>1, <2>3 DEF ThreadOK, Granted
  <2> QED BY <2>2, <2>3
<1>10. Limited'
  <2>1. Pending' = Pending
    BY <1>2 DEF Pending
  <2>2. ASSUME client = "claude"
        PROVE  IsFiniteSet(AtWork') /\ Cardinality(AtWork') <= Slots
    <3>1. AtWork' = AtWork \cup {a}
      BY <1>7 DEF AtWork
    <3>2. IsFiniteSet(AtWork) /\ Cardinality(AtWork) \in Nat /\ Cardinality(AtWork) < Slots /\ Slots \in Nat
      BY <2>2, FS_CardinalityType, SlotsAssumption DEF SessionInv, Limited, SlotFree
    <3>3. IsFiniteSet(AtWork \cup {a}) /\ Cardinality(AtWork \cup {a}) <= Cardinality(AtWork) + 1
      <4>1. /\ IsFiniteSet(AtWork \cup {a})
            /\ Cardinality(AtWork \cup {a}) = IF a \in AtWork THEN Cardinality(AtWork) ELSE Cardinality(AtWork) + 1
        BY <3>2, FS_AddElement
      <4> QED BY <3>2, <4>1
    <3>4. Cardinality(AtWork \cup {a}) \in Nat
      BY <3>3, FS_CardinalityType
    <3> QED BY <3>1, <3>2, <3>3, <3>4
  <2> QED BY <1>2, <2>1, <2>2 DEF SessionInv, Limited
<1>11. Typed'
  BY <1>2, <1>3, <1>7 DEF SessionInv, Typed, BrokerTypeOK
<1> QED BY <1>3, <1>8, <1>9, <1>10, <1>11 DEF SessionInv

\* What an answer does to what the processes were told.
LEMMA TellsMoves ==
  ASSUME SessionInv, NEW a, NEW word \in Decisions, Tells(a, word)
  PROVE  /\ told' \in [Asks -> {"unasked", "asked", "withdrawn"} \cup Decisions]
         /\ ToldOn
         /\ \A b \in Asks : told'[b] = told[b] \/ (b = a /\ told[b] = "asked" /\ told'[b] = word)
<1>1. told \in [Asks -> {"unasked", "asked", "withdrawn"} \cup Decisions]
  BY DEF SessionInv, Typed
<1>2. told' = [told EXCEPT ![a] = IF told[a] = "asked" THEN word ELSE told[a]]
  BY DEF Tells
<1>3. \A b \in Asks : told'[b] = told[b] \/ (b = a /\ told[b] = "asked" /\ told'[b] = word)
  BY <1>1, <1>2
<1>4. "unasked" \notin Decisions /\ DOMAIN told' = Asks /\ told' = [b \in Asks |-> told'[b]]
  BY <1>1, <1>2 DEF Decisions
<1>5. \A b \in Asks : told'[b] \in {"unasked", "asked", "withdrawn"} \cup Decisions
  BY <1>1, <1>3
<1>6. ToldOn
  BY <1>3, <1>4 DEF ToldOn
<1> QED BY <1>3, <1>4, <1>5, <1>6

\* A Claude session starts a thread for a request, or refuses it when all
\* slots are taken.
LEMMA ClaudeReadsAskStep ==
  ASSUME SessionInv, NEW g \in Gens, ClaudeReadsAsk(g)
  PROVE  SessionInv'
<1>1. PICK i : i = Head(agent[g].out).of
  OBVIOUS
<1>2. client = "claude" /\ ReadsOne(g) /\ Head(agent[g].out).what = "ask"
  BY DEF ClaudeReadsAsk
<1>3. CASE SlotFree /\ StartsAsk(g, i)
  BY <1>1, <1>2, <1>3, StartsAskStep
<1>4. CASE /\ Tells(<<g, i>>, "deny") \/ UNCHANGED told
           /\ UNCHANGED <<brokerVars, session, control, call>>
  <2>1. UNCHANGED <<client, mode, record, thread, session, control, call>> /\ SameCalls
    BY <1>2, <1>4 DEF ReadsOne, SameCalls, brokerVars
  <2>2. /\ agent' \in [Gens -> ProcessRow] /\ Processes' /\ Turns'
        /\ \A h \in Gens : AsksIn(agent'[h].out) \subseteq AsksIn(agent[h].out)
    BY <1>2, <2>1, ReadsRow
  <2>3. /\ told' \in [Asks -> {"unasked", "asked", "withdrawn"} \cup Decisions]
        /\ ToldOn
        /\ \A b \in Asks : told'[b] = told[b] \/ (told[b] = "asked" /\ told'[b] = "deny")
    <3>1. "deny" \in Decisions /\ told \in [Asks -> {"unasked", "asked", "withdrawn"} \cup Decisions]
      BY DEF Decisions, SessionInv, Typed
    <3>2. CASE Tells(<<g, i>>, "deny")
      BY <3>1, <3>2, TellsMoves
    <3>3. CASE UNCHANGED told
      BY <3>1, <3>3 DEF ToldOn
    <3> QED BY <1>4, <3>2, <3>3
  <2>4. Asked'
    <3>1. ThreadOn
      BY <2>1 DEF ThreadOn
    <3> QED BY <2>2, <2>3, <3>1, AskedStays
  <2>5. \A b \in Asks : ThreadOK(b)'
    <3> SUFFICES ASSUME NEW b \in Asks PROVE ThreadOK(b)'
      OBVIOUS
    <3>1. ThreadOK(b) /\ (told'[b] = told[b] \/ (told[b] = "asked" /\ told'[b] = "deny"))
      BY <2>3 DEF SessionInv
    <3> QED BY <2>1, <3>1 DEF ThreadOK, Granted, Allows
  <2>6. Limited'
    BY <2>1 DEF SessionInv, Limited, Pending, AtWork
  <2>7. Typed'
    BY <2>1, <2>2, <2>3 DEF SessionInv, Typed, BrokerTypeOK
  <2> QED BY <2>2, <2>4, <2>5, <2>6, <2>7 DEF SessionInv
<1> QED BY <1>1, <1>3, <1>4 DEF ClaudeReadsAsk

\* The reader of an app-server begins to wait for an approval.
LEMMA CodexReadsAskStep ==
  ASSUME SessionInv, NEW g \in Gens, CodexReadsAsk(g)
  PROVE  SessionInv'
  BY StartsAskStep DEF CodexReadsAsk

\* A thread registers its request, or its wait ends without a decision.
LEMMA WaitMoves ==
  ASSUME SessionInv, NEW a \in Asks, UNCHANGED <<client, told>>,
         Register(a) \/ Expires(a) \/ TimesOut(a)
  PROVE  /\ UNCHANGED mode /\ BrokerTypeOK' /\ Limited' /\ ThreadOn
         /\ \A b \in Asks : ThreadOK(b)'
<1>1. /\ record \in [Asks -> {"none", "pending"} \cup Decisions]
      /\ thread \in [Asks -> Stages] /\ mode \in Modes
  BY DEF SessionInv, Typed, BrokerTypeOK
<1>2. UNCHANGED mode
  BY DEF Register, Expires, TimesOut
<1>3. ThreadOK(a) /\ \A b \in Asks : ThreadOK(b)
  BY DEF SessionInv
<1>4. PICK at, word :
        /\ at \in Stages \ {"none", "begun", "done"} /\ word \in {"none", "pending"} \cup Decisions
        /\ thread' = [thread EXCEPT ![a] = at] /\ record' = [record EXCEPT ![a] = word]
        /\ thread[a] \in {"begun", "late", "waiting"}
        /\ \/ thread[a] = "begun" /\ at = "answer" /\ word = record[a] /\ mode # "approval-required"
           \/ thread[a] = "begun" /\ at = "waiting" /\ word = "pending" /\ ~Full
           \/ at = "raised" /\ word = record[a]
           \/ at = "answer" /\ word = "deny" /\ record[a] = "pending"
           \/ at = "late" /\ word = record[a] /\ record[a] = "pending"
  <2>1. {"answer", "waiting", "raised", "late"} \subseteq Stages \ {"none", "begun", "done"}
    BY DEF Stages
  <2>2. record[a] \in {"none", "pending"} \cup Decisions /\ record = [record EXCEPT ![a] = record[a]]
    BY <1>1
  <2>3. CASE Register(a)
    <3>1. thread[a] = "begun"
      BY <2>3 DEF Register
    <3>2. CASE Delegated(a) /\ thread' = [thread EXCEPT ![a] = "answer"] /\ UNCHANGED record
      <4>1. mode # "approval-required"
        BY <3>2 DEF Delegated
      <4> QED BY <2>1, <2>2, <3>1, <3>2, <4>1
    <3>3. CASE thread' = [thread EXCEPT ![a] = "raised"] /\ UNCHANGED record
      BY <2>1, <2>2, <3>1, <3>3
    <3>4. CASE /\ ~Full /\ record' = [record EXCEPT ![a] = "pending"]
               /\ thread' = [thread EXCEPT ![a] = "waiting"]
      BY <2>1, <3>1, <3>4
    <3> QED BY <2>3, <3>2, <3>3, <3>4 DEF Register
  <2>4. CASE Expires(a)
    <3>1. thread[a] = "late"
      BY <2>4 DEF Expires
    <3>2. CASE Finalize(a, "deny") /\ thread' = [thread EXCEPT ![a] = "answer"]
      <4>1. record[a] = "pending" /\ record' = [record EXCEPT ![a] = "deny"] /\ "deny" \in Decisions
        BY <3>2 DEF Finalize, Undecided, Pending, Decisions
      <4> QED BY <2>1, <3>1, <3>2, <4>1
    <3>3. CASE thread' = [thread EXCEPT ![a] = "raised"] /\ UNCHANGED record
      BY <2>1, <2>2, <3>1, <3>3
    <3> QED BY <2>4, <3>2, <3>3 DEF Expires
  <2>5. CASE TimesOut(a)
    <3>1. /\ thread[a] = "waiting" /\ record[a] = "pending" /\ UNCHANGED record
          /\ thread' = [thread EXCEPT ![a] = "late"]
      BY <2>5 DEF TimesOut, Pending
    <3> QED BY <2>1, <2>2, <3>1
  <2> QED BY <2>3, <2>4, <2>5
<1>5. /\ thread' \in [Asks -> Stages] /\ record' \in [Asks -> {"none", "pending"} \cup Decisions]
      /\ thread'[a] = at /\ record'[a] = word
      /\ \A b \in Asks \ {a} : thread'[b] = thread[b] /\ record'[b] = record[b]
  <2>1. at \in Stages /\ word \in {"none", "pending"} \cup Decisions
    BY <1>4
  <2> QED BY <1>1, <1>4, <2>1
<1>6. BrokerTypeOK'
  BY <1>1, <1>2, <1>5 DEF BrokerTypeOK
<1>7. ThreadOn
  BY <1>4, <1>5 DEF ThreadOn
<1>8. \A b \in Asks : ThreadOK(b)'
  <2> SUFFICES ASSUME NEW b \in Asks PROVE ThreadOK(b)'
    OBVIOUS
  <2>1. CASE b = a
    <3>1. "deny" # "none" /\ "pending" # "none"
      OBVIOUS
    <3>2. (client = "claude" => told[a] \notin Allows) /\ told[a] # "unasked"
      BY <1>3, <1>4 DEF ThreadOK
    <3>3. thread[a] = "begun" => record[a] = "none"
      BY <1>3 DEF ThreadOK
    <3>4. thread'[a] \in {"waiting", "late"} => record'[a] # "none"
      BY <1>4, <1>5, <3>1
    <3>5. thread'[a] = "answer" => Granted(a, "deny")'
      BY <1>2, <1>4, <1>5, <3>3 DEF Granted
    <3> QED BY <1>4, <1>5, <2>1, <3>2, <3>4, <3>5 DEF ThreadOK
  <2>2. CASE b # a
    BY <1>2, <1>3, <1>5, <2>2 DEF ThreadOK, Granted
  <2> QED BY <2>1, <2>2
<1>9. AtWork' \subseteq AtWork
  BY <1>4, <1>5 DEF AtWork
<1>10. CASE ~(word = "pending" /\ ~Full)
  <2>1. word = "pending" => record[a] = "pending"
    BY <1>4, <1>10 DEF Decisions
  <2>2. Pending' \subseteq Pending
    BY <1>5, <2>1 DEF Pending
  <2> QED BY <1>2, <1>6, <1>7, <1>8, <1>9, <2>2, LimitsKept
<1>11. CASE word = "pending" /\ ~Full
  <2>1. Pending' = Pending \cup {a}
    BY <1>5, <1>11 DEF Pending
  <2>2. /\ IsFiniteSet(Pending) /\ Cardinality(Pending) \in Nat /\ MaxPending \in Nat
        /\ Cardinality(Pending) < MaxPending
    BY <1>11, FS_CardinalityType, BrokerAssumption DEF SessionInv, Limited, Full
  <2>3. IsFiniteSet(Pending') /\ Cardinality(Pending') <= MaxPending
    <3>1. /\ IsFiniteSet(Pending \cup {a})
          /\ Cardinality(Pending \cup {a}) = IF a \in Pending THEN Cardinality(Pending) ELSE Cardinality(Pending) + 1
      BY <2>2, FS_AddElement
    <3> QED BY <2>1, <2>2, <3>1
  <2>4. ASSUME client = "claude"
        PROVE  IsFiniteSet(AtWork') /\ Cardinality(AtWork') <= Slots
    <3>1. IsFiniteSet(AtWork) /\ Cardinality(AtWork) <= Slots
      BY <2>4 DEF SessionInv, Limited
    <3>2. IsFiniteSet(AtWork') /\ Cardinality(AtWork') <= Cardinality(AtWork)
      BY <1>9, <3>1, FS_Subset
    <3>3. Cardinality(AtWork) \in Nat /\ Cardinality(AtWork') \in Nat /\ Slots \in Nat
      BY <3>1, <3>2, FS_CardinalityType, SlotsAssumption
    <3> QED BY <3>1, <3>2, <3>3
  <2>5. Limited'
    BY <2>3, <2>4 DEF Limited
  <2> QED BY <1>2, <1>6, <1>7, <1>8, <2>5
<1> QED BY <1>10, <1>11

\* A thread of a request goes on to its answer.
LEMMA WaitStep ==
  ASSUME SessionInv, NEW a \in Asks, UNCHANGED <<client, session, agent, told, call>>,
         control' \in [Ids -> 0..MaxLaunches], Register(a) \/ Expires(a) \/ TimesOut(a)
  PROVE  SessionInv'
<1>1. /\ UNCHANGED mode /\ BrokerTypeOK' /\ Limited' /\ ThreadOn
      /\ \A b \in Asks : ThreadOK(b)'
  BY WaitMoves
<1>2. SameCalls
  BY DEF SameCalls
<1>3. NoReplies'
  BY <1>2, CallsStay
<1>4. Processes' /\ Turns'
  BY <1>3, AgentStays
<1>5. ToldOn
  BY DEF ToldOn
<1>6. Asked'
  BY <1>1, <1>5, AskedStays
<1>7. Typed'
  BY <1>1 DEF SessionInv, Typed
<1> QED BY <1>1, <1>4, <1>6, <1>7 DEF SessionInv

\* A thread enters, waits or gives up, in a session of either class.
LEMMA EntersStep ==
  ASSUME SessionInv, NEW a \in Asks, LosesPatience(a) \/ ClaudeEnters(a) \/ CodexEnters(a)
  PROVE  SessionInv'
<1>1. control \in [Ids -> 0..MaxLaunches]
  BY DEF SessionInv, Typed
<1>2. CASE LosesPatience(a)
  BY <1>1, <1>2, WaitStep DEF LosesPatience, sessionVars
<1>3. CASE CodexEnters(a)
  BY <1>1, <1>3, WaitStep DEF CodexEnters, sessionVars
<1>4. CASE ClaudeEnters(a)
  <2>1. control' \in [Ids -> 0..MaxLaunches]
    <3>1. PICK g : g \in 0..MaxLaunches /\ control' = [control EXCEPT ![a[2]] = g]
      <4>1. 0 \in 0..MaxLaunches /\ a[1] \in 0..MaxLaunches /\ control[a[2]] \in 0..MaxLaunches
        BY <1>1, AskParts, RowFields DEF SessionInv, Gens
      <4> QED BY <1>4, <4>1 DEF ClaudeEnters
    <3> QED BY <1>1, <3>1
  <2> QED BY <1>4, <2>1, WaitStep DEF ClaudeEnters
<1> QED BY <1>2, <1>3, <1>4

\* What a thread that is ready has to say was decided about its request.
LEMMA ReadySays ==
  ASSUME SessionInv, NEW a \in Asks, Ready(a)
  PROVE  /\ thread[a] \in {"answer", "waiting"} /\ told[a] # "unasked"
         /\ Said(a) \in Decisions /\ Granted(a, Said(a))
         /\ client = "claude" => told[a] \notin Allows
<1>1. record \in [Asks -> {"none", "pending"} \cup Decisions] /\ ThreadOK(a)
  BY DEF SessionInv, Typed, BrokerTypeOK
<1>2. thread[a] \in {"answer", "waiting"} /\ (thread[a] = "waiting" => record[a] # "pending")
  BY DEF Ready, Pending
<1>3. /\ told[a] # "unasked" /\ (client = "claude" => told[a] \notin Allows)
      /\ thread[a] = "answer" => Granted(a, "deny")
      /\ thread[a] = "waiting" => record[a] # "none"
  BY <1>1, <1>2 DEF ThreadOK
<1>4. /\ record[a] # "pending"
      /\ record[a] = "none" => mode # "approval-required"
  BY <1>2, <1>3 DEF Granted
<1>5. Said(a) \in Decisions
  BY <1>1, <1>4 DEF Said, Decisions
<1>6. Granted(a, Said(a))
  BY <1>4 DEF Said, Granted
<1> QED BY <1>2, <1>3, <1>5, <1>6

\* A thread answers x, which is its own request if the session is of Claude;
\* or its write ends the process; or there is nobody to answer.
LEMMA AnswersStep ==
  ASSUME SessionInv, NEW a \in Asks, Ready(a), thread' = [thread EXCEPT ![a] = "done"],
         UNCHANGED <<client, mode, record, session, call>>,
         control' \in [Ids -> 0..MaxLaunches],
         \/ UNCHANGED agent /\ \E x : (client = "claude" => x = a) /\ Tells(x, Said(a))
         \/ UNCHANGED told /\ \E g \in Gens : Alive(g) /\ agent' = Ended(g)
         \/ UNCHANGED <<agent, told>>
  PROVE  SessionInv'
<1>1. /\ thread[a] \in {"answer", "waiting"} /\ told[a] # "unasked"
      /\ Said(a) \in Decisions /\ Granted(a, Said(a))
      /\ client = "claude" => told[a] \notin Allows
  BY ReadySays
<1>2. thread \in [Asks -> Stages] /\ \A b \in Asks : ThreadOK(b)
  BY DEF SessionInv, Typed, BrokerTypeOK
<1>3. /\ thread' \in [Asks -> Stages] /\ thread'[a] = "done"
      /\ \A b \in Asks \ {a} : thread'[b] = thread[b]
  <2>1. "done" \in Stages
    BY DEF Stages
  <2> QED BY <1>2, <2>1
<1>4. ThreadOn
  BY <1>1, <1>3 DEF ThreadOn
<1>5. /\ told' \in [Asks -> {"unasked", "asked", "withdrawn"} \cup Decisions] /\ ToldOn
      /\ client = "claude" =>
           \A b \in Asks : told'[b] = told[b] \/ (b = a /\ told'[b] = Said(a))
  <2>1. told \in [Asks -> {"unasked", "asked", "withdrawn"} \cup Decisions]
    BY DEF SessionInv, Typed
  <2>2. CASE UNCHANGED told
    BY <2>1, <2>2 DEF ToldOn
  <2>3. ASSUME NEW x, client = "claude" => x = a, Tells(x, Said(a))
        PROVE  /\ told' \in [Asks -> {"unasked", "asked", "withdrawn"} \cup Decisions] /\ ToldOn
               /\ client = "claude" =>
                    \A b \in Asks : told'[b] = told[b] \/ (b = a /\ told'[b] = Said(a))
    BY <1>1, <2>3, TellsMoves
  <2> QED BY <2>2, <2>3
<1>6. SameCalls /\ NoReplies'
  <2>1. SameCalls
    BY DEF SameCalls
  <2> QED BY <2>1, CallsStay
<1>7. /\ agent' \in [Gens -> ProcessRow] /\ Processes' /\ Turns'
      /\ \A h \in Gens : AsksIn(agent'[h].out) \subseteq AsksIn(agent[h].out)
  <2>1. CASE UNCHANGED agent
    <3>1. Processes' /\ Turns'
      BY <1>6, <2>1, AgentStays
    <3> QED BY <2>1, <3>1 DEF SessionInv, Typed
  <2>2. CASE \E g \in Gens : Alive(g) /\ agent' = Ended(g)
    <3>1. PICK g \in Gens : Alive(g) /\ agent' = Ended(g)
      BY <2>2
    <3>2. /\ agent' \in [Gens -> ProcessRow] /\ Processes' /\ Turns'
          /\ \A h \in Gens : agent'[h].out = agent[h].out
      BY <1>6, <3>1, EndedRow
    <3> QED BY <3>2
  <2> QED BY <2>1, <2>2
<1>8. Asked'
  BY <1>4, <1>5, <1>7, AskedStays
<1>9. \A b \in Asks : ThreadOK(b)'
  <2> SUFFICES ASSUME NEW b \in Asks PROVE ThreadOK(b)'
    OBVIOUS
  <2>1. CASE b = a
    <3>1. told'[a] # "unasked"
      BY <1>1, <1>5 DEF ToldOn
    <3>2. client = "claude" /\ told'[a] \in Allows =>
            record'[a] = told'[a] \/ (record'[a] = "none" /\ mode' # "approval-required")
      BY <1>1, <1>5 DEF Granted
    <3> QED BY <1>3, <2>1, <3>1, <3>2 DEF ThreadOK, Granted
  <2>2. CASE b # a
    <3>1. /\ thread'[b] = thread[b] /\ record'[b] = record[b] /\ (told[b] # "unasked" => told'[b] # "unasked")
          /\ client = "claude" => told'[b] = told[b]
      BY <1>3, <1>5, <2>2 DEF ToldOn
    <3> QED BY <1>2, <3>1 DEF ThreadOK, Granted
  <2> QED BY <2>1, <2>2
<1>10. Limited'
  <2>1. Pending' \subseteq Pending /\ AtWork' \subseteq AtWork
    BY <1>3 DEF Pending, AtWork
  <2> QED BY <2>1, LimitsKept
<1>11. Typed'
  BY <1>3, <1>5, <1>7 DEF SessionInv, Typed, BrokerTypeOK
<1> QED BY <1>7, <1>8, <1>9, <1>10, <1>11 DEF SessionInv

\* A Claude session answers the process that asked, or nobody.
LEMMA ClaudeAnswersStep ==
  ASSUME SessionInv, NEW a \in Asks, ClaudeAnswers(a)
  PROVE  SessionInv'
<1>1. /\ client = "claude" /\ Ready(a) /\ thread' = [thread EXCEPT ![a] = "done"]
      /\ UNCHANGED <<client, mode, record, session, call>>
      /\ control' = [control EXCEPT ![a[2]] = 0]
  BY DEF ClaudeAnswers
<1>2. control' \in [Ids -> 0..MaxLaunches]
  <2>1. control \in [Ids -> 0..MaxLaunches] /\ 0 \in 0..MaxLaunches
    BY RowFields DEF SessionInv, Typed
  <2> QED BY <1>1, <2>1
<1>3. Alive(Addressee(a)[1]) => Addressee(a) = a
  <2>1. ~(0 \in Gens)
    BY DEF Gens
  <2> QED BY <2>1 DEF Addressee, Alive
<1>4. \/ UNCHANGED agent /\ \E x : (client = "claude" => x = a) /\ Tells(x, Said(a))
      \/ UNCHANGED told /\ \E g \in Gens : Alive(g) /\ agent' = Ended(g)
      \/ UNCHANGED <<agent, told>>
  <2>1. CASE Alive(Addressee(a)[1]) /\ Tells(Addressee(a), Said(a)) /\ UNCHANGED agent
    BY <1>3, <2>1
  <2>2. CASE Alive(Addressee(a)[1]) /\ agent' = Ended(a[1]) /\ UNCHANGED told
    <3>1. Alive(a[1]) /\ a[1] \in Gens
      BY <1>3, <2>2, AskParts
    <3> QED BY <2>2, <3>1
  <2> QED BY <2>1, <2>2 DEF ClaudeAnswers
<1> QED BY <1>1, <1>2, <1>4, AnswersStep

\* A Codex session answers whatever process it has by now.
LEMMA CodexAnswersStep ==
  ASSUME SessionInv, NEW a \in Asks, CodexAnswers(a)
  PROVE  SessionInv'
<1>1. /\ client = "codex" /\ Ready(a) /\ thread' = [thread EXCEPT ![a] = "done"]
      /\ UNCHANGED <<client, mode, record, session, call, control>>
  BY DEF CodexAnswers
<1>2. control' \in [Ids -> 0..MaxLaunches]
  BY <1>1 DEF SessionInv, Typed
<1>3. client # "claude"
  BY <1>1
<1>4. \/ UNCHANGED agent /\ \E x : (client = "claude" => x = a) /\ Tells(x, Said(a))
      \/ UNCHANGED told /\ \E g \in Gens : Alive(g) /\ agent' = Ended(g)
      \/ UNCHANGED <<agent, told>>
  <2>1. CASE Tells(<<session.gen, a[2]>>, Said(a)) /\ UNCHANGED agent
    BY <1>3, <2>1
  <2>2. CASE Alive(session.gen) /\ agent' = Ended(session.gen) /\ UNCHANGED told
    BY <2>2 DEF Alive
  <2> QED BY <2>1, <2>2 DEF CodexAnswers
<1> QED BY <1>1, <1>2, <1>4, AnswersStep

-----------------------------------------------------------------------------
(* The theorems.                                                           *)

\* A session that has not started.
LEMMA SessionStarts ==
  ASSUME SessionInit
  PROVE  SessionInv
<1>1. /\ record = [a \in Asks |-> "none"] /\ thread = [a \in Asks |-> "none"]
      /\ told = [a \in Asks |-> "unasked"] /\ control = [i \in Ids |-> 0]
      /\ call = [c \in Callers |-> Idle]
      /\ session = [state |-> "created", busy |-> FALSE, gen |-> 0, ready |-> FALSE,
                    turn |-> FALSE, turns |-> 0]
      /\ agent = [g \in Gens |-> [process |-> "none", out |-> <<>>, inbox |-> <<>>, open |-> 0]]
  BY DEF SessionInit, BrokerInit
<1>2. <<client, mode>> \in Kinds /\ mode \in Modes
  <2>1. PICK k \in Kinds : client = k[1] /\ mode = k[2]
    BY DEF SessionInit
  <2>2. k = <<k[1], k[2]>> /\ k[2] \in Modes
    BY SessionAssumption
  <2> QED BY <2>1, <2>2
<1>3. BrokerTypeOK
  BY <1>1, <1>2 DEF BrokerTypeOK, Stages
<1>4. session \in SessionRow
  <2>1. 0 \in 0..MaxLaunches /\ 0 \in 0..MaxTurns
    BY SessionAssumption
  <2> QED BY <1>1, <2>1 DEF SessionRow
<1>5. agent \in [Gens -> ProcessRow]
  <2>1. <<>> \in Seq(Letter) /\ 0 \in Nat
    OBVIOUS
  <2> QED BY <1>1, <2>1 DEF ProcessRow
<1>6. call \in [Callers -> CallRow]
  BY <1>1, IdleRow
<1>7. control \in [Ids -> 0..MaxLaunches]
  <2>1. 0 \in 0..MaxLaunches
    BY SessionAssumption
  <2> QED BY <1>1, <2>1
<1>8. Typed
  BY <1>1, <1>2, <1>3, <1>4, <1>5, <1>6, <1>7 DEF Typed
<1>9. Limited
  <2>1. Pending = {} /\ AtWork = {}
    BY <1>1 DEF Pending, AtWork
  <2>2. IsFiniteSet({}) /\ Cardinality({}) = 0 /\ MaxPending \in Nat /\ Slots \in Nat
    BY FS_EmptySet, BrokerAssumption, SlotsAssumption
  <2> QED BY <2>1, <2>2 DEF Limited
<1>10. Processes
  BY <1>1 DEF Processes, RowOK, OnceEach
<1>11. Turns
  <2>1. \A c \in Callers : call[c].at = "idle"
    BY <1>1, IdleRow
  <2>2. \A g \in Gens : agent[g].inbox = <<>> /\ agent[g].open = 0 /\ agent[g].process = "none"
    BY <1>1
  <2> QED BY <2>1, <2>2 DEF Turns
<1>12. Asked
  BY <1>1 DEF Asked, AsksIn
<1>13. \A a \in Asks : ThreadOK(a)
  BY <1>1 DEF ThreadOK, Allows
<1> QED BY <1>8, <1>9, <1>10, <1>11, <1>12, <1>13 DEF SessionInv

\* Every step of the process, the operator, the callers, the readers, the
\* watchers and the threads.
LEMMA SessionSteps ==
  ASSUME SessionInv, [SessionNext]_allVars
  PROVE  SessionInv'
<1>1. CASE Outside
  BY <1>1, AsksForStep, WithdrawsStep, FinishesStep, DiesStep, ServesStep, ResolvesAskStep DEF Outside
<1>2. ASSUME NEW c \in Callers, Commands(c)
      PROVE  SessionInv'
  BY <1>2, CommandSteps, ClaudeSubmitsStep DEF Commands, ClaudeCalls, CodexCalls
<1>3. ASSUME NEW c \in Callers, Proceeds(c)
      PROVE  SessionInv'
  BY <1>3, CancelsOneStep, MarksStep, KillsStep, CommandSteps, LaunchesStep, SendsStep,
     SucceedsStep, FailsStep
     DEF Proceeds, CodexReturns
<1>4. ASSUME NEW g \in Gens, ReaderStep(g) \/ Watch(g)
      PROVE  SessionInv'
  BY <1>4, ReadsDoneStep, ClaudeReadsAskStep, ClaudeReadsWithdrawalStep, CodexReadsReplyStep,
     CodexReadsAskStep, WatchStep
     DEF ReaderStep, ClaudeReads, CodexReads
<1>5. ASSUME NEW a \in Asks, ThreadStep(a)
      PROVE  SessionInv'
  BY <1>5, EntersStep, ClaudeAnswersStep, CodexAnswersStep DEF ThreadStep, ClaudeThread, CodexThread
<1>6. CASE UNCHANGED allVars
  <2>1. UNCHANGED <<client, brokerVars, session, agent, told, control, call>> /\ SameCalls
    BY <1>6 DEF allVars, sessionVars, SameCalls
  <2>2. NoReplies'
    BY <2>1, CallsStay
  <2>3. Processes' /\ Turns'
    BY <2>1, <2>2, AgentStays
  <2>4. session' \in SessionRow /\ agent' \in [Gens -> ProcessRow] /\ call' \in [Callers -> CallRow]
    BY <2>1 DEF SessionInv, Typed
  <2> QED BY <2>1, <2>3, <2>4, QuietStep
<1> QED BY <1>1, <1>2, <1>3, <1>4, <1>5, <1>6 DEF SessionNext

\* The inductive invariant of a session.
THEOREM SessionInvariant == SessionSpec => []SessionInv
<1>1. SessionInit => SessionInv
  BY SessionStarts
<1>2. SessionInv /\ [SessionNext]_allVars => SessionInv'
  BY SessionSteps
<1> QED BY <1>1, <1>2, PTL DEF SessionSpec

\* The session, its processes and its callers keep their types; no more
\* requests wait than the broker admits, and no more threads of a Claude
\* session answer than it has slots.
THEOREM SessionTypes == SessionSpec => []SessionTypeOK
<1>1. SessionInv => SessionTypeOK
  <2> SUFFICES ASSUME SessionInv PROVE SessionTypeOK
    OBVIOUS
  <2>1. /\ BrokerTypeOK /\ <<client, mode>> \in Kinds /\ session \in SessionRow
        /\ told \in [Asks -> {"unasked", "asked", "withdrawn"} \cup Decisions]
        /\ control \in [Ids -> 0..MaxLaunches]
    BY DEF SessionInv, Typed
  <2>2. /\ \A g \in Gens : agent[g].process \in {"none", "alive", "dead", "reaped"}
        /\ \A c \in Callers : call[c].at \in {"idle", "launch", "send", "wait", "cancel", "kill"}
    BY DEF SessionInv, Typed, ProcessRow, CallRow
  <2> QED BY <2>1, <2>2 DEF SessionInv, Limited, SessionTypeOK, SessionRow
<1> QED BY <1>1, SessionInvariant, PTL

\* A Claude process that was allowed something was allowed it by the decision
\* on its own request.
THEOREM Home == SessionSpec => []AnswersGoHome
<1>1. SessionInv => AnswersGoHome
  BY DEF SessionInv, ThreadOK, Granted, AnswersGoHome, AnswersAreOnesOwn
<1> QED BY <1>1, SessionInvariant, PTL

\* A Claude process never has a second turn before it has finished the first.
THEOREM TurnsApart == SessionSpec => []TurnsDoNotOverlap
<1>1. SessionInv => TurnsDoNotOverlap
  BY DEF SessionInv, Turns, TurnsDoNotOverlap
<1> QED BY <1>1, SessionInvariant, PTL

-----------------------------------------------------------------------------
(* One process, unless a launch is late.                                   *)

\* No process begins to live, and the session keeps its place.
Fewer == \A g : Alive(g)' => Alive(g)

SameWay(c) == call'[c].at = call[c].at /\ call'[c].op = call[c].op /\ call'[c].gen = call[c].gen

\* What a step has to show in which no process is launched.
LEMMA LoneKept ==
  ASSUME SessionInv, LoneInv, Fewer, session'.gen = session.gen,
         session'.state \in {session.state, "running", "stopping"} \/ EndsAreReal',
         \A c \in Callers : SameWay(c) \/ Launches(c)'
  PROVE  StaysLone
<1>1. EndsAreReal'
  BY DEF LoneInv, EndsAreReal, Fewer
<1>2. OneProcess => OneProcess'
  BY <1>1 DEF OneProcess, EndsAreReal, Fewer
<1>3. \A c \in Callers : Launches(c)'
  BY DEF LoneInv, Launches, SameWay, Fewer
<1> QED BY <1>1, <1>2, <1>3 DEF LoneInv, StaysLone

\* Processes that are where they were, or have ended.
LEMMA FewerAlive ==
  ASSUME Typed,
         \/ UNCHANGED agent
         \/ \A g \in Gens : agent'[g].process = agent[g].process
         \/ \E g : agent' = Ended(g)
  PROVE  Fewer
<1>1. agent \in [Gens -> ProcessRow]
  BY DEF Typed
<1>2. CASE UNCHANGED agent
  BY <1>2 DEF Fewer, Alive
<1>3. CASE \A g \in Gens : agent'[g].process = agent[g].process
  BY <1>3 DEF Fewer, Alive
<1>4. CASE \E g : agent' = Ended(g)
  <2>1. PICK g : agent' = Ended(g)
    BY <1>4
  <2>2. \A h \in Gens : agent'[h].process \in {agent[h].process, "dead"}
    <3>1. CASE g \in Gens
      <4>1. PICK p : p = [[[agent[g] EXCEPT !.process = "dead"] EXCEPT !.inbox = <<>>] EXCEPT !.open = 0]
        OBVIOUS
      <4>2. agent' = [agent EXCEPT ![g] = p]
        BY <1>1, <2>1, <3>1, <4>1 DEF Ended
      <4>3. p.process = "dead"
        BY <1>1, <3>1, <4>1 DEF ProcessRow
      <4> QED BY <1>1, <4>2, <4>3
    <3>2. CASE g \notin Gens
      BY <1>1, <2>1, <3>2 DEF Ended
    <3> QED BY <3>1, <3>2
  <2> QED BY <2>2 DEF Fewer, Alive
<1> QED BY <1>2, <1>3, <1>4

\* Steps of the processes, the operator, the readers and the threads, which
\* leave the session and the callers where they are.
LEMMA OthersLone ==
  ASSUME SessionInv, LoneInv,
         \/ Outside
         \/ \E g \in Gens : ReaderStep(g)
         \/ \E a \in Asks : ThreadStep(a)
  PROVE  StaysLone
<1>1. /\ Typed /\ agent \in [Gens -> ProcessRow] /\ call \in [Callers -> CallRow]
      /\ session \in SessionRow
  BY DEF SessionInv, Typed
<1>2. ASSUME UNCHANGED call, session' = session \/ \E b \in BOOLEAN : session' = [session EXCEPT !.busy = b, !.turn = b],
             Fewer
      PROVE  StaysLone
  <2>1. session'.gen = session.gen /\ session'.state = session.state
    BY <1>1, <1>2 DEF SessionRow
  <2>2. \A c \in Callers : SameWay(c)
    BY <1>2 DEF SameWay
  <2> QED BY <1>2, <2>1, <2>2, LoneKept
<1>3. CASE Outside
  <2>1. UNCHANGED <<session, call>>
    BY <1>3 DEF Outside, AsksFor, Withdraws, Finishes, Dies, Serves, ResolvesAsk, sessionVars
  <2>2. \/ UNCHANGED agent
        \/ \A g \in Gens : agent'[g].process = agent[g].process
        \/ \E g : agent' = Ended(g)
    <3>1. ASSUME NEW g \in Gens, NEW i \in Ids, AsksFor(g, i) \/ Withdraws(g, i)
          PROVE  \A h \in Gens : agent'[h].process = agent[h].process
      <4>1. PICK out : agent' = [agent EXCEPT ![g].out = out]
        BY <3>1 DEF AsksFor, Withdraws
      <4> QED BY <1>1, <4>1 DEF ProcessRow
    <3>2. ASSUME NEW g \in Gens, Finishes(g)
          PROVE  \A h \in Gens : agent'[h].process = agent[h].process
      <4>1. PICK out, open : agent' = [agent EXCEPT ![g].out = out, ![g].open = open]
        BY <1>1, <3>2 DEF Finishes
      <4> QED BY <1>1, <4>1 DEF ProcessRow
    <3>3. ASSUME NEW g \in Gens, Serves(g)
          PROVE  \A h \in Gens : agent'[h].process = agent[h].process
      <4>1. PICK request : request = Head(agent[g].inbox)
        OBVIOUS
      <4>2. CASE agent' = [agent EXCEPT
                    ![g].inbox = Tail(@),
                    ![g].out   = IF request.of = 0 THEN @ ELSE Append(@, Message("result", request.of)),
                    ![g].open  = IF request.what = "submit" THEN @ + 1 ELSE @]
        <5>1. PICK inbox, out, open :
                agent' = [agent EXCEPT ![g].inbox = inbox, ![g].out = out, ![g].open = open]
          BY <1>1, <4>2
        <5> QED BY <1>1, <5>1 DEF ProcessRow
      <4>3. CASE agent' = [agent EXCEPT
                    ![g].inbox = Tail(@),
                    ![g].out   = IF request.of = 0 THEN @ ELSE Append(@, Message("error", request.of))]
        <5>1. PICK inbox, out : agent' = [agent EXCEPT ![g].inbox = inbox, ![g].out = out]
          BY <1>1, <4>3
        <5> QED BY <1>1, <5>1 DEF ProcessRow
      <4> QED BY <3>3, <4>1, <4>2, <4>3 DEF Serves
    <3> QED BY <1>3, <3>1, <3>2, <3>3 DEF Outside, Dies, ResolvesAsk, sessionVars
  <2> QED BY <1>1, <1>2, <2>1, <2>2, FewerAlive
<1>4. ASSUME NEW g \in Gens, ReaderStep(g)
      PROVE  StaysLone
  <2>1. Fewer
    <3>1. ReadsOne(g)
      BY <1>4 DEF ReaderStep, ReadsDone, ClaudeReads, ClaudeReadsAsk, ClaudeReadsWithdrawal,
                  CodexReads, CodexReadsReply, CodexReadsAsk
    <3>2. \A h \in Gens : agent'[h].process = agent[h].process
      BY <1>1, <3>1 DEF ReadsOne, ProcessRow
    <3> QED BY <1>1, <3>2, FewerAlive
  <2>2. CASE ReadsDone(g)
    <3>1. UNCHANGED call /\ (session' = session \/ session' = [session EXCEPT !.busy = FALSE, !.turn = FALSE])
      BY <2>2 DEF ReadsDone
    <3> QED BY <1>2, <2>1, <3>1
  <2>3. CASE CodexReadsReply(g)
    <3>1. UNCHANGED session
      BY <2>3 DEF CodexReadsReply
    <3>2. PICK d, what : call' = [call EXCEPT ![d].reply = what]
      BY <2>3 DEF CodexReadsReply
    <3>3. \A c \in Callers : SameWay(c)
      BY <1>1, <3>2 DEF SameWay, CallRow
    <3> QED BY <2>1, <3>1, <3>3, LoneKept
  <2>4. CASE ClaudeReads(g) \/ CodexReadsAsk(g)
    <3>1. UNCHANGED <<session, call>>
      BY <2>4 DEF ClaudeReads, ClaudeReadsAsk, ClaudeReadsWithdrawal, CodexReadsAsk, StartsAsk
    <3> QED BY <1>2, <2>1, <3>1
  <2> QED BY <1>4, <2>2, <2>3, <2>4 DEF ReaderStep, CodexReads
<1>5. ASSUME NEW a \in Asks, ThreadStep(a)
      PROVE  StaysLone
  <2>1. UNCHANGED <<session, call>>
    BY <1>5 DEF ThreadStep, LosesPatience, ClaudeThread, ClaudeEnters, ClaudeAnswers,
                CodexThread, CodexEnters, CodexAnswers, sessionVars
  <2>2. UNCHANGED agent \/ \E g : agent' = Ended(g)
    BY <1>5 DEF ThreadStep, LosesPatience, ClaudeThread, ClaudeEnters, ClaudeAnswers,
                CodexThread, CodexEnters, CodexAnswers, sessionVars
  <2> QED BY <1>1, <1>2, <2>1, <2>2, FewerAlive
<1> QED BY <1>3, <1>4, <1>5

\* The next step of a caller, when the others stand where they stood.
LEMMA LoneMoves ==
  ASSUME SessionInv, LoneInv, NEW c \in Callers, Moved(c), Launches(c)', Fewer,
         session'.gen = session.gen,
         session'.state \in {session.state, "running", "stopping"} \/ EndsAreReal'
  PROVE  StaysLone
<1>1. \A d \in Callers : SameWay(d) \/ Launches(d)'
  BY DEF Moved, SameWay
<1> QED BY <1>1, LoneKept

\* The caller is not about to launch, and saw no later generation than before.
LEMMA NotLaunching ==
  ASSUME Typed, LoneInv, NEW c \in Callers, session'.gen \in {session.gen, session.gen + 1},
         call'[c].at # "launch", call'[c].gen \in {0, session.gen, call[c].gen}
  PROVE  Launches(c)'
<1>1. session.gen \in Nat /\ call[c].gen \in Nat /\ call[c].gen <= session.gen
  BY RowFields, SessionAssumption DEF Typed, CallRow, LoneInv, Launches
<1> QED BY <1>1 DEF Launches

\* A method begins.
LEMMA CommandsLone ==
  ASSUME SessionInv, LoneInv, NEW c \in Callers, Commands(c)
  PROVE  StaysLone
<1>1. /\ Typed /\ agent \in [Gens -> ProcessRow] /\ call \in [Callers -> CallRow]
      /\ session \in SessionRow /\ session.gen \in 0..MaxLaunches /\ 0 \in 0..MaxLaunches
  BY RowFields DEF SessionInv, Typed
<1>2. {"start", "resume", "fork", "submit", "interrupt", "stop"} \subseteq Methods
  BY DEF Methods
<1>3. UNCHANGED agent => Fewer
  BY <1>1, FewerAlive
<1>4. CASE Start(c) \/ Resume(c)
  <2>1. PICK op \in {"start", "resume"} : Goes(c, op, "launch", session.gen)
    BY <1>4 DEF Start, Resume
  <2>2. Moved(c) /\ call'[c].at = "launch" /\ call'[c].gen = session.gen
    BY <1>1, <1>2, <2>1, GoesMoves
  <2>3. UNCHANGED <<session, agent>>
    BY <1>4 DEF Start, Resume
  <2>4. session.state \notin {"running", "stopping"}
    BY <1>4 DEF Start, Resume, Terminal
  <2>5. ~Alive(session.gen)'
    BY <2>3, <2>4 DEF LoneInv, EndsAreReal, Alive
  <2>6. Launches(c)'
    BY <1>1, <2>2, <2>3, <2>5, SessionAssumption DEF Launches
  <2> QED BY <1>3, <2>2, <2>3, <2>6, LoneMoves
<1>5. CASE Stop(c)
  <2>1. Moved(c) /\ call'[c].at = "cancel" /\ call'[c].gen = 0 /\ UNCHANGED <<session, agent>>
    BY <1>1, <1>5, StoppingMoves DEF Stop
  <2> QED BY <1>1, <1>3, <2>1, NotLaunching, LoneMoves
<1>6. CASE ClaudeInterrupts(c)
  <2>1. Moved(c) /\ call'[c].at = "kill" /\ call'[c].gen = session.gen
    BY <1>1, <1>2, <1>6, GoesMoves DEF ClaudeInterrupts
  <2>2. session'.gen = session.gen /\ session'.state = "stopping" /\ UNCHANGED agent
    BY <1>1, <1>6 DEF ClaudeInterrupts, SessionRow
  <2> QED BY <1>1, <1>3, <2>1, <2>2, NotLaunching, LoneMoves
<1>7. CASE Forks(c)
  <2>1. Moved(c) /\ call'[c].at = "kill" /\ call'[c].gen = session.gen
    BY <1>1, <1>2, <1>7, GoesMoves DEF Forks
  <2>2. session'.gen = session.gen /\ session'.state \in {session.state, "stopping"} /\ UNCHANGED agent
    BY <1>1, <1>7 DEF Forks, SessionRow
  <2> QED BY <1>1, <1>3, <2>1, <2>2, NotLaunching, LoneMoves
<1>8. CASE CodexInterrupts(c)
  <2>1. Moved(c) /\ call'[c].at = "send" /\ call'[c].gen = 0 /\ UNCHANGED <<session, agent>>
    BY <1>1, <1>2, <1>8, GoesMoves DEF CodexInterrupts
  <2> QED BY <1>1, <1>3, <2>1, NotLaunching, LoneMoves
<1>9. CASE CodexSubmits(c)
  <2>1. Moved(c) /\ call'[c].at = "send" /\ call'[c].gen = 0 /\ UNCHANGED agent
    BY <1>1, <1>2, <1>9, GoesMoves DEF CodexSubmits
  <2>2. session'.gen = session.gen /\ session'.state = session.state
    BY <1>1, <1>9 DEF CodexSubmits, SessionRow
  <2> QED BY <1>1, <1>3, <2>1, <2>2, NotLaunching, LoneMoves
<1>10. CASE ClaudeSubmits(c)
  <2>1. session'.gen = session.gen /\ session'.state = session.state /\ UNCHANGED call
    BY <1>1, <1>10 DEF ClaudeSubmits, SessionRow
  <2>2. \A g \in Gens : agent'[g].process = agent[g].process
    <3>1. PICK open : agent' = [agent EXCEPT ![session.gen].open = open]
      BY <1>10 DEF ClaudeSubmits
    <3> QED BY <1>1, <3>1 DEF ProcessRow
  <2>3. Fewer /\ \A d \in Callers : SameWay(d)
    BY <1>1, <2>1, <2>2, FewerAlive DEF SameWay
  <2> QED BY <2>1, <2>3, LoneKept
<1> QED BY <1>4, <1>5, <1>6, <1>7, <1>8, <1>9, <1>10 DEF Commands, ClaudeCalls, CodexCalls

\* A method goes on without launching.
LEMMA ProceedsLone ==
  ASSUME SessionInv, LoneInv, NEW c \in Callers,
         \/ CancelsOne(c) \/ Marks(c) \/ Kills(c) \/ LaunchFails(c)
         \/ Sends(c) \/ Succeeds(c) \/ Fails(c)
  PROVE  StaysLone
<1>1. /\ Typed /\ agent \in [Gens -> ProcessRow] /\ call \in [Callers -> CallRow]
      /\ session \in SessionRow /\ session.gen \in 0..MaxLaunches /\ 0 \in 0..MaxLaunches
      /\ {"fork", "stop"} \subseteq Methods
  BY RowFields DEF SessionInv, Typed, Methods
<1>2. UNCHANGED agent => Fewer
  BY <1>1, FewerAlive
<1>3. CASE CancelsOne(c)
  <2>1. PICK left : call' = [call EXCEPT ![c].left = left]
    BY <1>3 DEF CancelsOne
  <2>2. \A d \in Callers : SameWay(d)
    BY <1>1, <2>1 DEF SameWay, CallRow
  <2>3. UNCHANGED <<session, agent>>
    BY <1>3 DEF CancelsOne
  <2> QED BY <1>2, <2>2, <2>3, LoneKept
<1>4. CASE Marks(c)
  <2>1. UNCHANGED agent
    BY <1>4 DEF Marks
  <2>2. CASE session.state \in Terminal \/ session.gen = 0
    <3>1. Moved(c) /\ call'[c].at = "idle" /\ call'[c].gen = 0
      BY <1>1, <1>4, <2>2, ReturnsMoves DEF Marks
    <3>2. session'.gen = session.gen
      BY <1>1, <1>4, <2>2 DEF Marks, SessionRow
    <3>3. session'.state = session.state \/ EndsAreReal'
      <4>1. CASE session.gen = 0
        <5>1. 0 \notin Gens
          BY DEF Gens
        <5> QED BY <3>2, <4>1, <5>1 DEF EndsAreReal, Alive
      <4>2. CASE session.gen # 0
        BY <1>4, <2>2, <4>2 DEF Marks
      <4> QED BY <4>1, <4>2
    <3> QED BY <1>1, <1>2, <2>1, <3>1, <3>2, <3>3, NotLaunching, LoneMoves
  <2>3. CASE ~(session.state \in Terminal \/ session.gen = 0)
    <3>1. Moved(c) /\ call'[c].at = "kill" /\ call'[c].gen = session.gen
      BY <1>1, <1>4, <2>3, GoesMoves DEF Marks
    <3>2. session'.gen = session.gen /\ session'.state = "stopping"
      BY <1>1, <1>4, <2>3 DEF Marks, SessionRow
    <3> QED BY <1>1, <1>2, <2>1, <3>1, <3>2, NotLaunching, LoneMoves
  <2> QED BY <2>2, <2>3
<1>5. CASE Kills(c)
  <2>1. UNCHANGED session /\ call[c].at = "kill"
    BY <1>5 DEF Kills
  <2>2. Fewer
    BY <1>1, <1>5, FewerAlive DEF Kills
  <2>3. CASE call[c].op # "fork"
    <3>1. Moved(c) /\ call'[c].at = "idle" /\ call'[c].gen = 0
      BY <1>1, <1>5, <2>3, ReturnsMoves DEF Kills
    <3> QED BY <1>1, <2>1, <2>2, <3>1, NotLaunching, LoneMoves
  <2>4. CASE call[c].op = "fork"
    <3>1. call[c].gen \in 0..MaxLaunches /\ call[c].gen <= session.gen
      BY <1>1 DEF CallRow, LoneInv, Launches
    <3>2. Moved(c) /\ call'[c].at = "launch" /\ call'[c].gen = call[c].gen
      BY <1>1, <1>5, <2>4, <3>1, GoesMoves DEF Kills
    <3>3. ~Alive(call[c].gen)'
      <4> SUFFICES ASSUME Alive(call[c].gen)' PROVE FALSE
        OBVIOUS
      <4> DEFINE g == call[c].gen
      <4>1. g \in Gens /\ Alive(g)
        BY <2>2, <3>2 DEF Fewer, Alive
      <4>2. agent' = Ended(g)
        BY <1>5, <4>1 DEF Kills
      <4> HIDE DEF g
      <4>3. agent'[g].process = "dead"
        <5>1. PICK p : p = [[[agent[g] EXCEPT !.process = "dead"] EXCEPT !.inbox = <<>>] EXCEPT !.open = 0]
          OBVIOUS
        <5>2. agent' = [agent EXCEPT ![g] = p]
          BY <1>1, <4>2, <5>1 DEF Ended
        <5>3. p.process = "dead"
          BY <1>1, <4>1, <5>1 DEF ProcessRow
        <5> QED BY <1>1, <4>1, <5>2, <5>3
      <4> QED BY <3>2, <4>3 DEF Alive, g
    <3>4. Launches(c)'
      BY <2>1, <3>1, <3>2, <3>3 DEF Launches, Alive
    <3> QED BY <2>1, <2>2, <3>2, <3>4, LoneMoves
  <2> QED BY <2>3, <2>4
<1>6. CASE LaunchFails(c)
  <2>1. Moved(c) /\ call'[c].at \in {"cancel", "idle"} /\ call'[c].gen = 0 /\ UNCHANGED <<session, agent>>
    BY <1>1, <1>6, StoppingMoves, ReturnsMoves DEF LaunchFails
  <2> QED BY <1>1, <1>2, <2>1, NotLaunching, LoneMoves
<1>7. CASE Sends(c)
  <2>1. UNCHANGED session /\ call' = [call EXCEPT ![c].at = "wait"]
    BY <1>7 DEF Sends
  <2>2. \A g \in Gens : agent'[g].process = agent[g].process
    <3>1. PICK inbox : agent' = [agent EXCEPT ![session.gen].inbox = inbox]
      BY <1>7 DEF Sends
    <3> QED BY <1>1, <3>1 DEF ProcessRow
  <2>3. call'[c].at = "wait" /\ call'[c].gen = call[c].gen /\ \A d \in Callers \ {c} : SameWay(d)
    BY <1>1, <2>1 DEF SameWay, CallRow
  <2>4. Fewer /\ Launches(c)'
    BY <1>1, <2>1, <2>2, <2>3, FewerAlive, NotLaunching
  <2> QED BY <2>1, <2>3, <2>4, LoneKept
<1>8. CASE Succeeds(c)
  <2>1. Moved(c) /\ call'[c].at = "idle" /\ call'[c].gen = 0 /\ UNCHANGED agent
    BY <1>1, <1>8, ReturnsMoves DEF Succeeds
  <2>2. session'.gen = session.gen /\ session'.state = session.state
    <3>1. PICK r, t : session' = [session EXCEPT !.ready = r, !.turn = t]
      BY <1>8 DEF Succeeds
    <3> QED BY <1>1, <3>1 DEF SessionRow
  <2> QED BY <1>1, <1>2, <2>1, <2>2, NotLaunching, LoneMoves
<1>9. CASE Fails(c)
  <2>1. Moved(c) /\ call'[c].at \in {"cancel", "idle"} /\ call'[c].gen = 0
    BY <1>1, <1>9, StoppingMoves, ReturnsMoves DEF Fails
  <2>2. session'.gen = session.gen /\ session'.state = session.state
    <3>1. PICK b : session' = [session EXCEPT !.busy = b]
      BY <1>9 DEF Fails
    <3> QED BY <1>1, <3>1 DEF SessionRow
  <2>3. \A g \in Gens : agent'[g].process = agent[g].process
    <3>1. TAKE g \in Gens
    <3>2. PICK i, o : i = Disowned(c, agent[g].inbox) /\ o = Unread(c, agent[g].out)
      OBVIOUS
    <3>3. agent'[g] = [[agent[g] EXCEPT !.inbox = i] EXCEPT !.out = o]
      BY <1>1, <1>9, <3>2 DEF Fails, ProcessRow
    <3> QED BY <1>1, <3>3 DEF ProcessRow
  <2>4. Fewer
    BY <1>1, <2>3, FewerAlive
  <2> QED BY <1>1, <2>1, <2>2, <2>4, NotLaunching, LoneMoves
<1> QED BY <1>3, <1>4, <1>5, <1>6, <1>7, <1>8, <1>9

\* What a launch does: unless another one has overtaken it, no process but the
\* new one is alive.
LEMMA LaunchesLone ==
  ASSUME SessionInv, LoneInv, NEW c \in Callers,
         ClaudeLaunches(c) \/ CodexLaunches(c)
  PROVE  LoneInv' /\ (OneProcess => OneProcess' \/ LaunchesLate(c))
<1>1. /\ Typed /\ Spawns(c) /\ call[c] \in CallRow /\ session.gen \in 0..MaxLaunches
      /\ call[c].at = "launch"
  BY RowFields DEF SessionInv, Typed, ClaudeLaunches, CodexLaunches, Spawns
<1>2. Moved(c) /\ call'[c].at \in {"idle", "send"} /\ call'[c].gen = 0
  <2>1. CASE ClaudeLaunches(c)
    BY <1>1, <2>1, ReturnsMoves DEF ClaudeLaunches
  <2>2. CASE CodexLaunches(c)
    <3>1. call[c].op \in Methods /\ 0 \in 0..MaxLaunches
      BY <1>1, RowFields DEF CallRow
    <3> QED BY <1>1, <2>2, <3>1, GoesMoves DEF CodexLaunches
  <2> QED BY <2>1, <2>2
<1>3. /\ session'.gen = session.gen + 1 /\ session'.state = "running"
      /\ session.gen \in Nat /\ \A h \in Gens \ {session.gen + 1} : agent'[h] = agent[h]
  BY <1>1, SpawnsProcess, SessionAssumption
<1>4. ASSUME OneProcess, ~LaunchesLate(c)
      PROVE  OneProcess'
  <2>1. call[c].gen = session.gen
    BY <1>1, <1>2, <1>3, <1>4 DEF LaunchesLate
  <2>2. ~Alive(session.gen)
    BY <1>1, <2>1 DEF LoneInv, Launches
  <2> SUFFICES ASSUME NEW g \in Gens, Alive(g)'
               PROVE  g = session'.gen /\ session'.state \in {"running", "stopping"}
    BY DEF OneProcess
  <2>3. g = session.gen + 1
    BY <1>3, <1>4, <2>2 DEF OneProcess, Alive
  <2> QED BY <1>3, <2>3
<1>5. \A d \in Callers : Launches(d)'
  <2>1. Launches(c)'
    BY <1>1, <1>2, <1>3, NotLaunching
  <2>2. ASSUME NEW d \in Callers \ {c}
        PROVE  Launches(d)'
    <3>1. call'[d] = call[d]
      BY <1>2 DEF Moved
    <3>2. call[d].gen \in Nat /\ call[d].gen <= session.gen
      BY <1>1, SessionAssumption DEF LoneInv, Launches, Typed, CallRow
    <3> QED BY <1>3, <3>1, <3>2 DEF Launches
  <2> QED BY <2>1, <2>2
<1> QED BY <1>3, <1>4, <1>5 DEF LoneInv, EndsAreReal

\* The end of the current process ends the session, that of an earlier one
\* changes nothing.
LEMMA WatchLone ==
  ASSUME SessionInv, LoneInv, NEW g \in Gens, Watch(g)
  PROVE  StaysLone
<1>1. /\ agent \in [Gens -> ProcessRow] /\ call \in [Callers -> CallRow]
      /\ session \in SessionRow /\ agent[g].process = "dead"
  BY DEF SessionInv, Typed, Watch
<1>2. \A h \in Gens : agent'[h].process = IF h = g THEN "reaped" ELSE agent[h].process
  BY <1>1 DEF Watch, ProcessRow
<1>3. Fewer
  BY <1>2 DEF Fewer, Alive
<1>4. CASE g = session.gen
  <2>1. session' = [session EXCEPT !.state = IF @ = "stopping" THEN "stopped" ELSE "ended", !.busy = FALSE]
    BY <1>4 DEF Watch
  <2>2. session'.gen = session.gen
    BY <1>1, <2>1 DEF SessionRow
  <2>3. EndsAreReal'
    BY <1>2, <1>4, <2>2 DEF EndsAreReal, Alive
  <2>4. \A c \in Callers : SameWay(c)
    <3>1. call' = [c \in Callers |-> IF call[c].at = "wait" THEN [call[c] EXCEPT !.reply = "error"] ELSE call[c]]
      BY <1>4 DEF Watch
    <3>2. \A c \in Callers :
            LET row == [call[c] EXCEPT !.reply = "error"]
            IN  row.at = call[c].at /\ row.op = call[c].op /\ row.gen = call[c].gen
      BY <1>1 DEF CallRow
    <3> QED BY <3>1, <3>2 DEF SameWay
  <2> QED BY <1>3, <2>2, <2>3, <2>4, LoneKept
<1>5. CASE g # session.gen
  <2>1. UNCHANGED <<session, call>>
    BY <1>5 DEF Watch
  <2>2. \A c \in Callers : SameWay(c)
    BY <2>1 DEF SameWay
  <2> QED BY <1>3, <2>1, <2>2, LoneKept
<1> QED BY <1>4, <1>5

\* Every step.
LEMMA LoneSteps ==
  ASSUME SessionInv, LoneInv, [SessionNext]_allVars
  PROVE  /\ LoneInv'
         /\ OneProcess /\ ~OneProcess' => \E c \in Callers : LaunchesLate(c)
<1>1. ASSUME NEW c \in Callers, ClaudeLaunches(c) \/ CodexLaunches(c)
      PROVE  /\ LoneInv'
             /\ OneProcess /\ ~OneProcess' => LaunchesLate(c)
  BY <1>1, LaunchesLone
<1>2. ASSUME NEW c \in Callers, Proceeds(c), ~ClaudeLaunches(c), ~CodexLaunches(c)
      PROVE  StaysLone
  BY <1>2, ProceedsLone DEF Proceeds, CodexReturns
<1>3. CASE UNCHANGED allVars
  <2>1. UNCHANGED <<session, agent, call>> /\ Typed
    BY <1>3 DEF allVars, sessionVars, SessionInv
  <2>2. Fewer /\ \A c \in Callers : SameWay(c)
    BY <2>1, FewerAlive DEF SameWay
  <2> QED BY <2>1, <2>2, LoneKept DEF StaysLone
<1>4. ASSUME NEW c \in Callers, Commands(c) \/ Proceeds(c),
             ~ClaudeLaunches(c), ~CodexLaunches(c)
      PROVE  StaysLone
  BY <1>2, <1>4, CommandsLone
<1>5. ASSUME Outside \/ (\E g \in Gens : ReaderStep(g)) \/ (\E a \in Asks : ThreadStep(a))
      PROVE  StaysLone
  BY <1>5, OthersLone
<1>6. ASSUME NEW g \in Gens, Watch(g)
      PROVE  StaysLone
  BY <1>6, WatchLone
<1>7. CASE SessionNext
  <2>1. CASE \E c \in Callers : Commands(c) \/ Proceeds(c)
    <3>1. PICK c \in Callers : Commands(c) \/ Proceeds(c)
      BY <2>1
    <3>2. CASE ClaudeLaunches(c) \/ CodexLaunches(c)
      BY <1>1, <3>2 DEF StaysLone
    <3>3. CASE ~ClaudeLaunches(c) /\ ~CodexLaunches(c)
      <4>1. StaysLone
        BY <1>4, <3>1, <3>3
      <4> QED BY <4>1 DEF StaysLone
    <3> QED BY <3>2, <3>3
  <2>2. CASE ~\E c \in Callers : Commands(c) \/ Proceeds(c)
    <3>1. StaysLone
      BY <1>5, <1>6, <1>7, <2>2 DEF SessionNext
    <3> QED BY <3>1 DEF StaysLone
  <2> QED BY <2>1, <2>2
<1> QED BY <1>3, <1>7 DEF StaysLone

\* However many threads launch, a process comes to live beside another one, or
\* beyond the end of the session, only by a launch that another one has
\* overtaken since its check.
THEOREM LateLaunches == SessionSpec => OrphansNeedRace
<1>1. SessionInit => LoneInv
  <2> SUFFICES ASSUME SessionInit PROVE LoneInv
    OBVIOUS
  <2>1. session.gen = 0 /\ ~Alive(session.gen)
    BY DEF SessionInit, Alive, Gens
  <2>2. \A c \in Callers : call[c].at = "idle" /\ call[c].gen = 0
    BY IdleRow DEF SessionInit
  <2> QED BY <2>1, <2>2 DEF LoneInv, EndsAreReal, Launches
<1>2. SessionInv /\ LoneInv /\ [SessionNext]_allVars =>
        LoneInv' /\ [OneProcess /\ ~OneProcess' => \E c \in Callers : LaunchesLate(c)]_allVars
  BY LoneSteps
<1> QED BY <1>1, <1>2, SessionInvariant, PTL DEF SessionSpec, OrphansNeedRace
=============================================================================
