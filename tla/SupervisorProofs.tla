-------------------------- MODULE SupervisorProofs --------------------------
(***************************************************************************)
(* Proofs about MailboxSupervisor.tla: whatever raises, is given up, is    *)
(* lost or dies, the supervisor's slots are those of calls that are still  *)
(* there, a live claim has its worker unless it was let go of, and no      *)
(* provider that may have been reached is asked again.                     *)
(*                                                                         *)
(* A step of the supervisor is a step of the mailbox, of which BoxStep     *)
(* tells all that its threads rely on, and a step of one of its threads.   *)
(***************************************************************************)
EXTENDS MailboxSupervisor, DispatchProofs

(***************************************************************************)
(* The mailbox a supervisor works on.                                      *)
(***************************************************************************)
\* A routed message is addressed to the agent of its route.
Owned(message) == message.route # NoRoute => RouteAgent[message.route] = message.to

\* A dispatch row belongs to the recipient of a routed message, and if anyone
\* holds it the session the supervisor has for that route does.
RowAligned(key) ==
  /\ msgs[key[1]].route \in Routes
  /\ key[2] = msgs[key[1]].to
  /\ dispatches[key].holder \in {NoSession, Bridge[msgs[key[1]].route]}

BoxInv ==
  /\ MailInv
  /\ \A m \in DOMAIN msgs : Owned(msgs[m])
  /\ \A key \in DOMAIN dispatches : RowAligned(key)

\* A claim that counts: a supervisor that is still there holds its lease.
Live(key) ==
  /\ dispatches[key].status = "claimed"
  /\ dispatches[key].left > 0
  /\ dispatches[key].holder # NoSession

(***************************************************************************)
(* The threads.                                                            *)
(***************************************************************************)
CycleTyped ==
  /\ cycle \in Cycle
  /\ work \in [Messages -> Job]
  /\ \A m \in Messages : work[m].at = "none" => work[m].attempt = 0
  /\ safe \subseteq Messages /\ dropped \subseteq Messages
  /\ admitted \subseteq Messages \X (1..MaxAttempts) /\ Cardinality(admitted) <= Slots

\* A row that waits to be retried is one whose last attempt may be repeated.
RetrySafe(key) == dispatches[key].status = "retryable" => key[1] \in safe

\* A live claim has its worker, unless the supervisor has let go of it.
Served(key) ==
  Live(key) =>
    \/ work[key[1]].at \notin {"none", "done"} /\ work[key[1]].attempt = dispatches[key].attempt
    \/ key[1] \in dropped

\* A message that is planned can be claimed by the session of its route.
Planned(m) == m \in DOMAIN msgs /\ msgs[m].route \in Routes

\* A job is about an attempt that has been claimed; until its call starts no
\* earlier call has its slot; and it asks for a retry only of what is safe.
JobOK(m) ==
  /\ Planned(m)
  /\ work[m].attempt \in 1..Attempt(m)
  /\ work[m].at \in {"denied", "claimed"} => Slot(m) \notin strays
  /\ work[m].retry => m \in safe

\* A runner that is still there belongs to an attempt that has been claimed.
StrayOK(call) ==
  /\ call = <<call[1], call[2]>>
  /\ call[1] \in DOMAIN msgs
  /\ call[2] \in 1..Attempt(call[1])

\* Where the jobs are, given where the cycle is.
Phases ==
  /\ cycle.at \notin {"claiming", "working"} => Jobs = {}
  /\ cycle.at = "claiming" =>
       \A m \in Jobs :
         /\ m \notin cycle.plan
         /\ \/ work[m].at = "denied" /\ m \in cycle.denied
            \/ work[m].at = "claimed" /\ cycle.denied = {}
  /\ cycle.at = "working" => \A m \in Jobs : work[m].at \notin {"denied", "claimed"}
  /\ cycle.plan \cap cycle.denied = {}

\* The calls that hold a slot for a job.
Held == {Slot(m) : m \in {n \in Jobs : work[n].at # "denied"}}

ThreadInv ==
  /\ CycleTyped
  /\ Phases
  /\ admitted = strays \cup Held
  /\ \A m \in cycle.plan \cup cycle.denied : Planned(m)
  /\ \A m \in Jobs : JobOK(m)
  /\ \A call \in strays : StrayOK(call)
  /\ \A key \in DOMAIN dispatches : RetrySafe(key) /\ Served(key)

SupInv == BoxInv /\ ThreadInv

-----------------------------------------------------------------------------
(* The mailbox.                                                            *)

\* What the threads rely on in a step of the mailbox.
BoxStep ==
  /\ MailStep
  /\ BoxInv'
  /\ \A m \in DOMAIN msgs : Attempt(m) <= Attempt(m)'

\* What happens to a row: no attempt is taken back.
KeyStep(key) ==
  /\ RowAligned(key)'
  /\ key \in DOMAIN dispatches => dispatches[key].attempt <= dispatches'[key].attempt

\* A row that becomes neither a live claim nor one to be retried.
Fades(key) ==
  /\ Live(key)' =>
       /\ key \in DOMAIN dispatches /\ Live(key)
       /\ dispatches'[key].attempt = dispatches[key].attempt
  /\ dispatches'[key].status = "retryable" =>
       key \in DOMAIN dispatches /\ dispatches[key].status = "retryable"

AllFade == \A key \in DOMAIN dispatches' : Fades(key)
OthersFade(m) == \A key \in DOMAIN dispatches' : key[1] # m => Fades(key)

\* A step of the mailbox in which every row does as KeyStep says.
LEMMA BoxSteps ==
  ASSUME BoxInv, MailStep, \A m \in DOMAIN msgs' : Owned(msgs'[m]),
         DOMAIN dispatches \subseteq DOMAIN dispatches',
         \A key \in DOMAIN dispatches' : KeyStep(key)
  PROVE  BoxStep
<1>1. BoxInv'
  BY DEF BoxInv, MailStep, KeyStep
<1>2. ASSUME NEW m \in DOMAIN msgs
      PROVE  Attempt(m) <= Attempt(m)'
  <2>1. msgs'[m] = msgs[m]
    BY DEF MailStep, Grows
  <2>2. CASE <<m, msgs[m].to>> \in DOMAIN dispatches
    <3>1. dispatches[<<m, msgs[m].to>>].attempt <= dispatches'[<<m, msgs[m].to>>].attempt
      BY <2>2 DEF KeyStep
    <3> QED BY <2>1, <2>2, <3>1 DEF Attempt, Row
  <2>3. CASE <<m, msgs[m].to>> \notin DOMAIN dispatches
    <3>1. Attempt(m) = 0
      BY <2>3 DEF Attempt, Row, NoDispatch
    <3>2. Attempt(m)' \in Nat
      <4>1. CASE <<m, msgs[m].to>> \in DOMAIN dispatches'
        <5>1. dispatches'[<<m, msgs[m].to>>] \in DispatchRow
          BY <4>1 DEF MailStep, MailInv, MailTypeOK
        <5> QED BY <4>1, <5>1, <2>1, MailboxAssumption DEF Attempt, Row, DispatchRow
      <4>2. CASE <<m, msgs[m].to>> \notin DOMAIN dispatches'
        BY <4>2, <2>1 DEF Attempt, Row, NoDispatch
      <4> QED BY <4>1, <4>2
    <3> QED BY <3>1, <3>2
  <2> QED BY <2>2, <2>3
<1> QED BY <1>1, <1>2 DEF BoxStep

\* A row that is not touched.
LEMMA KeySame ==
  ASSUME BoxInv, Grows, NEW key \in DOMAIN dispatches, dispatches'[key] = dispatches[key]
  PROVE  KeyStep(key) /\ Fades(key)
<1>1. RowAligned(key) /\ key[1] \in DOMAIN msgs /\ dispatches[key] \in DispatchRow
  BY DEF BoxInv, MailInv, RowOK, MailTypeOK
<1>2. msgs'[key[1]] = msgs[key[1]]
  BY <1>1 DEF Grows
<1>3. RowAligned(key)'
  BY <1>1, <1>2 DEF RowAligned
<1>4. dispatches[key].attempt <= dispatches'[key].attempt
  BY <1>1, MailboxAssumption DEF DispatchRow
<1> QED BY <1>3, <1>4 DEF KeyStep, Fades, Live

\* The messages of before, and one or none that has no route or a right one.
LEMMA OwnedStay ==
  ASSUME BoxInv, UNCHANGED msgs
  PROVE  \A m \in DOMAIN msgs' : Owned(msgs'[m])
  BY DEF BoxInv

\* A step that changes no row.
LEMMA RowsIdle ==
  ASSUME BoxInv, MailStep, UNCHANGED dispatches, \A m \in DOMAIN msgs' : Owned(msgs'[m])
  PROVE  BoxStep /\ AllFade
<1>1. \A key \in DOMAIN dispatches : KeyStep(key) /\ Fades(key)
  BY KeySame DEF MailStep
<1> QED BY <1>1, BoxSteps DEF AllFade

\* A step in which the mailbox takes no part.
LEMMA MailIdle ==
  ASSUME BoxInv, UNCHANGED mailVars
  PROVE  BoxStep /\ AllFade
<1>1. MailStep
  BY MailStutter DEF BoxInv, mailVars
<1> QED BY <1>1, RowsIdle, OwnedStay DEF mailVars

\* A message that is added keeps the others.
LEMMA OwnedAppend ==
  ASSUME BoxInv, NEW new \in Message, msgs' = Append(msgs, new), Owned(new)
  PROVE  \A m \in DOMAIN msgs' : Owned(msgs'[m])
<1>1. msgs \in Seq(Message) /\ DOMAIN msgs = 1..Len(msgs) /\ Len(msgs) \in Nat
  BY LenProperties DEF BoxInv, MailInv, MailTypeOK
<1>2. /\ msgs' \in Seq(Message) /\ Len(msgs') = Len(msgs) + 1
      /\ \A m \in 1..Len(msgs) : msgs'[m] = msgs[m]
      /\ msgs'[Len(msgs) + 1] = new
  BY <1>1, AppendProperties
<1>3. DOMAIN msgs' = 1..Len(msgs')
  BY <1>2, LenProperties
<1> QED BY <1>1, <1>2, <1>3 DEF BoxInv

\* send_message.
LEMMA SendBox ==
  ASSUME BoxInv, NEW s \in Sessions, NEW to \in Agents \cup {Everyone},
         NEW r \in Routes \cup {NoRoute}, SendMessage(s, to, r, 0)
  PROVE  BoxStep /\ AllFade
<1> DEFINE new == [sender |-> AgentOf[s], to |-> to, route |-> r, parent |-> 0,
                   disc |-> 0, round |-> 0, role |-> "none", text |-> NoText]
<1>1. MailStep
  BY SendStep DEF BoxInv
<1>2. new \in Message /\ Owned(new) /\ msgs' = Append(msgs, new)
  BY MailboxAssumption DEF Message, Owned, SendMessage
<1>3. \A m \in DOMAIN msgs' : Owned(msgs'[m])
  <2> HIDE DEF new
  <2> QED BY <1>2, OwnedAppend
<1> QED BY <1>1, <1>3, RowsIdle DEF SendMessage

\* ack_message.
LEMMA AckBox ==
  ASSUME BoxInv, NEW s \in Sessions, NEW m, AckMessage(s, m)
  PROVE  BoxStep /\ AllFade
  BY AckStep, RowsIdle, OwnedStay DEF BoxInv, AckMessage

\* record_trusted_inference_receipt.
LEMMA ReceiptBox ==
  ASSUME BoxInv, NEW s \in Sessions, NEW m \in DOMAIN msgs, NEW k \in 1..MaxAttempts,
         RecordReceipt(s, m, k)
  PROVE  BoxStep /\ AllFade
  BY ReceiptStep, RowsIdle, OwnedStay DEF BoxInv, RecordReceipt

\* The session of a routed message's route runs as its recipient.
LEMMA BridgeOfMessage ==
  ASSUME BoxInv, NEW m, Planned(m)
  PROVE  /\ Bridged(m) \in Sessions /\ Bridged(m) # NoSession
         /\ AgentOf[Bridged(m)] = msgs[m].to
         /\ msgs[m].to \in Agents /\ m \in Messages
<1>1. msgs[m].route \in Routes /\ m \in DOMAIN msgs /\ Owned(msgs[m]) /\ m \in Messages
  BY LogDomain DEF Planned, BoxInv, MailInv
<1>2. msgs[m].route # NoRoute
  BY <1>1, MailboxAssumption
<1>3. RouteAgent[msgs[m].route] = msgs[m].to
  BY <1>1, <1>2 DEF Owned
<1>4. /\ Bridged(m) \in Sessions
      /\ AgentOf[Bridged(m)] = RouteAgent[msgs[m].route]
  BY <1>1, SupervisorAssumption DEF Bridged
<1> QED BY <1>1, <1>3, <1>4, MailboxAssumption

\* The one row of a message.
LEMMA OneRow ==
  ASSUME BoxInv, NEW key \in DOMAIN dispatches
  PROVE  /\ key = <<key[1], msgs[key[1]].to>>
         /\ Planned(key[1])
         /\ Attempt(key[1]) = dispatches[key].attempt
         /\ dispatches[key] \in DispatchRow
         /\ dispatches[key].holder \in {NoSession, Bridged(key[1])}
<1>1. RowAligned(key) /\ RowOK(key) /\ key \in Messages \X Agents /\ dispatches[key] \in DispatchRow
  BY DEF BoxInv, MailInv, MailTypeOK
<1>2. key = <<key[1], msgs[key[1]].to>>
  BY <1>1 DEF RowAligned
<1>3. Attempt(key[1]) = dispatches[key].attempt
  BY <1>2 DEF Attempt, Row
<1> QED BY <1>1, <1>2, <1>3 DEF RowAligned, RowOK, Planned, Bridged

\* A step that changes rows only, each as KeyStep says.
LEMMA RowsBox ==
  ASSUME BoxInv, MailStep, UNCHANGED msgs,
         DOMAIN dispatches \subseteq DOMAIN dispatches',
         \A key \in DOMAIN dispatches' : KeyStep(key)
  PROVE  BoxStep
  BY BoxSteps, OwnedStay

\* claim_message_dispatch for a planned message: its row is that of the next
\* attempt, and only then if it could be claimed.
LEMMA ClaimBox ==
  ASSUME BoxInv, NEW m, Planned(m), ClaimDispatch(Bridged(m), m, LeaseTime, 0)
  PROVE  /\ BoxStep /\ OthersFade(m)
         /\ Attempt(m)' = Attempt(m) + 1
         /\ Attempt(m) + 1 \in 1..MaxAttempts
         /\ \A key \in DOMAIN dispatches' : key[1] = m =>
              /\ dispatches'[key].status = "claimed"
              /\ dispatches'[key].attempt = Attempt(m) + 1
<1> DEFINE key == <<m, msgs[m].to>>
           k   == Attempt(m) + 1
<1>1. /\ Bridged(m) \in Sessions /\ Bridged(m) # NoSession
      /\ AgentOf[Bridged(m)] = msgs[m].to /\ msgs[m].to \in Agents /\ m \in Messages
  BY BridgeOfMessage
<1>2. LeaseTime \in LeaseLengths /\ 0 \in 0..LockWait
  BY MailboxAssumption, SupervisorAssumption
<1>3. MailStep /\ UNCHANGED msgs
  BY <1>1, <1>2, ClaimStep DEF BoxInv, ClaimDispatch
<1>4. /\ Attempt(m) < MaxAttempts
      /\ DOMAIN dispatches' = DOMAIN dispatches \cup {key}
      /\ dispatches'[key] = [status |-> "claimed", holder |-> Bridged(m), attempt |-> k,
                             left |-> LeaseTime - 0, reply |-> 0]
      /\ \A other \in DOMAIN dispatches : other # key => dispatches'[other] = dispatches[other]
  BY <1>1 DEF ClaimDispatch, Attempt
<1>5. Attempt(m) \in 0..MaxAttempts
  BY <1>1, RowTyped DEF BoxInv, MailInv, Attempt
<1>6. /\ dispatches'[key].holder = Bridged(m) /\ dispatches'[key].attempt = k
      /\ dispatches'[key].status = "claimed"
  BY <1>4
<1>7. KeyStep(key)
  <2>1. RowAligned(key)'
    BY <1>3, <1>6 DEF RowAligned, Planned, Bridged
  <2>2. key \in DOMAIN dispatches => dispatches[key].attempt = Attempt(m)
    BY DEF Attempt, Row
  <2> HIDE DEF key
  <2> QED BY <1>5, <1>6, <2>1, <2>2 DEF KeyStep
<1>8. ASSUME NEW other \in DOMAIN dispatches', other # key
      PROVE  KeyStep(other) /\ Fades(other) /\ other[1] # m
  <2>1. other \in DOMAIN dispatches
    BY <1>4, <1>8
  <2>2. other[1] # m
    BY <2>1, <1>8, OneRow
  <2> QED BY <1>3, <1>4, <1>8, <2>1, <2>2, KeySame DEF MailStep
<1>9. \A other \in DOMAIN dispatches' : KeyStep(other)
  BY <1>7, <1>8
<1>10. BoxStep
  BY <1>3, <1>4, <1>9, RowsBox
<1>11. Attempt(m)' = k
  BY <1>3, <1>4, <1>6 DEF Attempt, Row
<1>12. OthersFade(m)
  BY <1>8 DEF OthersFade
<1>13. k \in 1..MaxAttempts
  BY <1>4, <1>5, MailboxAssumption
<1> HIDE DEF k
<1>14. \A other \in DOMAIN dispatches' : other[1] = m => other = key
  BY <1>8
<1> QED BY <1>6, <1>10, <1>11, <1>12, <1>13, <1>14 DEF k

\* A step that changes no row but the one of m.
OnlyRowOf(m) ==
  /\ DOMAIN dispatches' = DOMAIN dispatches
  /\ \A key \in DOMAIN dispatches : key # <<m, msgs[m].to>> => dispatches'[key] = dispatches[key]

\* Whatever turns the row a session holds leaves the other rows alone.
LEMMA HeldBox ==
  ASSUME BoxInv, NEW m, Planned(m), NEW n, HoldsDispatch(Bridged(m), m, n),
         MailStep, \A i \in DOMAIN msgs' : Owned(msgs'[i]),
         OnlyRowOf(m),
         \A key \in DOMAIN dispatches : key[1] = m =>
           /\ dispatches'[key].holder \in {NoSession, Bridged(m)}
           /\ dispatches'[key].attempt = n
  PROVE  /\ BoxStep /\ OthersFade(m)
         /\ \A key \in DOMAIN dispatches' : key[1] = m =>
              /\ key \in DOMAIN dispatches /\ key = <<m, msgs[m].to>>
              /\ dispatches[key].status = "claimed" /\ dispatches[key].left > 0
              /\ dispatches[key].holder = Bridged(m)
              /\ dispatches[key].attempt = n
         /\ Attempt(m) = n
<1> DEFINE key == <<m, msgs[m].to>>
<1>1. /\ Bridged(m) \in Sessions /\ Bridged(m) # NoSession
      /\ AgentOf[Bridged(m)] = msgs[m].to /\ msgs[m].to \in Agents /\ m \in DOMAIN msgs
  BY BridgeOfMessage DEF Planned
<1>2. /\ key \in DOMAIN dispatches
      /\ dispatches[key].status = "claimed" /\ dispatches[key].left > 0
      /\ dispatches[key].holder = Bridged(m) /\ dispatches[key].attempt = n
  BY <1>1 DEF HoldsDispatch, Row, NoDispatch
<1>3. /\ DOMAIN dispatches' = DOMAIN dispatches
      /\ dispatches'[key].holder \in {NoSession, Bridged(m)}
      /\ dispatches'[key].attempt = n
      /\ \A other \in DOMAIN dispatches : other # key => dispatches'[other] = dispatches[other]
  BY <1>1, <1>2 DEF OnlyRowOf
<1>4. n \in Int
  BY <1>2, OneRow, MailboxAssumption DEF DispatchRow
<1>5. KeyStep(key)
  <2>1. msgs'[m] = msgs[m]
    BY <1>1 DEF MailStep, Grows
  <2>2. RowAligned(key)'
    BY <1>3, <2>1 DEF RowAligned, Planned, Bridged
  <2> HIDE DEF key
  <2> QED BY <1>2, <1>3, <1>4, <2>2 DEF KeyStep
<1>6. ASSUME NEW other \in DOMAIN dispatches', other # key
      PROVE  KeyStep(other) /\ Fades(other) /\ other[1] # m
  <2>1. other \in DOMAIN dispatches
    BY <1>3, <1>6
  <2>2. other[1] # m
    BY <2>1, <1>6, OneRow
  <2> QED BY <1>3, <1>6, <2>1, <2>2, KeySame DEF MailStep
<1>7. \A other \in DOMAIN dispatches' : KeyStep(other)
  BY <1>5, <1>6
<1>8. BoxStep
  BY <1>3, <1>7, BoxSteps
<1>9. OthersFade(m)
  BY <1>6 DEF OthersFade
<1>10. Attempt(m) = n
  BY <1>2 DEF Attempt, Row
<1>11. \A other \in DOMAIN dispatches' : other[1] = m => other = key
  BY <1>6
<1>12. key = <<m, msgs[m].to>>
  OBVIOUS
<1> HIDE DEF key
<1> QED BY <1>2, <1>3, <1>8, <1>9, <1>10, <1>11, <1>12

\* renew_message_dispatch: the claim stays the one it was.
LEMMA RenewBox ==
  ASSUME BoxInv, NEW m, Planned(m), NEW k, RenewDispatch(Bridged(m), m, k, LeaseTime)
  PROVE  BoxStep /\ AllFade
<1> DEFINE key == <<m, AgentOf[Bridged(m)]>>
<1>1. /\ Bridged(m) \in Sessions /\ Bridged(m) # NoSession
      /\ AgentOf[Bridged(m)] = msgs[m].to
      /\ LeaseTime \in LeaseLengths
  BY BridgeOfMessage, SupervisorAssumption
<1>2. MailStep /\ UNCHANGED msgs /\ HoldsDispatch(Bridged(m), m, k)
  BY <1>1, RenewStep DEF BoxInv, RenewDispatch
<1>3. /\ key \in DOMAIN dispatches /\ dispatches[key] \in DispatchRow
      /\ dispatches[key].status = "claimed" /\ dispatches[key].attempt = k
  BY <1>1, <1>2, HeldRow DEF BoxInv
<1>4. dispatches[key].holder = Bridged(m)
  BY <1>2, <1>3 DEF HoldsDispatch, Row
<1>5. dispatches'[key] = [dispatches[key] EXCEPT !.left = LeaseTime]
  BY <1>3 DEF RenewDispatch
<1>6. /\ dispatches'[key].holder = Bridged(m) /\ dispatches'[key].attempt = k
      /\ dispatches'[key].status = "claimed"
  BY <1>3, <1>4, <1>5 DEF DispatchRow
<1>7. OnlyRowOf(m)
  BY <1>1 DEF RenewDispatch, OnlyRowOf
<1>8. ASSUME NEW other \in DOMAIN dispatches, other[1] = m
      PROVE  other = key
  BY <1>1, <1>8, OneRow
<1>9. /\ BoxStep /\ OthersFade(m)
      /\ \A other \in DOMAIN dispatches' : other[1] = m =>
           /\ other \in DOMAIN dispatches
           /\ dispatches[other].status = "claimed" /\ dispatches[other].left > 0
           /\ dispatches[other].holder = Bridged(m)
           /\ dispatches[other].attempt = k
  <2> HIDE DEF key
  <2> QED BY <1>2, <1>6, <1>7, <1>8, OwnedStay, HeldBox
<1>10. ASSUME NEW other \in DOMAIN dispatches'
       PROVE  Fades(other)
  <2> HIDE DEF key
  <2>1. CASE other[1] = m
    BY <2>1, <1>1, <1>6, <1>8, <1>9 DEF Fades, Live
  <2> QED BY <2>1, <1>9 DEF OthersFade
<1> QED BY <1>9, <1>10 DEF AllFade

\* fail_message_dispatch: the claim is gone.
LEMMA FailBox ==
  ASSUME BoxInv, NEW m, Planned(m), NEW k, NEW status, NEW wait,
         FailDispatch(Bridged(m), m, k, status, wait)
  PROVE  /\ BoxStep /\ OthersFade(m)
         /\ \A key \in DOMAIN dispatches' : key[1] = m =>
              dispatches'[key].status = status /\ status \in {"failed", "retryable"}
<1> DEFINE key == <<m, AgentOf[Bridged(m)]>>
<1>1. Bridged(m) \in Sessions /\ AgentOf[Bridged(m)] = msgs[m].to
  BY BridgeOfMessage
<1>2. MailStep /\ UNCHANGED msgs /\ HoldsDispatch(Bridged(m), m, k)
  BY <1>1, FailStep DEF BoxInv, FailDispatch
<1>3. key \in DOMAIN dispatches /\ dispatches[key].attempt = k
  BY <1>1, <1>2, HeldRow DEF BoxInv
<1>4. /\ dispatches'[key].holder = NoSession /\ dispatches'[key].attempt = k
      /\ dispatches'[key].status = status
  BY <1>3 DEF FailDispatch, Taken
<1>5. OnlyRowOf(m) /\ status \in {"failed", "retryable"}
  BY <1>1 DEF FailDispatch, OnlyRowOf
<1>6. ASSUME NEW other \in DOMAIN dispatches, other[1] = m
      PROVE  other = key
  BY <1>1, <1>6, OneRow
<1> HIDE DEF key
<1>7. /\ BoxStep /\ OthersFade(m)
      /\ \A other \in DOMAIN dispatches' : other[1] = m => other \in DOMAIN dispatches
  BY <1>2, <1>4, <1>5, <1>6, OwnedStay, HeldBox
<1> QED BY <1>4, <1>5, <1>6, <1>7

\* complete_message_dispatch: the claim is settled.
LEMMA CompleteBox ==
  ASSUME BoxInv, NEW m, Planned(m), NEW k, NEW text \in Texts,
         CompleteDispatch(Bridged(m), m, k, text)
  PROVE  /\ BoxStep /\ AllFade
         /\ \A key \in DOMAIN dispatches' : key[1] = m => dispatches'[key].status = "completed"
<1> DEFINE key == <<m, AgentOf[Bridged(m)]>>
           new == Reply(m, AgentOf[Bridged(m)], text)
<1>1. Bridged(m) \in Sessions /\ AgentOf[Bridged(m)] = msgs[m].to
  BY BridgeOfMessage
<1>2. MailStep
  BY <1>1, CompleteStep DEF BoxInv
<1>3. HoldsDispatch(Bridged(m), m, k) /\ msgs' = Append(msgs, new)
  BY DEF CompleteDispatch
<1>4. key \in DOMAIN dispatches
  BY <1>1, <1>3, HeldRow DEF BoxInv
<1>5. /\ dispatches'[key].holder = Bridged(m) /\ dispatches'[key].attempt = k
      /\ dispatches'[key].status = "completed"
  BY <1>4 DEF CompleteDispatch
<1>6. \A i \in DOMAIN msgs' : Owned(msgs'[i])
  <2>1. msgs \in Seq(Message) /\ msgs' \in Seq(Message)
    BY <1>2 DEF BoxInv, MailInv, MailTypeOK, MailStep, Grows
  <2>2. Owned(new)
    BY DEF Reply, Owned
  <2> HIDE DEF new
  <2>3. \A i \in DOMAIN msgs' : (i \in DOMAIN msgs /\ msgs'[i] = msgs[i]) \/ msgs'[i] = new
    BY <1>3, <2>1
  <2> QED BY <2>2, <2>3 DEF BoxInv
<1>7. OnlyRowOf(m)
  BY <1>1 DEF CompleteDispatch, OnlyRowOf
<1>8. ASSUME NEW other \in DOMAIN dispatches, other[1] = m
      PROVE  other = key
  BY <1>1, <1>8, OneRow
<1> HIDE DEF key, new
<1>9. /\ BoxStep /\ OthersFade(m)
      /\ \A other \in DOMAIN dispatches' : other[1] = m => other \in DOMAIN dispatches
  BY <1>2, <1>3, <1>5, <1>6, <1>7, <1>8, HeldBox
<1>10. ASSUME NEW other \in DOMAIN dispatches'
       PROVE  Fades(other)
  <2>1. CASE other[1] = m
    BY <2>1, <1>5, <1>8, <1>9 DEF Fades, Live
  <2> QED BY <2>1, <1>9 DEF OthersFade
<1> QED BY <1>5, <1>8, <1>9, <1>10 DEF AllFade

\* reconcile_message_dispatches: what is settled is held by nobody.
LEMMA ReconcileBox ==
  ASSUME BoxInv, NEW unserved, Reconcile(unserved, 0)
  PROVE  BoxStep /\ AllFade
<1> DEFINE settled == {m \in Unsettled : Hopeless(m, unserved, 0)}
           added   == {<<m, msgs[m].to>> : m \in settled}
<1>1. MailStep /\ UNCHANGED msgs
  <2>1. 0 \in 0..LockWait
    BY MailboxAssumption
  <2> QED BY <2>1, ReconcileStep DEF BoxInv, Reconcile
<1>2. dispatches' = [key \in DOMAIN dispatches \cup added |->
                       IF key[1] \in settled /\ key[2] = msgs[key[1]].to
                       THEN Taken(Row(key[1], key[2]), "failed", 0) ELSE dispatches[key]]
  BY DEF Reconcile
<1>3. ASSUME NEW key \in DOMAIN dispatches'
      PROVE  KeyStep(key) /\ Fades(key)
  <2>1. key \in DOMAIN dispatches \cup added
    BY <1>2
  <2>2. CASE key[1] \in settled /\ key[2] = msgs[key[1]].to
    <3>1. dispatches'[key] = Taken(Row(key[1], key[2]), "failed", 0)
      BY <1>2, <2>1, <2>2
    <3>2. /\ dispatches'[key].status = "failed" /\ dispatches'[key].holder = NoSession
          /\ dispatches'[key].attempt = Row(key[1], key[2]).attempt
      BY <3>1 DEF Taken
    <3>3. msgs[key[1]].route \in Routes
      <4>1. key[1] \in DOMAIN msgs /\ msgs[key[1]].route # NoRoute /\ msgs[key[1]] \in Message
        BY <2>2, LogDomain DEF Unsettled, BoxInv, MailInv
      <4> QED BY <4>1 DEF Message
    <3>4. RowAligned(key)'
      BY <1>1, <2>2, <3>2, <3>3 DEF RowAligned
    <3>5. key \in DOMAIN dispatches => dispatches[key].attempt <= dispatches'[key].attempt
      <4>1. SUFFICES ASSUME key \in DOMAIN dispatches
                     PROVE  dispatches[key].attempt <= dispatches'[key].attempt
        OBVIOUS
      <4>2. key = <<key[1], msgs[key[1]].to>> /\ dispatches[key] \in DispatchRow
        BY <4>1, OneRow
      <4>3. Row(key[1], key[2]) = dispatches[key]
        BY <4>1, <4>2, <2>2 DEF Row
      <4> QED BY <3>2, <4>2, <4>3, MailboxAssumption DEF DispatchRow
    <3> QED BY <3>2, <3>4, <3>5 DEF KeyStep, Fades, Live
  <2>3. CASE ~(key[1] \in settled /\ key[2] = msgs[key[1]].to)
    <3>1. key \in DOMAIN dispatches
      BY <2>1, <2>3
    <3>2. dispatches'[key] = dispatches[key]
      BY <1>2, <2>1, <2>3
    <3> QED BY <1>1, <3>1, <3>2, KeySame DEF MailStep
  <2> QED BY <2>2, <2>3
<1>4. DOMAIN dispatches \subseteq DOMAIN dispatches'
  BY <1>2
<1> QED BY <1>1, <1>3, <1>4, RowsBox DEF AllFade

\* Time passes, or the process that holds rows ends.
LEMMA PassBox ==
  ASSUME BoxInv, MailStep, UNCHANGED msgs, DOMAIN dispatches' = DOMAIN dispatches,
         \A key \in DOMAIN dispatches :
           /\ dispatches'[key].status = dispatches[key].status
           /\ dispatches'[key].attempt = dispatches[key].attempt
           /\ dispatches'[key].holder \in {dispatches[key].holder, NoSession}
           /\ dispatches'[key].left > 0 => dispatches[key].left > 0
  PROVE  BoxStep /\ AllFade
<1>1. ASSUME NEW key \in DOMAIN dispatches'
      PROVE  KeyStep(key) /\ Fades(key)
  <2>1. key \in DOMAIN dispatches /\ RowAligned(key) /\ dispatches[key] \in DispatchRow
    BY OneRow DEF BoxInv
  <2>2. RowAligned(key)'
    BY <2>1 DEF RowAligned
  <2>3. dispatches[key].attempt <= dispatches'[key].attempt
    BY <2>1, MailboxAssumption DEF DispatchRow
  <2> QED BY <2>1, <2>2, <2>3 DEF KeyStep, Fades, Live
<1> QED BY <1>1, RowsBox DEF AllFade

\* Time passes.
LEMMA TickBox ==
  ASSUME BoxInv, Tick
  PROVE  BoxStep /\ AllFade
<1>1. MailStep
  BY TickStep DEF BoxInv
<1>2. ASSUME NEW key \in DOMAIN dispatches
      PROVE  /\ dispatches'[key].status = dispatches[key].status
             /\ dispatches'[key].attempt = dispatches[key].attempt
             /\ dispatches'[key].holder \in {dispatches[key].holder, NoSession}
             /\ dispatches'[key].left > 0 => dispatches[key].left > 0
  <2>1. dispatches[key] \in DispatchRow
    BY OneRow
  <2>2. dispatches'[key] \in {dispatches[key],
                              [dispatches[key] EXCEPT !.left = dispatches[key].left - 1]}
    BY DEF Tick
  <2>3. dispatches[key].left \in Int
    BY <2>1 DEF DispatchRow
  <2> QED BY <2>1, <2>2, <2>3 DEF DispatchRow
<1> QED BY <1>1, <1>2, PassBox DEF Tick

\* The supervisor's process ends: the rows it held are held by nobody.
LEMMA DeathBox ==
  ASSUME BoxInv, Dies
  PROVE  BoxStep /\ AllFade /\ \A key \in DOMAIN dispatches' : ~Live(key)'
<1>1. ASSUME NEW key \in DOMAIN dispatches
      PROVE  /\ dispatches'[key] \in DispatchRow
             /\ dispatches'[key].status = dispatches[key].status
             /\ dispatches'[key].attempt = dispatches[key].attempt
             /\ dispatches'[key].reply = dispatches[key].reply
             /\ dispatches'[key].left = dispatches[key].left
             /\ dispatches'[key].holder = NoSession
  <2>1. dispatches[key] \in DispatchRow /\ dispatches[key].holder \in {NoSession, Bridged(key[1])}
        /\ Planned(key[1])
    BY OneRow
  <2>2. dispatches'[key] = IF dispatches[key].holder \in {Bridge[r] : r \in Routes}
                           THEN [dispatches[key] EXCEPT !.holder = NoSession]
                           ELSE dispatches[key]
    BY DEF Dies
  <2>3. CASE dispatches[key].holder = NoSession
    <3>1. \A r \in Routes : Bridge[r] # NoSession
      BY MailboxAssumption, SupervisorAssumption
    <3> QED BY <2>1, <2>2, <2>3, <3>1
  <2>4. CASE dispatches[key].holder = Bridged(key[1])
    <3>1. dispatches[key].holder \in {Bridge[r] : r \in Routes}
      BY <2>1, <2>4 DEF Bridged, Planned
    <3>2. dispatches'[key] = [dispatches[key] EXCEPT !.holder = NoSession]
      BY <2>2, <3>1
    <3> QED BY <2>1, <3>2 DEF DispatchRow
  <2> QED BY <2>1, <2>3, <2>4
<1>2. DOMAIN dispatches' = DOMAIN dispatches /\ UNCHANGED <<msgs, receipts, cursor, trusted, seats>>
  BY DEF Dies
<1>3. MailStep
  BY <1>1, <1>2, RowsPass DEF BoxInv
<1>4. BoxStep /\ AllFade
  BY <1>1, <1>2, <1>3, PassBox
<1> QED BY <1>1, <1>2, <1>4 DEF Live

(***************************************************************************)
(* The threads.                                                            *)
(***************************************************************************)
\* An attempt is a number up to the budget.
LEMMA AttemptTyped ==
  ASSUME MailInv, NEW m
  PROVE  Attempt(m) \in 0..MaxAttempts
<1>1. CASE msgs[m].to \in Agents
  BY <1>1, RowTyped DEF MailInv, Attempt
<1>2. CASE msgs[m].to \notin Agents
  <2>1. <<m, msgs[m].to>> \notin DOMAIN dispatches
    BY <1>2 DEF MailInv, MailTypeOK
  <2> QED BY <2>1, MailboxAssumption DEF Attempt, Row, NoDispatch
<1> QED BY <1>1, <1>2

\* Messages stay, and their attempts only grow.
LEMMA AttemptGrows ==
  ASSUME BoxInv, BoxStep, NEW m \in DOMAIN msgs
  PROVE  /\ m \in DOMAIN msgs' /\ msgs'[m] = msgs[m] /\ m \in Messages
         /\ Attempt(m) \in 0..MaxAttempts /\ Attempt(m)' \in 0..MaxAttempts
         /\ Attempt(m) <= Attempt(m)'
<1>1. m \in DOMAIN msgs' /\ msgs'[m] = msgs[m] /\ m \in Messages
  BY LogDomain DEF BoxStep, BoxInv, MailInv, MailStep, Grows
<1>2. Attempt(m) \in 0..MaxAttempts
  BY AttemptTyped DEF BoxInv
<1>3. (MailInv => Attempt(m) \in 0..MaxAttempts)'
  BY AttemptTyped, PTL
<1> QED BY <1>1, <1>2, <1>3 DEF BoxStep, MailStep

\* A message that can be claimed stays one.
LEMMA PlannedStays ==
  ASSUME BoxInv, BoxStep, NEW m, Planned(m)
  PROVE  /\ Planned(m)' /\ m \in Messages
         /\ Attempt(m) \in 0..MaxAttempts /\ Attempt(m)' \in 0..MaxAttempts
         /\ Attempt(m) <= Attempt(m)'
  BY AttemptGrows DEF Planned

\* So does a runner that is still there.
LEMMA StrayStays ==
  ASSUME BoxInv, BoxStep, NEW call, StrayOK(call)
  PROVE  StrayOK(call)'
<1>1. PICK m \in DOMAIN msgs : m = call[1] /\ call[2] \in 1..Attempt(m)
  BY DEF StrayOK
<1>2. m \in DOMAIN msgs' /\ call[2] \in 1..Attempt(m)'
  BY <1>1, AttemptGrows, MailboxAssumption
<1> QED BY <1>1, <1>2 DEF StrayOK

\* So does a job of the same attempt.
LEMMA JobStays ==
  ASSUME BoxInv, BoxStep, NEW m, JobOK(m),
         work'[m].attempt = work[m].attempt,
         work'[m].at \in {"denied", "claimed"} => Slot(m) \notin strays',
         work'[m].retry => m \in safe'
  PROVE  JobOK(m)'
<1>1. /\ Planned(m)'
      /\ Attempt(m) \in 0..MaxAttempts /\ Attempt(m)' \in 0..MaxAttempts
      /\ Attempt(m) <= Attempt(m)'
  BY PlannedStays DEF JobOK
<1>2. work'[m].attempt \in 1..Attempt(m)'
  BY <1>1, MailboxAssumption DEF JobOK
<1>3. Slot(m)' = Slot(m)
  BY DEF Slot
<1> QED BY <1>1, <1>2, <1>3 DEF JobOK

\* A claim keeps its worker, and a retry stays safe.
LEMMA KeyStays ==
  ASSUME ThreadInv, NEW key \in DOMAIN dispatches', Fades(key),
         key[1] \in safe => key[1] \in safe',
         key[1] \in dropped => key[1] \in dropped',
         work[key[1]].at \notin {"none", "done"} =>
           \/ /\ work'[key[1]].at \notin {"none", "done"}
              /\ work'[key[1]].attempt = work[key[1]].attempt
           \/ key[1] \in dropped'
  PROVE  RetrySafe(key)' /\ Served(key)'
<1>1. RetrySafe(key)'
  BY DEF ThreadInv, RetrySafe, Fades
<1>2. Served(key)'
  BY DEF ThreadInv, Served, Fades, Live
<1> QED BY <1>1, <1>2

\* What the threads hold, when no thread takes part.
LEMMA QuietThreads ==
  ASSUME BoxInv, ThreadInv, BoxStep, AllFade, UNCHANGED supVars
  PROVE  ThreadInv'
<1> USE DEF supVars
<1>1. CycleTyped' /\ Phases' /\ (admitted = strays \cup Held)'
  BY DEF ThreadInv, CycleTyped, Phases, Held, Jobs, Slot
<1>2. \A m \in cycle'.plan \cup cycle'.denied : Planned(m)'
  BY PlannedStays DEF ThreadInv
<1>3. \A m \in Jobs' : JobOK(m)'
  BY JobStays DEF ThreadInv, Jobs, JobOK
<1>4. \A call \in strays' : StrayOK(call)'
  BY StrayStays DEF ThreadInv
<1>5. \A key \in DOMAIN dispatches' : RetrySafe(key)' /\ Served(key)'
  BY KeyStays DEF AllFade
<1> QED BY <1>1, <1>2, <1>3, <1>4, <1>5 DEF ThreadInv

\* A step of run_cycle that starts, ends or changes no job.
LEMMA CycleMoves ==
  ASSUME BoxInv, ThreadInv, BoxStep, AllFade,
         UNCHANGED <<work, strays, admitted, safe, dropped>>,
         cycle' \in Cycle, Phases',
         \A m \in cycle'.plan \cup cycle'.denied : Planned(m)
  PROVE  ThreadInv'
<1>1. CycleTyped' /\ (admitted = strays \cup Held)'
  BY DEF ThreadInv, CycleTyped, Held, Jobs, Slot
<1>2. \A m \in cycle'.plan \cup cycle'.denied : Planned(m)'
  BY PlannedStays
<1>3. \A m \in Jobs' : JobOK(m)'
  BY JobStays DEF ThreadInv, Jobs, JobOK
<1>4. \A call \in strays' : StrayOK(call)'
  BY StrayStays DEF ThreadInv
<1>5. \A key \in DOMAIN dispatches' : RetrySafe(key)' /\ Served(key)'
  BY KeyStays DEF AllFade
<1> QED BY <1>1, <1>2, <1>3, <1>4, <1>5 DEF ThreadInv

\* The calls that hold a slot are finitely many.
LEMMA AdmittedFinite ==
  ASSUME CycleTyped
  PROVE  /\ IsFiniteSet(admitted) /\ Cardinality(admitted) \in Nat
         /\ \A T \in SUBSET admitted : Cardinality(T) <= Slots
<1>1. IsFiniteSet(1..MaxMessages) /\ IsFiniteSet(1..MaxAttempts)
  BY FS_Interval, MailboxAssumption
<1>2. IsFiniteSet(Messages \X (1..MaxAttempts))
  BY <1>1, FS_Product DEF Messages
<1>3. IsFiniteSet(admitted)
  BY <1>2, FS_Subset DEF CycleTyped
<1>4. Cardinality(admitted) \in Nat
  BY <1>3, FS_CardinalityType
<1>5. ASSUME NEW T \in SUBSET admitted
      PROVE  Cardinality(T) <= Slots
  <2>1. Cardinality(T) <= Cardinality(admitted) /\ Cardinality(T) \in Nat
    BY <1>3, FS_Subset, FS_CardinalityType
  <2> QED BY <1>4, <2>1, SupervisorAssumption DEF CycleTyped
<1> QED BY <1>3, <1>4, <1>5

\* The first message of a set is one of it.
LEMMA FirstOf ==
  ASSUME NEW S \in SUBSET Messages, S # {}
  PROVE  Min(S) \in S
<1>1. \E x \in S : \A y \in S : x <= y
  BY MinExists, MailboxAssumption DEF Messages
<1> QED BY <1>1 DEF Min

\* Two messages have two slots.
LEMMA SlotsDiffer ==
  ASSUME NEW m, NEW n, Slot(m) = Slot(n)
  PROVE  m = n
  BY DEF Slot

\* An exception leaves run_cycle while it claims: the jobs are let go of.
LEMMA RaiseThreads ==
  ASSUME BoxInv, ThreadInv, BoxStep, AllFade,
         cycle.at = "claiming", CycleRaises, UNCHANGED <<strays, safe>>
  PROVE  ThreadInv'
<1> USE DEF CycleRaises
<1>1. Jobs' = {} /\ cycle' = Idle /\ cycle'.at = "idle" /\ cycle'.plan = {} /\ cycle'.denied = {}
  BY DEF Jobs, NoJob, Idle
<1>2. CycleTyped'
  <2>1. work' \in [Messages -> Job] /\ cycle' \in Cycle
    BY MailboxAssumption DEF NoJob, Job, Idle, Cycle
  <2>2. Jobs \subseteq Messages
    BY DEF Jobs
  <2>3. admitted' \in SUBSET admitted
    OBVIOUS
  <2>4. Cardinality(admitted') <= Slots
    BY <2>3, AdmittedFinite DEF ThreadInv
  <2>5. \A n \in Messages : work'[n].at = "none" => work'[n].attempt = 0
    BY DEF NoJob
  <2> QED BY <2>1, <2>2, <2>3, <2>4, <2>5 DEF ThreadInv, CycleTyped
<1>3. Phases'
  BY <1>1 DEF Phases
<1>4. (admitted = strays \cup Held)'
  <2>1. Held' = {}
    BY <1>1 DEF Held
  <2>2. \A m \in Jobs : Slot(m) \notin strays
    BY DEF ThreadInv, JobOK, Phases
  <2>3. Held \subseteq {Slot(m) : m \in Jobs}
    BY DEF Held
  <2> QED BY <2>1, <2>2, <2>3 DEF ThreadInv
<1>5. \A call \in strays' : StrayOK(call)'
  BY StrayStays DEF ThreadInv
<1>6. ASSUME NEW key \in DOMAIN dispatches'
      PROVE  RetrySafe(key)' /\ Served(key)'
  <2>1. key[1] \in Messages
    BY DEF BoxStep, MailStep, MailInv, MailTypeOK, Messages
  <2>2. work[key[1]].at \notin {"none", "done"} => key[1] \in dropped'
    BY <2>1 DEF Jobs
  <2> QED BY <2>2, KeyStays DEF AllFade
<1> QED BY <1>1, <1>2, <1>3, <1>4, <1>5, <1>6 DEF ThreadInv

\* run_cycle claims a message, for a worker or to report that it has no
\* credential: the slot, if it takes one, is not that of an earlier runner.
LEMMA ClaimThreads ==
  ASSUME BoxInv, ThreadInv, cycle.at = "claiming", UNCHANGED strays,
         NEW m, m \notin Jobs, Planned(m), NEW at, ClaimFor(m, at),
         \/ /\ at = "denied" /\ m \in cycle.denied /\ Jobs = {}
            /\ UNCHANGED <<admitted, cycle>>
         \/ /\ at = "claimed" /\ cycle.denied = {}
            /\ admitted' = admitted \cup {<<m, work'[m].attempt>>}
            /\ Cardinality(admitted) < Slots
            /\ cycle' = [cycle EXCEPT !.plan = @ \ {m}]
  PROVE  BoxStep /\ ThreadInv'
<1> DEFINE k == Attempt(m) + 1
<1>1. ClaimDispatch(Bridged(m), m, LeaseTime, 0)
  BY DEF ClaimFor
<1>2. /\ BoxStep /\ OthersFade(m)
      /\ Attempt(m)' = k /\ k \in 1..MaxAttempts
      /\ \A key \in DOMAIN dispatches' : key[1] = m =>
           dispatches'[key].status = "claimed" /\ dispatches'[key].attempt = k
  BY <1>1, ClaimBox
<1>3. /\ m \in Messages /\ m \in DOMAIN work
      /\ work \in [Messages -> Job] /\ cycle \in Cycle
      /\ Attempt(m) \in 0..MaxAttempts
  BY <1>2, PlannedStays DEF ThreadInv, CycleTyped
<1>4. /\ work'[m] = [at |-> at, attempt |-> k, retry |-> FALSE]
      /\ \A n \in Messages \ {m} : work'[n] = work[n]
      /\ DOMAIN work' = Messages
  BY <1>3 DEF ClaimFor, NoJob
<1>5. safe' = safe \ {m} /\ dropped' = dropped \ {m} /\ strays' = strays
  BY DEF ClaimFor
<1>6. at \in {"denied", "claimed"} /\ work'[m].at = at /\ work'[m].attempt = k
  BY <1>4
<1>7. Jobs' = Jobs \cup {m} /\ Jobs \subseteq Messages
  BY <1>3, <1>4, <1>6 DEF Jobs
<1> HIDE DEF k
<1>8. Slot(m)' = <<m, k>> /\ <<m, k>> \notin strays
  <2>1. \A call \in strays : call[1] = m => call[2] <= Attempt(m)
    BY DEF ThreadInv, StrayOK
  <2> QED BY <1>3, <1>6, <2>1, MailboxAssumption DEF Slot, k
<1>9. /\ cycle' \in Cycle /\ cycle'.at = "claiming" /\ cycle'.denied = cycle.denied
      /\ cycle'.plan \subseteq cycle.plan
      /\ at = "claimed" => m \notin cycle'.plan
  BY <1>3 DEF Cycle
<1>10. CycleTyped'
  <2>1. work' \in [Messages -> Job]
    <3>1. work'[m] \in Job
      BY <1>2, <1>4, <1>6, MailboxAssumption DEF Job
    <3> QED BY <1>3, <3>1 DEF ClaimFor
  <2>2. admitted' \subseteq Messages \X (1..MaxAttempts) /\ Cardinality(admitted') <= Slots
    <3>1. CASE at = "denied"
      BY <3>1 DEF ThreadInv, CycleTyped
    <3>2. CASE at = "claimed"
      <4>1. admitted' = admitted \cup {<<m, k>>} /\ Cardinality(admitted) < Slots
        BY <3>2, <1>6
      <4>2. IsFiniteSet(admitted) /\ Cardinality(admitted) \in Nat
        BY AdmittedFinite DEF ThreadInv
      <4>3. Cardinality(admitted \cup {<<m, k>>}) \in {Cardinality(admitted), Cardinality(admitted) + 1}
        BY <4>2, FS_AddElement
      <4>4. Cardinality(admitted') <= Slots
        BY <4>1, <4>2, <4>3, SupervisorAssumption
      <4> QED BY <1>2, <1>3, <4>1, <4>4 DEF ThreadInv, CycleTyped
    <3> QED BY <1>6, <3>1, <3>2
  <2>3. \A n \in Messages : work'[n].at = "none" => work'[n].attempt = 0
    BY <1>4, <1>6 DEF ThreadInv, CycleTyped
  <2> QED BY <2>1, <2>2, <2>3, <1>5, <1>9 DEF ThreadInv, CycleTyped
<1>11. Phases'
  <2>1. ASSUME NEW n \in Jobs'
        PROVE  /\ n \notin cycle'.plan
               /\ \/ work'[n].at = "denied" /\ n \in cycle'.denied
                  \/ work'[n].at = "claimed" /\ cycle'.denied = {}
    <3>1. CASE n = m
      <4>1. at = "denied" => m \notin cycle'.plan
        BY <1>9 DEF ThreadInv, Phases
      <4> QED BY <3>1, <4>1, <1>6, <1>9
    <3>2. CASE n # m
      BY <3>2, <1>4, <1>7, <1>9 DEF ThreadInv, Phases
    <3> QED BY <3>1, <3>2
  <2>2. cycle'.plan \cap cycle'.denied = {}
    BY <1>9 DEF ThreadInv, Phases
  <2> QED BY <1>9, <2>1, <2>2 DEF Phases
<1>12. (admitted = strays \cup Held)'
  <2>1. \A n \in Jobs : Slot(n)' = Slot(n) /\ work'[n].at = work[n].at
    BY <1>4, <1>7 DEF Slot
  <2>2. Held' = IF at = "denied" THEN Held ELSE Held \cup {<<m, k>>}
    <3> DEFINE D == {n \in Jobs : work[n].at # "denied"}
               E == {n \in Jobs' : work'[n].at # "denied"}
    <3>1. Held = {Slot(n) : n \in D} /\ Held' = {Slot(n)' : n \in E}
      BY DEF Held
    <3>2. E = IF at = "denied" THEN D ELSE D \cup {m}
      <4>1. m \notin Jobs
        OBVIOUS
      <4> QED BY <4>1, <2>1, <1>6, <1>7
    <3>3. \A n \in D : Slot(n)' = Slot(n)
      BY <2>1
    <3> HIDE DEF D, E
    <3>4. CASE at = "denied"
      BY <3>1, <3>2, <3>3, <3>4
    <3>5. CASE at # "denied"
      BY <3>1, <3>2, <3>3, <3>5, <1>8
    <3> QED BY <3>4, <3>5
  <2>3. admitted' = IF at = "denied" THEN admitted ELSE admitted \cup {<<m, k>>}
    BY <1>6
  <2> QED BY <2>2, <2>3, <1>5 DEF ThreadInv
<1>13. \A n \in cycle'.plan \cup cycle'.denied : Planned(n)'
  BY <1>2, <1>9, PlannedStays DEF ThreadInv
<1>14. ASSUME NEW n \in Jobs'
       PROVE  JobOK(n)'
  <2>1. CASE n = m
    <3>1. Planned(m)' /\ work'[m].attempt \in 1..Attempt(m)'
      BY <1>2, <1>3, <1>6, PlannedStays, MailboxAssumption
    <3> QED BY <2>1, <3>1, <1>4, <1>5, <1>8 DEF JobOK
  <2>2. CASE n # m
    BY <2>2, <1>2, <1>4, <1>5, <1>7, JobStays DEF ThreadInv, JobOK
  <2> QED BY <2>1, <2>2
<1>15. \A call \in strays' : StrayOK(call)'
  BY <1>2, <1>5, StrayStays DEF ThreadInv
<1>16. ASSUME NEW key \in DOMAIN dispatches'
       PROVE  RetrySafe(key)' /\ Served(key)'
  <2>1. key[1] \in Messages
    BY <1>2 DEF BoxStep, MailStep, MailInv, MailTypeOK, Messages
  <2>2. CASE key[1] = m
    BY <2>2, <1>2, <1>6 DEF RetrySafe, Served
  <2>3. CASE key[1] # m
    BY <2>1, <2>3, <1>2, <1>4, <1>5, KeyStays DEF OthersFade
  <2> QED BY <2>2, <2>3
<1> QED BY <1>2, <1>10, <1>11, <1>12, <1>13, <1>14, <1>15, <1>16 DEF ThreadInv

\* A claim without a credential is reported as failed.
LEMMA DeniedThreads ==
  ASSUME BoxInv, ThreadInv, NEW m \in cycle.denied, work[m].at = "denied",
         FailDispatch(Bridged(m), m, work[m].attempt, "failed", 0),
         work' = [work EXCEPT ![m] = NoJob],
         cycle' = [cycle EXCEPT !.denied = @ \ {m}],
         UNCHANGED <<admitted, dropped, strays, safe>>
  PROVE  BoxStep /\ ThreadInv'
<1>1. Planned(m)
  BY DEF ThreadInv
<1>2. /\ BoxStep /\ OthersFade(m)
      /\ \A key \in DOMAIN dispatches' : key[1] = m => dispatches'[key].status = "failed"
  BY <1>1, FailBox
<1>3. /\ m \in Messages /\ work \in [Messages -> Job] /\ cycle \in Cycle
  BY <1>1, <1>2, PlannedStays DEF ThreadInv, CycleTyped
<1>4. m \in Jobs /\ cycle.at = "claiming"
  BY <1>3 DEF Jobs, ThreadInv, Phases
<1>5. /\ work'[m] = NoJob /\ work'[m].at = "none"
      /\ \A n \in Messages \ {m} : work'[n] = work[n]
  BY <1>3 DEF NoJob
<1>6. Jobs' = Jobs \ {m} /\ Jobs \subseteq Messages
  BY <1>3, <1>5 DEF Jobs
<1>7. /\ cycle' \in Cycle /\ cycle'.at = "claiming" /\ cycle'.plan = cycle.plan
      /\ cycle'.denied = cycle.denied \ {m}
  BY <1>3, <1>4 DEF Cycle
<1>8. CycleTyped'
  <2>1. work' \in [Messages -> Job]
    BY <1>3, MailboxAssumption DEF NoJob, Job
  <2>2. \A n \in Messages : work'[n].at = "none" => work'[n].attempt = 0
    BY <1>5 DEF ThreadInv, CycleTyped, NoJob
  <2> QED BY <2>1, <2>2, <1>7 DEF ThreadInv, CycleTyped
<1>9. Phases'
  BY <1>4, <1>5, <1>6, <1>7 DEF ThreadInv, Phases
<1>10. (admitted = strays \cup Held)'
  <2> DEFINE D == {n \in Jobs : work[n].at # "denied"}
             E == {n \in Jobs' : work'[n].at # "denied"}
  <2>1. Held = {Slot(n) : n \in D} /\ Held' = {Slot(n)' : n \in E}
    BY DEF Held
  <2>2. E = D
    BY <1>5, <1>6
  <2>3. \A n \in D : Slot(n)' = Slot(n)
    BY <1>5, <1>6 DEF Slot
  <2> HIDE DEF D, E
  <2> QED BY <2>1, <2>2, <2>3 DEF ThreadInv
<1>11. \A n \in cycle'.plan \cup cycle'.denied : Planned(n)'
  BY <1>2, <1>7, PlannedStays DEF ThreadInv
<1>12. \A n \in Jobs' : JobOK(n)'
  BY <1>2, <1>5, <1>6, JobStays DEF ThreadInv, JobOK
<1>13. \A call \in strays' : StrayOK(call)'
  BY <1>2, StrayStays DEF ThreadInv
<1>14. ASSUME NEW key \in DOMAIN dispatches'
       PROVE  RetrySafe(key)' /\ Served(key)'
  <2>1. key[1] \in Messages
    BY <1>2 DEF BoxStep, MailStep, MailInv, MailTypeOK, Messages
  <2>2. CASE key[1] = m
    BY <2>2, <1>2 DEF RetrySafe, Served, Live
  <2>3. CASE key[1] # m
    BY <2>1, <2>3, <1>2, <1>5, KeyStays DEF OthersFade
  <2> QED BY <2>2, <2>3
<1> QED BY <1>2, <1>8, <1>9, <1>10, <1>11, <1>12, <1>13, <1>14 DEF ThreadInv

\* Every claimed message gets its worker.
LEMMA StartThreads ==
  ASSUME BoxInv, ThreadInv, StartsWorkers
  PROVE  BoxStep /\ ThreadInv'
<1> USE DEF StartsWorkers
<1>1. BoxStep /\ AllFade
  BY MailIdle
<1>2. /\ work \in [Messages -> Job] /\ Jobs \subseteq Messages
      /\ \A m \in Jobs : work[m].at = "claimed"
  BY DEF ThreadInv, CycleTyped, Phases, Jobs
<1>3. ASSUME NEW m \in Jobs
      PROVE  /\ work'[m] \in Job /\ work'[m].at = "calling"
             /\ work'[m].attempt = work[m].attempt /\ work'[m].retry = work[m].retry
  <2>1. work[m] \in Job /\ work'[m] = [work[m] EXCEPT !.at = "calling"]
    BY <1>2, <1>3
  <2> QED BY <2>1 DEF Job
<1>4. \A m \in Messages \ Jobs : work'[m] = NoJob /\ work'[m].at = "none" /\ work'[m] \in Job
  BY MailboxAssumption DEF NoJob, Job
<1>5. Jobs' = Jobs
  BY <1>2, <1>3, <1>4 DEF Jobs
<1>6. work' \in [Messages -> Job]
  <2>1. \A m \in Messages : work'[m] \in Job
    BY <1>3, <1>4
  <2> QED BY <2>1
<1>7. /\ cycle' \in Cycle /\ cycle'.plan = {} /\ cycle'.denied = {}
      /\ cycle'.at = IF Jobs = {} THEN "idle" ELSE "working"
  BY DEF Idle, Cycle
<1>8. CycleTyped'
  <2>1. \A n \in Messages : work'[n].at = "none" => work'[n].attempt = 0
    BY <1>3, <1>4 DEF NoJob
  <2> QED BY <2>1, <1>6, <1>7 DEF ThreadInv, CycleTyped
<1>9. Phases'
  <2> HIDE DEF StartsWorkers
  <2>1. CASE Jobs = {}
    BY <1>5, <1>7, <2>1 DEF Phases
  <2>2. CASE Jobs # {}
    BY <1>3, <1>5, <1>7, <2>2 DEF Phases
  <2> QED BY <2>1, <2>2
<1>10. (admitted = strays \cup Held)'
  <2> DEFINE D == {n \in Jobs : work[n].at # "denied"}
             E == {n \in Jobs' : work'[n].at # "denied"}
  <2>1. Held = {Slot(n) : n \in D} /\ Held' = {Slot(n)' : n \in E}
    BY DEF Held
  <2>2. E = D
    BY <1>2, <1>3, <1>5
  <2>3. \A n \in D : Slot(n)' = Slot(n)
    BY <1>3 DEF Slot
  <2> HIDE DEF D, E
  <2> QED BY <2>1, <2>2, <2>3 DEF ThreadInv
<1>11. \A n \in Jobs' : JobOK(n)'
  BY <1>1, <1>3, <1>5, JobStays DEF ThreadInv, JobOK
<1>12. \A call \in strays' : StrayOK(call)'
  BY <1>1, StrayStays DEF ThreadInv
<1>13. ASSUME NEW key \in DOMAIN dispatches'
       PROVE  RetrySafe(key)' /\ Served(key)'
  <2>1. key[1] \in Messages
    BY <1>1 DEF BoxStep, MailStep, MailInv, MailTypeOK, Messages
  <2>2. work[key[1]].at \notin {"none", "done"} =>
          work'[key[1]].at \notin {"none", "done"} /\ work'[key[1]].attempt = work[key[1]].attempt
    BY <2>1, <1>3 DEF Jobs
  <2> QED BY <1>1, <2>2, KeyStays DEF AllFade
<1> QED BY <1>1, <1>7, <1>8, <1>9, <1>10, <1>11, <1>12, <1>13 DEF ThreadInv

\* A future has its result: its slot is given back, unless a runner has it.
LEMMA CollectThreads ==
  ASSUME BoxInv, ThreadInv, NEW m \in Jobs, Collects(m)
  PROVE  BoxStep /\ ThreadInv'
<1> USE DEF Collects
<1>1. BoxStep /\ AllFade
  BY MailIdle
<1>2. /\ work \in [Messages -> Job] /\ Jobs \subseteq Messages /\ cycle \in Cycle
      /\ work[m].at = "done"
  BY DEF ThreadInv, CycleTyped, Jobs
<1>3. cycle.at = "working"
  BY <1>2 DEF ThreadInv, Phases
<1>4. /\ work'[m] = NoJob /\ work'[m].at = "none"
      /\ \A n \in Messages \ {m} : work'[n] = work[n]
  BY <1>2 DEF NoJob
<1>5. Jobs' = Jobs \ {m}
  BY <1>2, <1>4 DEF Jobs
<1>6. /\ cycle' \in Cycle
      /\ cycle'.at = "working" \/ (cycle'.at = "idle" /\ Jobs' = {})
      /\ cycle'.plan \subseteq cycle.plan /\ cycle'.denied \subseteq cycle.denied
  <2>1. CASE Jobs = {m}
    <3>1. cycle' = Idle /\ Jobs' = {}
      BY <1>5, <2>1
    <3> QED BY <3>1 DEF Idle, Cycle
  <2>2. CASE Jobs # {m}
    BY <1>2, <1>3, <2>2
  <2> QED BY <2>1, <2>2
<1>7. CycleTyped'
  <2>1. work' \in [Messages -> Job]
    BY <1>2, MailboxAssumption DEF NoJob, Job
  <2>2. admitted' \in SUBSET admitted
    OBVIOUS
  <2>3. Cardinality(admitted') <= Slots
    BY <2>2, AdmittedFinite DEF ThreadInv
  <2>4. \A n \in Messages : work'[n].at = "none" => work'[n].attempt = 0
    BY <1>4 DEF ThreadInv, CycleTyped, NoJob
  <2> QED BY <2>1, <2>2, <2>3, <2>4, <1>6 DEF ThreadInv, CycleTyped
<1>8. Phases'
  BY <1>3, <1>4, <1>5, <1>6 DEF ThreadInv, Phases
<1>9. (admitted = strays \cup Held)'
  <2> DEFINE D == {n \in Jobs : work[n].at # "denied"}
             E == {n \in Jobs' : work'[n].at # "denied"}
  <2>1. Held = {Slot(n) : n \in D} /\ Held' = {Slot(n)' : n \in E}
    BY DEF Held
  <2>2. E = D \ {m} /\ m \in D
    BY <1>2, <1>4, <1>5
  <2>3. \A n \in E : Slot(n)' = Slot(n)
    BY <1>2, <1>4, <1>5 DEF Slot
  <2>4. \A n \in E : Slot(n) # Slot(m)
    BY <2>2, SlotsDiffer
  <2> HIDE DEF D, E
  <2>5. Held' = Held \ {Slot(m)} /\ Slot(m) \in Held
    BY <2>1, <2>2, <2>3, <2>4
  <2> QED BY <2>5 DEF ThreadInv
<1>10. \A n \in cycle'.plan \cup cycle'.denied : Planned(n)'
  BY <1>1, <1>6, PlannedStays DEF ThreadInv
<1>11. \A n \in Jobs' : JobOK(n)'
  BY <1>1, <1>2, <1>4, <1>5, JobStays DEF ThreadInv, JobOK
<1>12. \A call \in strays' : StrayOK(call)'
  BY <1>1, StrayStays DEF ThreadInv
<1>13. ASSUME NEW key \in DOMAIN dispatches'
       PROVE  RetrySafe(key)' /\ Served(key)'
  <2>1. key[1] \in Messages
    BY <1>1 DEF BoxStep, MailStep, MailInv, MailTypeOK, Messages
  <2>2. work[key[1]].at \notin {"none", "done"} =>
          work'[key[1]].at \notin {"none", "done"} /\ work'[key[1]].attempt = work[key[1]].attempt
    BY <2>1, <1>2, <1>4
  <2> QED BY <1>1, <2>2, KeyStays DEF AllFade
<1> QED BY <1>1, <1>7, <1>8, <1>9, <1>10, <1>11, <1>12, <1>13 DEF ThreadInv

\* A worker goes on to `to', and may leave its runner behind.
LEMMA WorkThreads ==
  ASSUME BoxInv, ThreadInv, BoxStep, NEW m \in Jobs, OthersFade(m), cycle.at = "working",
         NEW to \in {"answered", "confirmed", "receipted", "failing", "done"},
         NEW retry \in BOOLEAN, Becomes(m, to, retry), retry => m \in safe',
         admitted' = admitted, strays' \in {strays, strays \cup {Slot(m)}},
         safe' \in {safe, safe \cup {m}}, dropped' \in {dropped, dropped \cup {m}},
         \A key \in DOMAIN dispatches' : key[1] = m => RetrySafe(key)' /\ Served(key)'
  PROVE  ThreadInv'
<1>1. /\ work \in [Messages -> Job] /\ Jobs \subseteq Messages /\ cycle' = cycle
      /\ work[m].at \notin {"none", "denied", "claimed"}
  BY DEF ThreadInv, CycleTyped, Phases, Jobs, Becomes
<1>2. /\ work'[m] \in Job /\ work'[m].at = to /\ work'[m].retry = retry
      /\ work'[m].attempt = work[m].attempt
      /\ \A n \in Messages \ {m} : work'[n] = work[n]
      /\ work' \in [Messages -> Job]
  BY <1>1 DEF Becomes, Job
<1>3. Jobs' = Jobs /\ to \notin {"none", "denied", "claimed"}
  BY <1>1, <1>2 DEF Jobs
<1>4. CycleTyped'
  BY <1>1, <1>2 DEF ThreadInv, CycleTyped
<1>5. Phases'
  BY <1>1, <1>2, <1>3 DEF ThreadInv, Phases
<1>6. (admitted = strays \cup Held)'
  <2> DEFINE D == {n \in Jobs : work[n].at # "denied"}
             E == {n \in Jobs' : work'[n].at # "denied"}
  <2>1. Held = {Slot(n) : n \in D} /\ Held' = {Slot(n)' : n \in E}
    BY DEF Held
  <2>2. E = D /\ m \in D
    BY <1>1, <1>2, <1>3
  <2>3. \A n \in D : Slot(n)' = Slot(n)
    BY <1>1, <1>2 DEF Slot
  <2> HIDE DEF D, E
  <2>4. Held' = Held /\ Slot(m) \in Held
    BY <2>1, <2>2, <2>3
  <2> QED BY <2>4 DEF ThreadInv
<1>7. \A n \in cycle'.plan \cup cycle'.denied : Planned(n)'
  BY <1>1, PlannedStays DEF ThreadInv
<1>8. ASSUME NEW n \in Jobs'
      PROVE  JobOK(n)'
  <2>1. CASE n = m
    BY <2>1, <1>2, <1>3, JobStays DEF ThreadInv
  <2>2. CASE n # m
    <3>1. /\ JobOK(n) /\ work'[n] = work[n] /\ work[n].at \notin {"denied", "claimed"}
          /\ n \in safe => n \in safe'
      BY <2>2, <1>1, <1>2, <1>3 DEF ThreadInv, Phases
    <3> QED BY <3>1, JobStays DEF JobOK
  <2> QED BY <2>1, <2>2
<1>9. ASSUME NEW call \in strays'
      PROVE  StrayOK(call)'
  <2>1. StrayOK(Slot(m))
    BY DEF ThreadInv, JobOK, Planned, StrayOK, Slot
  <2>2. StrayOK(call)
    BY <2>1 DEF ThreadInv
  <2> QED BY <2>2, StrayStays
<1>10. ASSUME NEW key \in DOMAIN dispatches'
       PROVE  RetrySafe(key)' /\ Served(key)'
  <2>1. key[1] \in Messages
    BY DEF BoxStep, MailStep, MailInv, MailTypeOK, Messages
  <2>2. CASE key[1] # m
    <3>1. work'[key[1]] = work[key[1]] /\ Fades(key)
      BY <2>1, <2>2, <1>2 DEF OthersFade
    <3> QED BY <3>1, KeyStays
  <2> QED BY <2>2
<1> QED BY <1>4, <1>5, <1>6, <1>7, <1>8, <1>9, <1>10 DEF ThreadInv

\* A worker that is not done keeps its claim, if it still has it.
LEMMA WorkerKeeps ==
  ASSUME BoxInv, ThreadInv, BoxStep, AllFade, NEW m \in Jobs,
         NEW to \in {"answered", "confirmed", "receipted", "failing"},
         NEW retry \in BOOLEAN, Becomes(m, to, retry),
         safe \subseteq safe', dropped \subseteq dropped'
  PROVE  /\ OthersFade(m)
         /\ \A key \in DOMAIN dispatches' : key[1] = m => RetrySafe(key)' /\ Served(key)'
<1>1. m \in Messages /\ work \in [Messages -> Job]
  BY DEF ThreadInv, CycleTyped, Jobs
<1>2. work'[m].at = to /\ work'[m].attempt = work[m].attempt
  BY <1>1 DEF Becomes, Job
<1>3. ASSUME NEW key \in DOMAIN dispatches', key[1] = m
      PROVE  RetrySafe(key)' /\ Served(key)'
  BY <1>2, <1>3, KeyStays DEF AllFade
<1> QED BY <1>3 DEF OthersFade, AllFade

\* The provider answers, fails, or is given up on.
LEMMA CallThreads ==
  ASSUME BoxInv, ThreadInv, NEW m \in Jobs, CallEnds(m) \/ GivesUp(m)
  PROVE  BoxStep /\ ThreadInv'
<1>1. BoxStep /\ AllFade
  BY MailIdle DEF CallEnds, GivesUp
<1>2. PICK to \in {"answered", "failing"}, retry \in BOOLEAN :
        /\ Becomes(m, to, retry)
        /\ retry => m \in safe'
        /\ safe' \in {safe, safe \cup {m}} /\ dropped' = dropped /\ admitted' = admitted
        /\ strays' \in {strays, strays \cup {Slot(m)}}
        /\ cycle.at = "working"
  BY DEF CallEnds, GivesUp, At
<1>3. /\ OthersFade(m)
      /\ \A key \in DOMAIN dispatches' : key[1] = m => RetrySafe(key)' /\ Served(key)'
  BY <1>1, <1>2, WorkerKeeps
<1> QED BY <1>1, <1>2, <1>3, WorkThreads

\* The last renewal, the receipt and the completion succeed or are refused.
LEMMA AnswerThreads ==
  ASSUME BoxInv, ThreadInv, NEW m \in Jobs, Confirms(m) \/ Receipts(m)
  PROVE  BoxStep /\ ThreadInv'
<1>1. Planned(m) /\ work[m].attempt \in 1..MaxAttempts
  <2>1. Attempt(m) \in 0..MaxAttempts
    BY AttemptTyped DEF BoxInv
  <2> QED BY <2>1, MailboxAssumption DEF ThreadInv, JobOK
<1>2. BoxStep /\ AllFade
  <2>1. CASE UNCHANGED mailVars
    BY <2>1, MailIdle
  <2>2. CASE RenewDispatch(Bridged(m), m, work[m].attempt, LeaseTime)
    BY <2>2, <1>1, RenewBox
  <2>3. CASE RecordReceipt(Bridged(m), m, work[m].attempt)
    BY <2>3, <1>1, BridgeOfMessage, ReceiptBox DEF Planned
  <2> QED BY <2>1, <2>2, <2>3 DEF Confirms, Receipts
<1>3. PICK to \in {"confirmed", "receipted", "failing"} :
        Becomes(m, to, FALSE) /\ cycle.at = "working"
  BY DEF Confirms, Receipts, At
<1>4. UNCHANGED <<strays, admitted, safe, dropped>>
  BY DEF Confirms, Receipts, CallsUnchanged
<1>5. /\ OthersFade(m)
      /\ \A key \in DOMAIN dispatches' : key[1] = m => RetrySafe(key)' /\ Served(key)'
  BY <1>2, <1>3, <1>4, WorkerKeeps
<1> QED BY <1>2, <1>3, <1>4, <1>5, WorkThreads

\* The answer is written.
LEMMA CompleteThreads ==
  ASSUME BoxInv, ThreadInv, NEW m \in Jobs, Completes(m)
  PROVE  BoxStep /\ ThreadInv'
<1>1. UNCHANGED <<strays, admitted, safe, dropped>> /\ cycle.at = "working"
  BY DEF Completes, CallsUnchanged, At
<1>2. CASE UNCHANGED mailVars /\ Becomes(m, "failing", FALSE)
  <2>1. BoxStep /\ AllFade
    BY <1>2, MailIdle
  <2>2. /\ OthersFade(m)
        /\ \A key \in DOMAIN dispatches' : key[1] = m => RetrySafe(key)' /\ Served(key)'
    BY <1>1, <1>2, <2>1, WorkerKeeps
  <2> QED BY <1>1, <1>2, <2>1, <2>2, WorkThreads
<1>3. ASSUME NEW text \in Texts, CompleteDispatch(Bridged(m), m, work[m].attempt, text),
             Becomes(m, "done", FALSE)
      PROVE  BoxStep /\ ThreadInv'
  <2>1. Planned(m)
    BY DEF ThreadInv, JobOK
  <2>2. /\ BoxStep /\ AllFade
        /\ \A key \in DOMAIN dispatches' : key[1] = m => dispatches'[key].status = "completed"
    BY <1>3, <2>1, CompleteBox
  <2>3. \A key \in DOMAIN dispatches' : key[1] = m => RetrySafe(key)' /\ Served(key)'
    BY <2>2 DEF RetrySafe, Served, Live
  <2>4. OthersFade(m)
    BY <2>2 DEF AllFade, OthersFade
  <2> QED BY <1>1, <1>3, <2>2, <2>3, <2>4, WorkThreads
<1> QED BY <1>2, <1>3 DEF Completes

\* The failure is reported, or the report is lost.
LEMMA ReportThreads ==
  ASSUME BoxInv, ThreadInv, NEW m \in Jobs, Reports(m)
  PROVE  BoxStep /\ ThreadInv'
<1> DEFINE again  == work[m].retry /\ work[m].attempt < MaxAttempts
           status == IF again THEN "retryable" ELSE "failed"
<1>1. /\ UNCHANGED <<strays, admitted, safe>> /\ cycle.at = "working"
      /\ Becomes(m, "done", FALSE)
  BY DEF Reports, At
<1>2. Planned(m) /\ (work[m].retry => m \in safe)
  BY DEF ThreadInv, JobOK
<1>3. CASE UNCHANGED mailVars /\ dropped' = dropped \cup {m}
  <2>1. BoxStep /\ AllFade
    BY <1>3, MailIdle
  <2>2. OthersFade(m)
    BY <2>1 DEF AllFade, OthersFade
  <2>3. ASSUME NEW key \in DOMAIN dispatches', key[1] = m
        PROVE  RetrySafe(key)' /\ Served(key)'
    BY <1>1, <1>3, <2>1, <2>3, KeyStays DEF AllFade
  <2> QED BY <1>1, <1>3, <2>1, <2>2, <2>3, WorkThreads
<1>4. ASSUME NEW wait, FailDispatch(Bridged(m), m, work[m].attempt, status, wait),
             dropped' = dropped
      PROVE  BoxStep /\ ThreadInv'
  <2>1. /\ BoxStep /\ OthersFade(m)
        /\ \A key \in DOMAIN dispatches' : key[1] = m => dispatches'[key].status = status
    <3> HIDE DEF status
    <3> QED BY <1>2, <1>4, FailBox
  <2>2. ASSUME NEW key \in DOMAIN dispatches', key[1] = m
        PROVE  RetrySafe(key)' /\ Served(key)'
    <3>1. dispatches'[key].status = status
      BY <2>1, <2>2
    <3>2. status = "retryable" => m \in safe'
      BY <1>1, <1>2
    <3>3. status # "claimed"
      OBVIOUS
    <3> HIDE DEF status
    <3> QED BY <2>2, <3>1, <3>2, <3>3 DEF RetrySafe, Served, Live
  <2> QED BY <1>1, <1>4, <2>1, <2>2, WorkThreads
<1> QED BY <1>3, <1>4 DEF Reports

\* A runner that was given up on ends: its slot is free, unless its worker has
\* it still.
LEMMA StrayThreads ==
  ASSUME BoxInv, ThreadInv, NEW call \in strays, StrayExits(call)
  PROVE  BoxStep /\ ThreadInv'
<1> USE DEF StrayExits
<1>1. BoxStep /\ AllFade
  BY MailIdle
<1>2. UNCHANGED <<work, cycle, safe, dropped>> /\ strays' = strays \ {call}
  OBVIOUS
<1>3. CycleTyped'
  <2>1. admitted' \in SUBSET admitted
    OBVIOUS
  <2>2. Cardinality(admitted') <= Slots
    BY <2>1, AdmittedFinite DEF ThreadInv
  <2> QED BY <2>1, <2>2 DEF ThreadInv, CycleTyped
<1>4. Phases'
  BY DEF ThreadInv, Phases, Jobs
<1>5. (admitted = strays \cup Held)'
  <2>1. Held' = Held
    BY DEF Held, Jobs, Slot
  <2>2. call \in Held <=> Slot(call[1]) = call
    <3>1. ASSUME call \in Held
          PROVE  Slot(call[1]) = call
      BY <3>1 DEF Held, Slot
    <3>2. ASSUME Slot(call[1]) = call
          PROVE  call \in Held
      <4>1. call[1] \in Messages /\ call[2] \in 1..Attempt(call[1])
        BY LogDomain DEF ThreadInv, StrayOK, BoxInv, MailInv
      <4>2. Attempt(call[1]) \in 0..MaxAttempts
        BY AttemptTyped DEF BoxInv
      <4>3. work[call[1]].attempt = call[2] /\ call[2] # 0
        BY <3>2, <4>1, <4>2, MailboxAssumption DEF Slot
      <4>4. call[1] \in Jobs
        <5>1. work[call[1]].at # "none"
          BY <4>1, <4>3 DEF ThreadInv, CycleTyped
        <5> QED BY <5>1, <4>1 DEF Jobs
      <4>5. work[call[1]].at # "denied"
        BY <3>2, <4>4 DEF ThreadInv, JobOK
      <4> QED BY <3>2, <4>4, <4>5 DEF Held
    <3> QED BY <3>1, <3>2
  <2> QED BY <1>2, <2>1, <2>2 DEF ThreadInv
<1>6. \A m \in cycle'.plan \cup cycle'.denied : Planned(m)'
  BY <1>1, <1>2, PlannedStays DEF ThreadInv
<1>7. \A m \in Jobs' : JobOK(m)'
  BY <1>1, <1>2, JobStays DEF ThreadInv, JobOK, Jobs
<1>8. \A other \in strays' : StrayOK(other)'
  BY <1>1, <1>2, StrayStays DEF ThreadInv
<1>9. \A key \in DOMAIN dispatches' : RetrySafe(key)' /\ Served(key)'
  BY <1>1, <1>2, KeyStays DEF AllFade
<1> QED BY <1>1, <1>3, <1>4, <1>5, <1>6, <1>7, <1>8, <1>9 DEF ThreadInv

\* The process ends: nothing is held, and no claim is live.
LEMMA DeathThreads ==
  ASSUME BoxInv, ThreadInv, Dies
  PROVE  BoxStep /\ ThreadInv'
<1>1. BoxStep /\ AllFade /\ \A key \in DOMAIN dispatches' : ~Live(key)'
  BY DeathBox
<1>2. /\ cycle' = [Idle EXCEPT !.at = "down"] /\ work' = [m \in Messages |-> NoJob]
      /\ strays' = {} /\ admitted' = {} /\ UNCHANGED <<safe, dropped>>
  BY DEF Dies
<1>3. /\ cycle' \in Cycle /\ cycle'.at = "down"
      /\ cycle'.plan = {} /\ cycle'.denied = {}
  BY <1>2 DEF Idle, Cycle
<1>4. Jobs' = {}
  BY <1>2 DEF Jobs, NoJob
<1>5. CycleTyped'
  <2>1. work' \in [Messages -> Job]
    BY <1>2, MailboxAssumption DEF NoJob, Job
  <2>2. \A n \in Messages : work'[n].at = "none" => work'[n].attempt = 0
    BY <1>2 DEF NoJob
  <2>3. Cardinality({}) <= Slots
    BY FS_EmptySet, SupervisorAssumption
  <2> QED BY <1>2, <1>3, <2>1, <2>2, <2>3 DEF ThreadInv, CycleTyped
<1>6. Phases' /\ (admitted = strays \cup Held)'
  BY <1>2, <1>3, <1>4 DEF Phases, Held
<1>7. \A key \in DOMAIN dispatches' : RetrySafe(key)' /\ Served(key)'
  BY <1>1, <1>2 DEF ThreadInv, AllFade, Fades, RetrySafe, Served
<1> QED BY <1>1, <1>2, <1>3, <1>4, <1>5, <1>6, <1>7 DEF ThreadInv

\* A pending request is one the session of its route can claim.
LEMMA PendingPlanned ==
  ASSUME BoxInv, NEW m \in Pending
  PROVE  Planned(m) /\ m \in Messages
<1>1. m \in DOMAIN msgs /\ msgs[m].route # NoRoute
  BY DEF Pending
<1>2. m \in Messages /\ msgs[m] \in Message
  BY <1>1, LogDomain DEF BoxInv, MailInv
<1> QED BY <1>1, <1>2 DEF Planned, Message

\* Where the cycle goes while there is no job.
LEMMA NoJobMoves ==
  ASSUME BoxInv, ThreadInv, BoxStep, AllFade, Jobs = {},
         UNCHANGED <<work, strays, admitted, safe, dropped>>,
         cycle' \in Cycle, cycle'.plan \cap cycle'.denied = {},
         \A m \in cycle'.plan \cup cycle'.denied : Planned(m)
  PROVE  ThreadInv'
<1>1. Jobs' = {}
  BY DEF Jobs
<1>2. Phases'
  BY <1>1 DEF Phases
<1> QED BY <1>2, CycleMoves

\* The cycle looks for requests, has the hopeless ones settled and plans.
LEMMA LookThreads ==
  ASSUME BoxInv, ThreadInv,
         (\E found \in SUBSET Routes : Looks(found)) \/ Reconciles \/ Plans \/ Starts
  PROVE  BoxStep /\ ThreadInv'
<1>1. Jobs = {} /\ cycle \in Cycle
  BY DEF ThreadInv, Phases, CycleTyped, Looks, Reconciles, Plans, Starts
<1>2. UNCHANGED <<work, strays, admitted, safe, dropped>>
  BY DEF Looks, Reconciles, Plans, Starts
<1>3. BoxStep /\ AllFade
  <2>1. CASE UNCHANGED mailVars
    BY <2>1, MailIdle
  <2>2. CASE Reconcile(cycle.unserved, 0)
    BY <2>2, ReconcileBox
  <2> QED BY <2>1, <2>2 DEF Looks, Reconciles, Plans, Starts
<1>4. CASE \E found \in SUBSET Routes : Looks(found)
  <2>1. PICK found \in SUBSET Routes :
          cycle' = [Idle EXCEPT !.at = "seen", !.found = found,
                                !.unserved = {m \in Pending : msgs[m].route \notin found}]
    BY <1>4 DEF Looks
  <2>2. \A m \in Pending : m \in Messages
    BY PendingPlanned
  <2>3. cycle' \in Cycle /\ cycle'.plan = {} /\ cycle'.denied = {}
    BY <2>1, <2>2 DEF Idle, Cycle
  <2> QED BY <1>1, <1>2, <1>3, <2>3, NoJobMoves
<1>5. CASE Reconciles
  <2>1. \/ cycle' = [cycle EXCEPT !.at = "reconciled", !.unserved = {}]
        \/ cycle' = Idle
    BY <1>5 DEF Reconciles
  <2>2. /\ cycle' \in Cycle /\ cycle'.plan \subseteq cycle.plan
        /\ cycle'.denied \subseteq cycle.denied
    <3>1. CASE cycle' = [cycle EXCEPT !.at = "reconciled", !.unserved = {}]
      BY <1>1, <3>1 DEF Cycle
    <3>2. CASE cycle' = Idle
      BY <3>2 DEF Idle, Cycle
    <3> QED BY <2>1, <3>1, <3>2
  <2>3. /\ cycle'.plan \cap cycle'.denied = {}
        /\ \A m \in cycle'.plan \cup cycle'.denied : Planned(m)
    <3>1. cycle.plan \cap cycle.denied = {}
      BY DEF ThreadInv, Phases
    <3>2. \A m \in cycle.plan \cup cycle.denied : Planned(m)
      BY DEF ThreadInv
    <3> QED BY <2>2, <3>1, <3>2
  <2> QED BY <1>1, <1>2, <1>3, <2>2, <2>3, NoJobMoves
<1>6. CASE Plans
  <2>1. PICK plan \in SUBSET Pending, denied \in SUBSET Pending :
          cycle' = [Idle EXCEPT !.at = "claiming", !.plan = plan \ denied, !.denied = denied]
    BY <1>6 DEF Plans
  <2>2. \A m \in Pending : Planned(m) /\ m \in Messages
    BY PendingPlanned
  <2>3. /\ cycle' \in Cycle /\ cycle'.plan = plan \ denied /\ cycle'.denied = denied
    BY <2>1, <2>2 DEF Idle, Cycle
  <2>4. /\ cycle'.plan \cap cycle'.denied = {}
        /\ \A m \in cycle'.plan \cup cycle'.denied : Planned(m)
    BY <2>2, <2>3
  <2> QED BY <1>1, <1>2, <1>3, <2>3, <2>4, NoJobMoves
<1>7. CASE Starts
  <2>1. cycle' \in Cycle /\ cycle'.plan = {} /\ cycle'.denied = {}
    BY <1>7 DEF Starts, Idle, Cycle
  <2> QED BY <1>1, <1>2, <1>3, <2>1, NoJobMoves
<1> QED BY <1>4, <1>5, <1>6, <1>7

\* The cycle claims the requests it has planned, those without a credential
\* first.
LEMMA ClaimingThreads ==
  ASSUME BoxInv, ThreadInv, ClaimsDenied \/ FailsDenied \/ Claims
  PROVE  BoxStep /\ ThreadInv'
<1>1. /\ cycle \in Cycle /\ strays' = strays
      /\ Jobs \subseteq Messages /\ work \in [Messages -> Job]
  BY DEF ThreadInv, CycleTyped, Jobs, ClaimsDenied, FailsDenied, Claims
<1>2. cycle.plan \in SUBSET Messages /\ cycle.denied \in SUBSET Messages
  BY <1>1 DEF Cycle
<1>3. cycle.at = "claiming"
  <2>1. CASE FailsDenied
    <3>1. PICK m \in cycle.denied : work[m].at = "denied"
      BY <2>1 DEF FailsDenied
    <3>2. m \in Jobs
      BY <1>2, <3>1 DEF Jobs
    <3> QED BY <3>1, <3>2 DEF ThreadInv, Phases
  <2> QED BY <2>1 DEF ClaimsDenied, Claims
<1>4. CASE CycleRaises /\ UNCHANGED <<mailVars, safe>>
  BY <1>1, <1>3, <1>4, MailIdle, RaiseThreads
<1>5. ASSUME UNCHANGED <<mailVars, work, admitted, safe, dropped>>,
             cycle'.at = "claiming", cycle' \in Cycle,
             cycle'.plan \subseteq cycle.plan, cycle'.denied \subseteq cycle.denied,
             Jobs = {} \/ cycle'.denied = cycle.denied
      PROVE  BoxStep /\ ThreadInv'
  <2>1. BoxStep /\ AllFade
    BY <1>5, MailIdle
  <2>2. Jobs' = Jobs
    BY <1>5 DEF Jobs
  <2>3. Phases'
    BY <1>3, <1>5, <2>2 DEF ThreadInv, Phases
  <2>4. \A m \in cycle'.plan \cup cycle'.denied : Planned(m)
    BY <1>5 DEF ThreadInv
  <2> QED BY <1>1, <1>5, <2>1, <2>3, <2>4, CycleMoves
<1>6. CASE ClaimsDenied
  <2>1. PICK m \in cycle.denied : m = Min(cycle.denied)
    BY <1>2, <1>6, FirstOf DEF ClaimsDenied
  <2>2. Planned(m) /\ m \notin Jobs /\ Jobs = {}
    BY <1>6 DEF ClaimsDenied, ThreadInv
  <2>3. CASE ClaimFor(m, "denied") /\ UNCHANGED <<cycle, admitted>>
    <3>1. "denied" = "denied" /\ m \in cycle.denied /\ Jobs = {} /\ UNCHANGED <<admitted, cycle>>
      BY <2>2, <2>3
    <3> QED BY <1>1, <1>3, <2>2, <2>3, <3>1, ClaimThreads
  <2>4. CASE /\ cycle' = [cycle EXCEPT !.denied = @ \ {m}]
             /\ UNCHANGED <<mailVars, work, admitted, safe, dropped>>
    <3>1. /\ cycle' \in Cycle /\ cycle'.at = "claiming"
          /\ cycle'.plan = cycle.plan /\ cycle'.denied = cycle.denied \ {m}
      BY <1>1, <1>3, <2>4 DEF Cycle
    <3> QED BY <1>5, <2>2, <2>4, <3>1
  <2> QED BY <1>4, <1>6, <2>1, <2>3, <2>4 DEF ClaimsDenied
<1>7. CASE FailsDenied
  <2>1. PICK m \in cycle.denied :
          /\ work[m].at = "denied" /\ UNCHANGED <<strays, safe>>
          /\ \/ /\ FailDispatch(Bridged(m), m, work[m].attempt, "failed", 0)
                /\ work' = [work EXCEPT ![m] = NoJob]
                /\ cycle' = [cycle EXCEPT !.denied = @ \ {m}]
                /\ UNCHANGED <<admitted, dropped>>
             \/ CycleRaises /\ UNCHANGED mailVars
    BY <1>7 DEF FailsDenied
  <2> QED BY <1>4, <2>1, DeniedThreads
<1>8. CASE Claims
  <2>1. PICK m \in cycle.plan : m = Min(cycle.plan)
    BY <1>2, <1>8, FirstOf DEF Claims
  <2>2. /\ Planned(m) /\ m \notin Jobs
        /\ cycle.denied = {} /\ ~Full
    BY <1>3, <1>8, <2>1 DEF Claims, ThreadInv, Phases
  <2>3. CASE /\ ClaimFor(m, "claimed")
             /\ admitted' = admitted \cup {<<m, work'[m].attempt>>}
             /\ cycle' = [cycle EXCEPT !.plan = @ \ {m}]
    <3>1. Cardinality(admitted) < Slots
      BY <2>2, AdmittedFinite, SupervisorAssumption DEF ThreadInv, Full
    <3> QED BY <1>1, <1>3, <2>2, <2>3, <3>1, ClaimThreads
  <2>4. CASE /\ cycle' = [cycle EXCEPT !.plan = @ \ {m}]
             /\ UNCHANGED <<mailVars, work, admitted, safe, dropped>>
    <3>1. /\ cycle' \in Cycle /\ cycle'.at = "claiming"
          /\ cycle'.plan = cycle.plan \ {m} /\ cycle'.denied = cycle.denied
      BY <1>1, <1>3, <2>4 DEF Cycle
    <3> QED BY <1>5, <2>4, <3>1
  <2> QED BY <1>4, <1>8, <2>1, <2>3, <2>4 DEF Claims
<1> QED BY <1>6, <1>7, <1>8

\* The rest of the world: messages are sent and acknowledged, and time passes.
LEMMA OtherThreads ==
  ASSUME BoxInv, ThreadInv, Others
  PROVE  BoxStep /\ ThreadInv'
<1>1. BoxStep /\ AllFade
  <2>1. Outside \subseteq Sessions
    BY SupervisorAssumption
  <2>2. ASSUME NEW s \in Outside, NEW send \in Sends, SendMessage(s, send[2], send[3], 0)
        PROVE  BoxStep /\ AllFade
    <3>1. send[2] \in Agents \cup {Everyone} /\ send[3] \in Routes \cup {NoRoute}
      BY MailboxAssumption
    <3> QED BY <2>1, <2>2, <3>1, SendBox
  <2>3. ASSUME NEW s \in Outside, NEW m \in DOMAIN msgs, AckMessage(s, m)
        PROVE  BoxStep /\ AllFade
    BY <2>1, <2>3, AckBox
  <2> QED BY <2>2, <2>3, TickBox DEF Others
<1>2. UNCHANGED supVars
  BY DEF Others
<1> QED BY <1>1, <1>2, QuietThreads

\* The lease of a call is renewed.
LEMMA RenewThreads ==
  ASSUME BoxInv, ThreadInv, NEW m \in Jobs, Renews(m)
  PROVE  BoxStep /\ ThreadInv'
<1>1. Planned(m) /\ UNCHANGED supVars
  BY DEF ThreadInv, JobOK, Renews
<1>2. BoxStep /\ AllFade
  BY <1>1, RenewBox DEF Renews
<1> QED BY <1>1, <1>2, QuietThreads

(***************************************************************************)
(* The supervisor.                                                         *)
(***************************************************************************)
\* Every step of the supervisor.
LEMMA SupNext ==
  ASSUME SupInv, [SupervisorNext]_vars
  PROVE  BoxStep /\ SupInv'
<1> USE DEF SupInv
<1>1. CASE CycleStep
  <2>1. ASSUME NEW m \in Jobs, Collects(m)
        PROVE  BoxStep /\ ThreadInv'
    BY <2>1, CollectThreads
  <2>2. BoxStep /\ ThreadInv'
    BY <1>1, <2>1, LookThreads, ClaimingThreads, StartThreads DEF CycleStep
  <2> QED BY <2>2 DEF BoxStep
<1>2. ASSUME NEW m \in Jobs, Renews(m) \/ WorkerStep(m)
      PROVE  BoxStep /\ SupInv'
  <2>1. BoxStep /\ ThreadInv'
    BY <1>2, RenewThreads, CallThreads, AnswerThreads, CompleteThreads, ReportThreads
       DEF WorkerStep
  <2> QED BY <2>1 DEF BoxStep
<1>3. ASSUME NEW call \in strays, StrayExits(call)
      PROVE  BoxStep /\ SupInv'
  BY <1>3, StrayThreads DEF BoxStep
<1>4. CASE Dies \/ Starts \/ Others
  BY <1>4, DeathThreads, LookThreads, OtherThreads DEF BoxStep
<1>5. CASE UNCHANGED vars
  <2>1. UNCHANGED mailVars /\ UNCHANGED supVars
    BY <1>5 DEF vars
  <2>2. BoxStep /\ AllFade
    BY <2>1, MailIdle
  <2>3. ThreadInv'
    BY <2>1, <2>2, QuietThreads
  <2> QED BY <2>2, <2>3 DEF BoxStep
<1> QED BY <1>1, <1>2, <1>3, <1>4, <1>5 DEF SupervisorNext

\* The supervisor at the start.
LEMMA SupStart ==
  ASSUME SupervisorInit
  PROVE  SupInv
<1> USE DEF SupervisorInit
<1>1. BoxInv
  <2>1. DOMAIN msgs = {} /\ DOMAIN dispatches = {}
    BY DEF Init
  <2> QED BY <2>1, MailStart DEF BoxInv
<1>2. CycleTyped
  <2>1. cycle \in Cycle /\ work \in [Messages -> Job]
    BY MailboxAssumption DEF Idle, Cycle, NoJob, Job
  <2>2. Cardinality({}) <= Slots
    BY FS_EmptySet, SupervisorAssumption
  <2> QED BY <2>1, <2>2 DEF CycleTyped, NoJob
<1>3. Jobs = {} /\ cycle.at = "idle" /\ cycle.plan = {} /\ cycle.denied = {}
  BY DEF Jobs, NoJob, Idle
<1>4. Phases /\ admitted = strays \cup Held
  BY <1>3 DEF Phases, Held
<1>5. DOMAIN dispatches = {}
  BY DEF Init
<1> QED BY <1>1, <1>2, <1>3, <1>4, <1>5 DEF SupInv, ThreadInv

\* The inductive invariant of the supervisor and its mailbox.
THEOREM SupervisorInvariant == SupervisorSpec => []SupInv
<1>1. SupervisorInit => SupInv
  BY SupStart
<1>2. SupInv /\ [SupervisorNext]_vars => SupInv'
  BY SupNext
<1> QED BY <1>1, <1>2, PTL DEF SupervisorSpec

\* The supervisor's state has its types, and the calls that hold a runtime
\* slot are never more than the machine admits.
THEOREM SupervisorTypes == SupervisorSpec => []SupervisorTypeOK
<1>1. SupInv => SupervisorTypeOK
  BY DEF SupInv, BoxInv, MailInv, ThreadInv, CycleTyped, SupervisorTypeOK
<1> QED BY <1>1, SupervisorInvariant, PTL

\* Whatever raises, is given up or is lost: a slot is held by a call that is
\* still there, and a live claim has its worker or was let go of.
THEOREM NothingIdle == SupervisorSpec => []NothingHeldIdly
<1>1. SupInv => NothingHeldIdly
  BY DEF SupInv, ThreadInv, Held, Served, Live, NothingHeldIdly
<1> QED BY <1>1, SupervisorInvariant, PTL

\* A provider that may have been reached is not asked again: a live lease
\* keeps its attempt, an outcome is final, and a retry was reported as safe.
THEOREM NothingReplayed == SupervisorSpec => NoReplay
<1>1. ASSUME SupInv, [SupervisorNext]_vars, NEW key \in DOMAIN dispatches,
             dispatches'[key].attempt # dispatches[key].attempt
      PROVE  \/ key[1] \in safe
             \/ dispatches[key].status = "claimed" /\ dispatches[key].left <= 0
  <2>1. LiveStep /\ SettledStep
    BY <1>1, SupNext DEF BoxStep, MailStep
  <2>2. dispatches[key] \in DispatchRow
    BY <1>1, OneRow DEF SupInv
  <2>3. ~Terminal(dispatches[key])
    BY <1>1, <2>1 DEF SettledStep
  <2>4. dispatches[key].status \in {"claimed", "retryable"} /\ dispatches[key].left \in Int
    BY <2>2, <2>3 DEF DispatchRow, Terminal
  <2>5. CASE dispatches[key].status = "retryable"
    BY <1>1, <2>5 DEF SupInv, ThreadInv, RetrySafe
  <2>6. CASE dispatches[key].status = "claimed"
    BY <1>1, <2>1, <2>4, <2>6 DEF LiveStep
  <2> QED BY <2>4, <2>5, <2>6
<1>2. SupInv /\ [SupervisorNext]_vars =>
        [\A key \in DOMAIN dispatches :
           LET row == dispatches[key] IN
           dispatches'[key].attempt # row.attempt
             => \/ key[1] \in safe
                \/ row.status = "claimed" /\ row.left <= 0]_vars
  BY <1>1
<1> QED BY <1>2, SupervisorInvariant, PTL DEF SupervisorSpec, NoReplay

\* A supervisor keeps the mailbox right: a cursor passes nothing that is not
\* acknowledged, and a completed dispatch has a reply and a receipt of its own.
THEOREM SupervisorKeepsMailbox == SupervisorSpec => [](CursorContiguous /\ CompletedIsAnswered)
<1>1. SupInv => CursorContiguous /\ CompletedIsAnswered
  BY AnswersAreOwn DEF SupInv, BoxInv, MailInv
<1> QED BY <1>1, SupervisorInvariant, PTL

\* Outcomes are final and live leases are kept, whatever the supervisor does
\* and whenever it dies.
THEOREM SupervisorKeepsOutcomes == SupervisorSpec => SettledForGood /\ LiveLeaseKept
<1>1. SupInv /\ [SupervisorNext]_vars => SettledStep /\ LiveStep
  BY SupNext DEF BoxStep, MailStep
<1>2. SupInv /\ [SupervisorNext]_vars =>
        [\A key \in DOMAIN dispatches : Terminal(dispatches[key]) =>
           /\ key \in DOMAIN dispatches'
           /\ dispatches'[key].status = dispatches[key].status
           /\ dispatches'[key].attempt = dispatches[key].attempt
           /\ dispatches'[key].reply = dispatches[key].reply]_mailVars
  BY <1>1 DEF SettledStep
<1>3. SupInv /\ [SupervisorNext]_vars =>
        [\A key \in DOMAIN dispatches :
           dispatches[key].status = "claimed" /\ dispatches[key].left > 0
             => dispatches'[key].attempt = dispatches[key].attempt]_mailVars
  BY <1>1 DEF LiveStep
<1> QED BY <1>2, <1>3, SupervisorInvariant, PTL DEF SupervisorSpec, SettledForGood, LiveLeaseKept
=============================================================================
