--------------------------- MODULE DispatchProofs ---------------------------
(***************************************************************************)
(* Proofs about Dispatch.tla: for every set of agents, sessions and routes *)
(* and every bound, the tables keep their types, cursors pass nothing that *)
(* is not acknowledged, a completed dispatch has its own reply and receipt,*)
(* outcomes are final and live leases are kept.                            *)
(*                                                                         *)
(* Modules that add operations to the mailbox cite the lemmas below: a     *)
(* step that only adds messages and ends rows keeps MailInv as well.       *)
(***************************************************************************)
EXTENDS Dispatch, SequenceTheorems, FiniteSetTheorems, TLAPS

\* What CompletedIsAnswered says of one row, except that its reply is shared
\* with no other row, which follows from it for all rows together; and that
\* the reply is what complete_message_dispatch made of an answer.
Answered(key) ==
  LET row == dispatches[key]
      m   == key[1]
      a   == key[2]
  IN  /\ row.reply \in DOMAIN msgs /\ m < row.reply
      /\ msgs[row.reply].text \in Texts
      /\ msgs[row.reply] = Reply(m, a, msgs[row.reply].text)
      /\ <<m, a, row.attempt>> \in trusted
      /\ <<m, a>> \in receipts

\* A row is one of a message, and names a reply exactly when it is completed.
RowOK(key) ==
  /\ key[1] \in DOMAIN msgs
  /\ dispatches[key].status = "completed" => Answered(key)
  /\ dispatches[key].status # "completed" => dispatches[key].reply = 0

\* A message with a route is addressed to the agent the route belongs to.
RoutedOK(message) == message.route # NoRoute => message.to \in Agents

MailInv ==
  /\ MailTypeOK
  /\ \A key \in DOMAIN dispatches : RowOK(key)
  /\ \A m \in DOMAIN msgs : RoutedOK(msgs[m])
  /\ CursorContiguous

\* The two action properties, about one step.
SettledStep ==
  \A key \in DOMAIN dispatches : Terminal(dispatches[key]) =>
    /\ key \in DOMAIN dispatches'
    /\ dispatches'[key].status = dispatches[key].status
    /\ dispatches'[key].attempt = dispatches[key].attempt
    /\ dispatches'[key].reply = dispatches[key].reply

LiveStep ==
  \A key \in DOMAIN dispatches :
    dispatches[key].status = "claimed" /\ dispatches[key].left > 0
      => dispatches'[key].attempt = dispatches[key].attempt

-----------------------------------------------------------------------------
(* The tables.                                                             *)

\* Every row the operation did not leave alone has the type of a row.
LEMMA RowTyped ==
  ASSUME MailTypeOK, NEW m, NEW a \in Agents
  PROVE  /\ Row(m, a).status \in {"none", "claimed", "retryable", "failed", "completed"}
         /\ Row(m, a).holder \in Sessions \cup {NoSession}
         /\ Row(m, a).attempt \in 0..MaxAttempts
         /\ Row(m, a).left \in Int
         /\ Row(m, a).reply \in Nat
<1>1. CASE <<m, a>> \in DOMAIN dispatches
  <2>1. dispatches[<<m, a>>] \in DispatchRow
    BY <1>1 DEF MailTypeOK
  <2> QED BY <1>1, <2>1 DEF Row, DispatchRow
<1>2. CASE <<m, a>> \notin DOMAIN dispatches
  BY <1>2, MailboxAssumption DEF Row, NoDispatch
<1> QED BY <1>1, <1>2

\* A row that has been taken from its holder.
LEMMA TakenTyped ==
  ASSUME NEW row, row.attempt \in 0..MaxAttempts,
         NEW status \in {"failed", "retryable"}, NEW wait \in Nat
  PROVE  /\ Taken(row, status, wait) \in DispatchRow
         /\ Taken(row, status, wait).status = status
         /\ Taken(row, status, wait).reply = 0
         /\ Taken(row, status, wait).attempt = row.attempt
  BY DEF Taken, DispatchRow

\* The domain of the log.
LEMMA LogDomain ==
  ASSUME MailTypeOK
  PROVE  /\ DOMAIN msgs = 1..Len(msgs) /\ Len(msgs) \in Nat
         /\ DOMAIN msgs \subseteq Messages
         /\ \A m \in DOMAIN msgs : msgs[m] \in Message
<1>1. msgs \in Seq(Message) /\ Len(msgs) <= MaxMessages
  BY DEF MailTypeOK
<1> QED BY <1>1, LenProperties, ElementOfSeq, MailboxAssumption DEF Messages

\* What a transaction may do to the log, the receipts and the rows, so that
\* what is said of the other rows stays true.
Grows ==
  /\ msgs' \in Seq(Message) /\ Len(msgs') <= MaxMessages
  /\ \A m \in DOMAIN msgs : m \in DOMAIN msgs' /\ msgs'[m] = msgs[m]
  /\ \A m \in DOMAIN msgs' : RoutedOK(msgs'[m])
  /\ receipts \subseteq receipts'
  /\ trusted \subseteq trusted'

\* A transaction that inserts no message.
LEMMA LogSame ==
  ASSUME MailInv, UNCHANGED msgs, receipts \subseteq receipts', trusted \subseteq trusted'
  PROVE  Grows
  BY DEF MailInv, MailTypeOK, Grows

\* What a step may do to the row of key: it keeps its outcome, or it was open
\* and takes another one, with another attempt only if no lease was live.
RowStep(key) ==
  /\ key \in Messages \X Agents
  /\ dispatches'[key] \in DispatchRow
  /\ RowOK(key)'
  /\ key \in DOMAIN dispatches =>
       \/ /\ dispatches'[key].status = dispatches[key].status
          /\ dispatches'[key].attempt = dispatches[key].attempt
          /\ dispatches'[key].reply = dispatches[key].reply
       \/ /\ ~Terminal(dispatches[key])
          /\ \/ dispatches'[key].attempt = dispatches[key].attempt
             \/ ~(dispatches[key].status = "claimed" /\ dispatches[key].left > 0)

RowSteps ==
  /\ DOMAIN dispatches \subseteq DOMAIN dispatches'
  /\ \A key \in DOMAIN dispatches' : RowStep(key)

\* A row that keeps its outcome stays right.
LEMMA RowKept ==
  ASSUME MailInv, Grows, NEW key \in DOMAIN dispatches,
         dispatches'[key] \in DispatchRow,
         dispatches'[key].status = dispatches[key].status,
         dispatches'[key].attempt = dispatches[key].attempt,
         dispatches'[key].reply = dispatches[key].reply
  PROVE  RowStep(key)
<1>1. RowOK(key) /\ key \in Messages \X Agents
  BY DEF MailInv, MailTypeOK
<1>2. RowOK(key)'
  BY <1>1 DEF Grows, RowOK, Answered, Reply
<1> QED BY <1>1, <1>2 DEF RowStep

\* A row that nothing happens to.
LEMMA RowSame ==
  ASSUME MailInv, Grows, NEW key \in DOMAIN dispatches, dispatches'[key] = dispatches[key]
  PROVE  RowStep(key)
  BY RowKept DEF MailInv, MailTypeOK

\* A row that was open, or was not there, and has no reply.
LEMMA RowTurned ==
  ASSUME MailInv, Grows, NEW key \in Messages \X Agents, key[1] \in DOMAIN msgs,
         dispatches'[key] \in DispatchRow,
         dispatches'[key].status # "completed", dispatches'[key].reply = 0,
         key \in DOMAIN dispatches =>
           /\ ~Terminal(dispatches[key])
           /\ \/ dispatches'[key].attempt = dispatches[key].attempt
              \/ ~(dispatches[key].status = "claimed" /\ dispatches[key].left > 0)
  PROVE  RowStep(key)
<1>1. RowOK(key)'
  BY DEF Grows, RowOK
<1> QED BY <1>1 DEF RowStep

\* The rows after such a step, and the two action properties.
LEMMA RowsFollow ==
  ASSUME MailInv, RowSteps
  PROVE  /\ DOMAIN dispatches' \subseteq Messages \X Agents
         /\ \A key \in DOMAIN dispatches' : dispatches'[key] \in DispatchRow /\ RowOK(key)'
         /\ SettledStep
         /\ LiveStep
<1>1. SettledStep
  BY DEF RowSteps, RowStep, SettledStep
<1>2. LiveStep
  BY DEF RowSteps, RowStep, LiveStep, Terminal
<1> QED BY <1>1, <1>2 DEF RowSteps, RowStep

\* So does a cursor that is not moved.
LEMMA CursorStays ==
  ASSUME MailTypeOK, Grows, CursorContiguous, cursor' = cursor
  PROVE  CursorContiguous'
  BY DEF Grows, CursorContiguous, AddressedTo

\* A set of numbers up to n that has a member has a greatest one: the interval
\* from it to n is the smallest of the intervals from a member to n.
LEMMA MaxExists ==
  ASSUME NEW n \in Nat, NEW S \in SUBSET (1..n), S # {}
  PROVE  \E x \in S : \A y \in S : x >= y
<1> DEFINE T == {x..n : x \in S}
<1>1. IsFiniteSet(1..n)
  BY FS_Interval
<1>2. IsWellFoundedOn(StrictSubsetOrdering(1..n), FiniteSubsetsOf(1..n))
  BY FS_StrictSubsetOrderingWellFounded
<1>3. T \subseteq SUBSET (1..n) /\ T # {}
  <2>1. \A x \in S : x..n \in SUBSET (1..n)
    OBVIOUS
  <2>2. PICK x \in S : TRUE
    OBVIOUS
  <2>3. x..n \in T
    OBVIOUS
  <2> QED BY <2>1, <2>3
<1>4. T \subseteq FiniteSubsetsOf(1..n)
  BY <1>1, <1>3, FS_FiniteSubsetsOfFinite
<1>5. \E t \in T : \A u \in T : <<u, t>> \notin StrictSubsetOrdering(1..n)
  <2> HIDE DEF T
  <2> QED BY <1>2, <1>3, <1>4, WFMin
<1>6. PICK x \in S : \A y \in S : <<y..n, x..n>> \notin StrictSubsetOrdering(1..n)
  BY <1>5
<1>7. ASSUME NEW y \in S, y > x
      PROVE  FALSE
  <2>1. y..n \subseteq x..n /\ y..n # x..n /\ y..n \in SUBSET (1..n) /\ x..n \in SUBSET (1..n)
    BY <1>7
  <2> QED BY <2>1, <1>6 DEF StrictSubsetOrdering
<1> QED BY <1>7

\* And a smallest one.
LEMMA MinExists ==
  ASSUME NEW n \in Nat, NEW S \in SUBSET (1..n), S # {}
  PROVE  \E x \in S : \A y \in S : x <= y
<1> DEFINE T == {(n + 1) - x : x \in S}
<1>1. T \in SUBSET (1..n)
  OBVIOUS
<1>2. T # {}
  <2>1. PICK x \in S : TRUE
    OBVIOUS
  <2>2. (n + 1) - x \in T
    OBVIOUS
  <2> QED BY <2>2
<1>3. \E t \in T : \A u \in T : t >= u
  <2> HIDE DEF T
  <2> QED BY <1>1, <1>2, MaxExists
<1>4. PICK x \in S : \A u \in T : (n + 1) - x >= u
  BY <1>3
<1>5. \A y \in S : (n + 1) - x >= (n + 1) - y
  BY <1>4
<1> QED BY <1>5

\* A cursor that moves as Advanced says.
LEMMA CursorMoves ==
  ASSUME MailInv, Grows, MailTypeOK', NEW a \in Agents,
         cursor' = [cursor EXCEPT ![a] = Advanced(msgs', receipts', a, @)]
  PROVE  CursorContiguous'
<1> DEFINE eligible == {i \in DOMAIN msgs' : i > cursor[a] /\ AddressedTo(msgs', i, a)}
           passed   == {i \in eligible : \A j \in eligible : j <= i => <<j, a>> \in receipts'}
<1>1. Advanced(msgs', receipts', a, cursor[a]) = IF passed = {} THEN cursor[a] ELSE Max(passed)
  BY DEF Advanced
<1>2. DOMAIN msgs' = 1..Len(msgs') /\ Len(msgs') \in Nat /\ cursor \in [Agents -> 0..MaxMessages]
  BY LenProperties DEF MailInv, MailTypeOK
<1>3. SUFFICES ASSUME NEW b \in Agents, NEW i \in 1..cursor'[b]
               PROVE  i \in DOMAIN msgs' /\ (AddressedTo(msgs', i, b) => <<i, b>> \in receipts')
  BY DEF CursorContiguous, AddressedTo
<1>4. CASE i \in 1..cursor[b]
  BY <1>4 DEF Grows, MailInv, CursorContiguous, AddressedTo
<1>5. CASE i \notin 1..cursor[b]
  <2>1. b = a /\ passed # {} /\ cursor'[b] = Max(passed)
    BY <1>1, <1>2, <1>5
  <2>2. passed \subseteq 1..Len(msgs')
    BY <1>2
  <2>3. Max(passed) \in passed
    <3>1. \E x \in passed : \A y \in passed : x >= y
      BY <2>1, <2>2, <1>2, MaxExists
    <3> QED BY <3>1 DEF Max
  <2>4. i > cursor[a] /\ i <= Max(passed) /\ i \in DOMAIN msgs'
    BY <1>2, <1>5, <2>1, <2>2, <2>3
  <2>5. AddressedTo(msgs', i, a) => i \in eligible
    BY <2>4
  <2> QED BY <2>1, <2>3, <2>4, <2>5
<1> QED BY <1>4, <1>5

(***************************************************************************)
(* The operations.                                                         *)
(***************************************************************************)
\* What a transaction keeps and never does.
MailStep == Grows /\ MailInv' /\ SettledStep /\ LiveStep

\* A transaction that acknowledges nothing: it adds messages, turns rows and
\* changes seats, in one of these ways or in several at once.
LEMMA NothingAcknowledged ==
  ASSUME MailInv, Grows, RowSteps,
         trusted' \subseteq Messages \X Agents \X (1..MaxAttempts),
         seats' \in [Agents -> Routes \cup {NoRoute, Away}],
         UNCHANGED <<receipts, cursor>>
  PROVE  MailStep
<1>1. /\ DOMAIN dispatches' \subseteq Messages \X Agents
      /\ \A key \in DOMAIN dispatches' : dispatches'[key] \in DispatchRow /\ RowOK(key)'
      /\ SettledStep /\ LiveStep
  BY RowsFollow
<1>2. MailTypeOK'
  BY <1>1 DEF MailInv, MailTypeOK, Messages, Grows
<1>3. CursorContiguous'
  BY CursorStays DEF MailInv
<1> QED BY <1>1, <1>2, <1>3 DEF MailStep, MailInv, Grows

\* A transaction that leaves the rows alone.
LEMMA RowsSame ==
  ASSUME MailInv, Grows, UNCHANGED dispatches
  PROVE  RowSteps
  BY RowSame DEF RowSteps

\* A transaction that changes the rows only.
LEMMA OnlyRows ==
  ASSUME MailInv, RowSteps, UNCHANGED <<msgs, receipts, cursor, trusted, seats>>
  PROVE  MailStep
<1>1. Grows
  BY LogSame
<1> QED BY <1>1, NothingAcknowledged DEF MailInv, MailTypeOK

\* A message at the end of the log.
LEMMA LogAppended ==
  ASSUME MailInv, NEW new \in Message, RoutedOK(new),
         msgs' = Append(msgs, new), Len(msgs) < MaxMessages,
         receipts \subseteq receipts', trusted \subseteq trusted'
  PROVE  /\ Grows
         /\ Len(msgs') = Len(msgs) + 1
         /\ Len(msgs') \in DOMAIN msgs' /\ msgs'[Len(msgs')] = new
<1>1. msgs \in Seq(Message) /\ Len(msgs) \in Nat /\ MaxMessages \in Nat
  BY MailboxAssumption DEF MailInv, MailTypeOK
<1>2. /\ msgs' \in Seq(Message) /\ Len(msgs') = Len(msgs) + 1
      /\ \A m \in 1..Len(msgs) : msgs'[m] = msgs[m]
      /\ msgs'[Len(msgs) + 1] = new
  BY <1>1, AppendProperties
<1>3. DOMAIN msgs = 1..Len(msgs) /\ DOMAIN msgs' = 1..Len(msgs')
  BY <1>1, <1>2, LenProperties
<1>4. \A m \in DOMAIN msgs' : RoutedOK(msgs'[m])
  BY <1>1, <1>2, <1>3 DEF MailInv
<1> QED BY <1>1, <1>2, <1>3, <1>4 DEF Grows

\* send_message.
LEMMA SendStep ==
  ASSUME MailInv, NEW s \in Sessions, NEW to \in Agents \cup {Everyone},
         NEW r \in Routes \cup {NoRoute}, NEW parent,
         SendMessage(s, to, r, parent)
  PROVE  MailStep
<1> DEFINE new == [sender |-> AgentOf[s], to |-> to, route |-> r, parent |-> parent,
                   disc |-> 0, round |-> 0, role |-> "none", text |-> NoText]
<1>1. new \in Message
  <2>1. parent \in Nat
    BY LogDomain DEF SendMessage, MailInv
  <2> QED BY <2>1, MailboxAssumption DEF Message
<1>2. RoutedOK(new)
  BY MailboxAssumption DEF RoutedOK, SendMessage
<1>3. Grows
  <2> HIDE DEF new
  <2> QED BY <1>1, <1>2, LogAppended DEF SendMessage, new
<1>4. RowSteps
  BY <1>3, RowsSame DEF SendMessage
<1> QED BY <1>3, <1>4, NothingAcknowledged DEF SendMessage, MailInv, MailTypeOK

\* claim_message_dispatch.
LEMMA ClaimStep ==
  ASSUME MailInv, NEW s \in Sessions, NEW m, NEW secs \in LeaseLengths, NEW d \in 0..LockWait,
         ClaimDispatch(s, m, secs, d)
  PROVE  MailStep
<1> DEFINE key == <<m, AgentOf[s]>>
           row == Row(m, AgentOf[s])
<1> USE DEF ClaimDispatch
<1>1. AgentOf[s] \in Agents /\ m \in DOMAIN msgs /\ secs \in Nat /\ d \in Nat
  BY MailboxAssumption
<1>2. row.attempt \in 0..MaxAttempts
  BY <1>1, RowTyped DEF MailInv
<1>3. Grows
  BY LogSame
<1>4. ASSUME NEW k \in DOMAIN dispatches'
      PROVE  RowStep(k)
  <2>1. CASE k # key
    BY <2>1, <1>3, <1>4, RowSame
  <2>2. CASE k = key
    <3>1. dispatches'[k] = [status |-> "claimed", holder |-> s, attempt |-> row.attempt + 1,
                            left |-> secs - d, reply |-> 0]
      BY <2>2
    <3>2. dispatches'[k] \in DispatchRow
      BY <3>1, <1>1, <1>2, MailboxAssumption DEF DispatchRow
    <3>3. k \in DOMAIN dispatches =>
            /\ ~Terminal(dispatches[k])
            /\ ~(dispatches[k].status = "claimed" /\ dispatches[k].left > 0)
      <4>1. SUFFICES ASSUME k \in DOMAIN dispatches
                     PROVE  /\ ~Terminal(dispatches[k])
                            /\ ~(dispatches[k].status = "claimed" /\ dispatches[k].left > 0)
        OBVIOUS
      <4>2. row = dispatches[k] /\ dispatches[k] \in DispatchRow
        BY <4>1, <2>2 DEF Row, MailInv, MailTypeOK
      <4>3. row.left \in Int
        BY <4>2 DEF DispatchRow
      <4> QED BY <4>2, <4>3, <1>1 DEF Free, Terminal, DispatchRow
    <3>4. k \in Messages \X Agents /\ k[1] \in DOMAIN msgs
      BY <2>2, <1>1, LogDomain DEF MailInv
    <3>5. dispatches'[k].status # "completed" /\ dispatches'[k].reply = 0
      BY <3>1
    <3> QED BY <3>2, <3>3, <3>4, <3>5, <1>3, RowTurned
  <2> QED BY <2>1, <2>2
<1>5. RowSteps
  BY <1>4 DEF RowSteps
<1> QED BY <1>5, OnlyRows

\* record_trusted_inference_receipt.
LEMMA ReceiptStep ==
  ASSUME MailInv, NEW s \in Sessions, NEW m \in DOMAIN msgs, NEW k \in 1..MaxAttempts,
         RecordReceipt(s, m, k)
  PROVE  MailStep
<1>1. Grows
  BY LogSame DEF RecordReceipt
<1>2. RowSteps
  BY <1>1, RowsSame DEF RecordReceipt
<1>3. <<m, AgentOf[s], k>> \in Messages \X Agents \X (1..MaxAttempts)
  BY LogDomain, MailboxAssumption DEF MailInv
<1> QED BY <1>1, <1>2, <1>3, NothingAcknowledged DEF RecordReceipt, MailInv, MailTypeOK

\* The row of a holder.
LEMMA HeldRow ==
  ASSUME MailInv, NEW s \in Sessions, NEW m, NEW k, HoldsDispatch(s, m, k)
  PROVE  /\ <<m, AgentOf[s]>> \in DOMAIN dispatches
         /\ dispatches[<<m, AgentOf[s]>>] \in DispatchRow
         /\ dispatches[<<m, AgentOf[s]>>].status = "claimed"
         /\ dispatches[<<m, AgentOf[s]>>].attempt = k
         /\ dispatches[<<m, AgentOf[s]>>].reply = 0
         /\ m \in DOMAIN msgs /\ AgentOf[s] \in Agents
<1>1. <<m, AgentOf[s]>> \in DOMAIN dispatches
  BY DEF HoldsDispatch, Row, NoDispatch
<1>2. RowOK(<<m, AgentOf[s]>>)
  BY <1>1 DEF MailInv
<1>3. m \in DOMAIN msgs
  BY <1>2 DEF RowOK
<1> QED BY <1>1, <1>2, <1>3, MailboxAssumption DEF HoldsDispatch, Row, MailInv, MailTypeOK, RowOK

\* renew_message_dispatch.
LEMMA RenewStep ==
  ASSUME MailInv, NEW s \in Sessions, NEW m, NEW k, NEW secs \in LeaseLengths,
         RenewDispatch(s, m, k, secs)
  PROVE  MailStep
<1> DEFINE key == <<m, AgentOf[s]>>
<1>1. key \in DOMAIN dispatches /\ dispatches[key] \in DispatchRow
  BY HeldRow DEF RenewDispatch
<1>2. Grows
  BY LogSame DEF RenewDispatch
<1>3. ASSUME NEW other \in DOMAIN dispatches'
      PROVE  RowStep(other)
  <2>1. CASE other # key
    BY <2>1, <1>2, <1>3, RowSame DEF RenewDispatch
  <2>2. CASE other = key
    <3>1. dispatches'[key] = [dispatches[key] EXCEPT !.left = secs] /\ secs \in Int
      BY <1>1, MailboxAssumption DEF RenewDispatch
    <3>2. /\ dispatches'[key] \in DispatchRow
          /\ dispatches'[key].status = dispatches[key].status
          /\ dispatches'[key].attempt = dispatches[key].attempt
          /\ dispatches'[key].reply = dispatches[key].reply
      BY <3>1, <1>1 DEF DispatchRow
    <3> QED BY <3>2, <2>2, <1>1, <1>2, RowKept
  <2> QED BY <2>1, <2>2
<1>4. RowSteps
  BY <1>3 DEF RowSteps, RenewDispatch
<1> QED BY <1>4, OnlyRows DEF RenewDispatch

\* fail_message_dispatch.
LEMMA FailStep ==
  ASSUME MailInv, NEW s \in Sessions, NEW m, NEW k, NEW status, NEW wait,
         FailDispatch(s, m, k, status, wait)
  PROVE  MailStep
<1> DEFINE key == <<m, AgentOf[s]>>
<1>1. /\ key \in DOMAIN dispatches /\ dispatches[key] \in DispatchRow
      /\ dispatches[key].status = "claimed"
      /\ m \in DOMAIN msgs /\ AgentOf[s] \in Agents
  <2>1. HoldsDispatch(s, m, k)
    BY DEF FailDispatch
  <2> QED BY <2>1, HeldRow
<1>2. Grows
  BY LogSame DEF FailDispatch
<1>3. ASSUME NEW other \in DOMAIN dispatches'
      PROVE  RowStep(other)
  <2>1. CASE other # key
    BY <2>1, <1>2, <1>3, RowSame DEF FailDispatch
  <2>2. CASE other = key
    <3>1. dispatches'[key] = Taken(dispatches[key], status, wait)
      BY <1>1 DEF FailDispatch
    <3>2. status \in {"failed", "retryable"} /\ wait \in Nat
      <4>1. \/ status = "failed" /\ wait = 0
            \/ status = "retryable" /\ wait \in RetryDelays
        BY DEF FailDispatch
      <4>2. RetryDelays \subseteq Nat
        BY MailboxAssumption
      <4>3. CASE status = "failed" /\ wait = 0
        BY <4>3
      <4>4. CASE status = "retryable" /\ wait \in RetryDelays
        BY <4>2, <4>4
      <4> QED BY <4>1, <4>3, <4>4
    <3>3. dispatches[key].attempt \in 0..MaxAttempts
      BY <1>1 DEF DispatchRow
    <3>4. /\ dispatches'[key] \in DispatchRow
          /\ dispatches'[key].status = status
          /\ dispatches'[key].reply = 0
          /\ dispatches'[key].attempt = dispatches[key].attempt
      BY <3>1, <3>2, <3>3, TakenTyped
    <3>5. key \in Messages \X Agents /\ key[1] \in DOMAIN msgs
      BY <1>1, LogDomain DEF MailInv
    <3>6. dispatches'[key].status # "completed" /\ ~Terminal(dispatches[key])
      BY <3>2, <3>4, <1>1 DEF Terminal
    <3> QED BY <3>4, <3>5, <3>6, <2>2, <1>1, <1>2, RowTurned
  <2> QED BY <2>1, <2>2
<1>4. RowSteps
  BY <1>3 DEF RowSteps, FailDispatch
<1> QED BY <1>4, OnlyRows DEF FailDispatch

\* What Advanced says is a position of the log.
LEMMA AdvancedTyped ==
  ASSUME NEW log, NEW n \in Nat, DOMAIN log = 1..n, n <= MaxMessages,
         NEW acked, NEW a, NEW position \in 0..MaxMessages
  PROVE  Advanced(log, acked, a, position) \in 0..MaxMessages
<1> DEFINE eligible == {i \in DOMAIN log : i > position /\ AddressedTo(log, i, a)}
           passed   == {i \in eligible : \A j \in eligible : j <= i => <<j, a>> \in acked}
<1>1. Advanced(log, acked, a, position) = IF passed = {} THEN position ELSE Max(passed)
  BY DEF Advanced
<1>2. CASE passed # {}
  <2>1. passed \in SUBSET (1..n)
    OBVIOUS
  <2>2. \E x \in passed : \A y \in passed : x >= y
    <3> HIDE DEF passed
    <3> QED BY <1>2, <2>1, MaxExists
  <2>3. Max(passed) \in passed
    <3> HIDE DEF passed
    <3> QED BY <2>2 DEF Max
  <2>4. Max(passed) \in 1..n
    BY <2>1, <2>3
  <2> QED BY <1>1, <1>2, <2>4, MailboxAssumption
<1> QED BY <1>1, <1>2

\* A transaction that acknowledges message m for agent a.
LEMMA Acknowledged ==
  ASSUME MailInv, Grows, RowSteps, NEW m \in Messages, NEW a \in Agents,
         receipts' = receipts \cup {<<m, a>>},
         cursor' = [cursor EXCEPT ![a] = Advanced(msgs', receipts', a, @)],
         UNCHANGED <<trusted, seats>>
  PROVE  MailStep
<1>1. /\ DOMAIN dispatches' \subseteq Messages \X Agents
      /\ \A key \in DOMAIN dispatches' : dispatches'[key] \in DispatchRow /\ RowOK(key)'
      /\ SettledStep /\ LiveStep
  BY RowsFollow
<1>2. cursor' \in [Agents -> 0..MaxMessages]
  <2>1. cursor \in [Agents -> 0..MaxMessages]
    BY DEF MailInv, MailTypeOK
  <2>2. DOMAIN msgs' = 1..Len(msgs') /\ Len(msgs') \in Nat
    BY LenProperties DEF Grows
  <2>3. Advanced(msgs', receipts', a, cursor[a]) \in 0..MaxMessages
    BY <2>1, <2>2, AdvancedTyped DEF Grows
  <2> QED BY <2>1, <2>3
<1>3. MailTypeOK'
  BY <1>1, <1>2 DEF MailInv, MailTypeOK, Messages, Grows
<1>4. CursorContiguous'
  BY <1>3, CursorMoves
<1> QED BY <1>1, <1>3, <1>4 DEF MailStep, MailInv, Grows

\* ack_message.
LEMMA AckStep ==
  ASSUME MailInv, NEW s \in Sessions, NEW m, AckMessage(s, m)
  PROVE  MailStep
<1>1. AgentOf[s] \in Agents /\ m \in Messages
  BY LogDomain, MailboxAssumption DEF AckMessage, MailInv
<1>2. Grows
  BY LogSame DEF AckMessage
<1>3. RowSteps
  BY <1>2, RowsSame DEF AckMessage
<1>4. /\ receipts' = receipts \cup {<<m, AgentOf[s]>>}
      /\ cursor' = [cursor EXCEPT ![AgentOf[s]] = Advanced(msgs', receipts', AgentOf[s], @)]
      /\ UNCHANGED <<trusted, seats>>
  BY DEF AckMessage
<1> QED BY <1>1, <1>2, <1>3, <1>4, Acknowledged

\* complete_message_dispatch.
LEMMA CompleteStep ==
  ASSUME MailInv, NEW s \in Sessions, NEW m, NEW k, NEW text \in Texts,
         CompleteDispatch(s, m, k, text)
  PROVE  MailStep
<1> DEFINE a   == AgentOf[s]
           key == <<m, a>>
           new == Reply(m, a, text)
<1>1. HoldsDispatch(s, m, k)
  BY DEF CompleteDispatch
<1>2. /\ key \in DOMAIN dispatches /\ dispatches[key] \in DispatchRow
      /\ dispatches[key].status = "claimed" /\ dispatches[key].attempt = k
      /\ m \in DOMAIN msgs /\ a \in Agents
  BY <1>1, HeldRow
<1>3. m \in Messages /\ msgs[m] \in Message
  BY <1>2, LogDomain DEF MailInv
<1>4. new \in Message
  <2>1. /\ msgs[m].sender \in Agents \cup {Orchestrator}
        /\ msgs[m].disc \in Nat /\ msgs[m].round \in Nat
    BY <1>3 DEF Message
  <2>2. m \in Nat
    BY <1>3, MailboxAssumption DEF Messages
  <2>3. (IF msgs[m].disc # 0 THEN "response" ELSE "none") \in {"none", "prompt", "response"}
    OBVIOUS
  <2> QED BY <1>2, <2>1, <2>2, <2>3 DEF Reply, Message
<1>5. /\ Grows /\ Len(msgs') = Len(msgs) + 1
      /\ Len(msgs') \in DOMAIN msgs' /\ msgs'[Len(msgs')] = new
  <2>2. RoutedOK(new)
    BY DEF RoutedOK, Reply
  <2> HIDE DEF new
  <2>1. /\ msgs' = Append(msgs, new) /\ Len(msgs) < MaxMessages
        /\ receipts \subseteq receipts' /\ trusted \subseteq trusted'
    BY DEF CompleteDispatch, new
  <2> QED BY <1>4, <2>1, <2>2, LogAppended
<1>6. ASSUME NEW other \in DOMAIN dispatches'
      PROVE  RowStep(other)
  <2>1. CASE other # key
    BY <2>1, <1>5, <1>6, RowSame DEF CompleteDispatch
  <2>2. CASE other = key
    <3>1. dispatches'[key] = [status |-> "completed", holder |-> s, attempt |-> k,
                              left |-> 0, reply |-> Len(msgs')]
      BY <1>2 DEF CompleteDispatch
    <3>2. k \in 0..MaxAttempts /\ Len(msgs') \in Nat
      BY <1>2, <1>5, LenProperties DEF DispatchRow, Grows
    <3>3. dispatches'[key] \in DispatchRow
      BY <3>1, <3>2 DEF DispatchRow
    <3>4. RowOK(key)'
      <4>1. msgs'[m] = msgs[m] /\ m \in DOMAIN msgs'
        BY <1>2, <1>5 DEF Grows
      <4>2. <<m, a, k>> \in trusted' /\ <<m, a>> \in receipts'
        BY DEF CompleteDispatch, Receipted
      <4>3. new.text = text /\ new = Reply(m, a, text)'
        BY <4>1 DEF Reply
      <4>4. m < Len(msgs')
        BY <1>2, <1>5, LogDomain DEF MailInv
      <4> HIDE DEF new
      <4> QED BY <3>1, <4>1, <4>2, <4>3, <4>4, <1>5 DEF RowOK, Answered
    <3>5. ~Terminal(dispatches[key]) /\ dispatches'[key].attempt = dispatches[key].attempt
      BY <3>1, <1>2 DEF Terminal
    <3> QED BY <2>2, <3>3, <3>4, <3>5, <1>2, <1>3 DEF RowStep
  <2> QED BY <2>1, <2>2
<1>7. RowSteps
  BY <1>6 DEF RowSteps, CompleteDispatch
<1>8. /\ receipts' = receipts \cup {key}
      /\ cursor' = [cursor EXCEPT ![a] = Advanced(msgs', receipts', a, @)]
      /\ UNCHANGED <<trusted, seats>>
  BY DEF CompleteDispatch
<1> QED BY <1>2, <1>3, <1>5, <1>7, <1>8, Acknowledged

\* A message of reconcile_message_dispatches is one to an agent.
LEMMA UnsettledRow ==
  ASSUME MailInv, NEW m \in Unsettled
  PROVE  m \in DOMAIN msgs /\ m \in Messages /\ msgs[m].to \in Agents
  BY LogDomain DEF MailInv, Unsettled, RoutedOK

\* reconcile_message_dispatches.
LEMMA ReconcileStep ==
  ASSUME MailInv, NEW unserved, NEW d \in 0..LockWait, Reconcile(unserved, d)
  PROVE  MailStep
<1> DEFINE settled == {m \in Unsettled : Hopeless(m, unserved, d)}
           added   == {<<m, msgs[m].to>> : m \in settled}
<1>1. \A m \in settled : m \in DOMAIN msgs /\ m \in Messages /\ msgs[m].to \in Agents
  BY UnsettledRow
<1>2. dispatches' = [key \in DOMAIN dispatches \cup added |->
                       IF key[1] \in settled /\ key[2] = msgs[key[1]].to
                       THEN Taken(Row(key[1], key[2]), "failed", 0) ELSE dispatches[key]]
  BY DEF Reconcile
<1>3. Grows
  BY LogSame DEF Reconcile
<1>4. ASSUME NEW key \in DOMAIN dispatches'
      PROVE  RowStep(key)
  <2>1. key \in DOMAIN dispatches \cup added
    BY <1>2
  <2>2. key \in Messages \X Agents
    <3>1. CASE key \in DOMAIN dispatches
      BY <3>1 DEF MailInv, MailTypeOK
    <3>2. CASE key \in added
      BY <3>2, <1>1
    <3> QED BY <2>1, <3>1, <3>2
  <2>3. CASE key[1] \in settled /\ key[2] = msgs[key[1]].to
    <3>1. dispatches'[key] = Taken(Row(key[1], key[2]), "failed", 0)
      BY <1>2, <2>1, <2>3
    <3>2. key[1] \in DOMAIN msgs /\ key[2] \in Agents
      BY <1>1, <2>2, <2>3
    <3>3. Row(key[1], key[2]).attempt \in 0..MaxAttempts
      BY <3>2, RowTyped DEF MailInv
    <3>4. /\ dispatches'[key] \in DispatchRow
          /\ dispatches'[key].status = "failed"
          /\ dispatches'[key].reply = 0
          /\ dispatches'[key].attempt = Row(key[1], key[2]).attempt
      BY <3>1, <3>3, TakenTyped
    <3>5. ASSUME key \in DOMAIN dispatches
          PROVE  /\ ~Terminal(dispatches[key])
                 /\ dispatches'[key].attempt = dispatches[key].attempt
      <4>1. Row(key[1], key[2]) = dispatches[key]
        BY <3>5, <2>2 DEF Row
      <4>2. ~Terminal(Row(key[1], msgs[key[1]].to))
        BY <2>3 DEF Unsettled
      <4> QED BY <3>4, <4>1, <4>2, <2>3
    <3> QED BY <1>3, <2>2, <3>2, <3>4, <3>5, RowTurned
  <2>4. CASE ~(key[1] \in settled /\ key[2] = msgs[key[1]].to)
    <3>1. key \in DOMAIN dispatches
      BY <2>1, <2>4
    <3>2. dispatches'[key] = dispatches[key]
      BY <1>2, <2>1, <2>4
    <3> QED BY <1>3, <3>1, <3>2, RowSame
  <2> QED BY <2>3, <2>4
<1>5. RowSteps
  BY <1>2, <1>4 DEF RowSteps
<1> QED BY <1>5, OnlyRows DEF Reconcile

\* join_room and leave_room.
LEMMA SeatStep ==
  ASSUME MailInv, NEW a \in Agents, NEW r \in Routes \cup {NoRoute},
         JoinRoom(a, r) \/ LeaveRoom(a)
  PROVE  MailStep
<1>1. Grows /\ UNCHANGED <<receipts, cursor, trusted>>
  BY LogSame DEF JoinRoom, LeaveRoom
<1>2. RowSteps
  BY <1>1, RowsSame DEF JoinRoom, LeaveRoom
<1>3. seats' \in [Agents -> Routes \cup {NoRoute, Away}]
  BY DEF JoinRoom, LeaveRoom, MailInv, MailTypeOK
<1> QED BY <1>1, <1>2, <1>3, NothingAcknowledged DEF MailInv, MailTypeOK

\* A step that touches nothing but the holders and the time left of the rows.
LEMMA RowsPass ==
  ASSUME MailInv, DOMAIN dispatches' = DOMAIN dispatches,
         \A key \in DOMAIN dispatches :
           /\ dispatches'[key] \in DispatchRow
           /\ dispatches'[key].status = dispatches[key].status
           /\ dispatches'[key].attempt = dispatches[key].attempt
           /\ dispatches'[key].reply = dispatches[key].reply,
         UNCHANGED <<msgs, receipts, cursor, trusted, seats>>
  PROVE  MailStep
<1>1. Grows
  BY LogSame
<1>2. RowSteps
  BY <1>1, RowKept DEF RowSteps
<1> QED BY <1>2, OnlyRows

\* A process ends.
LEMMA CrashStep ==
  ASSUME MailInv, NEW s, Crash(s)
  PROVE  MailStep
<1>1. ASSUME NEW key \in DOMAIN dispatches
      PROVE  /\ dispatches'[key] \in DispatchRow
             /\ dispatches'[key].status = dispatches[key].status
             /\ dispatches'[key].attempt = dispatches[key].attempt
             /\ dispatches'[key].reply = dispatches[key].reply
  <2>1. dispatches[key] \in DispatchRow
    BY DEF MailInv, MailTypeOK
  <2>2. dispatches'[key] \in {dispatches[key], [dispatches[key] EXCEPT !.holder = NoSession]}
    BY DEF Crash
  <2> QED BY <2>1, <2>2 DEF DispatchRow
<1> QED BY <1>1, RowsPass DEF Crash

\* Time passes.
LEMMA TickStep ==
  ASSUME MailInv, Tick
  PROVE  MailStep
<1>1. ASSUME NEW key \in DOMAIN dispatches
      PROVE  /\ dispatches'[key] \in DispatchRow
             /\ dispatches'[key].status = dispatches[key].status
             /\ dispatches'[key].attempt = dispatches[key].attempt
             /\ dispatches'[key].reply = dispatches[key].reply
  <2>1. dispatches[key] \in DispatchRow
    BY DEF MailInv, MailTypeOK
  <2>2. dispatches'[key] \in {dispatches[key],
                              [dispatches[key] EXCEPT !.left = dispatches[key].left - 1]}
    BY DEF Tick
  <2> QED BY <2>1, <2>2 DEF DispatchRow
<1> QED BY <1>1, RowsPass DEF Tick

(***************************************************************************)
(* The mailbox.                                                            *)
(***************************************************************************)
\* The empty tables.
LEMMA MailStart ==
  ASSUME Init
  PROVE  MailInv
<1>1. MailTypeOK
  BY MailboxAssumption DEF Init, MailTypeOK
<1>2. DOMAIN msgs = {} /\ DOMAIN dispatches = {}
  BY DEF Init
<1>3. CursorContiguous
  BY DEF Init, CursorContiguous
<1> QED BY <1>1, <1>2, <1>3 DEF MailInv

\* A step of a session.
LEMMA SessionSteps ==
  ASSUME MailInv, NEW s \in Sessions, SessionStep(s)
  PROVE  MailStep
<1>1. CASE \E send \in Sends, parent \in 0..Len(msgs) :
             send[1] = AgentOf[s] /\ SendMessage(s, send[2], send[3], parent)
  <2>1. PICK send \in Sends, parent \in 0..Len(msgs) : SendMessage(s, send[2], send[3], parent)
    BY <1>1
  <2>2. send[2] \in Agents \cup {Everyone} /\ send[3] \in Routes \cup {NoRoute}
    BY MailboxAssumption
  <2> QED BY <2>1, <2>2, SendStep
<1>2. CASE \E m \in DOMAIN msgs : AckMessage(s, m)
  BY <1>2, AckStep
<1>3. ASSUME NEW m \in DOMAIN msgs, DispatchCall(s, m)
      PROVE  MailStep
  <2>1. CASE \E secs \in LeaseLengths, d \in 0..LockWait : ClaimDispatch(s, m, secs, d)
    BY <2>1, ClaimStep
  <2>2. ASSUME NEW k \in 1..MaxAttempts,
               \/ RecordReceipt(s, m, k)
               \/ \E text \in Texts : CompleteDispatch(s, m, k, text)
               \/ \E secs \in LeaseLengths : RenewDispatch(s, m, k, secs)
               \/ \E status \in {"failed", "retryable"}, wait \in RetryDelays \cup {0} :
                    FailDispatch(s, m, k, status, wait)
        PROVE  MailStep
    BY <2>2, ReceiptStep, CompleteStep, RenewStep, FailStep
  <2> QED BY <1>3, <2>1, <2>2 DEF DispatchCall
<1> QED BY <1>1, <1>2, <1>3 DEF SessionStep

\* Every step of the mailbox.
LEMMA MailNext ==
  ASSUME MailInv, Next
  PROVE  MailStep
<1>1. CASE \E s \in Sessions : SessionStep(s) \/ Crash(s)
  BY <1>1, SessionSteps, CrashStep
<1>2. CASE \E unserved \in SUBSET Unsettled, d \in 0..LockWait : Reconcile(unserved, d)
  BY <1>2, ReconcileStep
<1>3. CASE \E a \in Movers, r \in Routes \cup {NoRoute} : JoinRoom(a, r) \/ LeaveRoom(a)
  <2>1. Movers \subseteq Agents
    BY MailboxAssumption
  <2> QED BY <1>3, <2>1, SeatStep
<1>4. CASE Tick
  BY <1>4, TickStep
<1> QED BY <1>1, <1>2, <1>3, <1>4 DEF Next

\* A step that changes no table of the mailbox.
LEMMA MailStutter ==
  ASSUME MailInv, UNCHANGED <<msgs, receipts, cursor, dispatches, trusted, seats>>
  PROVE  MailStep
<1>1. Grows
  BY LogSame
<1>2. RowSteps
  BY <1>1, RowsSame
<1> QED BY <1>2, OnlyRows

\* Two rows have different replies: a reply names the message and the agent it
\* answers for.
LEMMA AnswersAreOwn ==
  ASSUME MailInv
  PROVE  CompletedIsAnswered
<1>0. ASSUME NEW key, Answered(key)
      PROVE  /\ msgs[dispatches[key].reply].parent = key[1]
             /\ msgs[dispatches[key].reply].sender = key[2]
             /\ msgs[dispatches[key].reply].to = msgs[key[1]].sender
  <2> DEFINE r == dispatches[key].reply
  <2>1. msgs[r] = Reply(key[1], key[2], msgs[r].text)
    BY <1>0 DEF Answered
  <2> HIDE DEF r
  <2>2. /\ msgs[r].parent = key[1] /\ msgs[r].sender = key[2]
        /\ msgs[r].to = msgs[key[1]].sender
    BY <2>1 DEF Reply
  <2> QED BY <2>2 DEF r
<1>1. SUFFICES ASSUME NEW key \in DOMAIN dispatches, dispatches[key].status = "completed"
               PROVE  /\ Answered(key)
                      /\ \A other \in DOMAIN dispatches \ {key} :
                           dispatches[other].reply # dispatches[key].reply
  BY <1>0 DEF CompletedIsAnswered, Answered
<1>2. Answered(key)
  BY <1>1 DEF MailInv, RowOK
<1>3. dispatches[key].reply # 0
  BY <1>2, LogDomain DEF MailInv, Answered
<1>4. ASSUME NEW other \in DOMAIN dispatches, dispatches[other].reply = dispatches[key].reply
      PROVE  other = key
  <2>1. dispatches[other].status = "completed"
    BY <1>3, <1>4 DEF MailInv, RowOK
  <2>2. Answered(other)
    BY <2>1 DEF MailInv, RowOK
  <2>3. key[1] = other[1] /\ key[2] = other[2]
    BY <1>0, <1>2, <1>4, <2>2
  <2>4. key \in Messages \X Agents /\ other \in Messages \X Agents
    BY DEF MailInv, MailTypeOK
  <2> QED BY <2>3, <2>4
<1> QED BY <1>2, <1>4

\* The inductive invariant of the mailbox.
THEOREM MailInvariant == Spec => []MailInv
<1>1. Init => MailInv
  BY MailStart
<1>2. MailInv /\ [Next]_mailVars => MailInv'
  BY MailNext, MailStutter DEF MailStep, mailVars
<1> QED BY <1>1, <1>2, PTL DEF Spec

\* The tables of the mailbox keep their types.
THEOREM MailTypes == Spec => []MailTypeOK
<1>1. MailInv => MailTypeOK
  BY DEF MailInv
<1> QED BY <1>1, MailInvariant, PTL

\* A cursor passes nothing that its consumer has not acknowledged.
THEOREM CursorsContiguous == Spec => []CursorContiguous
<1>1. MailInv => CursorContiguous
  BY DEF MailInv
<1> QED BY <1>1, MailInvariant, PTL

\* A completed dispatch has a reply and a receipt of its own.
THEOREM CompletionsAnswered == Spec => []CompletedIsAnswered
<1>1. MailInv => CompletedIsAnswered
  BY AnswersAreOwn
<1> QED BY <1>1, MailInvariant, PTL

\* An outcome, once there, is never exchanged for another one.
THEOREM OutcomesFinal == Spec => SettledForGood
<1>1. MailInv /\ [Next]_mailVars =>
        [\A key \in DOMAIN dispatches : Terminal(dispatches[key]) =>
           /\ key \in DOMAIN dispatches'
           /\ dispatches'[key].status = dispatches[key].status
           /\ dispatches'[key].attempt = dispatches[key].attempt
           /\ dispatches'[key].reply = dispatches[key].reply]_mailVars
  BY MailNext DEF MailStep, SettledStep, mailVars
<1> QED BY <1>1, MailInvariant, PTL DEF Spec, SettledForGood

\* A live lease keeps every other claim away.
THEOREM LiveLeases == Spec => LiveLeaseKept
<1>1. MailInv /\ [Next]_mailVars =>
        [\A key \in DOMAIN dispatches :
           dispatches[key].status = "claimed" /\ dispatches[key].left > 0
             => dispatches'[key].attempt = dispatches[key].attempt]_mailVars
  BY MailNext DEF MailStep, LiveStep, mailVars
<1> QED BY <1>1, MailInvariant, PTL DEF Spec, LiveLeaseKept
=============================================================================
