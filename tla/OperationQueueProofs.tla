------------------------ MODULE OperationQueueProofs ------------------------
(***************************************************************************)
(* Proofs about OperationQueue.tla: for every set of operations, workers   *)
(* and schedules and every clock, the queue keeps its types, gives no      *)
(* resource to two workers, and implements JobBoard.tla.                   *)
(*                                                                         *)
(* Most transactions rewrite rows one by one, so the argument is about one *)
(* row first: RowOK is what every row satisfies, and Steps relates a row   *)
(* to the next one.  Lemmas show both for each way a row is rewritten; the *)
(* invariant and the refinement then follow for whole transactions.        *)
(***************************************************************************)
EXTENDS OperationQueue, TLAPS

\* What the queue keeps of the row of o, beyond its type: a cancellation is
\* recorded exactly while an active row is "cancelling", and a row that waits
\* to be claimed has an attempt left.
RowOK(o, row) ==
  /\ row \in OperationRow
  /\ row.attempt <= MaxAttempts[o]
  /\ row.status \in Waiting \cup {"absent", "running"} => ~row.cancel
  /\ row.status = "cancelling" => row.cancel
  /\ row.status = "queued" \/ (row.status = "retry" /\ o \in AutoRetry)
       => row.attempt < MaxAttempts[o]

\* One row becomes another: a move of the job board, or none.
Steps(old, new) ==
  \/ StageOf(old) = StageOf(new)
  \/ <<StageOf(old), StageOf(new)>> \in Board!Moves

\* The occurrences of a schedule that are still to come have no row.
Fresh ==
  /\ \A s \in Schedules : schedule[s].status = "absent" => schedule[s].runs = 0
  /\ \A s \in Schedules : \A n \in 1..MaxRuns :
       n > schedule[s].runs => op[<<s, n>>].status = "absent"

QueueInv ==
  /\ op \in [Operations -> OperationRow]
  /\ \A o \in Operations : RowOK(o, op[o])
  /\ talk \in [Operations -> TalkRow]
  /\ schedule \in [Schedules -> [status : {"absent", "on", "off"}, wait : Int, runs : 0..MaxRuns]]
  /\ OneActivePerKey
  /\ Fresh

-----------------------------------------------------------------------------
(* One row.                                                                *)

Statuses == {"absent"} \cup Waiting \cup Active \cup Terminal

\* The column status is written.
LEMMA WriteStatus ==
  ASSUME NEW row \in OperationRow, NEW x \in Statuses
  PROVE  [row EXCEPT !.status = x] \in OperationRow
  BY DEF OperationRow, Statuses

\* The column attempt is written.
LEMMA WriteAttempt ==
  ASSUME NEW row \in OperationRow, NEW x \in Nat
  PROVE  [row EXCEPT !.attempt = x] \in OperationRow
  BY DEF OperationRow

\* The column wait is written.
LEMMA WriteWait ==
  ASSUME NEW row \in OperationRow, NEW x \in Int
  PROVE  [row EXCEPT !.wait = x] \in OperationRow
  BY DEF OperationRow

\* The column lease is written.
LEMMA WriteLease ==
  ASSUME NEW row \in OperationRow, NEW x \in Int
  PROVE  [row EXCEPT !.lease = x] \in OperationRow
  BY DEF OperationRow

\* The column deadline is written.
LEMMA WriteDeadline ==
  ASSUME NEW row \in OperationRow, NEW x \in Int
  PROVE  [row EXCEPT !.deadline = x] \in OperationRow
  BY DEF OperationRow

\* The column owner is written.
LEMMA WriteOwner ==
  ASSUME NEW row \in OperationRow, NEW x \in Workers \cup {NoWorker}
  PROVE  [row EXCEPT !.owner = x] \in OperationRow
  BY DEF OperationRow

\* The column cancel is written.
LEMMA WriteCancel ==
  ASSUME NEW row \in OperationRow, NEW x \in BOOLEAN
  PROVE  [row EXCEPT !.cancel = x] \in OperationRow
  BY DEF OperationRow

\* The column bound is written.
LEMMA WriteBound ==
  ASSUME NEW row \in OperationRow, NEW x \in BOOLEAN
  PROVE  [row EXCEPT !.bound = x] \in OperationRow
  BY DEF OperationRow

\* The column outcome is written.
LEMMA WriteOutcome ==
  ASSUME NEW row \in OperationRow, NEW x \in Outcomes
  PROVE  [row EXCEPT !.outcome = x] \in OperationRow
  BY DEF OperationRow

\* The worker columns are cleared.
LEMMA ClearTyped ==
  ASSUME NEW row \in OperationRow
  PROVE  [row EXCEPT !.owner = NoWorker, !.lease = 0, !.deadline = 0] \in OperationRow
<1> DEFINE r1 == [row EXCEPT !.owner = NoWorker]
           r2 == [r1 EXCEPT !.lease = 0]
<1>1. r1 \in OperationRow
  BY WriteOwner
<1>2. [row EXCEPT !.owner = NoWorker, !.lease = 0, !.deadline = 0] = [r2 EXCEPT !.deadline = 0]
  OBVIOUS
<1> HIDE DEF r1
<1>3. r2 \in OperationRow
  BY <1>1, WriteLease
<1> HIDE DEF r2
<1>4. [r2 EXCEPT !.deadline = 0] \in OperationRow
  BY <1>3, WriteDeadline
<1> QED BY <1>2, <1>4

\* The row of an operation that is over is a row.
LEMMA EndedTyped ==
  ASSUME NEW row \in OperationRow, NEW status \in Terminal, NEW outcome \in Outcomes
  PROVE  Ended(row, status, outcome) \in OperationRow
<1> DEFINE r1 == [row EXCEPT !.status = status]
           r2 == [r1 EXCEPT !.outcome = outcome]
<1>1. r1 \in OperationRow
  BY WriteStatus DEF Statuses
<1>2. Ended(row, status, outcome) = [r2 EXCEPT !.owner = NoWorker, !.lease = 0, !.deadline = 0]
  BY DEF Ended
<1> HIDE DEF r1
<1>3. r2 \in OperationRow
  BY <1>1, WriteOutcome
<1> HIDE DEF r2
<1> QED BY <1>2, <1>3, ClearTyped

\* The row that may be claimed again is a row.
LEMMA RequeuedTyped ==
  ASSUME NEW row \in OperationRow, NEW wait \in Int
  PROVE  Requeued(row, wait) \in OperationRow
<1> DEFINE r1 == [row EXCEPT !.status = "retry"]
           r2 == [r1 EXCEPT !.wait = wait]
<1>1. r1 \in OperationRow
  BY WriteStatus DEF Statuses, Waiting
<1>2. Requeued(row, wait) = [r2 EXCEPT !.owner = NoWorker, !.lease = 0, !.deadline = 0]
  BY DEF Requeued
<1> HIDE DEF r1
<1>3. r2 \in OperationRow
  BY <1>1, WriteWait
<1> HIDE DEF r2
<1> QED BY <1>2, <1>3, ClearTyped

\* The row of a claim has its attempt counted and its worker entered.
LEMMA ClaimedTyped ==
  ASSUME NEW row \in OperationRow, NEW w \in Workers, NEW age \in Int
  PROVE  ClaimedRow(row, w, age) \in OperationRow
<1> DEFINE r1 == [row EXCEPT !.status = "running"]
           r2 == [r1 EXCEPT !.attempt = @ + 1]
           r3 == [r2 EXCEPT !.owner = w]
           r4 == [r3 EXCEPT !.wait = 0]
           r5 == [r4 EXCEPT !.lease = LeaseTime - age]
<1>1. r1 \in OperationRow
  BY WriteStatus DEF Statuses, Active
<1>2. ClaimedRow(row, w, age) = [r5 EXCEPT !.deadline = Timeout - age]
  BY DEF ClaimedRow
<1> HIDE DEF r1
<1>3. r1.attempt \in Nat
  BY <1>1 DEF OperationRow
<1>4. r2 \in OperationRow
  BY <1>1, <1>3, WriteAttempt
<1> HIDE DEF r2
<1>5. r3 \in OperationRow
  BY <1>4, WriteOwner
<1> HIDE DEF r3
<1>6. r4 \in OperationRow
  BY <1>5, WriteWait
<1> HIDE DEF r4
<1>7. r5 \in OperationRow
  BY <1>6, WriteLease, QueueAssumption
<1> HIDE DEF r5
<1>8. [r5 EXCEPT !.deadline = Timeout - age] \in OperationRow
  BY <1>7, WriteDeadline, QueueAssumption
<1> QED BY <1>2, <1>8

\* The stage of a row depends on its status alone, given RowOK.
LEMMA StageByStatus ==
  ASSUME NEW o, NEW row, RowOK(o, row)
  PROVE  /\ row.status = "absent" => StageOf(row) = "none"
         /\ row.status \in {"queued", "retry"} => StageOf(row) = "waiting"
         /\ row.status = "running" => StageOf(row) = "running"
         /\ row.status = "cancelling" => StageOf(row) = "stopping"
         /\ row.status = "succeeded" => StageOf(row) = "succeeded"
         /\ row.status \in {"failed", "cancelled"} => StageOf(row) = "ended"
         /\ row.status \in {"absent", "queued", "retry", "running", "cancelling",
                            "succeeded", "failed", "cancelled"}
  BY DEF RowOK, StageOf, Waiting, Active, Terminal, OperationRow

\* Ended: an active row may end in any way that its cancellation allows, a
\* waiting one only without success.
LEMMA EndedRow ==
  ASSUME NEW o \in Operations, NEW row, RowOK(o, row),
         NEW status \in Terminal, NEW outcome \in Outcomes,
         row.status \in Waiting \cup Active,
         status = "succeeded" => row.status = "running"
  PROVE  RowOK(o, Ended(row, status, outcome)) /\ Steps(row, Ended(row, status, outcome))
<1> DEFINE new == Ended(row, status, outcome)
<1>1. /\ new \in OperationRow /\ new.status = status /\ new.attempt = row.attempt
      /\ new.cancel = row.cancel
  <2>1. row \in OperationRow
    BY DEF RowOK
  <2>2. new \in OperationRow
    BY <2>1, EndedTyped
  <2>3. new.status = status /\ new.attempt = row.attempt
    BY <2>1 DEF Ended, OperationRow
  <2>4. new.cancel = row.cancel
    BY <2>1 DEF Ended, OperationRow
  <2> QED BY <2>2, <2>3, <2>4
<1>2. RowOK(o, new)
  BY <1>1 DEF RowOK, Terminal, Waiting
<1>3. Steps(row, new)
  <2> HIDE DEF new
  <2>1. CASE row.status \in Waiting
    BY <1>1, <1>2, <2>1, StageByStatus DEF Steps, Board!Moves, Waiting, Terminal
  <2>2. CASE row.status = "running"
    BY <1>1, <1>2, <2>2, StageByStatus DEF Steps, Board!Moves, Terminal
  <2>3. CASE row.status = "cancelling"
    BY <1>1, <1>2, <2>3, StageByStatus DEF Steps, Board!Moves, Terminal
  <2> QED BY <2>1, <2>2, <2>3 DEF Active
<1> QED BY <1>2, <1>3

\* Requeued: an attempt without a cancellation goes back to waiting.
LEMMA RequeuedRow ==
  ASSUME NEW o \in Operations, NEW row, RowOK(o, row), NEW wait \in Int,
         row.status = "running", MayRetry(o, row)
  PROVE  RowOK(o, Requeued(row, wait)) /\ Steps(row, Requeued(row, wait))
<1> DEFINE new == Requeued(row, wait)
<1>1. /\ new \in OperationRow /\ new.status = "retry" /\ new.attempt = row.attempt
      /\ new.cancel = row.cancel
  <2>1. row \in OperationRow
    BY DEF RowOK
  <2>2. new \in OperationRow
    BY <2>1, RequeuedTyped
  <2>3. new.status = "retry" /\ new.attempt = row.attempt
    BY <2>1 DEF Requeued, OperationRow
  <2>4. new.cancel = row.cancel
    BY <2>1 DEF Requeued, OperationRow
  <2> QED BY <2>2, <2>3, <2>4
<1>2. RowOK(o, new)
  BY <1>1 DEF RowOK, MayRetry, Waiting
<1>3. Steps(row, new)
  BY <1>1, <1>2, StageByStatus DEF Steps, Board!Moves
<1> QED BY <1>2, <1>3

\* ClaimedRow: what waits with an attempt left runs.
LEMMA ClaimedStep ==
  ASSUME NEW o \in Operations, NEW row, RowOK(o, row), NEW w \in Workers, NEW age \in Int,
         row.status = "queued" \/ (row.status = "retry" /\ o \in AutoRetry)
  PROVE  /\ RowOK(o, ClaimedRow(row, w, age)) /\ Steps(row, ClaimedRow(row, w, age))
         /\ ClaimedRow(row, w, age).status = "running"
<1> DEFINE new == ClaimedRow(row, w, age)
<1>1. row \in OperationRow
  BY DEF RowOK
<1>2. new \in OperationRow
  BY <1>1, ClaimedTyped
<1>3. new.status = "running" /\ new.attempt = row.attempt + 1
  BY <1>1 DEF ClaimedRow, OperationRow
<1>4. new.cancel = row.cancel
  BY <1>1 DEF ClaimedRow, OperationRow
<1> HIDE DEF new
<1>5. RowOK(o, new)
  <2>1. row.attempt < MaxAttempts[o] /\ row.attempt \in Nat /\ MaxAttempts[o] \in Nat /\ ~row.cancel
    BY QueueAssumption DEF RowOK, OperationRow, Waiting
  <2>2. new.attempt <= MaxAttempts[o]
    BY <1>3, <2>1
  <2> QED BY <1>2, <1>3, <1>4, <2>1, <2>2 DEF RowOK
<1>6. Steps(row, new)
  BY <1>3, <1>5, StageByStatus DEF Steps, Board!Moves
<1> QED BY <1>3, <1>5, <1>6 DEF new

\* Binding a row to its discussion is no step of the job.
LEMMA BoundRow ==
  ASSUME NEW o \in Operations, NEW row, RowOK(o, row)
  PROVE  LET new == [row EXCEPT !.bound = TRUE]
         IN  RowOK(o, new) /\ new.status = row.status /\ new.cancel = row.cancel
<1> DEFINE new == [row EXCEPT !.bound = TRUE]
<1>1. row \in OperationRow
  BY DEF RowOK
<1>2. new \in OperationRow
  BY <1>1, WriteBound
<1>3. new.status = row.status /\ new.attempt = row.attempt
  BY <1>1 DEF OperationRow
<1>4. new.cancel = row.cancel
  BY <1>1 DEF OperationRow
<1> HIDE DEF new
<1>5. RowOK(o, new)
  BY <1>2, <1>3, <1>4 DEF RowOK
<1> QED BY <1>3, <1>4, <1>5 DEF new

\* _recover_unbound_guided_locked on one row.
LEMMA RecoveredRow ==
  ASSUME NEW o \in Operations, NEW age \in Int, RowOK(o, op[o])
  PROVE  LET new == Recovered(o, age)
         IN  /\ RowOK(o, new)
             /\ \/ new.status = op[o].status
                \/ op[o].status \in Waiting /\ new.status = "failed"
<1>1. CASE Recovered(o, age) = op[o]
  BY <1>1
<1>2. CASE Recovered(o, age) = [op[o] EXCEPT !.bound = TRUE]
  BY <1>2, BoundRow
<1>3. CASE Unbound(o) /\ Recovered(o, age) = Ended(op[o], "failed", "source-binding")
  <2>1. op[o].status \in Waiting
    BY <1>3 DEF Unbound
  <2>2. RowOK(o, Recovered(o, age))
    BY <1>3, <2>1, EndedRow DEF Terminal, Outcomes
  <2>3. Recovered(o, age).status = "failed"
    BY <1>3 DEF RowOK, Ended, OperationRow
  <2> QED BY <2>1, <2>2, <2>3
<1> QED BY <1>1, <1>2, <1>3 DEF Recovered

\* _reconcile_locked on one row.
LEMMA SettledRow ==
  ASSUME NEW o \in Operations, NEW row, NEW age \in Int, RowOK(o, row)
  PROVE  LET new == Settled(o, row, age)
         IN  /\ RowOK(o, new) /\ Steps(row, new)
             /\ new.status \in Active => new.status = row.status
             /\ new.status = "retry" => o \in AutoRetry
             /\ new.status = "absent" <=> row.status = "absent"
<1> DEFINE new == Settled(o, row, age)
<1>0. row \in OperationRow
  BY DEF RowOK
<1>1. CASE row.status = "retry" /\ o \notin AutoRetry
  <2>1. new = Ended(row, "failed", "retry_disallowed")
    BY <1>1 DEF Settled
  <2>2. new.status = "failed"
    BY <1>0, <2>1 DEF Ended, OperationRow
  <2>3. RowOK(o, new) /\ Steps(row, new)
    BY <1>1, <2>1, EndedRow DEF Terminal, Waiting, Outcomes
  <2> QED BY <1>1, <2>2, <2>3 DEF Active
<1>2. CASE ~(row.status = "retry" /\ o \notin AutoRetry) /\ ~Lost(row, age)
  <2>1. new = row
    BY <1>2 DEF Settled
  <2> QED BY <1>2, <2>1 DEF Steps
<1>3. CASE Lost(row, age)
  <2>1. row.status \in Active
    BY <1>3 DEF Lost
  <2>2. CASE row.status = "cancelling" \/ row.cancel
    <3>1. new = Ended(row, "cancelled", "cancelled_after_worker_loss")
      BY <1>3, <2>1, <2>2 DEF Settled, Active
    <3>2. new.status = "cancelled"
      BY <1>0, <3>1 DEF Ended, OperationRow
    <3>3. RowOK(o, new) /\ Steps(row, new)
      BY <2>1, <3>1, EndedRow DEF Terminal, Outcomes
    <3> QED BY <2>1, <3>2, <3>3 DEF Active
  <2>3. CASE ~(row.status = "cancelling" \/ row.cancel)
    <3>1. row.status = "running"
      BY <2>1, <2>3 DEF Active
    <3>2. CASE new = Requeued(row, -age) /\ MayRetry(o, row)
      <4>1. RowOK(o, new) /\ Steps(row, new)
        BY <3>1, <3>2, RequeuedRow
      <4>2. new.status = "retry" /\ o \in AutoRetry
        BY <1>0, <3>2 DEF Requeued, OperationRow, MayRetry
      <4> QED BY <3>1, <4>1, <4>2 DEF Active
    <3>3. ASSUME NEW outcome \in Outcomes, new = Ended(row, "failed", outcome)
          PROVE  /\ RowOK(o, new) /\ Steps(row, new) /\ new.status = "failed"
      <4>1. RowOK(o, new) /\ Steps(row, new)
        BY <2>1, <3>3, EndedRow DEF Terminal
      <4>2. new.status = "failed"
        BY <1>0, <3>3 DEF Ended, OperationRow
      <4> QED BY <4>1, <4>2
    <3>4. \/ new = Requeued(row, -age) /\ MayRetry(o, row)
          \/ \E outcome \in Outcomes : new = Ended(row, "failed", outcome)
      BY <1>3, <2>3, <3>1 DEF Settled, Outcomes
    <3> QED BY <3>1, <3>2, <3>3, <3>4 DEF Active
  <2> QED BY <2>2, <2>3
<1> QED BY <1>1, <1>2, <1>3

\* Both, on a row as it stands.
LEMMA ReconciledRow ==
  ASSUME NEW o \in Operations, NEW age \in Int, RowOK(o, op[o])
  PROVE  LET new == Reconciled(age)[o]
         IN  /\ RowOK(o, new) /\ Steps(op[o], new)
             /\ new.status \in Active => new.status = op[o].status
             /\ new.status = "retry" => o \in AutoRetry
             /\ new.status = "absent" <=> op[o].status = "absent"
<1> DEFINE mid == Recovered(o, age)
           new == Settled(o, mid, age)
<1>1. Reconciled(age)[o] = new
  BY DEF Reconciled
<1>2. /\ RowOK(o, mid)
      /\ mid.status = op[o].status \/ (op[o].status \in Waiting /\ mid.status = "failed")
  BY RecoveredRow
<1>3. /\ RowOK(o, new) /\ Steps(mid, new)
      /\ new.status \in Active => new.status = mid.status
      /\ new.status = "retry" => o \in AutoRetry
      /\ new.status = "absent" <=> mid.status = "absent"
  BY <1>2, SettledRow
<1> HIDE DEF mid
<1>4. CASE mid.status = op[o].status
  <2>1. StageOf(mid) = StageOf(op[o])
    BY <1>2, <1>4, StageByStatus
  <2>2. Steps(op[o], new)
    BY <1>3, <2>1 DEF Steps
  <2> QED BY <1>1, <1>3, <1>4, <2>2
<1>5. CASE op[o].status \in Waiting /\ mid.status = "failed"
  <2>1. new = mid
    BY <1>5 DEF Settled, Lost, Active
  <2>2. StageOf(op[o]) = "waiting" /\ StageOf(mid) = "ended"
    BY <1>2, <1>5, StageByStatus DEF Waiting
  <2>3. Steps(op[o], mid)
    BY <2>2 DEF Steps, Board!Moves
  <2> QED BY <1>1, <1>2, <1>5, <2>1, <2>3 DEF Active, Waiting
<1> QED BY <1>2, <1>4, <1>5

-----------------------------------------------------------------------------
(* A whole transaction.                                                    *)

\* What a transaction must do for the operations table to stay in order and
\* for it to be a step of the job board.
TableStep ==
  /\ op' \in [Operations -> OperationRow]
  /\ \A o \in Operations : RowOK(o, op'[o]) /\ Steps(op[o], op'[o])
  /\ OneActivePerKey'

\* An active row is a busy job.
LEMMA BusyIsActive ==
  ASSUME NEW o, NEW row, RowOK(o, row)
  PROVE  StageOf(row) \in Board!Busy <=> row.status \in Active
  BY StageByStatus DEF Board!Busy, Active

\* A transaction in order is a step of the job board.
LEMMA BoardNext ==
  ASSUME TableStep
  PROVE  Board!Next
<1> DEFINE st == [o \in Operations |-> StageOf(op[o])]
<1>1. \A o \in Operations : StageOf(op'[o]) \in Board!Stages
  BY StageByStatus DEF TableStep, Board!Stages
<1>2. [o \in Operations |-> StageOf(op'[o])] \in [Operations -> Board!Stages]
  BY <1>1
<1>3. \A o \in Operations : \/ StageOf(op'[o]) = StageOf(op[o])
                            \/ <<StageOf(op[o]), StageOf(op'[o])>> \in Board!Moves
  BY DEF TableStep, Steps
<1>4. \A o \in Operations : StageOf(op'[o]) \in Board!Busy <=> op'[o].status \in Active
  BY BusyIsActive DEF TableStep
<1>5. \A o, p \in Operations :
        (o # p /\ KeyOf[o] = KeyOf[p] /\ StageOf(op'[o]) \in Board!Busy)
          => StageOf(op'[p]) \notin Board!Busy
  BY <1>4 DEF TableStep, OneActivePerKey
<1> QED BY <1>2, <1>3, <1>5 DEF Board!Next, Board!Exclusive

\* A transaction that starts nothing keeps resources exclusive.
LEMMA NothingStarted ==
  ASSUME OneActivePerKey,
         \A o \in Operations : op'[o].status \in Active => op[o].status \in Active
  PROVE  OneActivePerKey'
  BY DEF OneActivePerKey

\* One row is written.
LEMMA OneRow ==
  ASSUME QueueInv, NEW o \in Operations, NEW row, RowOK(o, row), Steps(op[o], row),
         row.status \in Active => op[o].status \in Active,
         op' = [op EXCEPT ![o] = row]
  PROVE  TableStep
<1>1. \A p \in Operations : op'[p] = IF p = o THEN row ELSE op[p]
  BY DEF QueueInv
<1>2. op' \in [Operations -> OperationRow]
  BY DEF QueueInv, RowOK
<1>3. \A p \in Operations : RowOK(p, op'[p]) /\ Steps(op[p], op'[p])
  BY <1>1 DEF QueueInv, Steps
<1>4. OneActivePerKey'
  BY <1>1, NothingStarted DEF QueueInv
<1> QED BY <1>2, <1>3, <1>4 DEF TableStep

\* Rows that exist may change as they like.
LEMMA StillFresh ==
  ASSUME QueueInv, UNCHANGED schedule,
         \A o \in Operations : o \in Schedules \X (1..MaxRuns) /\ op[o].status = "absent"
                                => op'[o].status = "absent"
  PROVE  Fresh'
<1>1. \A s \in Schedules, n \in 1..MaxRuns : <<s, n>> \in Operations
  BY QueueAssumption
<1> QED BY <1>1 DEF QueueInv, Fresh

\* A transaction that leaves the operations alone.
LEMMA NothingWritten ==
  ASSUME QueueInv, UNCHANGED op
  PROVE  TableStep
  BY DEF QueueInv, TableStep, Steps, OneActivePerKey

\* What a transaction must do for QueueInv to hold after it.
Kept ==
  /\ TableStep
  /\ talk' \in [Operations -> TalkRow]
  /\ schedule' \in [Schedules -> [status : {"absent", "on", "off"}, wait : Int, runs : 0..MaxRuns]]
  /\ Fresh'

\* Such a transaction keeps the invariant.
LEMMA KeptInv ==
  ASSUME Kept
  PROVE  QueueInv'
  BY DEF Kept, TableStep, QueueInv

\* Update: one row that exists is written and nothing else.
LEMMA Updated ==
  ASSUME QueueInv, NEW o \in Operations, NEW row, RowOK(o, row), Steps(op[o], row),
         op[o].status # "absent",
         row.status \in Active => op[o].status \in Active,
         Update(o, row)
  PROVE  Kept
<1>1. op' = [op EXCEPT ![o] = row] /\ UNCHANGED <<talk, schedule>>
  BY DEF Update
<1>2. TableStep
  BY <1>1, OneRow
<1>3. \A p \in Operations : op[p].status = "absent" => op'[p] = op[p]
  BY <1>1 DEF QueueInv
<1>4. Fresh'
  BY <1>1, <1>3, StillFresh
<1> QED BY <1>1, <1>2, <1>4 DEF Kept, QueueInv

\* The row of a new operation.
LEMMA NewRowOK ==
  ASSUME NEW o \in Operations, NEW wait \in Int
  PROVE  RowOK(o, NewRow(wait)) /\ NewRow(wait).status = "queued"
<1>1. NoRow \in OperationRow
  BY DEF NoRow, OperationRow, Outcomes
<1> DEFINE r1 == [NoRow EXCEPT !.status = "queued"]
<1>2. NewRow(wait) = [r1 EXCEPT !.wait = wait]
  BY DEF NewRow
<1>3. r1 \in OperationRow
  BY <1>1, WriteStatus DEF Statuses, Waiting
<1>4. r1.status = "queued" /\ r1.attempt = 0 /\ r1.cancel = FALSE
  BY DEF NoRow
<1> HIDE DEF r1
<1>5. NewRow(wait) \in OperationRow
  BY <1>2, <1>3, WriteWait
<1>6. NewRow(wait).status = "queued" /\ NewRow(wait).attempt = 0 /\ NewRow(wait).cancel = FALSE
  BY <1>2, <1>3, <1>4 DEF OperationRow
<1>7. MaxAttempts[o] \in Nat /\ 0 < MaxAttempts[o]
  BY QueueAssumption
<1> QED BY <1>5, <1>6, <1>7 DEF RowOK

\* An operation that did not exist waits.
LEMMA NewRowStep ==
  ASSUME QueueInv, NEW o \in Operations, NEW wait \in Int, op[o].status = "absent"
  PROVE  Steps(op[o], NewRow(wait))
<1>1. StageOf(op[o]) = "none"
  BY StageByStatus DEF QueueInv
<1>2. StageOf(NewRow(wait)) = "waiting"
  BY NewRowOK, StageByStatus
<1> QED BY <1>1, <1>2 DEF Steps, Board!Moves

\* enqueue and ensure insert one row, which is not an occurrence's.
LEMMA Inserted ==
  ASSUME QueueInv, NEW o \in Operations, NEW wait \in Int,
         op[o].status = "absent", o \notin Schedules \X (1..MaxRuns),
         op' = [op EXCEPT ![o] = NewRow(wait)], UNCHANGED <<talk, schedule>>
  PROVE  Kept
<1>1. RowOK(o, NewRow(wait)) /\ NewRow(wait).status = "queued"
  BY NewRowOK
<1>2. Steps(op[o], NewRow(wait))
  BY NewRowStep
<1>3. TableStep
  BY <1>1, <1>2, OneRow DEF Active
<1>4. \A p \in Operations : p # o => op'[p] = op[p]
  BY DEF QueueInv
<1>5. Fresh'
  BY <1>4, StillFresh
<1> QED BY <1>3, <1>5 DEF Kept, QueueInv

\* The discussions that a reconciliation stops are still discussions.
LEMMA ReconciledTalkTyped ==
  ASSUME QueueInv, NEW age \in Int
  PROVE  ReconciledTalk(age) \in [Operations -> TalkRow]
<1>1. \A o \in Operations : talk[o] \in TalkRow
  BY DEF QueueInv
<1>2. \A o \in Operations : [talk[o] EXCEPT !.status = "stopped"] \in TalkRow
  BY <1>1 DEF TalkRow
<1> QED BY <1>1, <1>2 DEF ReconciledTalk

\* reconcile.
LEMMA ReconcileKept ==
  ASSUME QueueInv, NEW age \in Int, Reconcile(age)
  PROVE  Kept
<1>1. op' = Reconciled(age) /\ talk' = ReconciledTalk(age) /\ UNCHANGED schedule
  BY DEF Reconcile
<1>2. \A o \in Operations :
        /\ RowOK(o, op'[o]) /\ Steps(op[o], op'[o])
        /\ op'[o].status \in Active => op[o].status \in Active
        /\ op[o].status = "absent" => op'[o].status = "absent"
  BY <1>1, ReconciledRow DEF QueueInv
<1>3. op' \in [Operations -> OperationRow]
  <2>1. \A o \in Operations : op'[o] \in OperationRow
    BY <1>2 DEF RowOK
  <2>2. op' = [o \in Operations |-> op'[o]]
    BY <1>1 DEF Reconciled
  <2> QED BY <2>1, <2>2
<1>4. TableStep
  BY <1>2, <1>3, NothingStarted DEF TableStep, QueueInv
<1>5. Fresh'
  BY <1>1, <1>2, StillFresh
<1> QED BY <1>1, <1>4, <1>5, ReconciledTalkTyped DEF Kept, QueueInv

\* claim: what is ready waits with an attempt left, and nothing with its
\* resource is active.
LEMMA ClaimKept ==
  ASSUME QueueInv, NEW w \in Workers, NEW o \in Operations, NEW class \in Classes,
         NEW age \in Int, Claim(w, o, class, age)
  PROVE  Kept
<1> DEFINE rows == Reconciled(age)
           new == ClaimedRow(rows[o], w, age)
<1>1. o \in FirstReady(rows, class, age) /\ op' = [rows EXCEPT ![o] = new]
      /\ talk' = ReconciledTalk(age) /\ UNCHANGED schedule
  BY DEF Claim
<1>2. \A p \in Operations :
        /\ RowOK(p, rows[p]) /\ Steps(op[p], rows[p])
        /\ rows[p].status \in Active => rows[p].status = op[p].status
        /\ rows[p].status = "retry" => p \in AutoRetry
        /\ rows[p].status = "absent" <=> op[p].status = "absent"
  BY ReconciledRow DEF QueueInv
<1>3. /\ rows[o].status \in Waiting
      /\ \A p \in Operations : KeyOf[p] = KeyOf[o] => rows[p].status \notin Active
  BY <1>1 DEF FirstReady, Ready
<1>4. rows = [p \in Operations |-> rows[p]]
  BY DEF Reconciled
<1> HIDE DEF rows
<1>5. RowOK(o, new) /\ Steps(rows[o], new) /\ new.status = "running"
  BY <1>2, <1>3, ClaimedStep DEF Waiting
<1>6. Steps(op[o], new)
  <2>1. StageOf(rows[o]) = "waiting" /\ StageOf(new) = "running"
    BY <1>2, <1>3, <1>5, StageByStatus DEF Waiting
  <2>2. StageOf(op[o]) \in {"waiting", "running"}
    <3>1. op[o].status # "absent" /\ RowOK(o, op[o])
      BY <1>2, <1>3 DEF Waiting, QueueInv
    <3>2. StageOf(op[o]) # "none"
      BY <3>1, StageByStatus
    <3> QED BY <1>2, <2>1, <3>2 DEF Steps, Board!Moves
  <2> QED BY <2>1, <2>2 DEF Steps, Board!Moves
<1>7. \A p \in Operations : op'[p] = IF p = o THEN new ELSE rows[p]
  BY <1>1, <1>4
<1> HIDE DEF new
<1>8. TableStep
  <2>1. op' = [p \in Operations |-> op'[p]]
    BY <1>1, <1>4
  <2>2. \A p \in Operations : RowOK(p, op'[p]) /\ Steps(op[p], op'[p])
    BY <1>2, <1>5, <1>6, <1>7
  <2>3. op' \in [Operations -> OperationRow]
    BY <2>1, <2>2 DEF RowOK
  <2>4. \A p \in Operations : p # o /\ op'[p].status \in Active => op[p].status \in Active
    BY <1>2, <1>7
  <2>5. \A p \in Operations : p # o /\ KeyOf[p] = KeyOf[o] => op'[p].status \notin Active
    BY <1>3, <1>7
  <2>6. OneActivePerKey'
    BY <2>4, <2>5 DEF QueueInv, OneActivePerKey
  <2> QED BY <2>2, <2>3, <2>6 DEF TableStep
<1>9. Fresh'
  <2>1. \A p \in Operations : op[p].status = "absent" => op'[p].status = "absent"
    BY <1>2, <1>3, <1>7 DEF Waiting
  <2> QED BY <1>1, <2>1, StillFresh
<1> QED BY <1>1, <1>8, <1>9, ReconciledTalkTyped DEF Kept, QueueInv

\* heartbeat: the lease is extended.
LEMMA HeartbeatKept ==
  ASSUME QueueInv, NEW w \in Workers, NEW o \in Operations, NEW k \in Nat, NEW age \in Int,
         Heartbeat(w, o, k, age)
  PROVE  Kept
<1> DEFINE lease == Earlier(LeaseTime - age, op[o].deadline)
           new == [op[o] EXCEPT !.lease = lease]
<1>1. op[o] \in OperationRow /\ RowOK(o, op[o]) /\ op[o].status \in Active
  BY DEF QueueInv, Heartbeat, LiveWorker
<1>2. lease \in Int
  BY <1>1, QueueAssumption DEF Earlier, OperationRow
<1>3. Update(o, new)
  BY DEF Heartbeat
<1> HIDE DEF lease
<1>4. new \in OperationRow
  BY <1>1, <1>2, WriteLease
<1>5. new.status = op[o].status /\ new.attempt = op[o].attempt
  BY <1>1 DEF OperationRow
<1>6. new.cancel = op[o].cancel
  BY <1>1 DEF OperationRow
<1> HIDE DEF new
<1>7. RowOK(o, new)
  BY <1>1, <1>4, <1>5, <1>6 DEF RowOK
<1>8. Steps(op[o], new)
  BY <1>1, <1>5, <1>7, StageByStatus DEF Steps
<1> QED BY <1>1, <1>3, <1>5, <1>7, <1>8, Updated DEF Active

\* A row that ends by itself.
LEMMA EndedKept ==
  ASSUME QueueInv, NEW o \in Operations, NEW status \in Terminal, NEW outcome \in Outcomes,
         op[o].status \in Waiting \cup Active,
         status = "succeeded" => op[o].status = "running",
         Update(o, Ended(op[o], status, outcome))
  PROVE  Kept
<1> DEFINE new == Ended(op[o], status, outcome)
<1>1. op[o] \in OperationRow /\ RowOK(o, op[o])
  BY DEF QueueInv
<1>2. RowOK(o, new) /\ Steps(op[o], new)
  BY <1>1, EndedRow
<1>3. new.status = status
  BY <1>1 DEF Ended, OperationRow
<1> HIDE DEF new
<1>4. new.status \notin Active /\ op[o].status # "absent"
  BY <1>3 DEF Terminal, Active, Waiting
<1> QED BY <1>2, <1>4, Updated DEF new

\* complete: a cancellation that was accepted is never overtaken.
LEMMA CompleteKept ==
  ASSUME QueueInv, NEW w \in Workers, NEW o \in Operations, NEW k \in Nat, NEW age \in Int,
         Complete(w, o, k, age)
  PROVE  Kept
<1>1. op[o].status = "running"
  BY DEF Complete, LiveWorker, QueueInv, RowOK, Active
<1> QED BY <1>1, EndedKept DEF Complete, Terminal, Outcomes, Active

\* fail: the attempt ends or is requeued.
LEMMA FailKept ==
  ASSUME QueueInv, NEW w \in Workers, NEW o \in Operations, NEW k \in Nat, NEW age \in Int,
         NEW class \in Outcomes, NEW delay \in {0, RetryDelay}, NEW allow \in BOOLEAN,
         Fail(w, o, k, class, delay, allow, age)
  PROVE  Kept
<1>1. op[o] \in OperationRow /\ RowOK(o, op[o]) /\ op[o].status \in Active
  BY DEF QueueInv, Fail, LiveWorker
<1>2. Update(o, FailedRow(o, class, delay, allow, age))
  BY DEF Fail
<1>3. CASE \E status \in {"cancelled", "failed"}, outcome \in Outcomes :
             FailedRow(o, class, delay, allow, age) = Ended(op[o], status, outcome)
  BY <1>1, <1>2, <1>3, EndedKept DEF Terminal
<1>4. CASE /\ FailedRow(o, class, delay, allow, age) = Requeued(op[o], delay - age)
           /\ ~op[o].cancel /\ MayRetry(o, op[o])
  <2> DEFINE new == Requeued(op[o], delay - age)
  <2>1. op[o].status = "running" /\ delay - age \in Int
    BY <1>1, <1>4, QueueAssumption DEF RowOK, Active
  <2>2. RowOK(o, new) /\ Steps(op[o], new)
    BY <1>1, <1>4, <2>1, RequeuedRow
  <2>3. new.status = "retry"
    BY <1>1 DEF Requeued, OperationRow
  <2>4. Update(o, new)
    BY <1>2, <1>4
  <2> HIDE DEF new
  <2> QED BY <2>1, <2>2, <2>3, <2>4, Updated DEF Active
<1> QED BY <1>3, <1>4 DEF FailedRow, Outcomes

\* acknowledge_cancel.
LEMMA AcknowledgeKept ==
  ASSUME QueueInv, NEW w \in Workers, NEW o \in Operations, NEW k \in Nat, NEW age \in Int,
         AcknowledgeCancel(w, o, k, age)
  PROVE  Kept
<1>1. op[o].status \in Active
  BY DEF AcknowledgeCancel, LiveWorker
<1> QED BY <1>1, EndedKept DEF AcknowledgeCancel, Terminal, Outcomes

\* request_cancel: what waits ends, what runs is told to stop.
LEMMA RequestCancelKept ==
  ASSUME QueueInv, NEW o \in Operations, RequestCancel(o)
  PROVE  Kept
<1>1. op[o] \in OperationRow /\ RowOK(o, op[o]) /\ op[o].status \in Waiting \cup Active
  BY DEF QueueInv, RequestCancel
<1>2. CASE op[o].status \in Waiting
  <2>1. Update(o, Ended(op[o], "cancelled", "cancelled_before_start"))
    BY <1>2 DEF RequestCancel
  <2> QED BY <1>1, <2>1, EndedKept DEF Terminal, Outcomes
<1>3. CASE op[o].status \notin Waiting
  <2> DEFINE r1 == [op[o] EXCEPT !.status = "cancelling"]
             new == [r1 EXCEPT !.cancel = TRUE]
  <2>1. Update(o, [op[o] EXCEPT !.status = "cancelling", !.cancel = TRUE])
    BY <1>3 DEF RequestCancel
  <2>2. new = [op[o] EXCEPT !.status = "cancelling", !.cancel = TRUE]
    OBVIOUS
  <2>3. r1 \in OperationRow
    BY <1>1, WriteStatus DEF Statuses, Active
  <2>4. r1.status = "cancelling" /\ r1.attempt = op[o].attempt
    BY <1>1 DEF OperationRow
  <2> HIDE DEF r1
  <2>5. new \in OperationRow
    BY <2>3, WriteCancel
  <2>6. new.status = "cancelling" /\ new.attempt = op[o].attempt
    BY <2>3, <2>4 DEF OperationRow
  <2>7. new.cancel
    BY <2>3 DEF OperationRow
  <2>8. Update(o, new)
    BY <2>1, <2>2
  <2> HIDE DEF new
  <2>9. RowOK(o, new)
    BY <1>1, <2>5, <2>6, <2>7 DEF RowOK, Waiting
  <2>10. Steps(op[o], new)
    <3>1. StageOf(op[o]) \in {"running", "stopping"}
      BY <1>1, <1>3, StageByStatus DEF Active
    <3>2. StageOf(new) = "stopping"
      BY <2>6, <2>9, StageByStatus
    <3> QED BY <3>1, <3>2 DEF Steps, Board!Moves
  <2> QED BY <1>1, <1>3, <2>8, <2>9, <2>10, Updated DEF Waiting, Active
<1> QED BY <1>2, <1>3

\* bind_guided_discussion, when the discussion matches.
LEMMA BindKept ==
  ASSUME QueueInv, NEW o \in Operations, Bind(o)
  PROVE  Kept
<1> DEFINE new == [op[o] EXCEPT !.bound = TRUE]
<1>1. RowOK(o, op[o]) /\ op[o].status \in Waiting /\ Update(o, new)
  BY DEF QueueInv, Bind, Bindable
<1>2. RowOK(o, new) /\ new.status = op[o].status
  BY <1>1, BoundRow
<1> HIDE DEF new
<1>3. Steps(op[o], new)
  BY <1>1, <1>2, StageByStatus DEF Steps, Waiting
<1> QED BY <1>1, <1>2, <1>3, Updated DEF Waiting

\* One discussion gets another status.
LEMMA TalkTyped ==
  ASSUME QueueInv, NEW o \in Operations,
         NEW status \in {"none", "completed", "stopped"} \cup OpenTalk,
         talk' = [talk EXCEPT ![o].status = status]
  PROVE  talk' \in [Operations -> TalkRow]
<1>1. talk[o] \in TalkRow
  BY DEF QueueInv
<1>2. [talk[o] EXCEPT !.status = status] \in TalkRow
  BY <1>1 DEF TalkRow
<1> QED BY <1>2 DEF QueueInv

\* bind_guided_discussion, when it does not: the operation ends with it.
LEMMA BindMismatchKept ==
  ASSUME QueueInv, NEW o \in Operations, BindMismatch(o)
  PROVE  Kept
<1> DEFINE new == Ended(op[o], "failed", "source-binding")
<1>1. /\ RowOK(o, op[o]) /\ op[o] \in OperationRow /\ op[o].status \in Waiting
      /\ op' = [op EXCEPT ![o] = new] /\ UNCHANGED schedule
  BY DEF QueueInv, BindMismatch, Bindable
<1>2. RowOK(o, new) /\ Steps(op[o], new)
  BY <1>1, EndedRow DEF Terminal, Outcomes
<1>3. new.status = "failed"
  BY <1>1 DEF Ended, OperationRow
<1> HIDE DEF new
<1>4. TableStep
  BY <1>1, <1>2, <1>3, OneRow DEF Active
<1>5. \A p \in Operations : op[p].status = "absent" => op'[p] = op[p]
  BY <1>1 DEF QueueInv, Waiting
<1>6. Fresh'
  BY <1>1, <1>5, StillFresh
<1>7. talk' \in [Operations -> TalkRow]
  <2> DEFINE to == IF talk[o].status \in OpenTalk THEN "stopped" ELSE talk[o].status
  <2>1. talk' = [talk EXCEPT ![o].status = to]
    BY DEF BindMismatch, QueueInv
  <2>2. to \in {"none", "completed", "stopped"} \cup OpenTalk
    BY DEF QueueInv, TalkRow
  <2> HIDE DEF to
  <2> QED BY <2>1, <2>2, TalkTyped
<1> QED BY <1>1, <1>4, <1>6, <1>7 DEF Kept, QueueInv

\* The Room starts a discussion or moves it: the operations stay.
LEMMA TalkKept ==
  ASSUME QueueInv, NEW o \in Operations,
         \/ \E exact \in BOOLEAN : StartTalk(o, exact)
         \/ \E to \in OpenTalk \cup {"completed", "stopped"} : MoveTalk(o, OpenTalk, to)
  PROVE  Kept
<1>1. UNCHANGED <<op, schedule>>
  BY DEF StartTalk, MoveTalk
<1>2. talk' \in [Operations -> TalkRow]
  <2>1. CASE \E exact \in BOOLEAN : StartTalk(o, exact)
    <3>1. PICK exact \in BOOLEAN : talk' = [talk EXCEPT ![o] = [status |-> "active", exact |-> exact]]
      BY <2>1 DEF StartTalk
    <3>2. [status |-> "active", exact |-> exact] \in TalkRow
      BY DEF TalkRow, OpenTalk
    <3> QED BY <3>1, <3>2 DEF QueueInv
  <2>2. CASE \E to \in OpenTalk \cup {"completed", "stopped"} : MoveTalk(o, OpenTalk, to)
    BY <2>2, TalkTyped DEF MoveTalk
  <2> QED BY <2>1, <2>2
<1>3. TableStep
  BY <1>1, NothingWritten
<1>4. Fresh'
  BY <1>1, StillFresh
<1> QED BY <1>1, <1>2, <1>3, <1>4 DEF Kept, QueueInv

-----------------------------------------------------------------------------
(* Schedules and time.                                                     *)

ScheduleRow == [status : {"absent", "on", "off"}, wait : Int, runs : 0..MaxRuns]

\* save_schedule: a new schedule has no occurrence.
LEMMA SaveScheduleKept ==
  ASSUME QueueInv, NEW s \in Schedules, NEW wait \in FirstRuns, NEW on \in BOOLEAN,
         SaveSchedule(s, wait, on)
  PROVE  Kept
<1> DEFINE new == [status |-> IF on THEN "on" ELSE "off", wait |-> wait, runs |-> 0]
<1>1. /\ schedule' = [schedule EXCEPT ![s] = new] /\ UNCHANGED <<op, talk>>
      /\ schedule[s].status = "absent" /\ schedule[s].runs = 0
  BY DEF SaveSchedule, QueueInv, Fresh
<1>2. new \in ScheduleRow /\ new.runs = 0
  BY QueueAssumption DEF ScheduleRow
<1> HIDE DEF new
<1>3. schedule' \in [Schedules -> ScheduleRow]
  BY <1>1, <1>2 DEF QueueInv, ScheduleRow
<1>4. \A t \in Schedules : schedule'[t].runs = schedule[t].runs
                           /\ (schedule'[t].status = "absent" => schedule'[t].runs = 0)
  BY <1>1, <1>2 DEF QueueInv, Fresh
<1>5. Fresh'
  BY <1>1, <1>4 DEF QueueInv, Fresh
<1> QED BY <1>1, <1>3, <1>5, NothingWritten DEF Kept, QueueInv, ScheduleRow

\* set_schedule_enabled.
LEMMA SetScheduleEnabledKept ==
  ASSUME QueueInv, NEW s \in Schedules, NEW on \in BOOLEAN, SetScheduleEnabled(s, on)
  PROVE  Kept
<1> DEFINE to == IF on THEN "on" ELSE "off"
<1>1. /\ schedule' = [schedule EXCEPT ![s].status = to] /\ UNCHANGED <<op, talk>>
      /\ to \in {"on", "off"}
  BY DEF SetScheduleEnabled
<1>2. \A t \in Schedules : schedule[t] \in ScheduleRow
  BY DEF QueueInv, ScheduleRow
<1> HIDE DEF to
<1>3. [schedule[s] EXCEPT !.status = to] \in ScheduleRow
      /\ [schedule[s] EXCEPT !.status = to].runs = schedule[s].runs
      /\ [schedule[s] EXCEPT !.status = to].status # "absent"
  BY <1>1, <1>2 DEF ScheduleRow
<1>4. schedule' \in [Schedules -> ScheduleRow]
  BY <1>1, <1>3 DEF QueueInv, ScheduleRow
<1>5. \A t \in Schedules : schedule'[t].runs = schedule[t].runs
                           /\ (schedule'[t].status = "absent" => schedule[t].status = "absent")
  BY <1>1, <1>3 DEF QueueInv
<1>6. Fresh'
  BY <1>1, <1>5 DEF QueueInv, Fresh
<1> QED BY <1>1, <1>4, <1>6, NothingWritten DEF Kept, QueueInv, ScheduleRow

\* materialize_due_schedules: an occurrence gets a row of its own, at a number
\* no row has had.
LEMMA MaterializeKept ==
  ASSUME QueueInv, NEW age \in Int, Materialize(age)
  PROVE  Kept
<1> DEFINE due == Due(age)
           coming(o) == \E s \in due : o = <<s, schedule[s].runs + 1>>
           now(s) == [schedule[s] EXCEPT !.wait = Interval - age, !.runs = @ + 1]
<1>1. /\ op' = [o \in Operations |-> IF coming(o) THEN NewRow(-age) ELSE op[o]]
      /\ schedule' = [s \in Schedules |-> IF s \in due THEN now(s) ELSE schedule[s]]
      /\ UNCHANGED talk
      /\ due \subseteq Schedules
      /\ \A s \in due : schedule[s].runs < MaxRuns
  BY DEF Materialize, Due
<1> HIDE DEF due
<1>2. \A s \in Schedules : schedule[s] \in ScheduleRow
  BY DEF QueueInv, ScheduleRow
<1>3. \A s \in due : now(s) \in ScheduleRow /\ now(s).runs = schedule[s].runs + 1
                     /\ now(s).status = schedule[s].status
  <2> SUFFICES ASSUME NEW s \in due
               PROVE  now(s) \in ScheduleRow /\ now(s).runs = schedule[s].runs + 1
                      /\ now(s).status = schedule[s].status
    OBVIOUS
  <2>1. s \in Schedules /\ schedule[s].runs < MaxRuns
    BY <1>1
  <2>2. schedule[s] \in ScheduleRow
    BY <1>2, <2>1
  <2>3. Interval - age \in Int /\ MaxRuns \in Nat
    BY QueueAssumption
  <2> DEFINE r1 == [schedule[s] EXCEPT !.wait = Interval - age]
  <2>4. r1 \in ScheduleRow /\ r1.runs = schedule[s].runs /\ r1.status = schedule[s].status
    BY <2>2, <2>3 DEF ScheduleRow
  <2>5. now(s) = [r1 EXCEPT !.runs = schedule[s].runs + 1]
    OBVIOUS
  <2>6. schedule[s].runs + 1 \in 0..MaxRuns
    BY <2>1, <2>2, <2>3 DEF ScheduleRow
  <2> HIDE DEF r1, now
  <2> QED BY <2>4, <2>5, <2>6 DEF ScheduleRow
<1> HIDE DEF now
<1>4. \A o \in Operations : coming(o) => op[o].status = "absent"
  <2>1. \A s \in due : schedule[s].runs + 1 \in 1..MaxRuns /\ schedule[s].runs + 1 > schedule[s].runs
    BY <1>1, <1>2, QueueAssumption DEF ScheduleRow
  <2> QED BY <1>1, <2>1 DEF QueueInv, Fresh
<1>5. \A o \in Operations : RowOK(o, op'[o]) /\ Steps(op[o], op'[o])
                            /\ (op'[o].status \in Active => op[o].status \in Active)
  <2> SUFFICES ASSUME NEW o \in Operations
               PROVE  RowOK(o, op'[o]) /\ Steps(op[o], op'[o])
                      /\ (op'[o].status \in Active => op[o].status \in Active)
    OBVIOUS
  <2>1. CASE coming(o)
    <3>1. op'[o] = NewRow(-age)
      BY <1>1, <2>1
    <3>2. RowOK(o, NewRow(-age)) /\ NewRow(-age).status = "queued"
      BY NewRowOK
    <3>3. Steps(op[o], NewRow(-age))
      BY <1>4, <2>1, NewRowStep
    <3> QED BY <3>1, <3>2, <3>3 DEF Active
  <2>2. CASE ~coming(o)
    <3>1. op'[o] = op[o]
      BY <1>1, <2>2
    <3> QED BY <3>1 DEF QueueInv, Steps
  <2> QED BY <2>1, <2>2
<1>6. TableStep
  <2>1. op' \in [Operations -> OperationRow]
    <3>1. \A o \in Operations : op'[o] \in OperationRow
      BY <1>5 DEF RowOK
    <3>2. op' = [o \in Operations |-> op'[o]]
      BY <1>1
    <3> QED BY <3>1, <3>2
  <2>2. OneActivePerKey'
    BY <1>5, NothingStarted DEF QueueInv
  <2> QED BY <1>5, <2>1, <2>2 DEF TableStep
<1>7. schedule' \in [Schedules -> ScheduleRow]
  BY <1>1, <1>2, <1>3
<1>8. Fresh'
  <2>1. \A s \in Schedules : schedule'[s].status = "absent" => schedule'[s].runs = 0
    <3>1. \A s \in due : schedule[s].status = "on"
      BY DEF Due, due
    <3> QED BY <1>1, <1>3, <3>1 DEF QueueInv, Fresh
  <2>2. ASSUME NEW s \in Schedules, NEW n \in 1..MaxRuns, n > schedule'[s].runs
        PROVE  op'[<<s, n>>].status = "absent"
    <3>1. n > schedule[s].runs /\ (s \in due => n > schedule[s].runs + 1)
      BY <1>1, <1>2, <1>3, <2>2 DEF ScheduleRow
    <3>2. <<s, n>> \in Operations
      BY QueueAssumption
    <3>3. op[<<s, n>>].status = "absent"
      BY <3>1 DEF QueueInv, Fresh
    <3>4. ~coming(<<s, n>>)
      BY <1>2, <3>1 DEF ScheduleRow
    <3> QED BY <1>1, <3>2, <3>3, <3>4
  <2> QED BY <2>1, <2>2 DEF Fresh
<1> QED BY <1>1, <1>6, <1>7, <1>8 DEF Kept, QueueInv, ScheduleRow

\* A row that differs in its times only is as good as before.
LEMMA SameRow ==
  ASSUME NEW o \in Operations, NEW row, RowOK(o, row), NEW new \in OperationRow,
         new.status = row.status, new.attempt = row.attempt, new.cancel = row.cancel
  PROVE  RowOK(o, new)
  BY DEF RowOK

\* The lease of an active row passes.
LEMMA LeaseTick ==
  ASSUME NEW o \in Operations, NEW row, RowOK(o, row), NEW x \in Int,
         NEW new, new = [row EXCEPT !.lease = x]
  PROVE  RowOK(o, new) /\ new.status = row.status
<1>1. row \in OperationRow
  BY DEF RowOK
<1>2. new \in OperationRow
  BY <1>1, WriteLease
<1>3. new.status = row.status /\ new.attempt = row.attempt
  BY <1>1 DEF OperationRow
<1>4. new.cancel = row.cancel
  BY <1>1 DEF OperationRow
<1> QED BY <1>2, <1>3, <1>4, SameRow

\* The deadline of an active row passes.
LEMMA DeadlineTick ==
  ASSUME NEW o \in Operations, NEW row, RowOK(o, row), NEW x \in Int,
         NEW new, new = [row EXCEPT !.deadline = x]
  PROVE  RowOK(o, new) /\ new.status = row.status
<1>1. row \in OperationRow
  BY DEF RowOK
<1>2. new \in OperationRow
  BY <1>1, WriteDeadline
<1>3. new.status = row.status /\ new.attempt = row.attempt
  BY <1>1 DEF OperationRow
<1>4. new.cancel = row.cancel
  BY <1>1 DEF OperationRow
<1> QED BY <1>2, <1>3, <1>4, SameRow

\* The time a waiting row has to wait passes.
LEMMA WaitingTick ==
  ASSUME NEW o \in Operations, NEW row, RowOK(o, row), NEW x \in Int,
         NEW new, new = [row EXCEPT !.wait = x]
  PROVE  RowOK(o, new) /\ new.status = row.status
<1>1. row \in OperationRow
  BY DEF RowOK
<1>2. new \in OperationRow
  BY <1>1, WriteWait
<1>3. new.status = row.status /\ new.attempt = row.attempt
  BY <1>1 DEF OperationRow
<1>4. new.cancel = row.cancel
  BY <1>1 DEF OperationRow
<1> QED BY <1>2, <1>3, <1>4, SameRow

\* TickQueue.
LEMMA TickKept ==
  ASSUME QueueInv, TickQueue
  PROVE  Kept
<1>1. \A x \in Int : Less(x) \in Int
  BY QueueAssumption DEF Less
<1>2. ASSUME NEW o \in Operations
      PROVE  RowOK(o, op'[o]) /\ op'[o].status = op[o].status
  <2>1. RowOK(o, op[o]) /\ op[o].lease \in Int /\ op[o].deadline \in Int /\ op[o].wait \in Int
    BY DEF QueueInv, OperationRow
  <2>2. Less(op[o].lease) \in Int /\ Less(op[o].deadline) \in Int /\ Less(op[o].wait) \in Int
    BY <1>1, <2>1
  <2>3. \/ op'[o] = op[o]
        \/ op'[o] = [op[o] EXCEPT !.lease = Less(op[o].lease), !.deadline = Less(op[o].deadline)]
        \/ op'[o] = [op[o] EXCEPT !.wait = Less(op[o].wait)]
    BY DEF TickQueue
  <2> DEFINE lease == Less(op[o].lease)
             deadline == Less(op[o].deadline)
             wait == Less(op[o].wait)
  <2> HIDE DEF lease, deadline, wait
  <2>4. CASE op'[o] = op[o]
    BY <2>1, <2>4
  <2>5. CASE op'[o] = [op[o] EXCEPT !.lease = lease, !.deadline = deadline]
    <3>1. lease \in Int /\ deadline \in Int
      BY <2>2 DEF lease, deadline
    <3> DEFINE r1 == [op[o] EXCEPT !.lease = lease]
    <3>2. op'[o] = [r1 EXCEPT !.deadline = deadline]
      BY <2>5
    <3> HIDE DEF r1
    <3>3. RowOK(o, r1) /\ r1.status = op[o].status
      BY <2>1, <3>1, LeaseTick DEF r1
    <3> QED BY <3>1, <3>2, <3>3, DeadlineTick
  <2>6. CASE op'[o] = [op[o] EXCEPT !.wait = wait]
    <3>1. wait \in Int
      BY <2>2 DEF wait
    <3> QED BY <2>1, <2>6, <3>1, WaitingTick
  <2> QED BY <2>3, <2>4, <2>5, <2>6 DEF lease, deadline, wait
<1>3. \A o \in Operations : Steps(op[o], op'[o])
  BY <1>2, StageByStatus DEF QueueInv, Steps
<1>4. op' \in [Operations -> OperationRow]
  <2>1. \A o \in Operations : op'[o] \in OperationRow
    BY <1>2 DEF RowOK
  <2>2. op' = [o \in Operations |-> op'[o]]
    BY DEF TickQueue
  <2> QED BY <2>1, <2>2
<1>5. TableStep
  BY <1>2, <1>3, <1>4, NothingStarted DEF TableStep, QueueInv
<1>6. \A s \in Schedules : schedule'[s] \in ScheduleRow /\ schedule'[s].runs = schedule[s].runs
                           /\ schedule'[s].status = schedule[s].status
  <2> SUFFICES ASSUME NEW s \in Schedules
               PROVE  schedule'[s] \in ScheduleRow /\ schedule'[s].runs = schedule[s].runs
                      /\ schedule'[s].status = schedule[s].status
    OBVIOUS
  <2>1. schedule[s] \in ScheduleRow
    BY DEF QueueInv, ScheduleRow
  <2>2. Less(schedule[s].wait) \in Int
    BY <1>1, <2>1 DEF ScheduleRow
  <2>3. schedule'[s] = schedule[s] \/ schedule'[s] = [schedule[s] EXCEPT !.wait = Less(schedule[s].wait)]
    BY DEF TickQueue
  <2> QED BY <2>1, <2>2, <2>3 DEF ScheduleRow
<1>7. schedule' \in [Schedules -> ScheduleRow] /\ UNCHANGED talk
  BY <1>6 DEF TickQueue
<1>8. Fresh'
  <2>1. \A s \in Schedules, n \in 1..MaxRuns : <<s, n>> \in Operations
    BY QueueAssumption
  <2> QED BY <1>2, <1>6, <2>1 DEF QueueInv, Fresh
<1> QED BY <1>5, <1>7, <1>8 DEF Kept, QueueInv, ScheduleRow

-----------------------------------------------------------------------------
(* The queue with any callers.                                             *)

\* Every step of the queue is a transaction in order.
LEMMA QueueStep ==
  ASSUME QueueInv, [QueueNext]_queueVars
  PROVE  Kept
<1>1. ASSUME NEW o \in Operations,
             Enqueue(o) \/ Ensure(o) \/ RequestCancel(o) \/ Bind(o) \/ BindMismatch(o)
      PROVE  Kept
  <2>1. CASE Enqueue(o)
    <3> DEFINE now == 0
    <3>1. now \in Int
      OBVIOUS
    <3>2. op[o].status = "absent" /\ o \notin Automatic \cup (Schedules \X (1..MaxRuns))
          /\ op' = [op EXCEPT ![o] = NewRow(now)] /\ UNCHANGED <<talk, schedule>>
      BY <2>1 DEF Enqueue
    <3>3. o \notin Schedules \X (1..MaxRuns)
      BY <3>2, Zenon
    <3> HIDE DEF now
    <3> QED BY <3>1, <3>2, <3>3, Inserted
  <2>2. CASE Ensure(o)
    <3> DEFINE past == -Floor
    <3>1. past \in Int
      <4>1. Floor \in Nat
        BY QueueAssumption
      <4> QED BY <4>1
    <3>2. op[o].status = "absent" /\ o \in Automatic
          /\ op' = [op EXCEPT ![o] = NewRow(past)] /\ UNCHANGED <<talk, schedule>>
      BY <2>2 DEF Ensure
    <3> HIDE DEF past
    <3>3. (Automatic \cup Legacy) \cap (Schedules \X (1..MaxRuns)) = {}
      BY QueueAssumption
    <3>4. o \notin Schedules \X (1..MaxRuns)
      BY <3>2, <3>3, Zenon
    <3> QED BY <3>1, <3>2, <3>4, Inserted
  <2>3. CASE RequestCancel(o)
    BY <2>3, RequestCancelKept
  <2>4. CASE Bind(o)
    BY <2>4, BindKept
  <2>5. CASE BindMismatch(o)
    BY <2>5, BindMismatchKept
  <2> QED BY <1>1, <2>1, <2>2, <2>3, <2>4, <2>5
<1>2. ASSUME NEW w \in Workers, NEW o \in Operations, NEW age \in Int, WorkerCall(w, o, age)
      PROVE  Kept
  <2>1. CASE \E class \in Classes : Claim(w, o, class, age)
    BY <2>1, ClaimKept
  <2>2. CASE \E k \in Nat : Heartbeat(w, o, k, age)
    BY <2>2, HeartbeatKept
  <2>3. CASE \E k \in Nat : Complete(w, o, k, age)
    BY <2>3, CompleteKept
  <2>4. CASE \E k \in Nat : AcknowledgeCancel(w, o, k, age)
    BY <2>4, AcknowledgeKept
  <2>5. CASE \E k \in Nat : \E class \in Outcomes, delay \in {0, RetryDelay}, allow \in BOOLEAN :
               Fail(w, o, k, class, delay, allow, age)
    BY <2>5, FailKept
  <2> QED BY <1>2, <2>1, <2>2, <2>3, <2>4, <2>5 DEF WorkerCall
<1>3. ASSUME NEW age \in Int, Reconcile(age) \/ Materialize(age)
      PROVE  Kept
  BY <1>3, ReconcileKept, MaterializeKept
<1>4. ASSUME NEW s \in Schedules, NEW on \in BOOLEAN,
             SetScheduleEnabled(s, on) \/ \E wait \in FirstRuns : SaveSchedule(s, wait, on)
      PROVE  Kept
  BY <1>4, SetScheduleEnabledKept, SaveScheduleKept
<1>5. ASSUME NEW o \in Guided,
             \/ \E exact \in BOOLEAN : StartTalk(o, exact)
             \/ \E to \in OpenTalk \cup {"completed", "stopped"} : MoveTalk(o, OpenTalk, to)
      PROVE  Kept
  BY <1>5, TalkKept, QueueAssumption
<1>6. CASE TickQueue
  BY <1>6, TickKept
<1>7. CASE UNCHANGED queueVars
  <2>1. UNCHANGED <<op, talk, schedule>>
    BY <1>7 DEF queueVars
  <2>2. TableStep
    BY <2>1, NothingWritten
  <2>3. Fresh'
    BY <2>1, StillFresh
  <2> QED BY <2>1, <2>2, <2>3 DEF Kept, QueueInv
<1>8. CASE QueueNext
  BY <1>1, <1>2, <1>3, <1>4, <1>5, <1>6, <1>8, Zenon DEF QueueNext
<1> QED BY <1>7, <1>8

\* The table the queue starts with: nothing, or retries an earlier version left.
LEMMA QueueStart ==
  ASSUME QueueInit
  PROVE  QueueInv /\ Board!Init
<1> DEFINE old == [NoRow EXCEPT !.status = "retry", !.attempt = 1]
<1>1. PICK left \in SUBSET Legacy :
        op = [o \in Operations |-> IF o \in left THEN old ELSE NoRow]
  BY DEF QueueInit
<1>2. NoRow \in OperationRow /\ NoRow.status = "absent" /\ NoRow.attempt = 0 /\ NoRow.cancel = FALSE
  BY DEF NoRow, OperationRow, Outcomes
<1>3. old \in OperationRow /\ old.status = "retry" /\ old.attempt = 1 /\ old.cancel = FALSE
  <2> DEFINE r1 == [NoRow EXCEPT !.status = "retry"]
  <2>1. r1 \in OperationRow /\ r1.status = "retry" /\ r1.cancel = FALSE
    BY <1>2, WriteStatus DEF Statuses, Waiting, NoRow
  <2>2. old = [r1 EXCEPT !.attempt = 1]
    OBVIOUS
  <2> HIDE DEF r1, old
  <2>3. old \in OperationRow
    BY <2>1, <2>2, WriteAttempt
  <2>4. old.status = "retry" /\ old.attempt = 1 /\ old.cancel = FALSE
    BY <2>1, <2>2 DEF OperationRow
  <2> QED BY <2>3, <2>4
<1> HIDE DEF old
<1>4. ASSUME NEW o \in Operations
      PROVE  RowOK(o, op[o]) /\ op[o].status \in {"absent", "retry"}
  <2>1. MaxAttempts[o] \in Nat /\ 1 <= MaxAttempts[o]
    BY QueueAssumption
  <2>2. CASE o \in left
    <3>1. op[o] = old /\ o \notin AutoRetry
      BY <1>1, <2>2, QueueAssumption
    <3> QED BY <1>3, <2>1, <3>1 DEF RowOK, Waiting
  <2>3. CASE o \notin left
    <3>1. op[o] = NoRow
      BY <1>1, <2>3
    <3> QED BY <1>2, <2>1, <3>1 DEF RowOK
  <2> QED BY <2>2, <2>3
<1>5. op \in [Operations -> OperationRow]
  BY <1>1, <1>2, <1>3
<1>6. talk \in [Operations -> TalkRow]
  BY DEF QueueInit, TalkRow
<1>7. /\ schedule \in [Schedules -> [status : {"absent", "on", "off"}, wait : Int, runs : 0..MaxRuns]]
      /\ \A s \in Schedules : schedule[s].runs = 0
  BY QueueAssumption DEF QueueInit
<1>8. OneActivePerKey
  BY <1>4 DEF OneActivePerKey, Active
<1>9. Fresh
  <2>1. ASSUME NEW s \in Schedules, NEW n \in 1..MaxRuns
        PROVE  op[<<s, n>>].status = "absent"
    <3>1. <<s, n>> \in Schedules \X (1..MaxRuns)
      OBVIOUS
    <3>2. <<s, n>> \in Operations /\ <<s, n>> \notin left
      BY <3>1, QueueAssumption
    <3> QED BY <1>1, <1>2, <3>2
  <2> QED BY <1>7, <2>1 DEF Fresh
<1>10. Board!Init
  <2>1. \A o \in Operations : StageOf(op[o]) \in {"none", "waiting"}
    BY <1>4, StageByStatus
  <2> QED BY <2>1 DEF Board!Init
<1> QED BY <1>4, <1>5, <1>6, <1>7, <1>8, <1>9, <1>10 DEF QueueInv

\* QueueInv holds in every reachable state of the queue.
THEOREM QueueInvariant == QueueSpec => []QueueInv
<1>1. QueueInit => QueueInv
  BY QueueStart
<1>2. QueueInv /\ [QueueNext]_queueVars => QueueInv'
  BY QueueStep, KeptInv
<1> QED BY <1>1, <1>2, PTL DEF QueueSpec

\* The rows of the queue keep their types, and no operation is tried more
\* often than its max_attempts.
THEOREM QueueTypes == QueueSpec => []QueueTypeOK
<1>1. QueueInv => QueueTypeOK
  BY DEF QueueInv, QueueTypeOK, RowOK
<1> QED BY <1>1, QueueInvariant, PTL

\* One resource, one worker, whoever calls and however old the clock reading
\* of the call is.
THEOREM QueueExclusive == QueueSpec => []OneActivePerKey
<1>1. QueueInv => OneActivePerKey
  BY DEF QueueInv
<1> QED BY <1>1, QueueInvariant, PTL

\* The queue implements the job board: outcomes are final, only what waits is
\* started, and a cancellation that was accepted is not overtaken by a
\* completion or a retry.
THEOREM QueueImplementsJobBoard == QueueSpec => ImplementsJobBoard
<1>1. QueueInit => Board!Init
  BY QueueStart
<1>2. QueueInv /\ [QueueNext]_queueVars => [Board!Next]_([o \in Operations |-> StageOf(op[o])])
  BY QueueStep, BoardNext DEF Kept
<1> QED BY <1>1, <1>2, QueueInvariant, PTL DEF QueueSpec, ImplementsJobBoard, Board!Spec

=============================================================================
