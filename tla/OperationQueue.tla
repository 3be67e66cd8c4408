--------------------------- MODULE OperationQueue ---------------------------
(***************************************************************************)
(* The durable operation queue of operation_queue.py: enqueue, ensure,     *)
(* claim, heartbeat, complete, fail, request_cancel, acknowledge_cancel,   *)
(* reconcile, the binding of a guided operation to its discussion, and     *)
(* recurring schedules.                                                    *)
(*                                                                         *)
(* Every operation is one BEGIN IMMEDIATE transaction on the shared SQLite *)
(* file, hence one step; one that raises is rolled back and is no step.    *)
(* Times are kept as the ticks that are left until them.  The callers read *)
(* the clock before they wait for the write lock, so each call takes the   *)
(* age of its reading: a time x lies after the reading when x + age > 0.   *)
(*                                                                         *)
(* This module is the queue with any callers.  GuidedRoom and ManagedRun   *)
(* add the processes that use it.                                          *)
(***************************************************************************)
EXTENDS Integers, FiniteSets

CONSTANTS
  Operations,   (* operation ids                                            *)
  Keys,         (* resource keys                                            *)
  KeyOf,        (* KeyOf[o]: the resource_key of o                          *)
  Guided,       (* operations with a room-discussion: key                   *)
  AutoRetry,    (* operations whose workflow template retries by itself     *)
  Automatic,    (* operations the control room itself asks for with ensure  *)
  Capped,       (* those of them that are refused when too many are open    *)
  Legacy,       (* retries an earlier version left, of templates that no    *)
                (* longer retry                                             *)
  Workers,      (* worker ids, one per tracker thread or workflow runner    *)
  NoWorker,     (* NULL in lease_owner                                      *)
  Schedules,    (* saved schedules                                          *)
  MaxAttempts,  (* MaxAttempts[o]: max_attempts of o                        *)
  Timeout,      (* timeout_seconds                                          *)
  LeaseTime,    (* lease_seconds                                            *)
  Grace,        (* GUIDED_DISCUSSION_BINDING_GRACE_SECONDS                  *)
  RetryDelay,   (* the default retry_after_seconds                          *)
  Interval,     (* interval_seconds of every schedule                       *)
  Capacity,     (* max_open_operations                                      *)
  FirstRuns,    (* next_run_epoch of a schedule when it is saved            *)
  MaxRuns,      (* bound: occurrences of a schedule                         *)
  Ages,         (* ages of the clock readings callers present               *)
  Floor         (* bound: no time is counted further below zero             *)

ASSUME QueueAssumption ==
  /\ KeyOf \in [Operations -> Keys]
  /\ Guided \subseteq Operations
  /\ Guided \subseteq AutoRetry
  /\ Automatic \subseteq Operations /\ Capped \subseteq Automatic
  /\ Legacy \subseteq Operations \ AutoRetry
  /\ Schedules \X (1..MaxRuns) \subseteq Operations
  /\ (Automatic \cup Legacy) \cap (Schedules \X (1..MaxRuns)) = {}
  /\ NoWorker \notin Workers
  /\ MaxAttempts \in [Operations -> Nat \ {0}]
  /\ {Timeout, LeaseTime, Grace, RetryDelay, Interval, Capacity, MaxRuns, Floor} \subseteq Nat
  /\ Ages \subseteq Nat
  /\ FirstRuns \subseteq Int

VARIABLES
  op,         (* op[o]: the governance_operations row of o                  *)
  talk,       (* talk[o]: the discussion started under the task of o        *)
  schedule    (* schedule[s]: the workflow_schedules row of s               *)

queueVars == <<op, talk, schedule>>

Waiting  == {"queued", "retry"}
Active   == {"running", "cancelling"}
Terminal == {"succeeded", "failed", "cancelled"}

\* Discussion statuses in which the Room still works on it or waits for it.
OpenTalk == {"active", "paused", "waiting_human"}

\* What the default outcome of a transition is called.
Outcomes == {"none", "completed", "cancelled", "cancelled_before_start",
             "cancelled_after_worker_loss", "timeout", "worker_lost", "retry_disallowed",
             "source-binding", "human-attention", "discussion-stopped",
             "provider", "transient", "resource", "queue-state", "configuration",
             "source-drift", "review-blocked"}

OperationRow == [status : {"absent"} \cup Waiting \cup Active \cup Terminal,
                 attempt : Nat,                  \* attempt_count, and the lease token
                 wait : Int, lease : Int, deadline : Int,
                 owner : Workers \cup {NoWorker},
                 cancel : BOOLEAN, bound : BOOLEAN,
                 outcome : Outcomes]

\* The task id of a guided operation is made for it, so at most one discussion
\* is started under it.  exact: its prompts carry the text, the participants
\* and the routes the operation names.
TalkRow == [status : {"none", "completed", "stopped"} \cup OpenTalk, exact : BOOLEAN]

NoRow == [status |-> "absent", attempt |-> 0, wait |-> 0, lease |-> 0, deadline |-> 0,
          owner |-> NoWorker, cancel |-> FALSE, bound |-> FALSE, outcome |-> "none"]

\* _enqueue_locked: the row as it is inserted.
NewRow(wait) == [NoRow EXCEPT !.status = "queued", !.wait = wait]

QueueInit ==
  /\ \E left \in SUBSET Legacy :
       op = [o \in Operations |->
               IF o \in left THEN [NoRow EXCEPT !.status = "retry", !.attempt = 1] ELSE NoRow]
  /\ talk = [o \in Operations |-> [status |-> "none", exact |-> FALSE]]
  /\ schedule = [s \in Schedules |-> [status |-> "absent", wait |-> 0, runs |-> 0]]

\* _set_terminal_locked: the outcome is stored and the worker columns cleared.
Ended(row, status, outcome) ==
  [row EXCEPT !.status = status, !.outcome = outcome,
              !.owner = NoWorker, !.lease = 0, !.deadline = 0]

\* The row that may be claimed again `wait' ticks from now.
Requeued(row, wait) ==
  [row EXCEPT !.status = "retry", !.wait = wait,
              !.owner = NoWorker, !.lease = 0, !.deadline = 0]

Past(x, age) == x + age <= 0

(***************************************************************************)
(* _recover_unbound_guided_locked: a guided operation nobody has bound yet *)
(* is bound to the one discussion that matches it, and fails when the open *)
(* one does not match or when the grace period has passed without one.     *)
(***************************************************************************)
Unbound(o) == o \in Guided /\ ~op[o].bound /\ op[o].status \in Waiting

OpenMismatch(o) == talk[o].status \in OpenTalk /\ ~talk[o].exact

\* Mutant: an unbound operation waits for its starter for ever.
RecoveredWithoutGrace(o, age) ==
  IF ~Unbound(o) THEN op[o]
  ELSE IF OpenMismatch(o) THEN Ended(op[o], "failed", "source-binding")
  ELSE IF talk[o].exact THEN [op[o] EXCEPT !.bound = TRUE]
  ELSE op[o]

Recovered(o, age) ==
  IF ~Unbound(o) THEN op[o]
  ELSE IF OpenMismatch(o) THEN Ended(op[o], "failed", "source-binding")
  ELSE IF talk[o].exact THEN [op[o] EXCEPT !.bound = TRUE]
  ELSE IF Past(op[o].wait + Grace, age) THEN Ended(op[o], "failed", "source-binding")
  ELSE op[o]

(***************************************************************************)
(* _reconcile_locked on one row: the worker of an active operation is lost *)
(* when its lease or its attempt deadline has passed.                      *)
(***************************************************************************)
Lost(row, age) == row.status \in Active /\ (Past(row.lease, age) \/ Past(row.deadline, age))

MayRetry(o, row) == o \in AutoRetry /\ row.attempt < MaxAttempts[o]

Settled(o, row, age) ==
  IF row.status = "retry" /\ o \notin AutoRetry THEN Ended(row, "failed", "retry_disallowed")
  ELSE IF ~Lost(row, age) THEN row
  ELSE IF row.status = "cancelling" \/ row.cancel
       THEN Ended(row, "cancelled", "cancelled_after_worker_loss")
  ELSE IF Past(row.deadline, age) /\ o \in Guided THEN Ended(row, "failed", "timeout")
  ELSE IF MayRetry(o, row) THEN Requeued(row, -age)
  ELSE Ended(row, "failed", IF Past(row.deadline, age) THEN "timeout" ELSE "worker_lost")

\* Both, as reconcile and claim run them on all rows in one transaction.
Reconciled(age) == [o \in Operations |-> Settled(o, Recovered(o, age), age)]

\* Mutant: the discussion goes on without the operation that has just ended.
TalkLeftOpen(age) ==
  [o \in Operations |->
     IF Unbound(o) /\ OpenMismatch(o) THEN [talk[o] EXCEPT !.status = "stopped"] ELSE talk[o]]

\* _stop_guided_rows_locked, _stop_terminal_guided_discussion_locked: the
\* transaction that ends a guided operation stops what is open of its talk.
ReconciledTalk(age) ==
  [o \in Operations |->
     IF /\ talk[o].status \in OpenTalk
        /\ \/ Unbound(o) /\ OpenMismatch(o)
           \/ /\ op[o].bound /\ op[o].status \in Active
              /\ Reconciled(age)[o].status \in Terminal
     THEN [talk[o] EXCEPT !.status = "stopped"] ELSE talk[o]]

Reconcile(age) ==
  /\ op' = Reconciled(age)
  /\ talk' = ReconciledTalk(age)
  /\ UNCHANGED schedule

(***************************************************************************)
(* enqueue by the operator, ensure by the control room.                    *)
(***************************************************************************)
OpenAutomatic == {o \in Automatic : op[o].status \notin Terminal \cup {"absent"}}

Enqueue(o) ==
  /\ op[o].status = "absent"
  /\ o \notin Automatic \cup (Schedules \X (1..MaxRuns))
  /\ op' = [op EXCEPT ![o] = NewRow(0)]
  /\ UNCHANGED <<talk, schedule>>

\* Mutant: an id whose operation is over is asked for again.
EnsureAgain(o) ==
  /\ op[o].status \in {"absent", "failed"}
  /\ o \in Automatic
  /\ o \in Capped => Cardinality(OpenAutomatic) < Capacity
  /\ op' = [op EXCEPT ![o] = NewRow(-Floor)]
  /\ UNCHANGED <<talk, schedule>>

\* An id that exists is answered with its row and changes nothing.
\* not_before_epoch is 0.0 there, which is long past.
Ensure(o) ==
  /\ op[o].status = "absent"
  /\ o \in Automatic
  /\ o \in Capped => Cardinality(OpenAutomatic) < Capacity
  /\ op' = [op EXCEPT ![o] = NewRow(-Floor)]
  /\ UNCHANGED <<talk, schedule>>

(***************************************************************************)
(* claim: reconcile, then the candidate that has waited longest.           *)
(***************************************************************************)
\* The operations of an operation_class: "managed", "room-discussion", "any".
Classes == {Operations \ Guided, Guided, Operations}

Ready(rows, class, age) ==
  {o \in class : /\ rows[o].status \in Waiting
                 /\ Past(rows[o].wait, age)
                 /\ ~rows[o].cancel
                 /\ o \in Guided => rows[o].bound
                 /\ \A p \in Operations : KeyOf[p] = KeyOf[o] => rows[p].status \notin Active}

\* Ties of not_before_epoch are broken by creation, which is not modelled.
FirstReady(rows, class, age) ==
  {o \in Ready(rows, class, age) :
     \A p \in Ready(rows, class, age) : rows[o].wait <= rows[p].wait}

\* not_before_epoch is not read again before it is set again.
ClaimedRow(row, w, age) ==
  [row EXCEPT !.status = "running", !.attempt = @ + 1, !.owner = w, !.wait = 0,
              !.lease = LeaseTime - age, !.deadline = Timeout - age]

Claim(w, o, class, age) ==
  /\ o \in FirstReady(Reconciled(age), class, age)
  /\ op' = [Reconciled(age) EXCEPT ![o] = ClaimedRow(@, w, age)]
  /\ talk' = ReconciledTalk(age)
  /\ UNCHANGED schedule

\* claim returns None: what it reconciled is committed all the same.
ClaimNothing(class, age) ==
  /\ Ready(Reconciled(age), class, age) = {}
  /\ Reconcile(age)

(***************************************************************************)
(* What a worker may do with the attempt it has claimed.                   *)
(***************************************************************************)
\* _require_live_worker.  Each claim makes a new token; attempt k stands for it.
LiveWorker(w, o, k, age) ==
  /\ op[o].status \in Active
  /\ op[o].owner = w
  /\ op[o].attempt = k
  /\ ~Past(op[o].lease, age)
  /\ ~Past(op[o].deadline, age)

Update(o, row) == op' = [op EXCEPT ![o] = row] /\ UNCHANGED <<talk, schedule>>

Earlier(x, y) == IF x < y THEN x ELSE y

Heartbeat(w, o, k, age) ==
  /\ LiveWorker(w, o, k, age)
  /\ Update(o, [op[o] EXCEPT !.lease = Earlier(LeaseTime - age, op[o].deadline)])

\* Mutant: a completion overtakes the cancellation.
CompleteThoughCancelled(w, o, k, age) ==
  /\ LiveWorker(w, o, k, age)
  /\ Update(o, Ended(op[o], "succeeded", "completed"))

Complete(w, o, k, age) ==
  /\ LiveWorker(w, o, k, age)
  /\ ~op[o].cancel
  /\ Update(o, Ended(op[o], "succeeded", "completed"))

\* RETRY_CLASSES
RetryClasses == {"transient", "resource", "provider", "timeout"}

FailedRow(o, class, delay, allowRetry, age) ==
  IF op[o].cancel THEN Ended(op[o], "cancelled", "cancelled")
  ELSE IF class \in RetryClasses /\ allowRetry /\ MayRetry(o, op[o])
       THEN Requeued(op[o], delay - age)
  ELSE Ended(op[o], "failed", class)

Fail(w, o, k, class, delay, allowRetry, age) ==
  /\ LiveWorker(w, o, k, age)
  /\ Update(o, FailedRow(o, class, delay, allowRetry, age))

AcknowledgeCancel(w, o, k, age) ==
  /\ LiveWorker(w, o, k, age)
  /\ op[o].cancel
  /\ Update(o, Ended(op[o], "cancelled", "cancelled"))

\* The operator: what waits is over at once, what runs is asked to stop.
RequestCancel(o) ==
  /\ op[o].status \in Waiting \cup Active
  /\ Update(o, IF op[o].status \in Waiting
               THEN Ended(op[o], "cancelled", "cancelled_before_start")
               ELSE [op[o] EXCEPT !.status = "cancelling", !.cancel = TRUE])

(***************************************************************************)
(* bind_guided_discussion, called by the starter of a guided operation.    *)
(* A mismatch ends the operation and stops the discussion in one           *)
(* transaction, which commits before the call raises.                      *)
(***************************************************************************)
Bindable(o) == o \in Guided /\ ~op[o].bound /\ op[o].status \in Waiting

Bind(o) ==
  /\ Bindable(o)
  /\ talk[o].exact
  /\ Update(o, [op[o] EXCEPT !.bound = TRUE])

BindMismatch(o) ==
  /\ Bindable(o)
  /\ ~talk[o].exact
  /\ op' = [op EXCEPT ![o] = Ended(@, "failed", "source-binding")]
  /\ talk' = [talk EXCEPT ![o].status = IF @ \in OpenTalk THEN "stopped" ELSE @]
  /\ UNCHANGED schedule

(***************************************************************************)
(* Recurring schedules: save_schedule, set_schedule_enabled and            *)
(* materialize_due_schedules.  An occurrence has an id of its own, here    *)
(* its number; it and the next due time are written together.              *)
(***************************************************************************)
SaveSchedule(s, wait, enabled) ==
  /\ schedule[s].status = "absent"
  /\ schedule' = [schedule EXCEPT ![s] = [status |-> IF enabled THEN "on" ELSE "off",
                                          wait |-> wait, runs |-> 0]]
  /\ UNCHANGED <<op, talk>>

SetScheduleEnabled(s, enabled) ==
  /\ schedule[s].status # "absent"
  /\ schedule' = [schedule EXCEPT ![s].status = IF enabled THEN "on" ELSE "off"]
  /\ UNCHANGED <<op, talk>>

Due(age) == {s \in Schedules : schedule[s].status = "on" /\ Past(schedule[s].wait, age)}

Materialize(age) ==
  /\ Due(age) # {}
  /\ \A s \in Due(age) : schedule[s].runs < MaxRuns
  /\ op' = [o \in Operations |->
              IF \E s \in Due(age) : o = <<s, schedule[s].runs + 1>> THEN NewRow(-age) ELSE op[o]]
  /\ schedule' = [s \in Schedules |->
                    IF s \in Due(age)
                    THEN [schedule[s] EXCEPT !.wait = Interval - age, !.runs = @ + 1]
                    ELSE schedule[s]]
  /\ UNCHANGED talk

\* One unit of time passes.
Less(x) == IF x > -Floor THEN x - 1 ELSE x

TickQueue ==
  /\ op' = [o \in Operations |->
              IF op[o].status \in Active
                THEN [op[o] EXCEPT !.lease = Less(@), !.deadline = Less(@)]
              ELSE IF op[o].status \in Waiting THEN [op[o] EXCEPT !.wait = Less(@)]
              ELSE op[o]]
  /\ schedule' = [s \in Schedules |->
                    IF schedule[s].status = "absent" THEN schedule[s]
                    ELSE [schedule[s] EXCEPT !.wait = Less(@)]]
  /\ UNCHANGED talk

\* What the Room does with the discussion of o: it is started, and while it is
\* open it is paused, waits for a human, is completed or is stopped.
StartTalk(o, exact) ==
  /\ talk[o].status = "none"
  /\ talk' = [talk EXCEPT ![o] = [status |-> "active", exact |-> exact]]
  /\ UNCHANGED <<op, schedule>>

MoveTalk(o, from, to) ==
  /\ talk[o].status \in from
  /\ talk' = [talk EXCEPT ![o].status = to]
  /\ UNCHANGED <<op, schedule>>

-----------------------------------------------------------------------------
(***************************************************************************)
(* The queue with any callers: any worker may present any token with a     *)
(* reading of any age.                                                     *)
(***************************************************************************)
WorkerCall(w, o, age) ==
  \/ \E class \in Classes : Claim(w, o, class, age)
  \/ \E k \in Nat : \/ Heartbeat(w, o, k, age)
                    \/ Complete(w, o, k, age)
                    \/ AcknowledgeCancel(w, o, k, age)
                    \/ \E class \in Outcomes, delay \in {0, RetryDelay}, allow \in BOOLEAN :
                         Fail(w, o, k, class, delay, allow, age)

QueueNext ==
  \/ \E o \in Operations : Enqueue(o) \/ Ensure(o) \/ RequestCancel(o) \/ Bind(o) \/ BindMismatch(o)
  \/ \E w \in Workers, o \in Operations, age \in Int : WorkerCall(w, o, age)
  \/ \E age \in Int : Reconcile(age) \/ Materialize(age)
  \/ \E s \in Schedules, on \in BOOLEAN :
       SetScheduleEnabled(s, on) \/ \E wait \in FirstRuns : SaveSchedule(s, wait, on)
  \/ \E o \in Guided : \/ \E exact \in BOOLEAN : StartTalk(o, exact)
                       \/ \E to \in OpenTalk \cup {"completed", "stopped"} : MoveTalk(o, OpenTalk, to)
  \/ TickQueue

QueueSpec == QueueInit /\ [][QueueNext]_queueVars

QueueTypeOK ==
  /\ op \in [Operations -> OperationRow]
  /\ \A o \in Operations : op[o].attempt <= MaxAttempts[o]
  /\ talk \in [Operations -> TalkRow]
  /\ schedule \in [Schedules -> [status : {"absent", "on", "off"}, wait : Int, runs : 0..MaxRuns]]

-----------------------------------------------------------------------------
(* What the queue promises.                                                *)

\* One resource, one worker: of the operations with one resource_key at most
\* one is running or cancelling (the NOT EXISTS of claim; no index says so).
OneActivePerKey ==
  \A o, p \in Operations :
    (o # p /\ KeyOf[o] = KeyOf[p] /\ op[o].status \in Active) => op[p].status \notin Active

\* An operation that ended because its attempt timed out or because its worker
\* was lost, its cancellation included, leaves no discussion open.  (One that
\* ended for want of a binding may: a starter that is slow can post after the
\* grace period has ended its operation.  It stops its discussion then,
\* NoOrphanTalk, but not if it crashes first.)
LostWorkStopsTalk ==
  \A o \in Guided :
    (op[o].bound /\ op[o].outcome \in {"timeout", "worker_lost", "cancelled_after_worker_loss"})
      => talk[o].status \notin OpenTalk

\* The queue as a table of jobs: see JobBoard.
StageOf(row) ==
  CASE row.status = "absent"                -> "none"
    [] row.status \in Waiting               -> "waiting"
    [] row.status \in Active /\ ~row.cancel  -> "running"
    [] row.status \in Active /\ row.cancel   -> "stopping"
    [] row.status = "succeeded"             -> "succeeded"
    [] row.status \in {"failed", "cancelled"} -> "ended"

Board == INSTANCE JobBoard WITH
           Jobs <- Operations, stage <- [o \in Operations |-> StageOf(op[o])]

\* The queue implements the job board: a terminal outcome is final, nothing
\* runs that was not waiting, no resource is given to two operations, and an
\* accepted cancellation wins over a completion or a retry under way.
ImplementsJobBoard == Board!Spec

=============================================================================
