-------------------------- MODULE ManagedRunProofs --------------------------
(***************************************************************************)
(* Proofs about ManagedRun.tla: for any number of operations, runners,     *)
(* attempts, sessions and changes of a worktree, the runners use the queue *)
(* as the queue allows, an operation succeeds only with the work of its    *)
(* last attempt done, and a runner that still dispatches has stopped what  *)
(* it started.                                                             *)
(*                                                                         *)
(* The argument: each claim makes a new attempt, so no two runners hold    *)
(* the same attempt, and nobody holds one that has succeeded; what a       *)
(* runner may rely on (Works) speaks of the sessions of its own attempt,   *)
(* which no other runner touches, and of a worktree whose sealed content   *)
(* stays and whose changes are counted.                                    *)
(***************************************************************************)
EXTENDS ManagedRun, OperationQueueProofs

-----------------------------------------------------------------------------
(* What the transactions of the queue do to attempts and successes.        *)

\* An operation that nobody asked for was not tried.
Untried == \A o \in Operations : op[o].status = "absent" => op[o].attempt = 0

\* One row is rewritten without a new attempt or a success.
Calm(old, new) ==
  /\ new.attempt = old.attempt
  /\ new.status = "succeeded" <=> old.status = "succeeded"
  /\ new.status = "absent" => old.status = "absent"

Quiet == \A o \in Operations : Calm(op[o], op'[o])

\* The table is not written.
LEMMA QuietStays ==
  ASSUME UNCHANGED op
  PROVE  Quiet
  BY DEF Quiet, Calm

\* One row is written.
LEMMA QuietUpdate ==
  ASSUME QueueInv, NEW o \in Operations, NEW row, Calm(op[o], row), op' = [op EXCEPT ![o] = row]
  PROVE  Quiet
  BY DEF Quiet, Calm, QueueInv

\* An operation that is over without success.
LEMMA CalmEnded ==
  ASSUME NEW row \in OperationRow, row.status # "succeeded",
         NEW status \in {"failed", "cancelled"}, NEW outcome
  PROVE  Calm(row, Ended(row, status, outcome))
  BY DEF Calm, Ended, OperationRow

\* An attempt that is given back.
LEMMA CalmRequeued ==
  ASSUME NEW row \in OperationRow, row.status \in Active, NEW wait
  PROVE  Calm(row, Requeued(row, wait))
  BY DEF Calm, Requeued, OperationRow, Active

\* A new row for an operation nobody had asked for.
LEMMA CalmNew ==
  ASSUME NEW row \in OperationRow, row.status = "absent", row.attempt = 0, NEW wait
  PROVE  Calm(row, NewRow(wait))
<1>1. NewRow(wait).status = "queued" /\ NewRow(wait).attempt = 0
  BY DEF NewRow, NoRow
<1> QED BY <1>1 DEF Calm

\* No operation is guided here.
LEMMA NothingToRecover ==
  ASSUME NEW o, NEW age
  PROVE  Recovered(o, age) = op[o]
  BY ManagedAssumption DEF Recovered, Unbound

\* _reconcile_locked on one row.
LEMMA CalmReconciled ==
  ASSUME QueueInv, NEW o \in Operations, NEW age \in Int
  PROVE  Calm(op[o], Reconciled(age)[o])
<1> DEFINE row == op[o]
<1>1. row \in OperationRow
  BY DEF QueueInv
<1>2. Reconciled(age)[o] = Settled(o, row, age)
  BY NothingToRecover DEF Reconciled
<1>3. \/ Settled(o, row, age) = row
      \/ row.status \in Active /\ Settled(o, row, age) = Requeued(row, -age)
      \/ /\ row.status # "succeeded"
         /\ \E status \in {"failed", "cancelled"}, outcome \in Outcomes :
              Settled(o, row, age) = Ended(row, status, outcome)
  <2>1. CASE row.status = "retry" /\ o \notin AutoRetry
    <3>1. Settled(o, row, age) = Ended(row, "failed", "retry_disallowed")
      BY <2>1 DEF Settled
    <3>2. "retry_disallowed" \in Outcomes /\ row.status # "succeeded"
      BY <2>1 DEF Outcomes
    <3> QED BY <3>1, <3>2
  <2>2. CASE ~(row.status = "retry" /\ o \notin AutoRetry) /\ ~Lost(row, age)
    BY <2>2, Zenon DEF Settled
  <2>3. CASE Lost(row, age)
    <3>1. row.status \in Active
      BY <2>3 DEF Lost
    <3>2. row.status # "retry" /\ row.status # "succeeded"
      BY <3>1 DEF Active
    <3>3. Settled(o, row, age) \in
            {Requeued(row, -age), Ended(row, "cancelled", "cancelled_after_worker_loss"),
             Ended(row, "failed", "timeout"), Ended(row, "failed", "worker_lost")}
      BY <2>3, <3>2, Zenon DEF Settled
    <3>4. {"cancelled_after_worker_loss", "timeout", "worker_lost"} \subseteq Outcomes
      BY DEF Outcomes
    <3> HIDE DEF row
    <3> QED BY <3>1, <3>2, <3>3, <3>4
  <2> QED BY <2>1, <2>2, <2>3
<1>4. CASE Settled(o, row, age) = row
  BY <1>2, <1>4 DEF Calm
<1>5. CASE row.status \in Active /\ Settled(o, row, age) = Requeued(row, -age)
  BY <1>1, <1>2, <1>5, CalmRequeued
<1>6. ASSUME NEW status \in {"failed", "cancelled"}, NEW outcome \in Outcomes,
             row.status # "succeeded", Settled(o, row, age) = Ended(row, status, outcome)
      PROVE  Calm(row, Reconciled(age)[o])
  BY <1>1, <1>2, <1>6, CalmEnded
<1> QED BY <1>3, <1>4, <1>5, <1>6

\* reconcile.
LEMMA ReconcileQuiet ==
  ASSUME QueueInv, NEW age \in Int, Reconcile(age)
  PROVE  Quiet
  BY CalmReconciled DEF Reconcile, Quiet

\* claim: the next attempt of o, and of nothing else.
LEMMA ClaimAttempt ==
  ASSUME QueueInv, NEW w, NEW o \in Operations, NEW class, NEW age \in Int,
         Claim(w, o, class, age)
  PROVE  /\ op'[o].attempt = op[o].attempt + 1 /\ op'[o].status = "running"
         /\ op[o].status # "succeeded"
         /\ \A p \in Operations : p # o => Calm(op[p], op'[p])
<1> DEFINE row == Reconciled(age)[o]
           new == ClaimedRow(row, w, age)
<1>1. op' = [Reconciled(age) EXCEPT ![o] = new]
  BY DEF Claim
<1>2. row.status \in Waiting
  BY DEF Claim, FirstReady, Ready
<1>3. row \in OperationRow
  BY ReconciledRow DEF QueueInv, RowOK
<1>4. new.status = "running" /\ new.attempt = row.attempt + 1
  BY <1>3 DEF ClaimedRow, OperationRow
<1>5. \A p \in Operations : op'[p] = IF p = o THEN new ELSE Reconciled(age)[p]
  BY <1>1 DEF Reconciled
<1>6. row.attempt = op[o].attempt /\ op[o].status # "succeeded"
  BY <1>2, CalmReconciled DEF Calm, Waiting
<1> HIDE DEF new, row
<1> QED BY <1>4, <1>5, <1>6, CalmReconciled

\* enqueue and ensure.
LEMMA NewQuiet ==
  ASSUME QueueInv, Untried, NEW o \in Operations, Enqueue(o) \/ Ensure(o)
  PROVE  Quiet
<1>1. PICK wait : op' = [op EXCEPT ![o] = NewRow(wait)]
  BY Zenon DEF Enqueue, Ensure
<1>2. op[o] \in OperationRow /\ op[o].status = "absent" /\ op[o].attempt = 0
  BY DEF Enqueue, Ensure, QueueInv, Untried
<1> QED BY <1>1, <1>2, CalmNew, QuietUpdate

\* request_cancel.
LEMMA RequestCancelQuiet ==
  ASSUME QueueInv, NEW o \in Operations, RequestCancel(o)
  PROVE  Quiet
<1>1. op[o] \in OperationRow
  BY DEF QueueInv
<1>2. CASE op[o].status \in Waiting
  <2>1. op' = [op EXCEPT ![o] = Ended(op[o], "cancelled", "cancelled_before_start")]
    BY <1>2 DEF RequestCancel, Update
  <2>2. op[o].status # "succeeded"
    BY <1>2 DEF Waiting
  <2> QED BY <1>1, <2>1, <2>2, CalmEnded, QuietUpdate
<1>3. CASE op[o].status \in Active
  <2> DEFINE new == [op[o] EXCEPT !.status = "cancelling", !.cancel = TRUE]
  <2>1. op' = [op EXCEPT ![o] = new]
    BY <1>3 DEF RequestCancel, Update, Active, Waiting
  <2>2. Calm(op[o], new)
    BY <1>1, <1>3 DEF Calm, OperationRow, Active
  <2> HIDE DEF new
  <2> QED BY <2>1, <2>2, QuietUpdate
<1> QED BY <1>2, <1>3 DEF RequestCancel

\* heartbeat, fail and acknowledge_cancel.
LEMMA WorkerQuiet ==
  ASSUME QueueInv, NEW w, NEW o \in Operations, NEW k, NEW age \in Int, NEW class, NEW delay \in Int,
         NEW allow,
         \/ Heartbeat(w, o, k, age) \/ AcknowledgeCancel(w, o, k, age)
         \/ Fail(w, o, k, class, delay, allow, age)
  PROVE  Quiet
<1>1. op[o] \in OperationRow /\ op[o].status \in Active /\ op[o].status # "succeeded"
  BY DEF QueueInv, Heartbeat, AcknowledgeCancel, Fail, LiveWorker, Active
<1>2. CASE Heartbeat(w, o, k, age)
  <2> DEFINE x == Earlier(LeaseTime - age, op[o].deadline)
             new == [op[o] EXCEPT !.lease = x]
  <2>1. op' = [op EXCEPT ![o] = new]
    BY <1>2 DEF Heartbeat, Update
  <2>2. Calm(op[o], new)
    <3> HIDE DEF x
    <3> QED BY <1>1 DEF Calm, OperationRow
  <2> HIDE DEF new
  <2> QED BY <2>1, <2>2, QuietUpdate
<1>3. CASE AcknowledgeCancel(w, o, k, age)
  <2>1. op' = [op EXCEPT ![o] = Ended(op[o], "cancelled", "cancelled")]
    BY <1>3 DEF AcknowledgeCancel, Update
  <2> QED BY <1>1, <2>1, CalmEnded, QuietUpdate
<1>4. CASE Fail(w, o, k, class, delay, allow, age)
  <2> DEFINE row == FailedRow(o, class, delay, allow, age)
  <2>1. op' = [op EXCEPT ![o] = row]
    BY <1>4 DEF Fail, Update
  <2>2. row \in {Requeued(op[o], delay - age), Ended(op[o], "failed", class),
                 Ended(op[o], "cancelled", "cancelled")}
    BY Zenon DEF FailedRow
  <2>3. Calm(op[o], row)
    <3> HIDE DEF row
    <3> QED BY <1>1, <2>2, CalmEnded, CalmRequeued
  <2> HIDE DEF row
  <2> QED BY <2>1, <2>3, QuietUpdate
<1> QED BY <1>2, <1>3, <1>4

\* complete: a success of the attempt that is presented, and no other.
LEMMA CompleteSucceeds ==
  ASSUME QueueInv, NEW w, NEW o \in Operations, NEW k, NEW age, Complete(w, o, k, age)
  PROVE  /\ k = op[o].attempt /\ op'[o].attempt = k /\ op'[o].status = "succeeded"
         /\ op[o].status \in Active
         /\ \A p \in Operations : p # o => Calm(op[p], op'[p])
<1> DEFINE new == Ended(op[o], "succeeded", "completed")
<1>1. /\ op' = [op EXCEPT ![o] = new] /\ k = op[o].attempt /\ op[o].status \in Active
      /\ op \in [Operations -> OperationRow] /\ op[o] \in OperationRow
  BY DEF Complete, Update, LiveWorker, QueueInv
<1>2. new.attempt = op[o].attempt /\ new.status = "succeeded"
  BY <1>1 DEF Ended, OperationRow
<1> HIDE DEF new
<1>3. \A p \in Operations : op'[p] = IF p = o THEN new ELSE op[p]
  BY <1>1
<1> QED BY <1>1, <1>2, <1>3 DEF Calm

\* materialize_due_schedules: occurrences are new.
LEMMA MaterializeQuiet ==
  ASSUME QueueInv, Untried, NEW age \in Int, Materialize(age)
  PROVE  Quiet
<1> SUFFICES ASSUME NEW o \in Operations PROVE Calm(op[o], op'[o])
  BY DEF Quiet
<1> DEFINE coming == \E s \in Due(age) : o = <<s, schedule[s].runs + 1>>
<1>1. op'[o] = IF coming THEN NewRow(-age) ELSE op[o]
  BY DEF Materialize
<1>2. CASE ~coming
  BY <1>1, <1>2 DEF Calm
<1>3. CASE coming
  <2>1. PICK s \in Due(age) : o = <<s, schedule[s].runs + 1>>
    BY <1>3
  <2>2. s \in Schedules /\ schedule[s].runs < MaxRuns /\ schedule[s].runs \in 0..MaxRuns
    BY <2>1 DEF Due, Materialize, QueueInv
  <2> DEFINE n == schedule[s].runs + 1
  <2>3. n \in 1..MaxRuns /\ n > schedule[s].runs
    BY <2>2, QueueAssumption
  <2> HIDE DEF n
  <2>4. op[<<s, n>>].status = "absent"
    BY <2>2, <2>3 DEF QueueInv, Fresh
  <2>5. op[o].status = "absent"
    BY <2>1, <2>4 DEF n
  <2>6. op[o] \in OperationRow /\ op[o].attempt = 0
    BY <2>5 DEF QueueInv, Untried
  <2> QED BY <1>1, <1>3, <2>5, <2>6, CalmNew
<1> QED BY <1>2, <1>3

\* Time passes.
LEMMA TickQuiet ==
  ASSUME QueueInv, TickQueue
  PROVE  Quiet
<1> SUFFICES ASSUME NEW o \in Operations PROVE Calm(op[o], op'[o])
  BY DEF Quiet
<1> DEFINE row == op[o]
           l == Less(row.lease)
           d == Less(row.deadline)
           x == Less(row.wait)
<1>1. row \in OperationRow
  BY DEF QueueInv
<1>2. op'[o] \in {[row EXCEPT !.lease = l, !.deadline = d], [row EXCEPT !.wait = x], row}
  BY DEF TickQueue
<1> HIDE DEF l, d, x
<1>3. op'[o].status = row.status /\ op'[o].attempt = row.attempt
  BY <1>1, <1>2 DEF OperationRow
<1> QED BY <1>3 DEF Calm

-----------------------------------------------------------------------------
(* The invariant.                                                          *)

\* The states in which all processes of the present phase have finished.
PastWait == {"seal", "sealing", "verify", "renew", "judge", "complete"}

Ats == {"idle", "gone", "launch", "wait", "stop", "fail", "acknowledge", "lost"} \cup PastWait

Nexts == {"none", "transient", "acknowledge", "provider", "configuration", "lost", "queue-state",
          "source-drift", "review-blocked", "seal", "launch", "complete"}

RunnerRow ==
  [at : Ats, for : Operations \cup {"none"}, token : Nat,
   phase : {"none", "write", "review", "observe"}, next : Nexts, saw : Contents]

OwnTyped ==
  /\ runner \in [Workers -> RunnerRow]
  /\ halted \in [Workers -> BOOLEAN]
  /\ session \in [SessionIds -> Session]
  /\ tree \in [Writes -> Tree]

\* A thread that holds an attempt, and where it may be with it.
AtWork(r) == r.at \notin {"idle", "gone"}

Failures == {"transient", "acknowledge", "provider", "configuration", "lost"}

Placed(r) ==
  /\ ~AtWork(r) => r.token = 0
  /\ AtWork(r) => /\ r.for \in Operations /\ r.phase \in PhasesOf(r.for)
                  /\ r.token \in 1..op[r.for].attempt
  /\ r.at = "stop" => r.next \in Failures
  /\ r.at = "fail" => r.next \in Outcomes
  /\ r.at \in {"seal", "sealing"} => r.phase = "write"
  /\ r.at \in {"judge"} => r.phase = "observe"
  /\ r.at = "verify" => \/ r.next = "launch" /\ r.phase = "write"
                        \/ r.next = "complete" /\ r.phase = "review"
  /\ r.at = "renew" => \/ r.next \in {"seal", "launch"} /\ r.phase = "write"
                       \/ r.next = "complete" /\ r.phase # "write"
  /\ r.at = "complete" => r.phase # "write"

Finished(x) == session[x].state = "completed" /\ session[x].done

\* What is left to check before success.
Convinced(o, k, phase) ==
  \A x \in Group(o, k, phase) :
    /\ o \in Gates => session[x].verdict = "approve"
    /\ phase = "review" => GivenSealed(session[x], tree[o])

\* What the thread of w may rely on.
Works(w, r) ==
  /\ r.at \in PastWait \cup {"wait"} =>
       \A x \in Group(r.for, r.token, r.phase) : session[x].by = w
  /\ r.at \in PastWait => \A x \in Group(r.for, r.token, r.phase) : Finished(x)
  /\ AtWork(r) /\ r.phase = "review" => \A x \in Group(r.for, r.token, "write") : Finished(x)
  /\ AtWork(r) /\ (r.phase = "review" \/ (r.at \in {"verify", "renew"} /\ r.next = "launch")) =>
       r.for \in Writes /\ tree[r.for].state = "sealed"
  /\ r.at = "sealing" => r.for \in Writes
  /\ r.at = "complete" \/ (r.at = "renew" /\ r.next = "complete") =>
       Convinced(r.for, r.token, r.phase)

\* No two threads hold one attempt.
Alone ==
  \A v, w \in Workers :
    (v # w /\ AtWork(runner[v]) /\ AtWork(runner[w])) =>
      runner[v].for # runner[w].for \/ runner[v].token # runner[w].token

\* The work of attempt k of o is done.
Earned(o, k) ==
  \A phase \in PhasesOf(o) :
    /\ \A x \in Group(o, k, phase) : Finished(x)
    /\ Convinced(o, k, phase)
    /\ phase = "review" => tree[o].state = "sealed"

\* A success is earned, and nobody works on it any more.
Rewarded ==
  \A o \in Operations : op[o].status = "succeeded" =>
    /\ op[o].attempt # 0 /\ Earned(o, op[o].attempt)
    /\ \A w \in Workers :
         AtWork(runner[w]) => runner[w].for # o \/ runner[w].token # op[o].attempt

\* What brought back a content was one of the changes.
TreesOK == \A o \in Writes : tree[o].restored <= tree[o].edits

\* A reviewer was launched on a sealed worktree, after some of its changes.  If
\* the worktree is as it was sealed, the reviewer was given that or the worktree
\* has been put back to it since.
ReviewOK(x) ==
  x[3] = "review" /\ session[x].state # "none" =>
    /\ x[1] \in Writes /\ tree[x[1]].state = "sealed"
    /\ session[x].since <= tree[x[1]].edits
    /\ tree[x[1]].content = tree[x[1]].final => GivenSealed(session[x], tree[x[1]])

\* A process that runs is that of a runner, and what that runner waits for.
Looked(x) ==
  Alive(x) =>
    LET w == session[x].by IN
    w \in Workers /\ (halted[w] \/ runner[w].at = "gone" \/ x \in Mine(w))

\* A thread that is done with its processes has stopped them.
Stopped(w) ==
  runner[w].at \in {"fail", "acknowledge", "lost"} =>
    halted[w] \/ \A x \in Mine(w) : ~Alive(x)

ManagedInv ==
  /\ QueueInv /\ Untried /\ OwnTyped
  /\ \A w \in Workers : Placed(runner[w]) /\ Works(w, runner[w]) /\ Stopped(w)
  /\ Alone /\ Rewarded /\ TreesOK
  /\ \A x \in SessionIds : ReviewOK(x) /\ Looked(x)

-----------------------------------------------------------------------------
(* Session ids.                                                            *)

\* An id names operation, attempt and phase.
LEMMA GroupNames ==
  ASSUME NEW o, NEW k, NEW phase, NEW x \in Group(o, k, phase)
  PROVE  x[1] = o /\ x[2] = k /\ x[3] = phase
  BY DEF Group

\* The ids of one operation.
IdsOf(o) == UNION {Group(o, k, phase) : k \in 1..MaxAttempts[o], phase \in PhasesOf(o)}

\* All ids.
LEMMA IdsByOperation == SessionIds = UNION {IdsOf(o) : o \in Operations}
  BY DEF SessionIds, IdsOf

\* The ids of a phase of an attempt.
LEMMA GroupIds ==
  ASSUME NEW o \in Operations, NEW k \in 1..MaxAttempts[o], NEW phase \in PhasesOf(o)
  PROVE  Group(o, k, phase) \subseteq SessionIds
<1>1. Group(o, k, phase) \subseteq IdsOf(o)
  BY DEF IdsOf
<1> QED BY <1>1, IdsByOperation

\* Every id is one of those.
LEMMA IdsNamed ==
  ASSUME NEW x \in SessionIds
  PROVE  /\ x[1] \in Operations /\ x[2] \in 1..MaxAttempts[x[1]] /\ x[3] \in PhasesOf(x[1])
         /\ x \in Group(x[1], x[2], x[3])
         /\ x[3] \in {"write", "review", "observe"}
         /\ x[3] \in {"write", "review"} => x[1] \in Writes
<1>1. PICK o \in Operations : x \in IdsOf(o)
  BY IdsByOperation
<1>2. PICK k \in 1..MaxAttempts[o], phase \in PhasesOf(o) : x \in Group(o, k, phase)
  BY <1>1 DEF IdsOf
<1>3. x[1] = o /\ x[2] = k /\ x[3] = phase
  BY <1>2, GroupNames
<1> QED BY <1>2, <1>3 DEF PhasesOf

\* The sessions of a thread belong to its attempt.
LEMMA MineIds ==
  ASSUME NEW w, NEW x \in Mine(w)
  PROVE  /\ x \in SessionIds /\ session[x].by = w
         /\ x[1] = runner[w].for /\ x[2] = runner[w].token /\ x[3] = runner[w].phase
         /\ x \in Group(runner[w].for, runner[w].token, runner[w].phase)
<1>1. /\ x \in SessionIds /\ session[x].by = w
      /\ x[1] = runner[w].for /\ x[2] = runner[w].token /\ x[3] = runner[w].phase
  BY DEF Mine
<1> QED BY <1>1, IdsNamed

\* What the thread waits for are the sessions of its phase.
LEMMA WaitedFor ==
  ASSUME ManagedInv, NEW w \in Workers, runner[w].at \in PastWait \cup {"wait"}
  PROVE  Group(runner[w].for, runner[w].token, runner[w].phase) = Mine(w)
<1> DEFINE r == runner[w]
<1>1. r.for \in Operations /\ r.phase \in PhasesOf(r.for) /\ r.token \in 1..op[r.for].attempt
  BY DEF ManagedInv, Placed, AtWork, PastWait
<1>2. r.token \in 1..MaxAttempts[r.for]
  <2>1. op[r.for].attempt <= MaxAttempts[r.for] /\ op[r.for].attempt \in Nat
    BY <1>1 DEF ManagedInv, QueueInv, RowOK, OperationRow
  <2>2. MaxAttempts[r.for] \in Nat
    BY <1>1, QueueAssumption
  <2> QED BY <1>1, <2>1, <2>2
<1>3. ASSUME NEW x \in Group(r.for, r.token, r.phase) PROVE x \in Mine(w)
  <2>1. x \in SessionIds
    BY <1>1, <1>2, GroupIds
  <2>2. session[x].by = w
    BY DEF ManagedInv, Works
  <2> QED BY <2>1, <2>2, GroupNames DEF Mine
<1> QED BY <1>3, MineIds

-----------------------------------------------------------------------------
(* What a step leaves to those who do not take it.                         *)

\* A worktree is sealed once, its changes are counted, and one that brings back
\* what was sealed is later than all before it.
TreeGoesOn ==
  /\ tree' \in [Writes -> Tree]
  /\ \A o \in Writes :
       /\ tree[o].edits <= tree'[o].edits /\ tree[o].restored <= tree'[o].restored
       /\ tree[o].state = "sealed" =>
            /\ tree'[o].state = "sealed" /\ tree'[o].final = tree[o].final
            /\ tree'[o].content = tree'[o].final =>
                 tree[o].content = tree[o].final \/ tree'[o].restored > tree[o].edits

\* The numbers of changes are numbers.
LEMMA TreeNumbers ==
  ASSUME NEW t \in Tree
  PROVE  t.edits \in Int /\ t.restored \in Int
  BY ManagedAssumption DEF Tree

\* Nothing happens to a worktree.
LEMMA TreeStays ==
  ASSUME ManagedInv, UNCHANGED tree
  PROVE  TreeGoesOn /\ TreesOK'
<1>1. tree \in [Writes -> Tree]
  BY DEF ManagedInv, OwnTyped
<1>2. \A o \in Writes : tree[o].edits <= tree[o].edits /\ tree[o].restored <= tree[o].restored
  BY <1>1, TreeNumbers
<1> QED BY <1>1, <1>2 DEF TreeGoesOn, ManagedInv, TreesOK

\* What a reviewer was given stays so.
LEMMA GivenStays ==
  ASSUME NEW process \in Session, NEW t \in Tree, NEW u \in Tree, u.final = t.final,
         t.restored <= u.restored, GivenSealed(process, t)
  PROVE  GivenSealed(process, u)
<1>1. process.since \in Int
  BY ManagedAssumption DEF Session
<1> QED BY <1>1, TreeNumbers DEF GivenSealed

\* The attempts of the queue are numbers, and bounded.
LEMMA Attempts ==
  ASSUME QueueInv, NEW o \in Operations
  PROVE  op[o].attempt \in Nat /\ MaxAttempts[o] \in Nat /\ op[o].attempt <= MaxAttempts[o]
  BY QueueAssumption DEF QueueInv, RowOK, OperationRow

\* A thread that is at work has an attempt, and so have its sessions.
LEMMA Holding ==
  ASSUME ManagedInv, NEW w \in Workers, AtWork(runner[w])
  PROVE  /\ runner[w].for \in Operations /\ runner[w].phase \in PhasesOf(runner[w].for)
         /\ runner[w].token \in 1..MaxAttempts[runner[w].for]
         /\ \A phase \in PhasesOf(runner[w].for) :
              Group(runner[w].for, runner[w].token, phase) \subseteq SessionIds
<1>1. /\ runner[w].for \in Operations /\ runner[w].phase \in PhasesOf(runner[w].for)
      /\ runner[w].token \in 1..op[runner[w].for].attempt
  BY DEF ManagedInv, Placed
<1>2. runner[w].token \in 1..MaxAttempts[runner[w].for]
  BY <1>1, Attempts DEF ManagedInv
<1> QED BY <1>1, <1>2, GroupIds

\* What others may do to the sessions of v's attempt.
Spares(v) ==
  \A x \in SessionIds : (x[1] = runner[v].for /\ x[2] = runner[v].token) =>
    /\ session[x].state = "completed" => session'[x] = session[x]
    /\ (runner[v].at = "wait" /\ x[3] = runner[v].phase /\ session[x].by = v) => session'[x].by = v

\* A thread that does nothing stays where it is, with what it relies on.
LEMMA Bystander ==
  ASSUME ManagedInv, QueueInv', NEW v \in Workers, runner'[v] = runner[v], Spares(v), TreeGoesOn,
         \A o \in Operations : op[o].attempt <= op'[o].attempt
  PROVE  Placed(runner[v])' /\ Works(v, runner[v])'
<1>0. PICK r : r = runner[v] /\ r = runner'[v]
  OBVIOUS
<1>1. Placed(r) /\ Works(v, r) /\ r \in RunnerRow
  BY <1>0 DEF ManagedInv, OwnTyped
<1>2. Placed(runner[v])'
  <2>1. ASSUME AtWork(r) PROVE r.token \in 1..op'[r.for].attempt
    <3>1. r.for \in Operations /\ r.token \in 1..op[r.for].attempt
      BY <1>1, <2>1 DEF Placed
    <3>2. op[r.for].attempt \in Nat /\ op'[r.for].attempt \in Nat
      BY <3>1, Attempts DEF ManagedInv, QueueInv, OperationRow
    <3> QED BY <3>1, <3>2
  <2>2. Placed(r)'
    BY <1>1, <2>1 DEF Placed, AtWork
  <2> QED BY <1>0, <2>2
<1>3. CASE ~AtWork(r)
  <2>1. /\ r.at \notin PastWait \cup {"wait"} /\ r.at \notin PastWait
        /\ r.at \notin {"sealing", "complete", "renew"}
    BY <1>3 DEF AtWork, PastWait
  <2>2. Works(v, r)'
    BY <1>3, <2>1 DEF Works, AtWork
  <2> QED BY <1>0, <1>2, <2>2
<1>4. CASE AtWork(r)
  <2> DEFINE mine == Group(r.for, r.token, r.phase)
             written == Group(r.for, r.token, "write")
  <2>1. mine \subseteq SessionIds
    BY <1>0, <1>4, Holding
  <2>2. r.phase = "review" => written \subseteq SessionIds
    BY <1>0, <1>4, Holding DEF PhasesOf
  <2>3. \A x \in mine \cup written : x[1] = r.for /\ x[2] = r.token
    BY GroupNames
  <2>4. r.at \in PastWait => \A x \in mine : Finished(x) /\ session[x].by = v /\ session'[x] = session[x]
    BY <1>0, <1>1, <2>1, <2>3 DEF Works, Finished, Spares
  <2>5. r.at = "wait" => \A x \in mine : session'[x].by = v
    BY <1>0, <1>1, <2>1, <2>3, GroupNames DEF Works, Spares
  <2>6. r.phase = "review" => \A x \in written : Finished(x) /\ session'[x] = session[x]
    BY <1>0, <1>1, <1>4, <2>2, <2>3 DEF Works, Finished, Spares
  <2>7. r.phase = "review" \/ (r.at \in {"verify", "renew"} /\ r.next = "launch") =>
          /\ r.for \in Writes /\ tree'[r.for].state = "sealed" /\ tree'[r.for].final = tree[r.for].final
          /\ tree[r.for].restored <= tree'[r.for].restored
    BY <1>1, <1>4 DEF Works, TreeGoesOn
  <2>8. r.at = "sealing" => r.for \in Writes
    BY <1>1 DEF Works
  <2>9. r.at = "complete" \/ (r.at = "renew" /\ r.next = "complete") =>
          Convinced(r.for, r.token, r.phase)'
    <3> SUFFICES ASSUME r.at = "complete" \/ (r.at = "renew" /\ r.next = "complete")
                 PROVE  Convinced(r.for, r.token, r.phase)'
      OBVIOUS
    <3>1. Convinced(r.for, r.token, r.phase) /\ r.at \in PastWait
      BY <1>1 DEF Works, PastWait
    <3>2. ASSUME NEW x \in Group(r.for, r.token, r.phase)
          PROVE  /\ r.for \in Gates => session'[x].verdict = "approve"
                 /\ r.phase = "review" => GivenSealed(session'[x], tree'[r.for])
      <4>1. session'[x] = session[x] /\ session[x] \in Session
        BY <2>1, <2>4, <3>1 DEF ManagedInv, OwnTyped
      <4>2. r.for \in Gates => session'[x].verdict = "approve"
        BY <3>1, <4>1 DEF Convinced
      <4>3. ASSUME r.phase = "review" PROVE GivenSealed(session'[x], tree'[r.for])
        <5>1. GivenSealed(session[x], tree[r.for])
          BY <3>1, <4>3 DEF Convinced
        <5>2. tree[r.for] \in Tree /\ tree'[r.for] \in Tree
          BY <2>7, <4>3 DEF ManagedInv, OwnTyped, TreeGoesOn
        <5>3. GivenSealed(session[x], tree'[r.for])
          BY <2>7, <4>1, <4>3, <5>1, <5>2, GivenStays
        <5> QED BY <4>1, <5>3
      <4> QED BY <4>2, <4>3
    <3> QED BY <3>2, Zenon DEF Convinced
  <2>10. r.at \in PastWait \cup {"wait"} => \A x \in mine : session'[x].by = v
    BY <2>4, <2>5
  <2>11. r.at \in PastWait => \A x \in mine : Finished(x)'
    BY <2>4 DEF Finished
  <2>12. r.phase = "review" => \A x \in written : Finished(x)'
    BY <2>6 DEF Finished
  <2>13. Works(v, r)'
    BY <2>7, <2>8, <2>9, <2>10, <2>11, <2>12 DEF Works
  <2> QED BY <1>0, <1>2, <2>13
<1> QED BY <1>2, <1>3, <1>4

\* Nobody takes up an attempt.
NoneTakesUp ==
  \A v \in Workers : AtWork(runner'[v]) =>
    /\ AtWork(runner[v])
    /\ runner'[v].for = runner[v].for /\ runner'[v].token = runner[v].token

\* Then no two threads hold one attempt.
LEMMA AloneKept ==
  ASSUME ManagedInv, NoneTakesUp
  PROVE  Alone'
  BY DEF ManagedInv, NoneTakesUp, Alone

\* Work that is done stays done, where nobody touches its sessions.
LEMMA EarnedKept ==
  ASSUME NEW o \in Operations, NEW k \in 1..MaxAttempts[o], Earned(o, k), TreeGoesOn, OwnTyped,
         \A x \in SessionIds : (x[1] = o /\ x[2] = k /\ session[x].state = "completed")
                                => session'[x] = session[x]
  PROVE  Earned(o, k)'
<1> SUFFICES ASSUME NEW phase \in PhasesOf(o)
             PROVE  /\ \A x \in Group(o, k, phase) : Finished(x)'
                    /\ Convinced(o, k, phase)'
                    /\ phase = "review" => tree'[o].state = "sealed"
  BY DEF Earned
<1>1. /\ \A x \in Group(o, k, phase) : Finished(x)
      /\ Convinced(o, k, phase)
      /\ phase = "review" => tree[o].state = "sealed"
  BY DEF Earned
<1>2. \A x \in Group(o, k, phase) : x \in SessionIds /\ x[1] = o /\ x[2] = k
  BY GroupIds, GroupNames
<1>3. \A x \in Group(o, k, phase) : session'[x] = session[x]
  BY <1>1, <1>2 DEF Finished
<1>4. phase = "review" =>
        /\ tree'[o].state = "sealed" /\ tree'[o].final = tree[o].final
        /\ tree[o].restored <= tree'[o].restored /\ tree[o] \in Tree /\ tree'[o] \in Tree
  <2>1. phase = "review" => o \in Writes
    BY DEF PhasesOf
  <2> QED BY <1>1, <2>1 DEF TreeGoesOn, OwnTyped
<1>5. \A x \in Group(o, k, phase) : Finished(x)'
  BY <1>1, <1>3 DEF Finished
<1>6. ASSUME NEW x \in Group(o, k, phase)
      PROVE  /\ o \in Gates => session'[x].verdict = "approve"
             /\ phase = "review" => GivenSealed(session'[x], tree'[o])
  <2>1. session'[x] = session[x] /\ session[x] \in Session
    BY <1>2, <1>3, <1>6 DEF OwnTyped
  <2>2. o \in Gates => session'[x].verdict = "approve"
    BY <1>1, <1>6, <2>1 DEF Convinced
  <2>3. ASSUME phase = "review" PROVE GivenSealed(session'[x], tree'[o])
    <3>1. GivenSealed(session[x], tree[o])
      BY <1>1, <1>6, <2>3 DEF Convinced
    <3>2. GivenSealed(session[x], tree'[o])
      BY <1>4, <2>1, <2>3, <3>1, GivenStays
    <3> QED BY <2>1, <3>2
  <2> QED BY <2>2, <2>3
<1>7. Convinced(o, k, phase)'
  BY <1>6, Zenon DEF Convinced
<1> QED BY <1>4, <1>5, <1>7

\* Sessions that are completed change only under the hands of the thread that
\* holds their attempt.
Handled ==
  \A x \in SessionIds :
    \/ session'[x] = session[x] \/ session[x].state # "completed"
    \/ \E w \in Workers : AtWork(runner[w]) /\ x[1] = runner[w].for /\ x[2] = runner[w].token

\* Successes stay earned.
LEMMA RewardedKept ==
  ASSUME ManagedInv, Quiet, TreeGoesOn, NoneTakesUp, Handled
  PROVE  Rewarded'
<1> SUFFICES ASSUME NEW o \in Operations, op'[o].status = "succeeded"
             PROVE  /\ op'[o].attempt # 0 /\ Earned(o, op[o].attempt)'
                    /\ \A w \in Workers : AtWork(runner'[w]) =>
                         runner'[w].for # o \/ runner'[w].token # op'[o].attempt
  BY DEF Rewarded
<1>1. PICK k : k = op[o].attempt /\ k = op'[o].attempt
  BY DEF Quiet, Calm
<1>2. op[o].status = "succeeded"
  BY DEF Quiet, Calm
<1>3. /\ k # 0 /\ Earned(o, k)
      /\ \A w \in Workers : AtWork(runner[w]) => runner[w].for # o \/ runner[w].token # k
  BY <1>1, <1>2 DEF ManagedInv, Rewarded
<1>4. k \in 1..MaxAttempts[o]
  <2>1. k \in Nat /\ MaxAttempts[o] \in Nat /\ k <= MaxAttempts[o]
    BY <1>1, Attempts DEF ManagedInv
  <2> QED BY <1>3, <2>1
<1>5. \A x \in SessionIds : (x[1] = o /\ x[2] = k /\ session[x].state = "completed")
                             => session'[x] = session[x]
  BY <1>3 DEF Handled
<1>6. Earned(o, k)'
  BY <1>3, <1>4, <1>5, EarnedKept DEF ManagedInv
<1>7. Earned(o, op[o].attempt)'
  BY <1>1, <1>6
<1> QED BY <1>1, <1>3, <1>6 DEF NoneTakesUp

\* A review that is given, and the worktree it was given.
LEMMA ReviewKept ==
  ASSUME ManagedInv, TreeGoesOn, NEW x \in SessionIds, session'[x] = session[x]
  PROVE  ReviewOK(x)'
<1> SUFFICES ASSUME x[3] = "review", session[x].state # "none"
             PROVE  /\ x[1] \in Writes /\ tree'[x[1]].state = "sealed"
                    /\ session[x].since <= tree'[x[1]].edits
                    /\ tree'[x[1]].content = tree'[x[1]].final => GivenSealed(session[x], tree'[x[1]])
  BY DEF ReviewOK
<1> DEFINE t == tree[x[1]]
           u == tree'[x[1]]
<1>1. /\ x[1] \in Writes /\ t.state = "sealed" /\ session[x].since <= t.edits
      /\ t.content = t.final => GivenSealed(session[x], t)
  BY DEF ManagedInv, ReviewOK
<1>2. /\ u.state = "sealed" /\ u.final = t.final /\ t.edits <= u.edits /\ t.restored <= u.restored
      /\ u.content = u.final => t.content = t.final \/ u.restored > t.edits
      /\ t \in Tree /\ u \in Tree /\ session[x] \in Session
  BY <1>1 DEF TreeGoesOn, ManagedInv, OwnTyped
<1> HIDE DEF t, u
<1>3. session[x].since \in Int /\ t.edits \in Int /\ u.edits \in Int /\ u.restored \in Int
  BY <1>2, TreeNumbers, ManagedAssumption DEF Session
<1>4. session[x].since <= u.edits
  BY <1>1, <1>2, <1>3
<1>5. ASSUME u.content = u.final PROVE GivenSealed(session[x], u)
  <2>1. CASE t.content = t.final
    BY <1>1, <1>2, <2>1, GivenStays
  <2>2. CASE u.restored > t.edits
    BY <1>1, <1>3, <2>2 DEF GivenSealed
  <2> QED BY <1>2, <1>5, <2>1, <2>2
<1> QED BY <1>1, <1>2, <1>4, <1>5 DEF u

\* A step that nobody but the queue notices.
StepOK == [QueueNext]_queueVars /\ ManagedInv'

\* The rest of the invariant, from the queue.
LEMMA QueueSide ==
  ASSUME ManagedInv, [QueueNext]_queueVars
  PROVE  QueueInv /\ QueueInv' /\ (Quiet => Untried' /\ \A o \in Operations : op[o].attempt <= op'[o].attempt)
<1>1. QueueInv
  BY DEF ManagedInv
<1>2. QueueInv'
  BY <1>1, QueueStep, KeptInv
<1>3. ASSUME Quiet PROVE Untried' /\ \A o \in Operations : op[o].attempt <= op'[o].attempt
  <2>1. Untried'
    BY <1>3 DEF Quiet, Calm, ManagedInv, Untried
  <2>2. \A o \in Operations : op[o].attempt <= op'[o].attempt
    BY <1>1, <1>3, Attempts DEF Quiet, Calm
  <2> QED BY <2>1, <2>2
<1> QED BY <1>1, <1>2, <1>3

\* A step of the queue alone, or of a worktree alone.
LEMMA QuietStep ==
  ASSUME ManagedInv, [QueueNext]_queueVars, Quiet, UNCHANGED <<runner, halted, session>>,
         TreeGoesOn, TreesOK'
  PROVE  StepOK
<1>1. QueueInv' /\ Untried' /\ \A o \in Operations : op[o].attempt <= op'[o].attempt
  BY QueueSide
<1>2. OwnTyped'
  BY DEF ManagedInv, OwnTyped, TreeGoesOn
<1>3. NoneTakesUp /\ Handled
  BY DEF NoneTakesUp, Handled
<1>4. Alone' /\ Rewarded'
  BY <1>3, AloneKept, RewardedKept
<1>5. ASSUME NEW w \in Workers
      PROVE  (Placed(runner[w]) /\ Works(w, runner[w]) /\ Stopped(w))'
  <2>1. Spares(w)
    BY DEF Spares
  <2>2. Stopped(w)'
    BY DEF ManagedInv, Stopped, Mine, Alive
  <2> QED BY <1>1, <2>1, <2>2, Bystander
<1>6. ASSUME NEW x \in SessionIds
      PROVE  (ReviewOK(x) /\ Looked(x))'
  <2>1. Looked(x)'
    BY DEF ManagedInv, Looked, Mine, Alive
  <2> QED BY <2>1, ReviewKept
<1> QED BY <1>1, <1>2, <1>4, <1>5, <1>6 DEF StepOK, ManagedInv

\* A process that ends, dies or is told to stop.
Settling(x) ==
  /\ Alive(x)
  /\ \/ session'[x] = NoSession /\ ~Watched(x)
     \/ /\ session'[x].by = session[x].by /\ session'[x].saw = session[x].saw
        /\ session'[x].since = session[x].since /\ session'[x].state # "none"
        /\ session'[x].state = "running" => session[x].state = "running"
        /\ session'[x] \in Session
  /\ \A y \in SessionIds : y # x => session'[y] = session[y]
  /\ session' \in [SessionIds -> Session]

\* Such a step keeps the invariant.
LEMMA SettlingStep ==
  ASSUME ManagedInv, UNCHANGED queueVars, UNCHANGED <<runner, halted, tree>>,
         NEW x \in SessionIds, Settling(x)
  PROVE  StepOK
<1>1. [QueueNext]_queueVars /\ Quiet
  BY QuietStays DEF queueVars
<1>2. QueueInv' /\ Untried' /\ \A o \in Operations : op[o].attempt <= op'[o].attempt
  BY <1>1, QueueSide
<1>3. TreeGoesOn /\ TreesOK'
  BY TreeStays
<1>4. OwnTyped'
  BY DEF ManagedInv, OwnTyped, Settling
<1>5. NoneTakesUp /\ Handled
  BY DEF NoneTakesUp, Handled, Settling, Alive
<1>6. Alone' /\ Rewarded'
  BY <1>1, <1>3, <1>5, AloneKept, RewardedKept
<1>7. ASSUME NEW y \in SessionIds
      PROVE  /\ Alive(y)' => Alive(y) /\ session'[y].by = session[y].by
             /\ ReviewOK(y)' /\ Looked(y)'
  <2>1. CASE y # x
    <3>1. session'[y] = session[y]
      BY <2>1 DEF Settling
    <3>2. Looked(y)'
      BY <1>7, <3>1 DEF ManagedInv, Looked, Mine, Alive
    <3> QED BY <1>3, <3>1, <3>2, ReviewKept DEF Alive
  <2>2. CASE y = x
    <3>1. CASE session'[x] = NoSession
      <4>1. session'[x].state = "none"
        BY <3>1 DEF NoSession
      <4> QED BY <2>2, <4>1 DEF Alive, ReviewOK, Looked
    <3>2. CASE /\ session'[x].by = session[x].by /\ session'[x].saw = session[x].saw
               /\ session'[x].since = session[x].since
      <4>1. Alive(x) /\ session[x].state # "none"
        BY DEF Settling, Alive
      <4>2. ReviewOK(x)'
        BY <3>2, <4>1 DEF ManagedInv, ReviewOK, GivenSealed
      <4>3. Looked(x)'
        BY <3>2, <4>1 DEF ManagedInv, Looked, Mine
      <4> QED BY <2>2, <3>2, <4>1, <4>2, <4>3
    <3> QED BY <3>1, <3>2 DEF Settling
  <2> QED BY <2>1, <2>2
<1>8. ASSUME NEW w \in Workers
      PROVE  (Placed(runner[w]) /\ Works(w, runner[w]) /\ Stopped(w))'
  <2>1. Spares(w)
    <3> SUFFICES ASSUME NEW y \in SessionIds, y[1] = runner[w].for, y[2] = runner[w].token
                 PROVE  /\ session[y].state = "completed" => session'[y] = session[y]
                        /\ (runner[w].at = "wait" /\ y[3] = runner[w].phase /\ session[y].by = w)
                             => session'[y].by = w
      BY DEF Spares
    <3>1. (session[y].by = w /\ y[3] = runner[w].phase) => Watched(y)
      BY DEF Watched, Mine
    <3> QED BY <3>1 DEF Settling, Alive
  <2>2. Stopped(w)'
    <3>1. \A y \in SessionIds : Alive(y)' => Alive(y) /\ session'[y].by = session[y].by
      BY <1>7
    <3>2. \A y \in Mine(w)' : Alive(y)' => y \in Mine(w) /\ Alive(y)
      BY <3>1 DEF Mine
    <3> QED BY <3>2 DEF ManagedInv, Stopped
  <2> QED BY <1>2, <1>3, <2>1, <2>2, Bystander
<1> QED BY <1>1, <1>2, <1>4, <1>6, <1>3, <1>7, <1>8 DEF StepOK, ManagedInv

\* A thread that does not take a step, when only w's sessions change.
LEMMA OthersStand ==
  ASSUME ManagedInv, QueueInv', TreeGoesOn, NEW w \in Workers, NEW v \in Workers, v # w,
         \A o \in Operations : op[o].attempt <= op'[o].attempt,
         runner'[v] = runner[v], halted[v] => halted'[v],
         \A x \in SessionIds : session'[x] = session[x]
                               \/ (x[1] = runner[w].for /\ x[2] = runner[w].token)
  PROVE  (Placed(runner[v]) /\ Works(v, runner[v]) /\ Stopped(v))'
<1>1. ~AtWork(runner[w]) => runner[w].token = 0
  BY DEF ManagedInv, Placed
<1>2. ~AtWork(runner[v]) => runner[v].token = 0
  BY DEF ManagedInv, Placed
<1>3. \A x \in SessionIds : (x[1] = runner[v].for /\ x[2] = runner[v].token) => session'[x] = session[x]
  <2> SUFFICES ASSUME NEW x \in SessionIds, x[1] = runner[v].for, x[2] = runner[v].token,
                      x[1] = runner[w].for, x[2] = runner[w].token
               PROVE  FALSE
    OBVIOUS
  <2>1. x[2] # 0
    BY IdsNamed
  <2>2. AtWork(runner[v]) /\ AtWork(runner[w])
    BY <1>1, <1>2, <2>1
  <2> QED BY <2>2 DEF ManagedInv, Alone
<1>4. Spares(v)
  BY <1>3 DEF Spares
<1>5. Stopped(v)'
  <2> SUFFICES ASSUME runner[v].at \in {"fail", "acknowledge", "lost"}, ~halted[v],
                      NEW x \in Mine(v)'
               PROVE  ~Alive(x)'
    BY DEF Stopped
  <2>1. x \in SessionIds /\ x[1] = runner[v].for /\ x[2] = runner[v].token
        /\ session'[x].by = v /\ x[3] = runner[v].phase
    BY DEF Mine
  <2>2. session'[x] = session[x] /\ x \in Mine(v)
    BY <1>3, <2>1 DEF Mine
  <2> QED BY <2>2 DEF ManagedInv, Stopped, Alive
<1> QED BY <1>4, <1>5, Bystander

\* A step of the thread of w, which goes on to new.
LEMMA OwnStep ==
  ASSUME ManagedInv, [QueueNext]_queueVars, Quiet, NEW w \in Workers, NEW new \in RunnerRow,
         runner' = [runner EXCEPT ![w] = new],
         AtWork(new) => /\ AtWork(runner[w])
                        /\ new.for = runner[w].for /\ new.token = runner[w].token,
         session' \in [SessionIds -> Session], halted' \in [Workers -> BOOLEAN],
         \A v \in Workers : halted[v] => halted'[v],
         TreeGoesOn, TreesOK',
         \A x \in SessionIds :
           \/ session'[x] = session[x]
           \/ x[1] = runner[w].for /\ x[2] = runner[w].token /\ ReviewOK(x)',
         \A x \in SessionIds : (session'[x] # session[x] \/ session[x].by = w) => Looked(x)',
         Placed(new)', Works(w, new)', Stopped(w)'
  PROVE  StepOK
<1>1. QueueInv' /\ Untried' /\ \A o \in Operations : op[o].attempt <= op'[o].attempt
  BY QueueSide
<1>2. runner \in [Workers -> RunnerRow]
  BY DEF ManagedInv, OwnTyped
<1>3. runner'[w] = new /\ \A v \in Workers : v # w => runner'[v] = runner[v]
  BY <1>2
<1>4. OwnTyped'
  BY <1>2 DEF OwnTyped, TreeGoesOn
<1>5. NoneTakesUp
  BY <1>3 DEF NoneTakesUp
<1>6. Handled
  <2> SUFFICES ASSUME NEW x \in SessionIds, x[1] = runner[w].for, x[2] = runner[w].token
               PROVE  AtWork(runner[w])
    BY DEF Handled
  <2>1. x[2] # 0
    BY IdsNamed
  <2> QED BY <2>1 DEF ManagedInv, Placed
<1>7. Alone' /\ Rewarded'
  BY <1>5, <1>6, AloneKept, RewardedKept
<1>8. ASSUME NEW v \in Workers
      PROVE  (Placed(runner[v]) /\ Works(v, runner[v]) /\ Stopped(v))'
  <2>1. CASE v # w
    <3>1. runner'[v] = runner[v]
      BY <1>3, <2>1
    <3> QED BY <1>1, <2>1, <3>1, OthersStand
  <2>2. CASE v = w
    <3>1. Placed(runner[w])' /\ Works(w, runner[w])'
      BY <1>3
    <3> QED BY <2>2, <3>1
  <2> QED BY <2>1, <2>2
<1>9. ASSUME NEW x \in SessionIds
      PROVE  ReviewOK(x)' /\ Looked(x)'
  <2>1. ReviewOK(x)'
    BY ReviewKept
  <2>2. CASE session'[x] # session[x] \/ session[x].by = w
    BY <2>1, <2>2
  <2>3. CASE session'[x] = session[x] /\ session[x].by # w
    <3> SUFFICES ASSUME Alive(x)' PROVE Looked(x)'
      BY <2>1 DEF Looked
    <3>1. PICK v : v = session[x].by /\ v = session'[x].by
      BY <2>3
    <3>2. Alive(x) /\ v # w
      BY <2>3, <3>1 DEF Alive
    <3>3. v \in Workers /\ (halted[v] \/ runner[v].at = "gone" \/ x \in Mine(v))
      BY <3>1, <3>2 DEF ManagedInv, Looked
    <3>4. runner'[v] = runner[v]
      BY <1>3, <3>2, <3>3
    <3>5. x \in Mine(v) => x \in Mine(v)'
      BY <3>1, <3>4 DEF Mine
    <3>6. halted'[v] \/ runner'[v].at = "gone" \/ x \in Mine(v)'
      BY <3>3, <3>4, <3>5
    <3> QED BY <3>1, <3>3, <3>6 DEF Looked
  <2> QED BY <2>2, <2>3
<1> QED BY <1>1, <1>4, <1>7, <1>8, <1>9 DEF StepOK, ManagedInv

\* A reading of the clock is an integer.
LEMMA AgesAreIntegers == Ages \subseteq Int
  BY QueueAssumption

\* A call of a runner is a call of a worker of the queue.
LEMMA WorkerCalls ==
  ASSUME NEW w \in Workers, NEW o \in Operations, NEW age \in Int, WorkerCall(w, o, age)
  PROVE  [QueueNext]_queueVars
  BY Zenon DEF QueueNext

\* A claim: the attempt is new, so nobody else holds it.
LEMMA RunnerClaimsOK ==
  ASSUME ManagedInv, NEW w \in Workers, NEW o \in Operations, RunnerClaims(w, o)
  PROVE  StepOK
<1>1. PICK age \in Int : Claim(w, o, Operations \ Guided, age)
  BY AgesAreIntegers DEF RunnerClaims
<1>2. [QueueNext]_queueVars
  <2>1. Operations \ Guided \in Classes
    BY DEF Classes
  <2> QED BY <1>1, <2>1, WorkerCalls, Zenon DEF WorkerCall
<1>3. QueueInv /\ QueueInv'
  BY <1>2, QueueSide
<1>4. /\ op'[o].attempt = op[o].attempt + 1 /\ op'[o].status = "running"
      /\ \A p \in Operations : p # o => Calm(op[p], op'[p])
  BY <1>1, <1>3, ClaimAttempt
<1>5. op[o].attempt \in Nat /\ \A p \in Operations : op[p].attempt \in Nat /\ op[p].attempt <= op'[p].attempt
  BY <1>3, <1>4, Attempts DEF Calm
<1>6. PICK new : new = [Idle EXCEPT !.at = "launch", !.for = o, !.token = op'[o].attempt,
                                    !.phase = IF o \in Writes THEN "write" ELSE "observe"]
  OBVIOUS
<1>7. /\ runner' = [runner EXCEPT ![w] = new] /\ UNCHANGED <<halted, session, tree>>
      /\ runner[w].at = "idle" /\ ~halted[w]
  BY <1>6 DEF RunnerClaims
<1>8. /\ new.at = "launch" /\ new.for = o /\ new.token = op[o].attempt + 1 /\ new.phase \in PhasesOf(o)
      /\ new.phase \in {"write", "observe"} /\ new \in RunnerRow
  <2> DEFINE phase == IF o \in Writes THEN "write" ELSE "observe"
             k == op'[o].attempt
  <2>1. phase \in PhasesOf(o) /\ phase \in {"write", "observe"}
    BY DEF PhasesOf
  <2>2. k = op[o].attempt + 1 /\ k \in Nat /\ Base \in Contents
    BY <1>4, <1>5, ManagedAssumption
  <2> HIDE DEF phase, k
  <2>3. new = [at |-> "launch", for |-> o, token |-> k, phase |-> phase, next |-> "none", saw |-> Base]
    BY <1>6 DEF Idle, phase, k
  <2>4. new \in RunnerRow
    BY <2>1, <2>2, <2>3 DEF RunnerRow, Ats, Nexts
  <2> QED BY <2>1, <2>2, <2>3, <2>4
<1>9. runner \in [Workers -> RunnerRow]
  BY DEF ManagedInv, OwnTyped
<1>10. runner'[w] = new /\ \A v \in Workers : v # w => runner'[v] = runner[v]
  BY <1>7, <1>9
<1>11. OwnTyped'
  BY <1>7, <1>8, <1>9 DEF ManagedInv, OwnTyped
<1>12. TreeGoesOn /\ TreesOK'
  BY <1>7, TreeStays
<1>13. Untried'
  <2>1. ASSUME NEW p \in Operations, op'[p].status = "absent" PROVE op'[p].attempt = 0
    <3>1. Calm(op[p], op'[p])
      BY <1>4, <2>1
    <3> QED BY <2>1, <3>1 DEF Calm, ManagedInv, Untried
  <2> QED BY <2>1 DEF Untried
<1>14. \A v \in Workers : AtWork(runner[v]) => runner[v].for # o \/ runner[v].token # op[o].attempt + 1
  <2> SUFFICES ASSUME NEW v \in Workers, AtWork(runner[v]), runner[v].for = o
               PROVE  runner[v].token # op[o].attempt + 1
    OBVIOUS
  <2>1. runner[v].token \in 1..op[o].attempt
    BY DEF ManagedInv, Placed
  <2> QED BY <1>5, <2>1
<1>15. Alone'
  <2> SUFFICES ASSUME NEW u \in Workers, NEW v \in Workers, u # v,
                      AtWork(runner'[u]), AtWork(runner'[v])
               PROVE  runner'[u].for # runner'[v].for \/ runner'[u].token # runner'[v].token
    BY DEF Alone
  <2>1. CASE u = w
    BY <1>8, <1>10, <1>14, <2>1
  <2>2. CASE v = w
    BY <1>8, <1>10, <1>14, <2>2
  <2>3. CASE u # w /\ v # w
    BY <1>10, <2>3 DEF ManagedInv, Alone
  <2> QED BY <2>1, <2>2, <2>3
<1>16. Rewarded'
  <2> SUFFICES ASSUME NEW p \in Operations, op'[p].status = "succeeded"
               PROVE  /\ op'[p].attempt # 0 /\ Earned(p, op[p].attempt)'
                      /\ \A v \in Workers : AtWork(runner'[v]) =>
                           runner'[v].for # p \/ runner'[v].token # op'[p].attempt
    BY DEF Rewarded
  <2>1. p # o /\ Calm(op[p], op'[p])
    BY <1>4
  <2>2. PICK k : k = op[p].attempt /\ k = op'[p].attempt
    BY <2>1 DEF Calm
  <2>3. op[p].status = "succeeded"
    BY <2>1 DEF Calm
  <2>4. /\ k # 0 /\ Earned(p, k)
        /\ \A v \in Workers : AtWork(runner[v]) => runner[v].for # p \/ runner[v].token # k
    BY <2>2, <2>3 DEF ManagedInv, Rewarded
  <2>5. k \in 1..MaxAttempts[p]
    <3>1. k \in Nat /\ MaxAttempts[p] \in Nat /\ k <= MaxAttempts[p]
      BY <1>3, <2>2, Attempts
    <3> QED BY <2>4, <3>1
  <2>6. Earned(p, k)'
    BY <1>7, <1>12, <2>4, <2>5, EarnedKept DEF ManagedInv
  <2>7. Earned(p, op[p].attempt)'
    BY <2>2, <2>6
  <2>8. ASSUME NEW v \in Workers, AtWork(runner'[v])
        PROVE  runner'[v].for # p \/ runner'[v].token # k
    BY <1>8, <1>10, <2>1, <2>4, <2>8
  <2> QED BY <2>2, <2>4, <2>7, <2>8
<1>17. ASSUME NEW v \in Workers
       PROVE  (Placed(runner[v]) /\ Works(v, runner[v]) /\ Stopped(v))'
  <2>1. CASE v # w
    BY <1>3, <1>5, <1>7, <1>10, <1>12, <2>1, OthersStand
  <2>2. CASE v = w
    <3>1. Placed(new)'
      <4>1. new.token \in 1..op'[o].attempt
        BY <1>4, <1>5, <1>8
      <4> QED BY <1>8, <4>1 DEF Placed, AtWork
    <3>2. Works(w, new)'
      BY <1>8 DEF Works, PastWait
    <3>3. Stopped(w)'
      BY <1>8, <1>10 DEF Stopped
    <3> QED BY <1>10, <2>2, <3>1, <3>2, <3>3
  <2> QED BY <2>1, <2>2
<1>18. ASSUME NEW x \in SessionIds
       PROVE  ReviewOK(x)' /\ Looked(x)'
  <2>1. ReviewOK(x)'
    BY <1>7, <1>12, ReviewKept
  <2>2. ASSUME Alive(x) PROVE Looked(x)'
    <3>1. PICK v : v = session[x].by /\ v = session'[x].by
      BY <1>7
    <3>2. v \in Workers /\ (halted[v] \/ runner[v].at = "gone" \/ x \in Mine(v))
      BY <2>2, <3>1 DEF ManagedInv, Looked
    <3>3. v # w
      <4>1. x \notin Mine(w)
        <5>1. runner[w].token = 0 /\ x[2] # 0
          BY <1>7, IdsNamed DEF ManagedInv, Placed, AtWork
        <5> QED BY <5>1, MineIds
      <4> QED BY <1>7, <3>2, <4>1
    <3>4. runner'[v] = runner[v] /\ halted'[v] = halted[v]
      BY <1>7, <1>10, <3>2, <3>3
    <3>5. x \in Mine(v) => x \in Mine(v)'
      BY <1>7, <3>4 DEF Mine
    <3> QED BY <3>1, <3>2, <3>4, <3>5 DEF Looked
  <2>3. ASSUME ~Alive(x) PROVE Looked(x)'
    BY <1>7, <2>3 DEF Looked, Alive
  <2> QED BY <2>1, <2>2, <2>3
<1> QED BY <1>2, <1>3, <1>11, <1>12, <1>13, <1>15, <1>16, <1>17, <1>18 DEF StepOK, ManagedInv

-----------------------------------------------------------------------------
(* The operator, the clock, and the loop of a runner.                      *)

\* Calls that change the queue only.
LEMMA QueueOnly ==
  ASSUME ManagedInv, [QueueNext]_queueVars, Quiet, UNCHANGED ownVars
  PROVE  StepOK
<1>1. TreeGoesOn /\ TreesOK'
  BY TreeStays DEF ownVars
<1> QED BY <1>1, QuietStep DEF ownVars

\* The operator's calls.
LEMMA OperatorCallsOK ==
  ASSUME ManagedInv, OperatorCalls
  PROVE  StepOK
<1>1. QueueInv /\ Untried /\ UNCHANGED ownVars
  BY DEF ManagedInv, OperatorCalls
<1>2. ASSUME NEW o \in Operations, Enqueue(o) \/ Ensure(o) \/ RequestCancel(o)
      PROVE  StepOK
  <2>1. QueueNext
    BY <1>2, Zenon DEF QueueNext
  <2>2. Quiet
    BY <1>1, <1>2, NewQuiet, RequestCancelQuiet
  <2> QED BY <1>1, <2>1, <2>2, QueueOnly
<1>3. ASSUME NEW s \in Schedules, NEW on \in BOOLEAN,
             SetScheduleEnabled(s, on) \/ \E wait \in FirstRuns : SaveSchedule(s, wait, on)
      PROVE  StepOK
  <2>1. QueueNext
    BY <1>3, Zenon DEF QueueNext
  <2>2. Quiet
    BY <1>3, QuietStays DEF SetScheduleEnabled, SaveSchedule
  <2> QED BY <1>1, <2>1, <2>2, QueueOnly
<1> QED BY <1>2, <1>3, Zenon DEF OperatorCalls

\* Materializing and reconciling.
LEMMA RunnerMaterializesOK ==
  ASSUME ManagedInv, NEW w \in Workers, RunnerMaterializes(w) \/ RunnerReconciles(w) \/ RunnerPolls(w)
  PROVE  StepOK
<1>1. PICK age \in Int : Materialize(age) \/ Reconcile(age)
  BY AgesAreIntegers DEF RunnerMaterializes, RunnerReconciles, RunnerPolls, ClaimNothing
<1>2. [QueueNext]_queueVars
  BY <1>1, Zenon DEF QueueNext
<1>3. Quiet
  BY <1>1, MaterializeQuiet, ReconcileQuiet DEF ManagedInv
<1>4. UNCHANGED ownVars
  BY DEF RunnerMaterializes, RunnerReconciles, RunnerPolls
<1> QED BY <1>2, <1>3, <1>4, QueueOnly

\* Time passes.
LEMMA TickOK ==
  ASSUME ManagedInv, Tick
  PROVE  StepOK
<1>1. [QueueNext]_queueVars /\ Quiet
  BY TickQuiet DEF Tick, QueueNext, ManagedInv
<1> QED BY <1>1, QueueOnly DEF Tick

\* The binding of a worktree is written, or its content changes.
LEMMA TreeStep ==
  ASSUME ManagedInv, NEW o \in Writes, NEW new \in Tree, tree' = [tree EXCEPT ![o] = new],
         tree[o].edits <= new.edits, tree[o].restored <= new.restored,
         new.restored <= new.edits,
         tree[o].state = "sealed" =>
           /\ new.state = "sealed" /\ new.final = tree[o].final
           /\ new.content = new.final => tree[o].content = tree[o].final \/ new.restored > tree[o].edits
  PROVE  TreeGoesOn /\ TreesOK'
<1>1. tree \in [Writes -> Tree]
  BY DEF ManagedInv, OwnTyped
<1>2. \A p \in Writes : tree'[p] = IF p = o THEN new ELSE tree[p]
  BY <1>1
<1>3. tree' \in [Writes -> Tree]
  BY <1>1
<1>4. \A p \in Writes : tree[p].edits <= tree[p].edits /\ tree[p].restored <= tree[p].restored
  BY <1>1, TreeNumbers
<1>5. TreeGoesOn
  BY <1>2, <1>3, <1>4 DEF TreeGoesOn
<1>6. TreesOK'
  BY <1>2 DEF TreesOK, ManagedInv
<1> QED BY <1>5, <1>6

\* The queue is not called.
LEMMA NoCallQuiet ==
  ASSUME NoCall
  PROVE  [QueueNext]_queueVars /\ Quiet
  BY QuietStays DEF NoCall, queueVars

\* create_isolated_worktree, and whoever works in the worktree.
LEMMA WorktreeOK ==
  ASSUME ManagedInv, NEW o \in Writes, CreateWorktree(o) \/ WorktreeChanges(o)
  PROVE  StepOK
<1>1. /\ tree \in [Writes -> Tree] /\ tree[o] \in Tree /\ MaxEdits \in Nat
      /\ tree[o].restored <= tree[o].edits
  BY ManagedAssumption DEF ManagedInv, OwnTyped, TreesOK
<1>2. [QueueNext]_queueVars /\ Quiet /\ UNCHANGED <<runner, halted, session>>
  BY NoCallQuiet DEF CreateWorktree, WorktreeChanges
<1>3. CASE CreateWorktree(o)
  <2> DEFINE new == [tree[o] EXCEPT !.state = "active"]
  <2>1. tree' = [tree EXCEPT ![o] = new] /\ tree[o].state = "none"
    BY <1>3 DEF CreateWorktree
  <2>2. new \in Tree /\ new.edits = tree[o].edits /\ new.restored = tree[o].restored
    BY <1>1 DEF Tree
  <2>3. tree[o].edits <= tree[o].edits /\ tree[o].restored <= tree[o].restored
    BY <1>1, TreeNumbers
  <2> HIDE DEF new
  <2>4. TreeGoesOn /\ TreesOK'
    BY <1>1, <2>1, <2>2, <2>3, TreeStep
  <2> QED BY <1>2, <2>4, QuietStep
<1>4. CASE WorktreeChanges(o)
  <2>1. PICK c \in Contents \ {tree[o].content} :
          tree' = [tree EXCEPT ![o].content = c, ![o].edits = @ + 1,
                               ![o].restored = IF c = tree[o].final THEN tree[o].edits + 1 ELSE @]
    BY <1>4 DEF WorktreeChanges
  <2> DEFINE n == tree[o].edits + 1
             m == IF c = tree[o].final THEN n ELSE tree[o].restored
             new == [tree[o] EXCEPT !.content = c, !.edits = n, !.restored = m]
  <2>2. tree' = [tree EXCEPT ![o] = new]
    BY <1>1, <2>1
  <2>3. /\ tree[o].edits < MaxEdits /\ tree[o].edits \in 0..MaxEdits
        /\ tree[o].restored \in 0..MaxEdits
    BY <1>1, <1>4 DEF WorktreeChanges, Tree
  <2>4. n \in 0..MaxEdits /\ m \in 0..MaxEdits /\ tree[o].edits < n
    BY <1>1, <2>3
  <2>5. tree[o].restored <= m /\ m <= n /\ tree[o].edits <= n
    BY <1>1, <2>3
  <2> HIDE DEF n
  <2>6. /\ new \in Tree /\ new.state = tree[o].state /\ new.final = tree[o].final
        /\ new.content = c /\ new.edits = n /\ new.restored = m
    <3> HIDE DEF m
    <3> QED BY <1>1, <2>4 DEF Tree
  <2>7. c = tree[o].final => m > tree[o].edits
    BY <2>3, <2>4
  <2> HIDE DEF new, m
  <2>8. TreeGoesOn /\ TreesOK'
    BY <2>2, <2>5, <2>6, <2>7, TreeStep
  <2> QED BY <1>2, <2>8, QuietStep
<1> QED BY <1>3, <1>4

-----------------------------------------------------------------------------
(* The agent processes.                                                    *)

\* A session is written.
LEMMA SessionStep ==
  ASSUME ManagedInv, NoCall, UNCHANGED <<runner, halted, tree>>, NEW x \in SessionIds, Alive(x),
         NEW new \in Session, session' = [session EXCEPT ![x] = new],
         \/ new = NoSession /\ ~Watched(x)
         \/ /\ new.by = session[x].by /\ new.saw = session[x].saw
            /\ new.since = session[x].since /\ new.state # "none"
            /\ new.state = "running" => session[x].state = "running"
  PROVE  StepOK
<1>1. session \in [SessionIds -> Session]
  BY DEF ManagedInv, OwnTyped
<1>2. session'[x] = new /\ \A y \in SessionIds : y # x => session'[y] = session[y]
  BY <1>1
<1>3. session' \in [SessionIds -> Session]
  BY <1>1
<1>4. Settling(x)
  BY <1>2, <1>3 DEF Settling
<1> QED BY <1>4, SettlingStep DEF NoCall

\* The empty row is one.
LEMMA NoSessionTyped == NoSession \in Session
<1>1. 0 \in 0..MaxEdits /\ Base \in Contents
  BY ManagedAssumption
<1> QED BY <1>1 DEF NoSession, Session

\* The operator's stop, an exit, a death.
LEMMA SessionsOK ==
  ASSUME ManagedInv, NEW x \in SessionIds,
         OperatorStopsSession(x) \/ SessionExits(x) \/ SessionDies(x)
  PROVE  StepOK
<1>1. /\ session[x] \in Session /\ Alive(x) /\ NoCall /\ UNCHANGED <<runner, halted, tree>>
  BY DEF ManagedInv, OwnTyped, OperatorStopsSession, SessionExits, SessionDies, Alive
<1>2. ASSUME ~Watched(x), session' = [session EXCEPT ![x] = NoSession]
      PROVE  StepOK
  BY <1>1, <1>2, NoSessionTyped, SessionStep
<1>3. ASSUME NEW state \in {"stopping", "completed", "failed", "stopped"},
             session' = [session EXCEPT ![x] = [session[x] EXCEPT !.state = state]]
      PROVE  StepOK
  <2>1. PICK new : new = [session[x] EXCEPT !.state = state]
    OBVIOUS
  <2>2. /\ new \in Session /\ new.state = state /\ new.by = session[x].by
        /\ new.saw = session[x].saw /\ new.since = session[x].since
    BY <1>1, <2>1 DEF Session
  <2>3. session' = [session EXCEPT ![x] = new]
    BY <1>3, <2>1
  <2> QED BY <1>1, <2>2, <2>3, SessionStep
<1>4. ASSUME NEW verdict \in {"none", "approve", "reject"},
             session' = [session EXCEPT ![x] = [session[x] EXCEPT !.state = "completed",
                                                  !.done = TRUE, !.verdict = verdict]]
      PROVE  StepOK
  <2>1. PICK new : new = [session[x] EXCEPT !.state = "completed", !.done = TRUE, !.verdict = verdict]
    OBVIOUS
  <2>2. /\ new \in Session /\ new.state = "completed" /\ new.by = session[x].by
        /\ new.saw = session[x].saw /\ new.since = session[x].since
    BY <1>1, <2>1 DEF Session
  <2>3. session' = [session EXCEPT ![x] = new]
    BY <1>4, <2>1
  <2> QED BY <1>1, <2>2, <2>3, SessionStep
<1>5. CASE OperatorStopsSession(x)
  BY <1>3, <1>5 DEF OperatorStopsSession
<1>6. CASE SessionDies(x)
  BY <1>2, <1>3, <1>6 DEF SessionDies
<1>7. CASE SessionExits(x)
  <2>1. CASE ~Watched(x)
    BY <1>2, <1>7, <2>1 DEF SessionExits
  <2>2. CASE Watched(x)
    <3>1. \/ session' = [session EXCEPT ![x].state = "failed"]
          \/ session' = [session EXCEPT ![x].state = "completed"]
          \/ \E verdict \in {"none", "approve", "reject"} :
               session' = [session EXCEPT ![x].state = "completed", ![x].done = TRUE,
                                          ![x].verdict = verdict]
      BY <1>7, <2>2 DEF SessionExits
    <3>2. CASE session' = [session EXCEPT ![x].state = "failed"]
      BY <1>3, <3>2
    <3>3. CASE session' = [session EXCEPT ![x].state = "completed"]
      BY <1>3, <3>3
    <3>4. ASSUME NEW verdict \in {"none", "approve", "reject"},
                 session' = [session EXCEPT ![x].state = "completed", ![x].done = TRUE,
                                            ![x].verdict = verdict]
          PROVE  StepOK
      BY <1>4, <3>4
    <3> QED BY <3>1, <3>2, <3>3, <3>4
  <2> QED BY <2>1, <2>2
<1> QED BY <1>5, <1>6, <1>7

-----------------------------------------------------------------------------
(* A thread goes on, and leaves its sessions and the worktree alone.       *)

\* Where Goes leads.
LEMMA GoesRow ==
  ASSUME ManagedInv, NEW w \in Workers, NEW at \in Ats, NEW next \in Nexts, Goes(w, at, next)
  PROVE  \E new \in RunnerRow :
           /\ runner' = [runner EXCEPT ![w] = new]
           /\ new.at = at /\ new.next = next /\ new.for = runner[w].for
           /\ new.token = runner[w].token /\ new.phase = runner[w].phase /\ new.saw = runner[w].saw
<1>1. runner \in [Workers -> RunnerRow] /\ runner[w] \in RunnerRow
  BY DEF ManagedInv, OwnTyped
<1>2. PICK new : new = [runner[w] EXCEPT !.at = at, !.next = next]
  OBVIOUS
<1>3. new \in RunnerRow
  BY <1>1, <1>2 DEF RunnerRow
<1>4. /\ new.at = at /\ new.next = next /\ new.for = runner[w].for
      /\ new.token = runner[w].token /\ new.phase = runner[w].phase /\ new.saw = runner[w].saw
  BY <1>1, <1>2 DEF RunnerRow
<1>5. runner' = [runner EXCEPT ![w] = new]
  BY <1>1, <1>2 DEF Goes
<1> QED BY <1>3, <1>4, <1>5

\* When the wait is over, everything of the phase has finished.
LEMMA DoneAlready ==
  ASSUME ManagedInv, NEW w \in Workers, runner[w].at \in PastWait
  PROVE  \A x \in Mine(w) : Finished(x) /\ ~Alive(x)
<1>1. Group(runner[w].for, runner[w].token, runner[w].phase) = Mine(w)
  BY WaitedFor
<1> QED BY <1>1 DEF ManagedInv, Works, Finished, Alive

\* Nothing runs of the phase that is left.
LEMMA ThreadStep ==
  ASSUME ManagedInv, [QueueNext]_queueVars, Quiet, NEW w \in Workers, NEW new \in RunnerRow,
         runner' = [runner EXCEPT ![w] = new], UNCHANGED <<session, tree>>,
         halted' \in [Workers -> BOOLEAN], \A v \in Workers : halted[v] => halted'[v],
         AtWork(runner[w]), AtWork(new), new.for = runner[w].for, new.token = runner[w].token,
         new.phase # runner[w].phase => \A x \in Mine(w) : ~Alive(x),
         Placed(new), Works(w, new),
         new.at \in {"fail", "acknowledge", "lost"} =>
           halted'[w] \/ (new.phase = runner[w].phase /\ \A x \in Mine(w) : ~Alive(x))
  PROVE  StepOK
<1>1. TreeGoesOn /\ TreesOK'
  BY TreeStays
<1>2. runner'[w] = new
  BY DEF ManagedInv, OwnTyped
<1>3. Placed(new)'
  <2>1. new.token \in 1..op'[new.for].attempt
    <3>1. new.for \in Operations /\ new.token \in 1..op[new.for].attempt
      BY DEF Placed
    <3>2. op[new.for].attempt \in Nat /\ op'[new.for].attempt = op[new.for].attempt
      BY <3>1, Attempts DEF ManagedInv, Quiet, Calm
    <3> QED BY <3>1, <3>2
  <2> QED BY <2>1 DEF Placed, AtWork
<1>4. Works(w, new)'
  BY DEF Works, Convinced, Finished
<1>5. Stopped(w)'
  <2> SUFFICES ASSUME new.at \in {"fail", "acknowledge", "lost"}, ~halted'[w], NEW x \in Mine(w)'
               PROVE  ~Alive(x)'
    BY <1>2 DEF Stopped
  <2>1. x \in Mine(w)
    BY <1>2 DEF Mine
  <2> QED BY <2>1 DEF Alive
<1>6. ASSUME NEW x \in SessionIds, session[x].by = w
      PROVE  Looked(x)'
  <2> SUFFICES ASSUME Alive(x), session'[x].by = w PROVE halted'[w] \/ x \in Mine(w)'
    BY <1>6 DEF Looked, Alive
  <2>1. halted[w] \/ x \in Mine(w)
    BY <1>6 DEF ManagedInv, Looked, AtWork
  <2>2. x \in Mine(w) => new.phase = runner[w].phase
    OBVIOUS
  <2>3. x \in Mine(w) => x \in Mine(w)'
    BY <1>2, <2>2 DEF Mine
  <2> QED BY <2>1, <2>3
<1>7. session' \in [SessionIds -> Session]
  BY DEF ManagedInv, OwnTyped
<1> QED BY <1>1, <1>3, <1>4, <1>5, <1>6, <1>7, OwnStep

\* The thread gives its operation up.
LEMMA GoesOut ==
  ASSUME ManagedInv, [QueueNext]_queueVars, Quiet, NEW w \in Workers,
         NEW at \in {"fail", "acknowledge", "lost"}, NEW next \in Nexts, Goes(w, at, next),
         UNCHANGED <<session, tree>>,
         halted' \in [Workers -> BOOLEAN], \A v \in Workers : halted[v] => halted'[v],
         AtWork(runner[w]), at = "fail" => next \in Outcomes,
         halted'[w] \/ \A x \in Mine(w) : ~Alive(x)
  PROVE  StepOK
<1>1. at \in Ats
  BY DEF Ats
<1>2. PICK new \in RunnerRow :
        /\ runner' = [runner EXCEPT ![w] = new]
        /\ new.at = at /\ new.next = next /\ new.for = runner[w].for
        /\ new.token = runner[w].token /\ new.phase = runner[w].phase /\ new.saw = runner[w].saw
  BY <1>1, GoesRow
<1>3. AtWork(new)
  BY <1>2 DEF AtWork
<1>4. Placed(new)
  BY <1>2, <1>3 DEF ManagedInv, Placed
<1>5. Works(w, new)
  BY <1>2 DEF ManagedInv, Works, PastWait
<1> QED BY <1>2, <1>3, <1>4, <1>5, ThreadStep

\* The thread goes on with what its processes have done.
LEMMA GoesOn ==
  ASSUME ManagedInv, [QueueNext]_queueVars, Quiet, NEW w \in Workers,
         NEW at \in {"renew", "verify", "judge"}, NEW next \in {"seal", "launch", "complete"},
         Goes(w, at, next), UNCHANGED <<halted, session, tree>>,
         runner[w].at \in PastWait \cup {"wait"}, \A x \in Mine(w) : Finished(x),
         at = "judge" => runner[w].phase = "observe",
         at = "verify" => \/ next = "launch" /\ runner[w].phase = "write"
                          \/ next = "complete" /\ runner[w].phase = "review",
         at = "renew" => \/ next \in {"seal", "launch"} /\ runner[w].phase = "write"
                         \/ next = "complete" /\ runner[w].phase # "write",
         next = "launch" => runner[w].for \in Writes /\ tree[runner[w].for].state = "sealed",
         at = "renew" /\ next = "complete" =>
           Convinced(runner[w].for, runner[w].token, runner[w].phase)
  PROVE  StepOK
<1>1. at \in Ats /\ next \in Nexts /\ AtWork(runner[w])
  BY DEF Ats, Nexts, PastWait, AtWork
<1>2. PICK new \in RunnerRow :
        /\ runner' = [runner EXCEPT ![w] = new]
        /\ new.at = at /\ new.next = next /\ new.for = runner[w].for
        /\ new.token = runner[w].token /\ new.phase = runner[w].phase /\ new.saw = runner[w].saw
  BY <1>1, GoesRow
<1>3. AtWork(new)
  BY <1>2 DEF AtWork
<1>4. Placed(new)
  BY <1>1, <1>2, <1>3 DEF ManagedInv, Placed
<1>5. Works(w, new)
  <2>1. Group(new.for, new.token, new.phase) = Mine(w)
    BY <1>2, WaitedFor
  <2>2. \A x \in Group(new.for, new.token, new.phase) : Finished(x) /\ session[x].by = w
    BY <2>1, MineIds
  <2>3. new.phase = "review" =>
          /\ \A x \in Group(new.for, new.token, "write") : Finished(x)
          /\ new.for \in Writes /\ tree[new.for].state = "sealed"
    BY <1>1, <1>2 DEF ManagedInv, Works
  <2>4. new.at \notin {"sealing", "complete"}
    BY <1>2
  <2> QED BY <1>2, <2>2, <2>3, <2>4 DEF Works
<1>6. halted' \in [Workers -> BOOLEAN] /\ \A v \in Workers : halted[v] => halted'[v]
  BY DEF ManagedInv, OwnTyped
<1> QED BY <1>1, <1>2, <1>3, <1>4, <1>5, <1>6, ThreadStep

\* After _stop_sessions.
LEMMA StopsOK ==
  ASSUME ManagedInv, NEW w \in Workers, StopGivesUp(w) \/ StopSucceeds(w)
  PROVE  StepOK
<1>1. /\ runner[w].at = "stop" /\ AtWork(runner[w]) /\ runner[w].next \in Failures
      /\ halted \in [Workers -> BOOLEAN] /\ UNCHANGED <<session, tree>>
  BY DEF StopGivesUp, StopSucceeds, AtWork, ManagedInv, Placed, OwnTyped
<1>2. [QueueNext]_queueVars /\ Quiet
  BY NoCallQuiet DEF StopGivesUp, StopSucceeds
<1>3. CASE StopGivesUp(w)
  <2>1. Goes(w, "fail", "configuration") /\ halted' = [halted EXCEPT ![w] = TRUE]
    BY <1>3 DEF StopGivesUp
  <2>2. "configuration" \in Outcomes /\ "configuration" \in Nexts
    BY DEF Outcomes, Nexts
  <2>3. halted' \in [Workers -> BOOLEAN] /\ halted'[w]
        /\ \A v \in Workers : halted[v] => halted'[v]
    BY <1>1, <2>1, Zenon
  <2> QED BY <1>1, <1>2, <2>1, <2>2, <2>3, GoesOut
<1>4. CASE StopSucceeds(w)
  <2>1. PICK at : at = IF runner[w].next \in {"acknowledge", "lost"} THEN runner[w].next ELSE "fail"
    OBVIOUS
  <2>2. /\ Goes(w, at, runner[w].next) /\ halted' = halted
        /\ \A x \in Mine(w) : ~Alive(x)
    BY <1>4, <2>1 DEF StopSucceeds
  <2>3. /\ at \in {"fail", "acknowledge", "lost"} /\ runner[w].next \in Nexts
        /\ at = "fail" => runner[w].next \in Outcomes
    BY <1>1, <2>1 DEF Failures, Nexts, Outcomes
  <2> QED BY <1>1, <1>2, <2>2, <2>3, GoesOut
<1> QED BY <1>3, <1>4

\* What holds of a thread whose processes have all finished.
LEMMA PastTheWait ==
  ASSUME ManagedInv, NEW w \in Workers, runner[w].at \in PastWait
  PROVE  /\ AtWork(runner[w]) /\ runner[w] \in RunnerRow
         /\ \A x \in Mine(w) : Finished(x) /\ ~Alive(x)
         /\ Group(runner[w].for, runner[w].token, runner[w].phase) = Mine(w)
         /\ halted \in [Workers -> BOOLEAN] /\ \A v \in Workers : halted[v] => halted[v]
         /\ runner[w].phase = "write" => runner[w].for \in Writes
         /\ runner[w].phase = "review" =>
              runner[w].for \in Writes /\ tree[runner[w].for].state = "sealed"
<1>1. AtWork(runner[w])
  BY DEF AtWork, PastWait
<1>2. Placed(runner[w]) /\ Works(w, runner[w]) /\ runner[w] \in RunnerRow
      /\ halted \in [Workers -> BOOLEAN]
  BY DEF ManagedInv, OwnTyped
<1>3. Group(runner[w].for, runner[w].token, runner[w].phase) = Mine(w)
  BY WaitedFor
<1> QED BY <1>1, <1>2, <1>3, DoneAlready DEF Placed, Works, PhasesOf

\* A step from there to failure.
LEMMA FailsOn ==
  ASSUME ManagedInv, NEW w \in Workers, runner[w].at \in PastWait, [QueueNext]_queueVars, Quiet,
         NEW next \in {"configuration", "source-drift", "review-blocked", "queue-state", "provider"},
         Goes(w, "fail", next), UNCHANGED <<halted, session, tree>>
  PROVE  StepOK
<1>1. next \in Nexts /\ next \in Outcomes
  BY DEF Nexts, Outcomes
<1> QED BY <1>1, PastTheWait, GoesOut

\* verify_execution_source: what is unchanged since the seal is what the
\* reviewer was given.
LEMMA VerifiesOK ==
  ASSUME ManagedInv, NEW w \in Workers, Verifies(w)
  PROVE  StepOK
<1> DEFINE o == runner[w].for
           k == runner[w].token
<1>0. /\ runner[w].at = "verify" /\ AtWork(runner[w])
      /\ Placed(runner[w]) /\ Works(w, runner[w])
  BY DEF Verifies, ManagedInv, AtWork
<1>1. /\ runner[w].at = "verify" /\ runner[w].at \in PastWait
      /\ [QueueNext]_queueVars /\ Quiet /\ UNCHANGED <<halted, session, tree>>
      /\ \/ runner[w].next = "launch" /\ runner[w].phase = "write"
         \/ runner[w].next = "complete" /\ runner[w].phase = "review"
      /\ runner[w].next = "launch" => o \in Writes /\ tree[o].state = "sealed"
  <2>1. [QueueNext]_queueVars /\ Quiet /\ UNCHANGED <<halted, session, tree>>
    BY NoCallQuiet DEF Verifies
  <2>2. \/ runner[w].next = "launch" /\ runner[w].phase = "write"
        \/ runner[w].next = "complete" /\ runner[w].phase = "review"
    BY <1>0 DEF Placed
  <2>3. runner[w].next = "launch" => o \in Writes /\ tree[o].state = "sealed"
    BY <1>0 DEF Works
  <2> QED BY <1>0, <2>1, <2>2, <2>3 DEF PastWait
<1>2. CASE Stale(o)
  BY <1>1, <1>2, FailsOn DEF Verifies
<1>3. CASE ~Stale(o)
  <2>1. Goes(w, "renew", runner[w].next)
    BY <1>3 DEF Verifies
  <2>2. ASSUME runner[w].next = "complete" PROVE Convinced(o, k, runner[w].phase)
    <3>1. /\ runner[w].phase = "review" /\ o \in Writes /\ tree[o].state = "sealed"
          /\ tree[o] \in Tree
      BY <1>1, <2>2, PastTheWait DEF ManagedInv, OwnTyped
    <3>2. tree[o].content = tree[o].final
      BY <1>3, <3>1 DEF Stale
    <3>3. o \notin Gates
      BY <3>1, ManagedAssumption
    <3>4. ASSUME NEW x \in Group(o, k, "review") PROVE GivenSealed(session[x], tree[o])
      <4>1. x \in Mine(w) /\ x \in SessionIds /\ Finished(x)
        BY <1>1, <3>1, <3>4, PastTheWait, MineIds
      <4>2. x[1] = o /\ x[3] = "review"
        BY <3>4, GroupNames
      <4>3. ReviewOK(x) /\ session[x].state # "none"
        BY <4>1 DEF ManagedInv, Finished
      <4> QED BY <3>2, <4>2, <4>3 DEF ReviewOK
    <3> QED BY <3>1, <3>3, <3>4 DEF Convinced
  <2> QED BY <1>1, <2>1, <2>2, PastTheWait, GoesOn
<1> QED BY <1>2, <1>3

\* Git or the file system refuses to answer.
LEMMA GovernanceFailsOK ==
  ASSUME ManagedInv, NEW w \in Workers, GovernanceFails(w)
  PROVE  StepOK
<1>1. runner[w].at \in PastWait
  BY DEF GovernanceFails, PastWait
<1> QED BY <1>1, NoCallQuiet, FailsOn DEF GovernanceFails

\* _release_review_verdict.
LEMMA JudgesOK ==
  ASSUME ManagedInv, NEW w \in Workers, Judges(w)
  PROVE  StepOK
<1> DEFINE o == runner[w].for
           k == runner[w].token
           verdicts == {session[x].verdict : x \in Mine(w)}
<1>1. /\ runner[w].at = "judge" /\ runner[w].at \in PastWait /\ runner[w].phase = "observe"
      /\ [QueueNext]_queueVars /\ Quiet /\ UNCHANGED <<halted, session, tree>>
  BY NoCallQuiet DEF Judges, PastWait, ManagedInv, Placed
<1>2. CASE o \notin Gates \/ verdicts = {"approve"}
  <2>1. Goes(w, "renew", "complete")
    BY <1>2 DEF Judges
  <2>2. Convinced(o, k, runner[w].phase)
    <3>1. Group(o, k, runner[w].phase) = Mine(w)
      BY <1>1, PastTheWait
    <3>2. \A x \in Mine(w) : o \in Gates => session[x].verdict = "approve"
      <4>1. \A x \in Mine(w) : session[x].verdict \in verdicts
        OBVIOUS
      <4> QED BY <1>2, <4>1
    <3> QED BY <1>1, <3>1, <3>2 DEF Convinced
  <2> QED BY <1>1, <2>1, <2>2, PastTheWait, GoesOn
<1>3. CASE ~(o \notin Gates \/ verdicts = {"approve"})
  <2>1. Goes(w, "fail", "configuration") \/ Goes(w, "fail", "review-blocked")
    BY <1>3 DEF Judges
  <2> QED BY <1>1, <2>1, FailsOn
<1> QED BY <1>2, <1>3

\* What a runner asks of the queue with its token.
LEMMA HolderCalls ==
  ASSUME ManagedInv, NEW w \in Workers, AtWork(runner[w]), NEW age \in Int, NEW class \in Outcomes,
         NEW delay \in {0, RetryDelay},
         \/ Heartbeat(w, runner[w].for, runner[w].token, age)
         \/ AcknowledgeCancel(w, runner[w].for, runner[w].token, age)
         \/ Fail(w, runner[w].for, runner[w].token, class, delay, TRUE, age)
         \/ Reconcile(age)
  PROVE  [QueueNext]_queueVars /\ Quiet
<1>1. runner[w].for \in Operations /\ runner[w].token \in Nat /\ QueueInv /\ delay \in Int
  <2>1. runner[w].for \in Operations /\ runner[w].token \in Nat /\ QueueInv
    BY DEF ManagedInv, Placed, OwnTyped, RunnerRow
  <2>2. delay \in Int
    BY QueueAssumption
  <2> QED BY <2>1, <2>2
<1>2. CASE Reconcile(age)
  BY <1>1, <1>2, ReconcileQuiet, Zenon DEF QueueNext
<1>3. CASE ~Reconcile(age)
  <2>1. WorkerCall(w, runner[w].for, age)
    BY <1>1, <1>3, Zenon DEF WorkerCall
  <2>2. [QueueNext]_queueVars
    BY <1>1, <2>1, WorkerCalls
  <2>3. Quiet
    BY <1>1, <1>3, WorkerQuiet
  <2> QED BY <2>2, <2>3
<1> QED BY <1>2, <1>3

\* _renew_claim.
LEMMA RenewsOK ==
  ASSUME ManagedInv, NEW w \in Workers, NEW age \in Int, Renews(w, age)
  PROVE  StepOK
<1>1. /\ runner[w].at = "renew" /\ runner[w].at \in PastWait /\ UNCHANGED <<halted, session, tree>>
  BY DEF Renews, PastWait
<1>2. CASE NoCall /\ Goes(w, "fail", "queue-state")
  BY <1>1, <1>2, NoCallQuiet, FailsOn
<1>3. ASSUME Heartbeat(w, runner[w].for, runner[w].token, age),
             runner' = [runner EXCEPT ![w].at = runner[w].next, ![w].next = "none",
                          ![w].phase = IF runner[w].next = "launch" THEN "review" ELSE @]
      PROVE  StepOK
  <2>1. /\ AtWork(runner[w]) /\ runner[w] \in RunnerRow /\ Placed(runner[w]) /\ Works(w, runner[w])
        /\ runner \in [Workers -> RunnerRow]
    BY <1>1, PastTheWait DEF ManagedInv, OwnTyped
  <2>2. \/ runner[w].next \in {"seal", "launch"} /\ runner[w].phase = "write"
        \/ runner[w].next = "complete" /\ runner[w].phase # "write"
    BY <1>1, <2>1 DEF Placed
  <2>3. "none" \in Outcomes /\ 0 \in {0, RetryDelay}
    BY DEF Outcomes
  <2>4. [QueueNext]_queueVars /\ Quiet
    BY <1>3, <2>1, <2>3, HolderCalls
  <2>5. PICK phase : phase = IF runner[w].next = "launch" THEN "review" ELSE runner[w].phase
    OBVIOUS
  <2>6. PICK new : new = [runner[w] EXCEPT !.at = runner[w].next, !.next = "none", !.phase = phase]
    OBVIOUS
  <2>7. runner' = [runner EXCEPT ![w] = new]
    BY <1>3, <2>1, <2>5, <2>6
  <2>8. /\ runner[w].next \in Ats /\ "none" \in Nexts
        /\ phase \in {"none", "write", "review", "observe"}
    BY <2>1, <2>2, <2>5 DEF RunnerRow, Ats, Nexts, PastWait
  <2>9. /\ new \in RunnerRow /\ new.at = runner[w].next /\ new.phase = phase
        /\ new.for = runner[w].for /\ new.token = runner[w].token
    BY <2>1, <2>6, <2>8 DEF RunnerRow
  <2>10. AtWork(new)
    BY <2>2, <2>9 DEF AtWork
  <2>11. Placed(new)
    <3>1. phase \in PhasesOf(new.for)
      BY <2>1, <2>2, <2>5, <2>9 DEF Placed, PhasesOf
    <3>2. /\ new.for \in Operations /\ new.token \in 1..op[new.for].attempt
      BY <2>1, <2>9 DEF Placed
    <3> QED BY <2>2, <2>5, <2>9, <2>10, <3>1, <3>2 DEF Placed
  <2>12. Works(w, new)
    <3>1. CASE runner[w].next = "launch"
      <4>1. \A x \in Group(new.for, new.token, "write") : Finished(x)
        BY <1>1, <2>1, <2>2, <2>9, <3>1, Zenon DEF Works
      <4>2. new.for \in Writes /\ tree[new.for].state = "sealed"
        BY <1>1, <2>1, <2>9, <3>1 DEF Works
      <4>3. new.at = "launch" /\ "launch" \notin PastWait \cup {"wait"}
        BY <2>9, <3>1 DEF PastWait
      <4> QED BY <4>1, <4>2, <4>3 DEF Works, PastWait
    <3>2. CASE runner[w].next \in {"seal", "complete"}
      <4>1. new.phase = runner[w].phase
        BY <2>5, <2>9, <3>2
      <4>2. \A x \in Group(new.for, new.token, new.phase) : Finished(x) /\ session[x].by = w
        BY <1>1, <2>9, <4>1, PastTheWait, MineIds
      <4>3. new.phase = "review" =>
              /\ \A x \in Group(new.for, new.token, "write") : Finished(x)
              /\ new.for \in Writes /\ tree[new.for].state = "sealed"
        BY <2>1, <2>9, <4>1, Zenon DEF Works
      <4>4. runner[w].next = "complete" => Convinced(new.for, new.token, new.phase)
        BY <1>1, <2>1, <2>9, <4>1, Zenon DEF Works
      <4>5. new.at \in {"seal", "complete"} /\ (new.at = "complete" => runner[w].next = "complete")
        BY <2>9, <3>2
      <4> QED BY <4>2, <4>3, <4>4, <4>5 DEF Works
    <3> QED BY <2>2, <3>1, <3>2
  <2>13. new.at \notin {"fail", "acknowledge", "lost"}
    BY <2>2, <2>9
  <2> QED BY <1>1, <2>1, <2>4, <2>7, <2>9, <2>10, <2>11, <2>12, <2>13, PastTheWait, ThreadStep
<1> QED BY <1>1, <1>2, <1>3 DEF Renews

\* seal_execution reads the worktree.
LEMMA ReadsTreeOK ==
  ASSUME ManagedInv, NEW w \in Workers, ReadsTree(w)
  PROVE  StepOK
<1>1. /\ runner[w].at = "seal" /\ runner[w].at \in PastWait /\ UNCHANGED <<halted, session, tree>>
      /\ [QueueNext]_queueVars /\ Quiet
      /\ runner \in [Workers -> RunnerRow] /\ tree \in [Writes -> Tree]
  BY NoCallQuiet DEF ReadsTree, PastWait, ManagedInv, OwnTyped
<1>2. /\ Placed(runner[w]) /\ Works(w, runner[w]) /\ runner[w].phase = "write"
      /\ runner[w].for \in Writes
  <2>1. Placed(runner[w]) /\ Works(w, runner[w])
    BY DEF ManagedInv
  <2>2. runner[w].phase = "write"
    BY <1>1, <2>1 DEF Placed
  <2> QED BY <1>1, <2>1, <2>2, PastTheWait
<1>3. PICK saw : saw = tree[runner[w].for].content
  OBVIOUS
<1>4. saw \in Contents
  BY <1>1, <1>2, <1>3 DEF Tree
<1>5. PICK new : new = [runner[w] EXCEPT !.at = "sealing", !.saw = saw]
  OBVIOUS
<1>6. runner' = [runner EXCEPT ![w] = new]
  BY <1>1, <1>3, <1>5 DEF ReadsTree
<1>7. "sealing" \in Ats
  BY DEF Ats, PastWait
<1>8. /\ new \in RunnerRow /\ new.at = "sealing" /\ new.phase = runner[w].phase
      /\ new.for = runner[w].for /\ new.token = runner[w].token /\ new.saw = saw
  BY <1>1, <1>4, <1>5, <1>7 DEF RunnerRow
<1>9. AtWork(new) /\ AtWork(runner[w])
  BY <1>1, <1>8 DEF AtWork
<1>10. Placed(new)
  BY <1>1, <1>2, <1>8, <1>9 DEF Placed
<1>11. Works(w, new)
  <2>1. \A x \in Group(new.for, new.token, new.phase) : Finished(x) /\ session[x].by = w
    BY <1>1, <1>8, PastTheWait, MineIds
  <2> QED BY <1>2, <1>4, <1>8, <2>1 DEF Works
<1> QED BY <1>1, <1>6, <1>8, <1>9, <1>10, <1>11, PastTheWait, ThreadStep

\* What a thread that stays in its phase has running is looked after.
LEMMA LookedKept ==
  ASSUME ManagedInv, NEW w \in Workers, AtWork(runner[w]), NEW new,
         runner'[w] = new, new.for = runner[w].for, new.token = runner[w].token,
         new.phase = runner[w].phase, halted[w] => halted'[w],
         NEW x \in SessionIds, session[x].by = w, session'[x].by = w, Alive(x)' => Alive(x)
  PROVE  Looked(x)'
<1> SUFFICES ASSUME Alive(x)' PROVE halted'[w] \/ x \in Mine(w)'
  BY DEF Looked
<1>1. halted[w] \/ x \in Mine(w)
  BY DEF ManagedInv, Looked, AtWork
<1>2. x \in Mine(w) => x \in Mine(w)'
  BY DEF Mine
<1> QED BY <1>1, <1>2

\* seal_execution writes the binding.
LEMMA SealsOK ==
  ASSUME ManagedInv, NEW w \in Workers, Seals(w)
  PROVE  StepOK
<1> DEFINE o == runner[w].for
<1>1. /\ runner[w].at = "sealing" /\ runner[w].at \in PastWait /\ UNCHANGED <<halted, session>>
      /\ [QueueNext]_queueVars /\ Quiet /\ tree[o].state = "active" /\ Goes(w, "verify", "launch")
      /\ tree' = [tree EXCEPT ![o].state = "sealed", ![o].final = runner[w].saw]
      /\ tree \in [Writes -> Tree] /\ runner \in [Workers -> RunnerRow]
      /\ session \in [SessionIds -> Session]
  BY NoCallQuiet DEF Seals, PastWait, ManagedInv, OwnTyped
<1>2. Placed(runner[w]) /\ Works(w, runner[w])
  BY DEF ManagedInv
<1>3. runner[w].phase = "write" /\ o \in Writes /\ runner[w].saw \in Contents
  BY <1>1, <1>2 DEF Placed, Works, RunnerRow
<1>4. PICK sealed : sealed = [tree[o] EXCEPT !.state = "sealed", !.final = runner[w].saw]
  OBVIOUS
<1>5. tree' = [tree EXCEPT ![o] = sealed]
  BY <1>1, <1>3, <1>4
<1>6. /\ sealed \in Tree /\ tree[o] \in Tree /\ sealed.state = "sealed"
      /\ sealed.edits = tree[o].edits /\ sealed.restored = tree[o].restored
  BY <1>1, <1>3, <1>4 DEF Tree
<1>7. /\ tree[o].edits <= sealed.edits /\ tree[o].restored <= sealed.restored
      /\ sealed.restored <= sealed.edits
  BY <1>3, <1>6, TreeNumbers DEF ManagedInv, TreesOK
<1>8. TreeGoesOn /\ TreesOK'
  BY <1>1, <1>3, <1>5, <1>6, <1>7, TreeStep
<1>9. tree'[o].state = "sealed"
  BY <1>1, <1>3, <1>5, <1>6
<1>10. "verify" \in Ats /\ "launch" \in Nexts
  BY DEF Ats, PastWait, Nexts
<1>11. PICK new \in RunnerRow :
        /\ runner' = [runner EXCEPT ![w] = new]
        /\ new.at = "verify" /\ new.next = "launch" /\ new.for = runner[w].for
        /\ new.token = runner[w].token /\ new.phase = runner[w].phase /\ new.saw = runner[w].saw
  BY <1>1, <1>10, GoesRow
<1>12. AtWork(new) /\ AtWork(runner[w]) /\ runner'[w] = new
  BY <1>1, <1>11 DEF AtWork
<1>13. Placed(new)'
  <2>1. new.token \in 1..op'[new.for].attempt
    BY <1>1, <1>2, <1>11, <1>12, Attempts DEF Placed, ManagedInv, Quiet, Calm
  <2> QED BY <1>2, <1>3, <1>11, <1>12, <2>1 DEF Placed, AtWork
<1>14. Works(w, new)'
  <2>1. \A x \in Group(new.for, new.token, new.phase) : Finished(x)' /\ session'[x].by = w
    BY <1>1, <1>11, PastTheWait, MineIds DEF Finished
  <2> QED BY <1>3, <1>9, <1>11, <2>1 DEF Works
<1>15. Stopped(w)'
  BY <1>11, <1>12 DEF Stopped
<1>16. \A x \in SessionIds : session[x].by = w => Looked(x)'
  BY <1>1, <1>11, <1>12, LookedKept DEF Alive
<1> QED BY <1>1, <1>8, <1>11, <1>12, <1>13, <1>14, <1>15, <1>16, PastTheWait, OwnStep

-----------------------------------------------------------------------------
(* A thread starts and stops its processes.                                *)

\* _stop_sessions.
LEMMA GroupStopped ==
  ASSUME ManagedInv, NEW w \in Workers,
         session' = [x \in SessionIds |->
                       IF x \in Mine(w) /\ session[x].state = "running"
                       THEN [session[x] EXCEPT !.state = "stopping"] ELSE session[x]]
  PROVE  /\ session' \in [SessionIds -> Session]
         /\ \A x \in SessionIds :
              /\ session'[x].by = session[x].by /\ (Alive(x)' => Alive(x))
              /\ \/ session'[x] = session[x]
                 \/ /\ x \in Mine(w) /\ session[x].state = "running" /\ session[x].state # "none"
                    /\ session'[x].saw = session[x].saw /\ session'[x].since = session[x].since
                    /\ session'[x].state = "stopping"
<1> SUFFICES ASSUME NEW x \in SessionIds
             PROVE  /\ session'[x] \in Session
                    /\ session'[x].by = session[x].by /\ (Alive(x)' => Alive(x))
                    /\ \/ session'[x] = session[x]
                       \/ /\ x \in Mine(w) /\ session[x].state = "running" /\ session[x].state # "none"
                          /\ session'[x].saw = session[x].saw /\ session'[x].since = session[x].since
                          /\ session'[x].state = "stopping"
  BY Zenon
<1>1. session[x] \in Session
  BY DEF ManagedInv, OwnTyped
<1>2. CASE x \in Mine(w) /\ session[x].state = "running"
  <2>1. PICK new : new = [session[x] EXCEPT !.state = "stopping"]
    OBVIOUS
  <2>2. /\ new \in Session /\ new.state = "stopping" /\ new.by = session[x].by
        /\ new.saw = session[x].saw /\ new.since = session[x].since
    BY <1>1, <2>1 DEF Session
  <2>3. session'[x] = new
    BY <1>2, <2>1
  <2> QED BY <1>2, <2>2, <2>3 DEF Alive
<1>3. CASE ~(x \in Mine(w) /\ session[x].state = "running")
  <2>1. session'[x] = session[x]
    BY <1>3
  <2> QED BY <1>1, <2>1 DEF Alive
<1> QED BY <1>2, <1>3

\* Nobody calls the queue while the group is told to stop.
LEMMA StopsGroupOK ==
  ASSUME ManagedInv, NEW w \in Workers, AtWork(runner[w]), NEW next \in Failures,
         StopsGroup(w, next), UNCHANGED <<halted, tree>>, NoCall
  PROVE  StepOK
<1>1. "stop" \in Ats /\ next \in Nexts
  BY DEF Ats, Failures, Nexts
<1>2. PICK new \in RunnerRow :
        /\ runner' = [runner EXCEPT ![w] = new]
        /\ new.at = "stop" /\ new.next = next /\ new.for = runner[w].for
        /\ new.token = runner[w].token /\ new.phase = runner[w].phase /\ new.saw = runner[w].saw
  BY <1>1, GoesRow DEF StopsGroup
<1>3. runner \in [Workers -> RunnerRow] /\ halted \in [Workers -> BOOLEAN]
  BY DEF ManagedInv, OwnTyped
<1>4. AtWork(new) /\ runner'[w] = new
  BY <1>2, <1>3 DEF AtWork
<1>5. /\ session' \in [SessionIds -> Session]
      /\ \A x \in SessionIds :
           /\ session'[x].by = session[x].by /\ (Alive(x)' => Alive(x))
           /\ \/ session'[x] = session[x]
              \/ /\ x \in Mine(w) /\ session[x].state = "running" /\ session[x].state # "none"
                 /\ session'[x].saw = session[x].saw /\ session'[x].since = session[x].since
                 /\ session'[x].state = "stopping"
  BY GroupStopped DEF StopsGroup
<1>6. TreeGoesOn /\ TreesOK' /\ [QueueNext]_queueVars /\ Quiet
  BY TreeStays, NoCallQuiet
<1>7. ASSUME NEW x \in SessionIds
      PROVE  \/ session'[x] = session[x]
             \/ x[1] = runner[w].for /\ x[2] = runner[w].token /\ ReviewOK(x)'
  BY <1>5, MineIds DEF ManagedInv, ReviewOK, GivenSealed
<1>8. ASSUME NEW x \in SessionIds, session'[x] # session[x] \/ session[x].by = w
      PROVE  Looked(x)'
  <2>1. session[x].by = w /\ session'[x].by = w /\ (Alive(x)' => Alive(x))
    BY <1>5, <1>8, MineIds
  <2> QED BY <1>2, <1>4, <2>1, LookedKept
<1>9. Placed(new)'
  <2>1. new.token \in 1..op'[new.for].attempt /\ new.for \in Operations
    BY <1>2 DEF ManagedInv, Placed, NoCall, queueVars
  <2>2. new.phase \in PhasesOf(new.for)
    BY <1>2 DEF ManagedInv, Placed
  <2> QED BY <1>2, <1>4, <2>1, <2>2 DEF Placed, AtWork
<1>10. Works(w, new)'
  <2>1. ASSUME new.phase = "review"
        PROVE  /\ \A x \in Group(new.for, new.token, "write") : Finished(x)'
               /\ new.for \in Writes /\ tree'[new.for].state = "sealed"
    <3>1. /\ \A x \in Group(new.for, new.token, "write") : Finished(x)
          /\ new.for \in Writes /\ tree[new.for].state = "sealed"
      BY <1>2, <2>1 DEF ManagedInv, Works
    <3>2. Group(new.for, new.token, "write") \subseteq SessionIds
      BY <1>2, <3>1, Holding DEF PhasesOf
    <3>3. \A x \in Group(new.for, new.token, "write") : session'[x] = session[x]
      BY <1>5, <3>1, <3>2 DEF Finished
    <3> QED BY <3>1, <3>3 DEF Finished
  <2>2. new.at \notin PastWait \cup {"wait", "verify", "renew", "sealing", "complete"}
    BY <1>2 DEF PastWait
  <2> QED BY <2>1, <2>2 DEF Works
<1>11. Stopped(w)'
  BY <1>2, <1>4 DEF Stopped
<1>12. AtWork(new) => /\ AtWork(runner[w]) /\ new.for = runner[w].for /\ new.token = runner[w].token
  BY <1>2
<1> QED BY <1>2, <1>3, <1>5, <1>6, <1>7, <1>8, <1>9, <1>10, <1>11, <1>12, OwnStep

\* The checks of _wait_group.
LEMMA WaitIsOverOK ==
  ASSUME ManagedInv, NEW w \in Workers, WaitIsOver(w)
  PROVE  StepOK
<1>1. /\ runner[w].at = "wait" /\ AtWork(runner[w]) /\ UNCHANGED <<halted, tree>> /\ NoCall
      /\ [QueueNext]_queueVars /\ Quiet /\ runner[w] \in RunnerRow
      /\ Placed(runner[w]) /\ Works(w, runner[w])
      /\ halted \in [Workers -> BOOLEAN] /\ \A v \in Workers : halted[v] => halted[v]
  BY NoCallQuiet DEF WaitIsOver, AtWork, ManagedInv, OwnTyped
<1>2. CASE \E next \in {"transient", "acknowledge", "provider"} : StopsGroup(w, next)
  <2>1. {"transient", "acknowledge", "provider"} \subseteq Failures
    BY DEF Failures
  <2> QED BY <1>1, <1>2, <2>1, StopsGroupOK
<1>3. ASSUME \A x \in Mine(w) : session[x].state = "completed", UNCHANGED session,
             Goes(w, "fail", "provider")
      PROVE  StepOK
  <2>1. "provider" \in Nexts /\ "provider" \in Outcomes
    BY DEF Nexts, Outcomes
  <2>2. \A x \in Mine(w) : ~Alive(x)
    BY <1>3 DEF Alive
  <2> QED BY <1>1, <1>3, <2>1, <2>2, GoesOut
<1>4. ASSUME \A x \in Mine(w) : Finished(x), UNCHANGED session,
             \/ runner[w].phase = "write" /\ Goes(w, "renew", "seal")
             \/ runner[w].phase = "review" /\ Goes(w, "verify", "complete")
             \/ runner[w].phase = "observe" /\ Goes(w, "judge", "complete")
      PROVE  StepOK
  BY <1>1, <1>4, GoesOn
<1>5. runner[w].phase \in {"write", "review", "observe"}
  BY <1>1 DEF Placed, PhasesOf
<1>6. CASE halted[w] \/ op[runner[w].for].cancel
           \/ \E x \in Mine(w) : session[x].state \in {"failed", "stopped"}
  BY <1>2, <1>6 DEF WaitIsOver
<1>7. CASE ~(halted[w] \/ op[runner[w].for].cancel
             \/ \E x \in Mine(w) : session[x].state \in {"failed", "stopped"})
  <2>1. (\A x \in Mine(w) : session[x].state = "completed") /\ UNCHANGED session
    BY <1>7 DEF WaitIsOver
  <2>2. CASE \E x \in Mine(w) : ~session[x].done
    BY <1>3, <1>7, <2>1, <2>2 DEF WaitIsOver
  <2>3. CASE ~\E x \in Mine(w) : ~session[x].done
    <3>1. \A x \in Mine(w) : Finished(x)
      BY <2>1, <2>3 DEF Finished
    <3>2. CASE runner[w].phase = "write"
      BY <1>4, <1>7, <2>1, <2>3, <3>1, <3>2 DEF WaitIsOver
    <3>3. CASE runner[w].phase = "review"
      BY <1>4, <1>7, <2>1, <2>3, <3>1, <3>3 DEF WaitIsOver
    <3>4. CASE runner[w].phase = "observe"
      BY <1>4, <1>7, <2>1, <2>3, <3>1, <3>4 DEF WaitIsOver
    <3> QED BY <1>5, <3>2, <3>3, <3>4
  <2> QED BY <2>2, <2>3
<1> QED BY <1>6, <1>7

\* The heartbeat of the wait.
LEMMA WaitBeatsOK ==
  ASSUME ManagedInv, NEW w \in Workers, WaitBeats(w)
  PROVE  StepOK
<1>1. AtWork(runner[w])
  BY DEF WaitBeats, AtWork
<1>2. ASSUME NEW age \in Int, Heartbeat(w, runner[w].for, runner[w].token, age), UNCHANGED ownVars
      PROVE  StepOK
  <2>1. "none" \in Outcomes /\ 0 \in {0, RetryDelay}
    BY DEF Outcomes
  <2>2. [QueueNext]_queueVars /\ Quiet
    BY <1>1, <1>2, <2>1, HolderCalls
  <2> QED BY <1>2, <2>2, QueueOnly
<1>3. ASSUME NoCall, StopsGroup(w, "lost"), UNCHANGED <<halted, tree>>
      PROVE  StepOK
  <2>1. "lost" \in Failures
    BY DEF Failures
  <2> QED BY <1>1, <1>3, <2>1, StopsGroupOK
<1> QED BY <1>2, <1>3, AgesAreIntegers DEF WaitBeats

\* close.
LEMMA ClosesOK ==
  ASSUME ManagedInv, NEW w \in Workers, Closes(w)
  PROVE  StepOK
<1>1. /\ runner \in [Workers -> RunnerRow] /\ runner[w] \in RunnerRow /\ runner' = runner
      /\ halted \in [Workers -> BOOLEAN] /\ halted' = [halted EXCEPT ![w] = TRUE]
      /\ Placed(runner[w]) /\ Works(w, runner[w])
      /\ tree' = tree /\ [QueueNext]_queueVars /\ Quiet
  BY NoCallQuiet DEF Closes, ManagedInv, OwnTyped
<1>2. PICK new \in RunnerRow : new = runner[w] /\ new = runner'[w]
  BY <1>1
<1>3. runner' = [runner EXCEPT ![w] = new]
  BY <1>1, <1>2
<1>4. halted' \in [Workers -> BOOLEAN] /\ halted'[w] /\ \A v \in Workers : halted[v] => halted'[v]
  BY <1>1, Zenon
<1>5. /\ session' \in [SessionIds -> Session]
      /\ \A x \in SessionIds :
           /\ session'[x].by = session[x].by /\ (Alive(x)' => Alive(x))
           /\ \/ session'[x] = session[x]
              \/ /\ x \in Mine(w) /\ session[x].state = "running" /\ session[x].state # "none"
                 /\ session'[x].saw = session[x].saw /\ session'[x].since = session[x].since
                 /\ session'[x].state = "stopping"
  BY GroupStopped DEF Closes
<1>6. TreeGoesOn /\ TreesOK' /\ QueueInv' /\ \A o \in Operations : op[o].attempt <= op'[o].attempt
  BY <1>1, TreeStays, QueueSide
<1>7. ASSUME NEW x \in SessionIds
      PROVE  \/ session'[x] = session[x]
             \/ x[1] = runner[w].for /\ x[2] = runner[w].token /\ ReviewOK(x)'
  BY <1>1, <1>5, MineIds DEF ManagedInv, ReviewOK, GivenSealed
<1>8. ASSUME NEW x \in SessionIds, session'[x] # session[x] \/ session[x].by = w
      PROVE  Looked(x)'
  <2>1. session'[x].by = w
    BY <1>5, <1>8, MineIds
  <2> QED BY <1>4, <2>1 DEF Looked
<1>9. Spares(w)
  BY <1>5 DEF Spares
<1>10. Placed(runner[w])' /\ Works(w, runner[w])'
  BY <1>1, <1>6, <1>9, Bystander
<1>11. Placed(new)' /\ Works(w, new)'
  BY <1>2, <1>10
<1>12. Stopped(w)'
  BY <1>4 DEF Stopped
<1>13. AtWork(new) => /\ AtWork(runner[w]) /\ new.for = runner[w].for /\ new.token = runner[w].token
  BY <1>2
<1> QED BY <1>1, <1>3, <1>4, <1>5, <1>6, <1>7, <1>8, <1>11, <1>12, <1>13, OwnStep

\* A new agent process.
LEMMA StartedTyped ==
  ASSUME ManagedInv, NEW w \in Workers, NEW x \in SessionIds
  PROVE  /\ Started(w, x) \in Session /\ Started(w, x).by = w /\ Started(w, x).state = "running"
         /\ x[1] \in Writes => /\ Started(w, x).saw = tree[x[1]].content
                              /\ Started(w, x).since = tree[x[1]].edits
<1>1. PICK saw : saw = IF x[1] \in Writes THEN tree[x[1]].content ELSE Base
  OBVIOUS
<1>2. PICK since : since = IF x[1] \in Writes THEN tree[x[1]].edits ELSE 0
  OBVIOUS
<1>3. saw \in Contents /\ since \in 0..MaxEdits
  BY <1>1, <1>2, ManagedAssumption DEF ManagedInv, OwnTyped, Tree
<1>4. Started(w, x) = [state |-> "running", by |-> w, done |-> FALSE, verdict |-> "none",
                       saw |-> saw, since |-> since]
  BY <1>1, <1>2 DEF Started
<1> QED BY <1>1, <1>2, <1>3, <1>4 DEF Session

\* Some processes of the group are started; those that are told to stop at
\* once are told so.
LEMMA LaunchStep ==
  ASSUME ManagedInv, NEW w \in Workers, runner[w].at = "launch", NoCall, UNCHANGED <<halted, tree>>,
         NEW at \in {"wait", "stop"}, NEW next \in {"none", "configuration"}, Goes(w, at, next),
         at = "stop" => next = "configuration",
         NEW S \in SUBSET Group(runner[w].for, runner[w].token, runner[w].phase),
         NEW state \in {"running", "stopping"},
         session' = [x \in SessionIds |->
                       IF x \in S THEN [Started(w, x) EXCEPT !.state = state] ELSE session[x]],
         at = "wait" => S = Group(runner[w].for, runner[w].token, runner[w].phase)
  PROVE  StepOK
<1>1. /\ AtWork(runner[w]) /\ runner \in [Workers -> RunnerRow] /\ halted \in [Workers -> BOOLEAN]
      /\ session \in [SessionIds -> Session]
      /\ [QueueNext]_queueVars /\ Quiet /\ TreeGoesOn /\ TreesOK' /\ at \in Ats /\ next \in Nexts
  BY TreeStays, NoCallQuiet DEF AtWork, ManagedInv, OwnTyped, Ats, Nexts
<1>2. PICK new \in RunnerRow :
        /\ runner' = [runner EXCEPT ![w] = new]
        /\ new.at = at /\ new.next = next /\ new.for = runner[w].for
        /\ new.token = runner[w].token /\ new.phase = runner[w].phase /\ new.saw = runner[w].saw
  BY <1>1, GoesRow
<1>3. AtWork(new) /\ runner'[w] = new
  BY <1>1, <1>2 DEF AtWork
<1>4. ASSUME NEW x \in SessionIds
      PROVE  /\ x \in S => /\ session'[x] \in Session /\ session'[x].by = w
                           /\ x[1] \in Writes => /\ session'[x].saw = tree[x[1]].content
                                                /\ session'[x].since = tree[x[1]].edits
             /\ x \notin S => session'[x] = session[x]
  <2>1. CASE x \in S
    <3>1. PICK row : row = [Started(w, x) EXCEPT !.state = state]
      OBVIOUS
    <3>2. /\ row \in Session /\ row.by = w
          /\ x[1] \in Writes => row.saw = tree[x[1]].content /\ row.since = tree[x[1]].edits
      BY <3>1, StartedTyped DEF Session
    <3>3. session'[x] = row
      BY <2>1, <3>1
    <3> QED BY <2>1, <3>2, <3>3
  <2>2. CASE x \notin S
    BY <2>2
  <2> QED BY <2>1, <2>2
<1>5. session' \in [SessionIds -> Session]
  <2>1. \A x \in SessionIds : session'[x] \in Session
    BY <1>1, <1>4
  <2> QED BY <2>1
<1>6. \A x \in S : x[1] = runner[w].for /\ x[2] = runner[w].token /\ x[3] = runner[w].phase
  BY GroupNames
<1>7. ASSUME NEW x \in SessionIds, x \in S
      PROVE  ReviewOK(x)'
  <2> SUFFICES ASSUME x[3] = "review"
               PROVE  /\ x[1] \in Writes /\ tree[x[1]].state = "sealed"
                      /\ session'[x].since <= tree[x[1]].edits
                      /\ tree[x[1]].content = tree[x[1]].final => GivenSealed(session'[x], tree[x[1]])
    BY DEF ReviewOK
  <2>1. x[1] = runner[w].for /\ runner[w].phase = "review"
    BY <1>6, <1>7
  <2>2. x[1] \in Writes /\ tree[x[1]].state = "sealed"
    BY <1>1, <2>1 DEF ManagedInv, Works
  <2>3. session'[x].saw = tree[x[1]].content /\ session'[x].since = tree[x[1]].edits
    BY <1>4, <1>7, <2>2
  <2>4. tree[x[1]].edits <= tree[x[1]].edits
    BY <2>2, TreeNumbers DEF ManagedInv, OwnTyped
  <2> QED BY <2>2, <2>3, <2>4 DEF GivenSealed
<1>8. ASSUME NEW x \in SessionIds
      PROVE  \/ session'[x] = session[x]
             \/ x[1] = runner[w].for /\ x[2] = runner[w].token /\ ReviewOK(x)'
  BY <1>4, <1>6, <1>7
<1>9. ASSUME NEW x \in SessionIds, session'[x] # session[x] \/ session[x].by = w
      PROVE  Looked(x)'
  <2>1. CASE x \in S
    <3>1. session'[x].by = w /\ x \in Mine(w)'
      BY <1>2, <1>3, <1>4, <1>6, <2>1 DEF Mine
    <3> QED BY <3>1 DEF Looked
  <2>2. CASE x \notin S
    <3>1. session'[x] = session[x] /\ session[x].by = w
      BY <1>4, <1>9, <2>2
    <3> QED BY <1>1, <1>2, <1>3, <3>1, LookedKept DEF Alive
  <2> QED BY <2>1, <2>2
<1>10. Placed(new)'
  <2>1. new.token \in 1..op'[new.for].attempt /\ new.for \in Operations
    BY <1>1, <1>2 DEF ManagedInv, Placed, NoCall, queueVars
  <2>2. new.phase \in PhasesOf(new.for)
    BY <1>1, <1>2 DEF ManagedInv, Placed
  <2>3. next = "configuration" => next \in Failures
    BY DEF Failures
  <2> QED BY <1>2, <1>3, <2>1, <2>2, <2>3 DEF Placed, AtWork
<1>11. Works(w, new)'
  <2>1. ASSUME new.phase = "review"
        PROVE  /\ \A x \in Group(new.for, new.token, "write") : Finished(x)'
               /\ new.for \in Writes /\ tree'[new.for].state = "sealed"
    <3>1. /\ \A x \in Group(new.for, new.token, "write") : Finished(x)
          /\ new.for \in Writes /\ tree[new.for].state = "sealed"
      BY <1>1, <1>2, <2>1 DEF ManagedInv, Works
    <3>2. Group(new.for, new.token, "write") \subseteq SessionIds
      BY <1>1, <1>2, <3>1, Holding DEF PhasesOf
    <3>3. \A x \in Group(new.for, new.token, "write") : x \notin S
      BY <1>2, <1>6, <2>1, GroupNames
    <3>4. \A x \in Group(new.for, new.token, "write") : session'[x] = session[x]
      BY <1>4, <3>2, <3>3
    <3> QED BY <3>1, <3>4 DEF Finished
  <2>2. ASSUME new.at = "wait"
        PROVE  \A x \in Group(new.for, new.token, new.phase) : session'[x].by = w
    <3>1. Group(new.for, new.token, new.phase) = S /\ S \subseteq SessionIds
      BY <1>1, <1>2, <2>2, Holding
    <3> QED BY <1>4, <3>1
  <2>3. new.at \notin PastWait \cup {"verify", "renew", "sealing", "complete"}
    BY <1>2 DEF PastWait
  <2> QED BY <2>1, <2>2, <2>3 DEF Works
<1>12. Stopped(w)'
  BY <1>2, <1>3 DEF Stopped
<1>13. AtWork(new) => /\ AtWork(runner[w]) /\ new.for = runner[w].for /\ new.token = runner[w].token
  BY <1>1, <1>2
<1>14. halted' \in [Workers -> BOOLEAN] /\ \A v \in Workers : halted[v] => halted'[v]
  BY <1>1
<1> QED BY <1>1, <1>2, <1>5, <1>8, <1>9, <1>10, <1>11, <1>12, <1>13, <1>14, OwnStep

\* _launch_group.
LEMMA LaunchesOK ==
  ASSUME ManagedInv, NEW w \in Workers, Launches(w) \/ LaunchFails(w)
  PROVE  StepOK
<1> DEFINE group == Group(runner[w].for, runner[w].token, runner[w].phase)
<1>1. runner[w].at = "launch" /\ NoCall /\ UNCHANGED <<halted, tree>>
  BY DEF Launches, LaunchFails
<1>2. CASE Launches(w)
  <2>1. ASSUME NEW x \in SessionIds PROVE Started(w, x) = [Started(w, x) EXCEPT !.state = "running"]
    BY StartedTyped DEF Session
  <2>2. session' = [x \in SessionIds |->
                      IF x \in group THEN [Started(w, x) EXCEPT !.state = "running"] ELSE session[x]]
    BY <1>2, <2>1 DEF Launches
  <2>3. Goes(w, "wait", "none")
    BY <1>2 DEF Launches
  <2>4. group \in SUBSET group
    OBVIOUS
  <2> HIDE DEF group
  <2> QED BY <1>1, <2>2, <2>3, <2>4, LaunchStep DEF group
<1>3. CASE LaunchFails(w)
  <2>1. PICK i : session' = [x \in SessionIds |->
                               IF x \in group /\ x[4] < i
                               THEN [Started(w, x) EXCEPT !.state = "stopping"] ELSE session[x]]
    BY <1>3 DEF LaunchFails
  <2>2. PICK S : S = {x \in group : x[4] < i}
    OBVIOUS
  <2>3. session' = [x \in SessionIds |->
                      IF x \in S THEN [Started(w, x) EXCEPT !.state = "stopping"] ELSE session[x]]
    BY <2>1, <2>2
  <2>4. Goes(w, "stop", "configuration") /\ S \in SUBSET group
    BY <1>3, <2>2 DEF LaunchFails
  <2> QED BY <1>1, <2>3, <2>4, LaunchStep
<1> QED BY <1>2, <1>3

-----------------------------------------------------------------------------
(* A thread lets its operation go.                                         *)

\* The thread of w is at no operation any more: it is idle, or it is gone.
LEMMA LeaveStep ==
  ASSUME ManagedInv, NEW w \in Workers, [QueueNext]_queueVars, Quiet, UNCHANGED <<halted, tree>>,
         NEW at \in {"idle", "gone"}, runner' = [runner EXCEPT ![w] = [Idle EXCEPT !.at = at]],
         NEW S \in SUBSET SessionIds,
         \A x \in S : x[1] = runner[w].for /\ x[2] = runner[w].token,
         session' = [x \in SessionIds |-> IF x \in S THEN NoSession ELSE session[x]],
         \/ at = "gone"
         \/ halted[w]
         \/ runner[w].at # "gone" /\ \A x \in Mine(w) : ~Alive(x)
  PROVE  StepOK
<1>1. /\ runner \in [Workers -> RunnerRow] /\ halted \in [Workers -> BOOLEAN]
      /\ session \in [SessionIds -> Session] /\ TreeGoesOn /\ TreesOK'
  BY TreeStays DEF ManagedInv, OwnTyped
<1>2. PICK new : new = [Idle EXCEPT !.at = at]
  OBVIOUS
<1>3. /\ runner' = [runner EXCEPT ![w] = new]
      /\ new = [at |-> at, for |-> "none", token |-> 0, phase |-> "none", next |-> "none", saw |-> Base]
  BY <1>2 DEF Idle
<1>4. new \in RunnerRow
  <2>1. at \in Ats /\ "none" \in Nexts /\ Base \in Contents
    BY ManagedAssumption DEF Ats, Nexts
  <2> QED BY <1>3, <2>1 DEF RunnerRow
<1>5. ~AtWork(new) /\ runner'[w] = new /\ new.at = at
  BY <1>1, <1>3 DEF AtWork
<1>6. session' \in [SessionIds -> Session]
  <2>1. \A x \in SessionIds : session'[x] \in Session
    BY <1>1, NoSessionTyped
  <2> QED BY <2>1
<1>7. ASSUME NEW x \in SessionIds
      PROVE  /\ session'[x] # session[x] =>
                  x \in S /\ session'[x].state = "none"
             /\ session'[x].state # "none" => session'[x] = session[x]
  BY DEF NoSession
<1>8. ASSUME NEW x \in SessionIds
      PROVE  \/ session'[x] = session[x]
             \/ x[1] = runner[w].for /\ x[2] = runner[w].token /\ ReviewOK(x)'
  BY <1>7 DEF ReviewOK
<1>9. ASSUME NEW x \in SessionIds, session'[x] # session[x] \/ session[x].by = w
      PROVE  Looked(x)'
  <2> SUFFICES ASSUME Alive(x)' PROVE Looked(x)'
    BY DEF Looked
  <2>1. session'[x] = session[x] /\ session[x].by = w /\ Alive(x)
    BY <1>7, <1>9 DEF Alive
  <2>2. halted[w] \/ runner[w].at = "gone" \/ x \in Mine(w)
    BY <2>1 DEF ManagedInv, Looked
  <2>3. halted'[w] \/ runner'[w].at = "gone"
    BY <1>5, <2>1, <2>2
  <2> QED BY <2>1, <2>3 DEF Looked
<1>10. Placed(new)' /\ Works(w, new)'
  <2>1. new.at \notin {"stop", "fail", "seal", "sealing", "judge", "verify", "renew", "complete"}
        /\ new.at \notin PastWait \cup {"wait"} /\ new.at \notin PastWait /\ new.token = 0
    BY <1>3 DEF PastWait
  <2>2. Placed(new)'
    BY <1>5, <2>1 DEF Placed, AtWork
  <2>3. Works(w, new)'
    BY <1>5, <2>1 DEF Works, AtWork
  <2> QED BY <2>2, <2>3
<1>11. Stopped(w)'
  BY <1>5 DEF Stopped
<1>12. halted' \in [Workers -> BOOLEAN] /\ \A v \in Workers : halted[v] => halted'[v]
  BY <1>1
<1> QED BY <1>1, <1>3, <1>4, <1>5, <1>6, <1>8, <1>9, <1>10, <1>11, <1>12, OwnStep

\* The process of a runner ends.
LEMMA RunnerDiesOK ==
  ASSUME ManagedInv, NEW w \in Workers, RunnerDies(w)
  PROVE  StepOK
<1>1. [QueueNext]_queueVars /\ Quiet /\ UNCHANGED <<halted, tree>>
  BY NoCallQuiet DEF RunnerDies
<1>2. PICK S : S = {x \in Mine(w) : ~Alive(x)}
  OBVIOUS
<1>3. S \in SUBSET SessionIds /\ \A x \in S : x[1] = runner[w].for /\ x[2] = runner[w].token
  BY <1>2, MineIds
<1>4. session' = [x \in SessionIds |-> IF x \in S THEN NoSession ELSE session[x]]
  BY <1>2 DEF RunnerDies
<1>5. runner' = [runner EXCEPT ![w] = [Idle EXCEPT !.at = "gone"]]
  BY DEF RunnerDies
<1> QED BY <1>1, <1>3, <1>4, <1>5, LeaveStep

\* _run_claim returns.
LEMMA EndsOK ==
  ASSUME ManagedInv, NEW w \in Workers, [QueueNext]_queueVars, Quiet, Ends(w),
         runner[w].at \in {"fail", "acknowledge", "lost"}
  PROVE  StepOK
<1>1. PICK S : S = {x \in SessionIds : x[1] = runner[w].for /\ x[2] = runner[w].token /\ ~Alive(x)}
  OBVIOUS
<1>2. S \in SUBSET SessionIds /\ \A x \in S : x[1] = runner[w].for /\ x[2] = runner[w].token
  BY <1>1
<1>3. session' = [x \in SessionIds |-> IF x \in S THEN NoSession ELSE session[x]]
  BY <1>1 DEF Ends
<1>4. Idle = [Idle EXCEPT !.at = "idle"]
  BY DEF Idle
<1>5. runner' = [runner EXCEPT ![w] = [Idle EXCEPT !.at = "idle"]] /\ UNCHANGED <<halted, tree>>
  BY <1>4 DEF Ends
<1>6. halted[w] \/ (runner[w].at # "gone" /\ \A x \in Mine(w) : ~Alive(x))
  BY DEF ManagedInv, Stopped
<1> QED BY <1>2, <1>3, <1>5, <1>6, LeaveStep

\* The three ways to give an operation up.
LEMMA GivesUpOK ==
  ASSUME ManagedInv, NEW w \in Workers, NEW age \in Int,
         Acknowledges(w, age) \/ GivesUpLease(w, age) \/ FailsClaim(w, age)
  PROVE  StepOK
<1>1. /\ runner[w].at \in {"fail", "acknowledge", "lost"} /\ AtWork(runner[w]) /\ Ends(w)
      /\ "none" \in Outcomes /\ 0 \in {0, RetryDelay}
  BY DEF Acknowledges, GivesUpLease, FailsClaim, AtWork, Outcomes
<1>2. CASE Reconcile(age)
  BY <1>1, <1>2, HolderCalls, EndsOK
<1>3. CASE AcknowledgeCancel(w, runner[w].for, runner[w].token, age)
  BY <1>1, <1>3, HolderCalls, EndsOK
<1>4. CASE FailsClaim(w, age) /\ ~Reconcile(age)
  <2>1. PICK class, delay : /\ class = runner[w].next
                            /\ delay = IF class = "provider" THEN RetryDelay ELSE 0
    OBVIOUS
  <2>2. Fail(w, runner[w].for, runner[w].token, class, delay, TRUE, age)
    BY <1>4, <2>1 DEF FailsClaim
  <2>3. class \in Outcomes /\ delay \in {0, RetryDelay}
    BY <1>4, <2>1 DEF FailsClaim, ManagedInv, Placed
  <2> QED BY <1>1, <2>2, <2>3, HolderCalls, EndsOK
<1> QED BY <1>2, <1>3, <1>4 DEF Acknowledges, GivesUpLease

\* Where a thread completes, the work of its attempt is done.
LEMMA WorkDone ==
  ASSUME ManagedInv, NEW w \in Workers, runner[w].at = "complete"
  PROVE  Earned(runner[w].for, runner[w].token)
<1> DEFINE o == runner[w].for
           k == runner[w].token
<1>1. /\ AtWork(runner[w]) /\ runner[w].at \in PastWait /\ Placed(runner[w]) /\ Works(w, runner[w])
  BY DEF AtWork, PastWait, ManagedInv
<1>2. runner[w].phase \in PhasesOf(o) /\ runner[w].phase # "write"
  BY <1>1 DEF Placed
<1>3. /\ \A x \in Group(o, k, runner[w].phase) : Finished(x)
      /\ Convinced(o, k, runner[w].phase)
  BY <1>1 DEF Works
<1>4. CASE o \in Writes
  <2>1. runner[w].phase = "review" /\ PhasesOf(o) = {"write", "review"}
    BY <1>2, <1>4 DEF PhasesOf
  <2>2. (\A x \in Group(o, k, "write") : Finished(x)) /\ tree[o].state = "sealed"
    BY <1>1, <2>1 DEF Works
  <2>3. Convinced(o, k, "write")
    BY <1>4, ManagedAssumption DEF Convinced
  <2> QED BY <1>3, <2>1, <2>2, <2>3 DEF Earned
<1>5. CASE o \notin Writes
  <2>1. runner[w].phase = "observe" /\ PhasesOf(o) = {"observe"}
    BY <1>2, <1>5 DEF PhasesOf
  <2> QED BY <1>3, <2>1 DEF Earned
<1> QED BY <1>4, <1>5

\* A success: the attempt is done, and nobody works on it any more.
LEMMA CompletesOK ==
  ASSUME ManagedInv, NEW w \in Workers, NEW age \in Int, Completes(w, age)
  PROVE  StepOK
<1> DEFINE o == runner[w].for
           k == runner[w].token
<1>1. /\ runner[w].at = "complete" /\ runner[w].at \in PastWait /\ AtWork(runner[w])
      /\ UNCHANGED <<halted, session, tree>> /\ Placed(runner[w])
      /\ runner \in [Workers -> RunnerRow] /\ runner[w] \in RunnerRow
  BY DEF Completes, PastWait, AtWork, ManagedInv, OwnTyped
<1>2. CASE NoCall /\ Goes(w, "fail", "queue-state")
  BY <1>1, <1>2, NoCallQuiet, FailsOn
<1>3. ASSUME Complete(w, o, k, age), runner' = [runner EXCEPT ![w] = Idle]
      PROVE  StepOK
  <2>1. o \in Operations /\ k \in Nat /\ k \in 1..op[o].attempt
    BY <1>1 DEF Placed, RunnerRow
  <2>2. [QueueNext]_queueVars
    <3>1. WorkerCall(w, o, age)
      BY <1>3, <2>1, Zenon DEF WorkerCall
    <3> QED BY <2>1, <3>1, WorkerCalls
  <2>3. QueueInv /\ QueueInv'
    BY <2>2, QueueSide
  <2>4. /\ k = op[o].attempt /\ op'[o].attempt = k /\ op'[o].status = "succeeded"
        /\ \A p \in Operations : p # o => Calm(op[p], op'[p])
    BY <1>3, <2>1, <2>3, CompleteSucceeds
  <2>5. k # 0 /\ k \in 1..MaxAttempts[o] /\ \A p \in Operations : op[p].attempt <= op'[p].attempt
    BY <2>1, <2>3, <2>4, Attempts DEF Calm
  <2>6. runner'[w] = Idle /\ \A v \in Workers : v # w => runner'[v] = runner[v]
    BY <1>1, <1>3
  <2>7. ~AtWork(Idle) /\ Idle \in RunnerRow /\ Idle.at = "idle" /\ Idle.token = 0
    <3>1. Base \in Contents
      BY ManagedAssumption
    <3> QED BY <3>1 DEF Idle, AtWork, RunnerRow, Ats, Nexts
  <2>8. OwnTyped'
    BY <1>1, <1>3, <2>7 DEF ManagedInv, OwnTyped
  <2>9. TreeGoesOn /\ TreesOK'
    BY <1>1, TreeStays
  <2>10. Untried'
    <3>1. ASSUME NEW p \in Operations, op'[p].status = "absent" PROVE op'[p].attempt = 0
      <4>1. Calm(op[p], op'[p])
        BY <2>4, <3>1
      <4> QED BY <3>1, <4>1 DEF Calm, ManagedInv, Untried
    <3> QED BY <3>1 DEF Untried
  <2>11. NoneTakesUp
    BY <2>6, <2>7 DEF NoneTakesUp
  <2>12. Rewarded'
    <3> SUFFICES ASSUME NEW p \in Operations, op'[p].status = "succeeded"
                 PROVE  /\ op'[p].attempt # 0 /\ Earned(p, op[p].attempt)'
                        /\ \A v \in Workers : AtWork(runner'[v]) =>
                             runner'[v].for # p \/ runner'[v].token # op'[p].attempt
      BY DEF Rewarded
    <3>1. PICK n : n = op[p].attempt /\ n = op'[p].attempt
      BY <2>4 DEF Calm
    <3>2. /\ n # 0 /\ Earned(p, n)
          /\ \A v \in Workers : (v # w /\ AtWork(runner[v])) => runner[v].for # p \/ runner[v].token # n
      <4>1. CASE p = o
        <5>1. n = k /\ Earned(o, k)
          BY <1>1, <2>4, <3>1, <4>1, WorkDone
        <5>2. ASSUME NEW v \in Workers, v # w, AtWork(runner[v])
              PROVE  runner[v].for # o \/ runner[v].token # k
          BY <1>1, <5>2 DEF ManagedInv, Alone
        <5> QED BY <2>5, <4>1, <5>1, <5>2
      <4>2. CASE p # o
        <5>1. op[p].status = "succeeded"
          BY <2>4, <4>2 DEF Calm
        <5> QED BY <3>1, <5>1 DEF ManagedInv, Rewarded
      <4> QED BY <4>1, <4>2
    <3>3. n \in 1..MaxAttempts[p]
      <4>1. n \in Nat /\ MaxAttempts[p] \in Nat /\ n <= MaxAttempts[p]
        BY <2>3, <3>1, Attempts
      <4> QED BY <3>2, <4>1
    <3>4. Earned(p, n)'
      BY <1>1, <2>9, <3>2, <3>3, EarnedKept DEF ManagedInv
    <3>5. Earned(p, op[p].attempt)'
      BY <3>1, <3>4
    <3>6. \A v \in Workers : AtWork(runner'[v]) => runner'[v].for # p \/ runner'[v].token # n
      BY <2>6, <2>7, <3>2
    <3> QED BY <3>1, <3>2, <3>5, <3>6
  <2>13. ASSUME NEW v \in Workers
         PROVE  (Placed(runner[v]) /\ Works(v, runner[v]) /\ Stopped(v))'
    <3>1. CASE v # w
      BY <1>1, <2>3, <2>5, <2>6, <2>9, <3>1, OthersStand
    <3>2. CASE v = w
      <4>1. Placed(Idle)'
        BY <2>7 DEF Placed, AtWork
      <4>2. Works(w, Idle)'
        BY <2>7 DEF Works, AtWork, PastWait
      <4>3. Stopped(w)'
        BY <2>6, <2>7 DEF Stopped
      <4> QED BY <2>6, <3>2, <4>1, <4>2, <4>3
    <3> QED BY <3>1, <3>2
  <2>14. ASSUME NEW x \in SessionIds
         PROVE  ReviewOK(x)' /\ Looked(x)'
    <3>1. ReviewOK(x)'
      BY <1>1, <2>9, ReviewKept
    <3>2. Looked(x)'
      <4> SUFFICES ASSUME Alive(x) PROVE Looked(x)'
        BY <1>1 DEF Looked, Alive
      <4>1. PICK v : v = session[x].by /\ v = session'[x].by
        BY <1>1
      <4>2. v \in Workers /\ (halted[v] \/ runner[v].at = "gone" \/ x \in Mine(v))
        BY <4>1 DEF ManagedInv, Looked
      <4>3. CASE v = w
        <5>1. x \notin Mine(w) /\ runner[w].at # "gone"
          BY <1>1, PastTheWait
        <5> QED BY <1>1, <4>1, <4>2, <4>3, <5>1 DEF Looked
      <4>4. CASE v # w
        <5>1. runner'[v] = runner[v] /\ halted'[v] = halted[v]
          BY <1>1, <2>6, <4>2, <4>4
        <5>2. x \in Mine(v) => x \in Mine(v)'
          BY <1>1, <5>1 DEF Mine
        <5> QED BY <4>1, <4>2, <5>1, <5>2 DEF Looked
      <4> QED BY <4>3, <4>4
    <3> QED BY <3>1, <3>2
  <2> QED BY <2>2, <2>3, <2>8, <2>9, <2>10, <2>11, <2>12, <2>13, <2>14, AloneKept DEF StepOK, ManagedInv
<1> QED BY <1>1, <1>2, <1>3 DEF Completes

-----------------------------------------------------------------------------
(* The theorems.                                                           *)

\* Every step keeps the invariant, and is a step of the queue or none.
LEMMA ManagedStep ==
  ASSUME ManagedInv, [ManagedNext]_managedVars
  PROVE  StepOK
<1>1. ASSUME NEW w \in Workers, RunnerStep(w)
      PROVE  StepOK
  <2>1. CASE Launches(w) \/ LaunchFails(w)
    BY <2>1, LaunchesOK
  <2>2. CASE WaitIsOver(w) \/ WaitBeats(w)
    BY <2>2, WaitIsOverOK, WaitBeatsOK
  <2>3. CASE StopGivesUp(w) \/ StopSucceeds(w)
    BY <2>3, StopsOK
  <2>4. CASE ReadsTree(w) \/ Seals(w) \/ Verifies(w) \/ GovernanceFails(w) \/ Judges(w)
    BY <2>4, ReadsTreeOK, SealsOK, VerifiesOK, GovernanceFailsOK, JudgesOK
  <2>5. ASSUME NEW age \in Ages,
               \/ Acknowledges(w, age) \/ GivesUpLease(w, age) \/ FailsClaim(w, age)
               \/ Renews(w, age) \/ Completes(w, age)
        PROVE  StepOK
    BY <2>5, AgesAreIntegers, GivesUpOK, RenewsOK, CompletesOK
  <2> QED BY <1>1, <2>1, <2>2, <2>3, <2>4, <2>5 DEF RunnerStep
<1>2. ASSUME NEW w \in Workers,
             \/ RunnerMaterializes(w) \/ RunnerReconciles(w) \/ RunnerPolls(w)
             \/ \E o \in Operations : RunnerClaims(w, o)
             \/ Closes(w) \/ RunnerDies(w)
      PROVE  StepOK
  BY <1>2, RunnerMaterializesOK, RunnerClaimsOK, ClosesOK, RunnerDiesOK
<1>3. CASE OperatorCalls \/ Tick
  BY <1>3, OperatorCallsOK, TickOK
<1>4. ASSUME NEW o \in Writes, CreateWorktree(o) \/ WorktreeChanges(o)
      PROVE  StepOK
  BY <1>4, WorktreeOK
<1>5. ASSUME NEW x \in SessionIds, OperatorStopsSession(x) \/ SessionExits(x) \/ SessionDies(x)
      PROVE  StepOK
  BY <1>5, SessionsOK
<1>6. CASE UNCHANGED managedVars
  <2>1. NoCall /\ UNCHANGED ownVars
    BY <1>6 DEF managedVars, ownVars, NoCall, queueVars
  <2> QED BY <2>1, NoCallQuiet, QueueOnly
<1>7. CASE ManagedNext
  BY <1>1, <1>2, <1>3, <1>4, <1>5, <1>7, Zenon DEF ManagedNext
<1> QED BY <1>6, <1>7

\* The initial states.
LEMMA ManagedStart ==
  ASSUME ManagedInit
  PROVE  ManagedInv
<1>1. QueueInv
  BY QueueStart DEF ManagedInit
<1>2. PICK left \in SUBSET Legacy :
        op = [o \in Operations |-> IF o \in left THEN [NoRow EXCEPT !.status = "retry", !.attempt = 1]
                                                  ELSE NoRow]
  BY DEF ManagedInit, QueueInit
<1>3. ASSUME NEW o \in Operations
      PROVE  (op[o].status = "absent" => op[o].attempt = 0) /\ op[o].status # "succeeded"
  <2>1. NoRow.status = "absent" /\ NoRow.attempt = 0
        /\ [NoRow EXCEPT !.status = "retry", !.attempt = 1].status = "retry"
    BY DEF NoRow
  <2>2. op[o] = NoRow \/ op[o] = [NoRow EXCEPT !.status = "retry", !.attempt = 1]
    BY <1>2
  <2> QED BY <2>1, <2>2
<1>4. Untried /\ Rewarded
  BY <1>3 DEF Untried, Rewarded
<1>5. 0 \in 0..MaxEdits /\ Base \in Contents
  BY ManagedAssumption
<1>6. Idle \in RunnerRow /\ Idle.at = "idle" /\ Idle.token = 0 /\ ~AtWork(Idle)
  BY <1>5 DEF Idle, RunnerRow, Ats, Nexts, AtWork
<1>7. /\ \A w \in Workers : runner[w] = Idle
      /\ \A x \in SessionIds : session[x] = NoSession
      /\ \A o \in Writes : tree[o].restored = 0 /\ tree[o].edits = 0
  BY DEF ManagedInit, NoTree
<1>8. OwnTyped
  <2>1. tree \in [Writes -> Tree]
    BY <1>5 DEF ManagedInit, Tree, NoTree
  <2>2. session \in [SessionIds -> Session] /\ halted \in [Workers -> BOOLEAN]
    BY NoSessionTyped DEF ManagedInit
  <2>3. runner \in [Workers -> RunnerRow]
    BY <1>6 DEF ManagedInit
  <2> QED BY <2>1, <2>2, <2>3 DEF OwnTyped
<1>9. ASSUME NEW w \in Workers
      PROVE  Placed(runner[w]) /\ Works(w, runner[w]) /\ Stopped(w)
  <2>1. Placed(Idle)
    BY <1>6 DEF Placed
  <2>2. Works(w, Idle)
    BY <1>6 DEF Works, PastWait
  <2>3. Stopped(w)
    BY <1>6, <1>7 DEF Stopped
  <2> QED BY <1>7, <2>1, <2>2, <2>3
<1>10. Alone /\ TreesOK
  BY <1>6, <1>7 DEF Alone, TreesOK
<1>11. ASSUME NEW x \in SessionIds
       PROVE  ReviewOK(x) /\ Looked(x)
  <2>1. session[x].state = "none"
    BY <1>7 DEF NoSession
  <2> QED BY <2>1 DEF ReviewOK, Looked, Alive
<1> QED BY <1>1, <1>4, <1>8, <1>9, <1>10, <1>11 DEF ManagedInv

\* ManagedInv holds in every reachable state of the runners, their agent
\* processes and the queue.
THEOREM ManagedInvariant == ManagedSpec => []ManagedInv
<1>1. ManagedInit => ManagedInv
  BY ManagedStart
<1>2. ManagedInv /\ [ManagedNext]_managedVars => ManagedInv'
  BY ManagedStep DEF StepOK
<1> QED BY <1>1, <1>2, PTL DEF ManagedSpec

\* The variables of the queue, of the runners, of the agent processes and of
\* the worktrees keep their types.
THEOREM ManagedTypes == ManagedSpec => []ManagedTypeOK
<1>1. ManagedInv => ManagedTypeOK
  <2> SUFFICES ASSUME ManagedInv PROVE ManagedTypeOK
    OBVIOUS
  <2>1. QueueTypeOK
    BY DEF ManagedInv, QueueInv, QueueTypeOK, RowOK
  <2>2. \A w \in Workers : runner[w].token \in Nat /\ runner[w].saw \in Contents
    BY DEF ManagedInv, OwnTyped, RunnerRow
  <2> QED BY <2>1, <2>2 DEF ManagedInv, OwnTyped, ManagedTypeOK
<1> QED BY <1>1, ManagedInvariant, PTL

\* Whatever the runners, the operator and the verification engine do, and
\* whenever one of them ends, the queue they share stays the job board it
\* promises to be: a runner never calls it in a way it does not allow.
THEOREM ManagedImplementsJobBoard == ManagedSpec => ImplementsJobBoard
<1>1. ManagedInit => Board!Init
  BY QueueStart DEF ManagedInit
<1>2. ManagedInv /\ [ManagedNext]_managedVars => [Board!Next]_([o \in Operations |-> StageOf(op[o])])
  BY ManagedStep, QueueStep, BoardNext DEF StepOK, ManagedInv, Kept
<1> QED BY <1>1, <1>2, ManagedInvariant, PTL DEF ManagedSpec, ImplementsJobBoard, Board!Spec

\* An operation succeeds only with all sessions of its last attempt finished,
\* a release gate only with the approval of each reviewer, and an
\* implementation only when its reviewer was launched on exactly what was
\* sealed, or the worktree was put back to that while the review went on.
THEOREM SuccessEarned == ManagedSpec => []SuccessIsEarned
<1>1. ManagedInv => SuccessIsEarned
  <2> SUFFICES ASSUME ManagedInv, NEW o \in Operations, op[o].status = "succeeded",
                      NEW phase \in PhasesOf(o), NEW x \in Group(o, op[o].attempt, phase)
               PROVE  /\ session[x].state = "completed" /\ session[x].done
                      /\ o \in Gates => session[x].verdict = "approve"
                      /\ phase = "review" =>
                           tree[o].state = "sealed" /\ GivenSealed(session[x], tree[o])
    BY DEF SuccessIsEarned
  <2>1. Earned(o, op[o].attempt)
    BY DEF ManagedInv, Rewarded
  <2>2. Finished(x) /\ Convinced(o, op[o].attempt, phase)
        /\ (phase = "review" => tree[o].state = "sealed")
    BY <2>1 DEF Earned
  <2> QED BY <2>2 DEF Finished, Convinced
<1> QED BY <1>1, ManagedInvariant, PTL

\* A runner that still dispatches has no process of an earlier phase, attempt
\* or operation running.
THEOREM NothingLeft == ManagedSpec => []NothingLeftRunning
<1>1. ManagedInv => NothingLeftRunning
  BY DEF ManagedInv, Looked, NothingLeftRunning
<1> QED BY <1>1, ManagedInvariant, PTL

=============================================================================
