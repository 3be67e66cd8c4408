-------------------------- MODULE TaskBoardProofs ---------------------------
(***************************************************************************)
(* Proofs about the task table (TaskLease.tla) and the board around it     *)
(* (TaskBoard.tla), for every set of agents, sessions, scopes, files and   *)
(* plans.  Of the table: leases exclude each other and what TaskLease      *)
(* promises.  Of the board: it takes only steps of the table, so that the  *)
(* theorems of the first part hold of it; what record_proof records is     *)
(* true; and complete_task closes a task only over live proofs and         *)
(* standing approvals, although it hashed the files and read the reviews   *)
(* before the transaction that closes it.                                  *)
(***************************************************************************)
EXTENDS TaskBoard, TLAPS, FiniteSetTheorems, SequenceTheorems

(***************************************************************************)
(* The task table.  The inductive invariant IInv is TypeOK, WriterExclusion *)
(* and the fact that a claimed row carries a declared plan; the last is    *)
(* what makes NoPlan mean "no grant" in the refinement mapping.            *)
(***************************************************************************)
\* A claimed row holds the plan of the claim_task call that wrote it.
ClaimedHasPlan == \A t \in Tasks : tasks[t].status = "claimed" => tasks[t].plan \in Plans

IInv == TypeOK /\ ClaimedHasPlan /\ WriterExclusion

-----------------------------------------------------------------------------

\* Conflict does not depend on who asked first, so claim_task need only check
\* the new plan against the old ones.
LEMMA ConflictSymmetric ==
  ASSUME NEW p, NEW q, PlansConflict(p, q)
  PROVE  PlansConflict(q, p)
  <1>1. \A a, b : Overlaps(a, b) => Overlaps(b, a)
    BY DEF Overlaps
  <1>2. CASE \E a \in p.write, b \in q.write \cup q.read : Overlaps(a, b)
    BY <1>1, <1>2 DEF PlansConflict
  <1>3. CASE \E a \in p.read, b \in q.write : Overlaps(a, b)
    BY <1>1, <1>3 DEF PlansConflict
  <1>4. QED
    BY <1>2, <1>3 DEF PlansConflict

\* Vacating a row clears the lease columns and nothing else.
LEMMA UnclaimedRow ==
  ASSUME NEW row \in TaskRow, NEW status \in Status
  PROVE  /\ Unclaimed(row, status) \in TaskRow
         /\ Unclaimed(row, status).status = status
         /\ Unclaimed(row, status).plan = row.plan
         /\ Unclaimed(row, status).revision = row.revision
  BY DEF TaskRow, Unclaimed

\* _expire_leases keeps every row well typed, touches no live lease and creates
\* none.
LEMMA SweepKeepsLive ==
  ASSUME TypeOK, NEW scope
  PROVE  /\ Swept(scope) \in [Tasks -> TaskRow]
         /\ \A t \in Tasks :
               /\ Swept(scope)[t].plan = tasks[t].plan
               /\ Swept(scope)[t].revision = tasks[t].revision
               /\ Live(t) => Swept(scope)[t] = tasks[t]
               /\ Swept(scope)[t].status \in {"claimed", "complete"}
                     => Swept(scope)[t] = tasks[t]
               /\ tasks[t].status = "complete" => Swept(scope)[t] = tasks[t]
  <1>1. \A t \in Tasks : tasks[t] \in TaskRow
    BY DEF TypeOK
  <1>2. \A row \in TaskRow : /\ Unclaimed(row, "open") \in TaskRow
                             /\ Unclaimed(row, "open").plan = row.plan
                             /\ Unclaimed(row, "open").revision = row.revision
                             /\ Unclaimed(row, "open").status = "open"
    BY UnclaimedRow DEF Status
  <1>3. \A t \in Tasks : Swept(scope)[t] =
          IF TaskScope[t] = scope /\ tasks[t].status = "claimed" /\ tasks[t].left <= 0
          THEN Unclaimed(tasks[t], "open") ELSE tasks[t]
    BY DEF Swept
  <1>4. Swept(scope) \in [Tasks -> TaskRow]
    BY <1>1, <1>2 DEF Swept
  <1>5. \A t \in Tasks : tasks[t].left > 0 => ~(tasks[t].left <= 0)
    BY <1>1 DEF TaskRow
  <1>6. ASSUME NEW t \in Tasks
        PROVE  /\ Swept(scope)[t].plan = tasks[t].plan
               /\ Swept(scope)[t].revision = tasks[t].revision
               /\ Live(t) => Swept(scope)[t] = tasks[t]
               /\ Swept(scope)[t].status \in {"claimed", "complete"}
                     => Swept(scope)[t] = tasks[t]
               /\ tasks[t].status = "complete" => Swept(scope)[t] = tasks[t]
    <2>1. CASE TaskScope[t] = scope /\ tasks[t].status = "claimed" /\ tasks[t].left <= 0
      BY <1>1, <1>2, <1>3, <1>5, <2>1 DEF Live
    <2>2. CASE ~(TaskScope[t] = scope /\ tasks[t].status = "claimed" /\ tasks[t].left <= 0)
      BY <1>3, <2>2
    <2> QED BY <2>1, <2>2
  <1> QED BY <1>4, <1>6

-----------------------------------------------------------------------------
\* The row of a table is rewritten by the handlers below; each lemma says what
\* one of them does to the rows, so that the invariants need not look inside.

LEMMA ClaimEffect ==
  ASSUME TypeOK, NEW s \in Sessions, NEW t \in Tasks, NEW plan \in Plans,
         NEW secs \in LeaseLengths, NEW d \in 0..LockWait,
         ClaimTask(s, t, plan, secs, d)
  PROVE  /\ tasks' \in [Tasks -> TaskRow]
         /\ issued' = issued + 1 /\ crashed' = crashed
         /\ ~Live(t) /\ tasks[t].status # "complete"
         /\ tasks'[t].status = "claimed" /\ tasks'[t].plan = plan
         /\ tasks'[t].token = issued + 1 /\ tasks'[t].left > 0
         /\ \A u \in Tasks \ {t} : tasks'[u] = Swept(ScopeOf[s])[u]
         /\ \A u \in Tasks \ {t} : Live(u) => ~PlansConflict(plan, tasks[u].plan)
  <1> DEFINE board == Swept(ScopeOf[s])
  <1>1. /\ board \in [Tasks -> TaskRow]
        /\ \A u \in Tasks : Live(u) => board[u] = tasks[u]
        /\ tasks[t].status = "complete" => board[t] = tasks[t]
    BY SweepKeepsLive
  <1>2. /\ board[t].status \in {"absent", "open", "blocked"}
        /\ \A u \in Tasks \ {t} :
              board[u].status = "claimed" /\ board[u].left + d > 0
                => ~PlansConflict(plan, board[u].plan)
        /\ issued' = issued + 1
        /\ tasks' = [board EXCEPT ![t] =
                       [status |-> "claimed", holder |-> s, token |-> issued + 1,
                        left |-> secs - d, plan |-> plan,
                        revision |-> NextRevision(board[t], plan)]]
        /\ crashed' = crashed
    BY DEF ClaimTask, Claimable, Active
  <1>3. secs \in Nat /\ d \in Nat /\ secs - d \in Int /\ secs - d > 0
    BY LeaseAssumption
  <1>4. NextRevision(board[t], plan) \in Nat
    BY <1>1 DEF NextRevision, TaskRow
  <1>5. ~Live(t) /\ tasks[t].status # "complete"
    BY <1>1, <1>2 DEF Live
  <1>6. tasks'[t] = [status |-> "claimed", holder |-> s, token |-> issued + 1,
                     left |-> secs - d, plan |-> plan,
                     revision |-> NextRevision(board[t], plan)]
    BY <1>1, <1>2
  <1>7. [status |-> "claimed", holder |-> s, token |-> issued + 1, left |-> secs - d,
         plan |-> plan, revision |-> NextRevision(board[t], plan)] \in TaskRow
    BY <1>3, <1>4 DEF TaskRow, Status, TypeOK
  <1>8. tasks' \in [Tasks -> TaskRow]
    BY <1>1, <1>2, <1>7
  <1>9. \A u \in Tasks \ {t} : Live(u) => ~PlansConflict(plan, tasks[u].plan)
    <2> TAKE u \in Tasks \ {t}
    <2> HAVE Live(u)
    <2>1. board[u] = tasks[u] /\ tasks[u].left \in Int
      BY <1>1 DEF TypeOK, TaskRow
    <2>2. board[u].status = "claimed" /\ board[u].left + d > 0
      BY <2>1, <1>3 DEF Live
    <2> QED BY <1>2, <2>1, <2>2
  <1>10. \A u \in Tasks \ {t} : tasks'[u] = board[u]
    BY <1>1, <1>2
  <1> QED BY <1>2, <1>3, <1>5, <1>6, <1>8, <1>9, <1>10

LEMMA RenewEffect ==
  ASSUME TypeOK, NEW s \in Sessions, NEW t \in Tasks, NEW k, NEW secs \in LeaseLengths,
         RenewTask(s, t, k, secs)
  PROVE  /\ tasks' \in [Tasks -> TaskRow]
         /\ issued' = issued /\ crashed' = crashed
         /\ Live(t) /\ Live(t)'
         /\ tasks'[t].plan = tasks[t].plan /\ tasks'[t].token = tasks[t].token
         /\ tasks'[t].status = "claimed" /\ tasks'[t].revision = tasks[t].revision
         /\ \A u \in Tasks \ {t} : tasks'[u] = tasks[u]
  <1>1. secs \in Int /\ secs > 0
    BY LeaseAssumption
  <1> QED
    BY <1>1 DEF TypeOK, TaskRow, RenewTask, HoldsLease, Live

\* release_task and the last transaction of complete_task.
LEMMA VacateEffect ==
  ASSUME TypeOK, NEW s \in Sessions, NEW t \in Tasks, NEW k,
         NEW status \in {"open", "blocked", "complete"},
         HoldsLease(s, t, k),
         tasks' = [tasks EXCEPT ![t] = Unclaimed(@, status)]
  PROVE  /\ tasks' \in [Tasks -> TaskRow]
         /\ Live(t)
         /\ tasks'[t].status = status /\ tasks'[t].plan = tasks[t].plan
         /\ tasks'[t].revision = tasks[t].revision
         /\ \A u \in Tasks \ {t} : tasks'[u] = tasks[u]
  <1>1. tasks[t] \in TaskRow /\ status \in Status
    BY DEF TypeOK, Status
  <1>2. tasks'[t] = Unclaimed(tasks[t], status)
    BY DEF TypeOK
  <1> QED BY <1>1, <1>2, UnclaimedRow DEF TypeOK, HoldsLease, Live

LEMMA TickEffect ==
  ASSUME TypeOK, Tick
  PROVE  /\ tasks' \in [Tasks -> TaskRow]
         /\ issued' = issued /\ crashed' = crashed
         /\ \A t \in Tasks : /\ tasks'[t].status = tasks[t].status
                             /\ tasks'[t].plan = tasks[t].plan
                             /\ tasks'[t].token = tasks[t].token
                             /\ tasks'[t].revision = tasks[t].revision
                             /\ Live(t)' => Live(t)
  <1>1. /\ issued' = issued /\ crashed' = crashed
        /\ tasks' = [t \in Tasks |->
                       IF tasks[t].status = "claimed" /\ tasks[t].left > -LockWait
                       THEN [tasks[t] EXCEPT !.left = @ - 1]
                       ELSE tasks[t]]
    BY DEF Tick, Aged
  <1>2. \A t \in Tasks : tasks[t] \in TaskRow /\ tasks[t].left \in Int
    BY DEF TypeOK, TaskRow
  <1>3. \A t \in Tasks : [tasks[t] EXCEPT !.left = @ - 1] \in TaskRow
    BY <1>2 DEF TaskRow
  <1>4. tasks' \in [Tasks -> TaskRow]
    BY <1>1, <1>2, <1>3
  <1>5. ASSUME NEW t \in Tasks
        PROVE  /\ tasks'[t].status = tasks[t].status
               /\ tasks'[t].plan = tasks[t].plan
               /\ tasks'[t].token = tasks[t].token
               /\ tasks'[t].revision = tasks[t].revision
               /\ Live(t)' => Live(t)
    <2>1. CASE tasks'[t] = tasks[t]
      BY <2>1 DEF Live
    <2>2. CASE tasks'[t] = [tasks[t] EXCEPT !.left = @ - 1]
      BY <1>2, <2>2 DEF Live, TaskRow
    <2> QED BY <1>1, <2>1, <2>2
  <1> QED BY <1>1, <1>4, <1>5

-----------------------------------------------------------------------------
\* What a step of [Next]_leaseVars can be.
LEMMA StepCases ==
  ASSUME [Next]_leaseVars
  PROVE  \/ \E s \in Running, t \in Tasks, plan \in Plans, secs \in LeaseLengths,
               d \in 0..LockWait : ClaimTask(s, t, plan, secs, d)
         \/ \E s \in Running, t \in Tasks, k \in 1..issued, secs \in LeaseLengths :
               RenewTask(s, t, k, secs)
         \/ \E s \in Running, t \in Tasks, k \in 1..issued,
               status \in {"open", "blocked"} : ReleaseTask(s, t, k, status)
         \/ \E s \in Running, t \in Tasks, k \in 1..issued : CloseTask(s, t, k)
         \/ \E s \in Running : Workboard(s)
         \/ \E s \in Running : Crash(s)
         \/ Tick
         \/ UNCHANGED leaseVars
  BY DEF Next, SessionStep

LEMMA InitIInv == Init => IInv
  BY SessionAssumption
     DEF Init, IInv, TypeOK, TaskRow, Status, NoRow, ClaimedHasPlan, WriterExclusion, Live

\* Every handler keeps the inductive invariant.
LEMMA NextIInv == IInv /\ [Next]_leaseVars => IInv'
  <1> SUFFICES ASSUME IInv, [Next]_leaseVars PROVE IInv'
    OBVIOUS
  <1> USE DEF IInv
  <1>1. ASSUME NEW s \in Running, NEW t \in Tasks, NEW plan \in Plans,
               NEW secs \in LeaseLengths, NEW d \in 0..LockWait,
               ClaimTask(s, t, plan, secs, d)
        PROVE  IInv'
    <2>1. s \in Sessions
      BY DEF Running
    <2>2. /\ tasks' \in [Tasks -> TaskRow]
          /\ issued' = issued + 1 /\ crashed' = crashed
          /\ tasks'[t].status = "claimed" /\ tasks'[t].plan = plan
          /\ \A u \in Tasks \ {t} : tasks'[u] = Swept(ScopeOf[s])[u]
          /\ \A u \in Tasks \ {t} : Live(u) => ~PlansConflict(plan, tasks[u].plan)
      BY <1>1, <2>1, ClaimEffect
    <2>3. \A u \in Tasks \ {t} : tasks'[u].status = "claimed" => tasks'[u] = tasks[u]
      BY <2>2, SweepKeepsLive
    <2>4. TypeOK'
      BY <2>2 DEF TypeOK
    <2>5. ClaimedHasPlan'
      BY <2>2, <2>3 DEF ClaimedHasPlan
    <2>6. WriterExclusion'
      <3> SUFFICES ASSUME NEW u \in Tasks, NEW v \in Tasks, u # v, Live(u)', Live(v)'
                   PROVE  ~PlansConflict(tasks'[u].plan, tasks'[v].plan)
        BY DEF WriterExclusion
      <3>1. \A w \in Tasks \ {t} : Live(w)' => tasks'[w] = tasks[w] /\ Live(w)
        BY <2>3 DEF Live
      <3>2. CASE u = t
        BY <2>2, <3>1, <3>2
      <3>3. CASE v = t
        BY <2>2, <3>1, <3>3, ConflictSymmetric
      <3>4. CASE u # t /\ v # t
        BY <3>1, <3>4 DEF WriterExclusion
      <3> QED BY <3>2, <3>3, <3>4
    <2> QED BY <2>4, <2>5, <2>6
  <1>2. ASSUME NEW s \in Running, NEW t \in Tasks, NEW k \in 1..issued,
               NEW secs \in LeaseLengths, RenewTask(s, t, k, secs)
        PROVE  IInv'
    <2>1. /\ tasks' \in [Tasks -> TaskRow]
          /\ issued' = issued /\ crashed' = crashed
          /\ Live(t) /\ tasks'[t].plan = tasks[t].plan
          /\ \A u \in Tasks \ {t} : tasks'[u] = tasks[u]
      BY <1>2, RenewEffect DEF Running
    <2>2. \A u \in Tasks : tasks'[u].plan = tasks[u].plan /\ (Live(u)' => Live(u))
      BY <2>1 DEF Live
    <2>3. TypeOK' /\ WriterExclusion'
      BY <2>1, <2>2 DEF TypeOK, WriterExclusion
    <2>4. ClaimedHasPlan'
      BY <2>1 DEF ClaimedHasPlan, Live
    <2> QED BY <2>3, <2>4
  <1>3. ASSUME NEW s \in Running, NEW t \in Tasks, NEW k \in 1..issued,
               NEW status \in {"open", "blocked", "complete"},
               HoldsLease(s, t, k),
               tasks' = [tasks EXCEPT ![t] = Unclaimed(@, status)],
               UNCHANGED <<issued, crashed>>
        PROVE  IInv'
    <2>1. /\ tasks' \in [Tasks -> TaskRow]
          /\ tasks'[t].status = status
          /\ \A u \in Tasks \ {t} : tasks'[u] = tasks[u]
      BY <1>3, VacateEffect DEF Running
    <2>2. \A u \in Tasks : tasks'[u].status = "claimed" => tasks'[u] = tasks[u]
      BY <2>1
    <2> QED BY <1>3, <2>1, <2>2 DEF TypeOK, WriterExclusion, ClaimedHasPlan, Live
  <1>4. ASSUME NEW s \in Running, Workboard(s)
        PROVE  IInv'
    <2>1. /\ tasks' \in [Tasks -> TaskRow]
          /\ \A u \in Tasks : tasks'[u].status = "claimed" => tasks'[u] = tasks[u]
      BY <1>4, SweepKeepsLive DEF Workboard, TypeOK, Swept
    <2> QED BY <1>4, <2>1 DEF Workboard, TypeOK, WriterExclusion, ClaimedHasPlan, Live
  <1>5. ASSUME NEW s \in Running, Crash(s)
        PROVE  IInv'
    BY <1>5 DEF Crash, Running, TypeOK, WriterExclusion, ClaimedHasPlan, Live
  <1>6. CASE Tick
    BY <1>6, TickEffect DEF TypeOK, WriterExclusion, ClaimedHasPlan
  <1>7. CASE UNCHANGED leaseVars
    BY <1>7 DEF leaseVars, TypeOK, WriterExclusion, ClaimedHasPlan, Live
  <1> QED
    BY StepCases, <1>1, <1>2, <1>3, <1>4, <1>5, <1>6, <1>7 DEF ReleaseTask, CloseTask

\* The inductive invariant holds in every reachable state.
THEOREM Invariance == Spec => []IInv
  BY InitIInv, NextIInv, PTL DEF Spec

\* Type correctness of the task table.
THEOREM TypeCorrect == Spec => []TypeOK
  BY Invariance, PTL DEF IInv

\* "One task has one writer lease": no two unexpired leases ever conflict, for
\* any number of sessions, scopes, tasks and path plans.
THEOREM Exclusion == Spec => []WriterExclusion
  BY Invariance, PTL DEF IInv

-----------------------------------------------------------------------------
\* A lease lives without a gap: becoming live needs a token issued in that very
\* step, so an expired lease is never revived and a live one never taken over.
THEOREM Continuity == Spec => LeaseContinuity
  <1> DEFINE P == \A t \in Tasks : Live(t)' =>
                    \/ Live(t) /\ tasks'[t].token = tasks[t].token
                    \/ ~Live(t) /\ tasks'[t].token = issued + 1
  <1>1. TypeOK /\ [Next]_leaseVars => P
    <2> SUFFICES ASSUME TypeOK, [Next]_leaseVars PROVE P
      OBVIOUS
    <2>1. ASSUME NEW s \in Running, NEW t \in Tasks, NEW plan \in Plans,
                 NEW secs \in LeaseLengths, NEW d \in 0..LockWait,
                 ClaimTask(s, t, plan, secs, d)
          PROVE  P
      <3>1. /\ ~Live(t) /\ tasks'[t].token = issued + 1
            /\ \A u \in Tasks \ {t} : tasks'[u] = Swept(ScopeOf[s])[u]
        BY <2>1, ClaimEffect DEF Running
      <3>2. \A u \in Tasks \ {t} : Live(u)' => Live(u) /\ tasks'[u] = tasks[u]
        BY <3>1, SweepKeepsLive DEF Live
      <3> QED BY <3>1, <3>2
    <2>2. ASSUME NEW s \in Running, NEW t \in Tasks, NEW k \in 1..issued,
                 NEW secs \in LeaseLengths, RenewTask(s, t, k, secs)
          PROVE  P
      BY <2>2, RenewEffect DEF Running, Live
    <2>3. ASSUME NEW s \in Running, NEW t \in Tasks, NEW k \in 1..issued,
                 NEW status \in {"open", "blocked", "complete"},
                 HoldsLease(s, t, k),
                 tasks' = [tasks EXCEPT ![t] = Unclaimed(@, status)]
          PROVE  P
      BY <2>3, VacateEffect DEF Running, Live
    <2>4. ASSUME NEW s \in Running, Workboard(s)
          PROVE  P
      BY <2>4, SweepKeepsLive DEF Workboard, Live
    <2>5. ASSUME NEW s \in Running, Crash(s)
          PROVE  P
      BY <2>5 DEF Crash, Live
    <2>6. CASE Tick
      BY <2>6, TickEffect
    <2>7. CASE UNCHANGED leaseVars
      BY <2>7 DEF leaseVars, Live
    <2> QED
      BY StepCases, <2>1, <2>2, <2>3, <2>4, <2>5, <2>6, <2>7 DEF ReleaseTask, CloseTask
  <1> QED
    BY <1>1, TypeCorrect, PTL DEF Spec, LeaseContinuity

-----------------------------------------------------------------------------
\* A revision number names one plan: only a claim changes the plan of a row,
\* and a claim that changes it stores a larger revision.
THEOREM RevisionNames == Spec => RevisionNamesOnePlan
  <1> DEFINE P == \A t \in Tasks : tasks'[t].plan # tasks[t].plan
                                     => tasks'[t].revision > tasks[t].revision
  <1>1. TypeOK /\ [Next]_leaseVars => P
    <2> SUFFICES ASSUME TypeOK, [Next]_leaseVars PROVE P
      OBVIOUS
    <2>1. ASSUME NEW s \in Running, NEW t \in Tasks, NEW plan \in Plans,
                 NEW secs \in LeaseLengths, NEW d \in 0..LockWait,
                 ClaimTask(s, t, plan, secs, d)
          PROVE  P
      <3> DEFINE board == Swept(ScopeOf[s])
      <3>1. /\ board \in [Tasks -> TaskRow]
            /\ \A u \in Tasks : /\ board[u].plan = tasks[u].plan
                                /\ board[u].revision = tasks[u].revision
        BY SweepKeepsLive
      <3>2. tasks' = [board EXCEPT ![t] =
                        [status |-> "claimed", holder |-> s, token |-> issued + 1,
                         left |-> secs - d, plan |-> plan,
                         revision |-> NextRevision(board[t], plan)]]
        BY <2>1 DEF ClaimTask
      <3> HIDE DEF board
      <3>3. \A u \in Tasks \ {t} : tasks'[u] = board[u]
        BY <3>1, <3>2
      <3>4. /\ tasks'[t].plan = plan
            /\ tasks'[t].revision = NextRevision(board[t], plan)
        BY <3>1, <3>2
      <3>5. board[t].plan # plan => NextRevision(board[t], plan) > board[t].revision
        BY <3>1 DEF NextRevision, TaskRow
      <3> QED BY <3>1, <3>3, <3>4, <3>5
    <2>2. ASSUME NEW s \in Running, NEW t \in Tasks, NEW k \in 1..issued,
                 NEW secs \in LeaseLengths, RenewTask(s, t, k, secs)
          PROVE  P
      BY <2>2, RenewEffect DEF Running
    <2>3. ASSUME NEW s \in Running, NEW t \in Tasks, NEW k \in 1..issued,
                 NEW status \in {"open", "blocked", "complete"},
                 HoldsLease(s, t, k),
                 tasks' = [tasks EXCEPT ![t] = Unclaimed(@, status)]
          PROVE  P
      BY <2>3, VacateEffect DEF Running
    <2>4. ASSUME NEW s \in Running, Workboard(s)
          PROVE  P
      BY <2>4, SweepKeepsLive DEF Workboard
    <2>5. ASSUME NEW s \in Running, Crash(s)
          PROVE  P
      BY <2>5 DEF Crash
    <2>6. CASE Tick
      BY <2>6, TickEffect
    <2>7. CASE UNCHANGED leaseVars
      BY <2>7 DEF leaseVars
    <2> QED
      BY StepCases, <2>1, <2>2, <2>3, <2>4, <2>5, <2>6, <2>7 DEF ReleaseTask, CloseTask
  <1> QED
    BY <1>1, TypeCorrect, PTL DEF Spec, RevisionNamesOnePlan

-----------------------------------------------------------------------------
\* The refinement mapping: a task is granted its plan while its lease is live.

\* Every step of the task table is a Grant, a Lapse, a Finish or a stutter.
LEMMA StepRefines == IInv /\ [Next]_leaseVars => [Lock!Next]_Lock!lockVars
  <1> DEFINE g == [t \in Tasks |-> IF Live(t) THEN tasks[t].plan ELSE NoPlan]
             f == {t \in Tasks : tasks[t].status = "complete"}
  <1> SUFFICES ASSUME IInv, [Next]_leaseVars
               PROVE  [Lock!Next]_(<<g, f>>)
    BY DEF Lock!lockVars
  <1> USE DEF IInv
  <1>1. \A t \in Tasks : Live(t) <=> g[t] # NoPlan
    BY SessionAssumption DEF ClaimedHasPlan, Live
  <1>2. Lock!Holding = {t \in Tasks : Live(t)}
    BY <1>1 DEF Lock!Holding
  <1>3. ASSUME \A t \in Tasks : Live(t)' => Live(t) /\ tasks'[t].plan = tasks[t].plan,
               \A t \in Tasks : tasks'[t].status = "complete" <=> tasks[t].status = "complete"
        PROVE  Lock!Next
    <2> DEFINE S == {t \in Tasks : /\ Live(t)
                              /\ ~(tasks'[t].status = "claimed" /\ tasks'[t].left > 0)}
    <2>1. S \in SUBSET {t \in Tasks : Live(t)}
      OBVIOUS
    <2>2. \A t \in Tasks : Live(t)' <=> Live(t) /\ t \notin S
      BY <1>3 DEF Live
    <2>3. \A t \in Tasks : Live(t)' => tasks'[t].plan = tasks[t].plan
      BY <1>3
    <2>4. f' = f
      BY <1>3
    <2>5. g' = [t \in Tasks |-> IF t \in S THEN NoPlan ELSE g[t]]
      BY <2>2, <2>3
    <2>6. S \in SUBSET Lock!Holding
      BY <1>2, <2>1
    <2> HIDE DEF S
    <2> QED BY <2>4, <2>5, <2>6 DEF Lock!Next, Lock!Lapse
  <1>4. ASSUME NEW s \in Running, NEW t \in Tasks, NEW plan \in Plans,
               NEW secs \in LeaseLengths, NEW d \in 0..LockWait,
               ClaimTask(s, t, plan, secs, d)
        PROVE  Lock!Next
    <2>1. /\ ~Live(t) /\ tasks[t].status # "complete"
          /\ tasks'[t].status = "claimed" /\ tasks'[t].plan = plan /\ Live(t)'
          /\ \A u \in Tasks \ {t} : tasks'[u] = Swept(ScopeOf[s])[u]
          /\ \A u \in Tasks \ {t} : Live(u) => ~PlansConflict(plan, tasks[u].plan)
      BY <1>4, ClaimEffect DEF Running, Live
    <2>2. \A u \in Tasks \ {t} :
             /\ Live(u)' <=> Live(u)
             /\ tasks'[u].plan = tasks[u].plan
             /\ tasks'[u].status = "complete" <=> tasks[u].status = "complete"
      BY <2>1, SweepKeepsLive DEF Live
    <2>3. g' = [g EXCEPT ![t] = plan] /\ f' = f
      BY <2>1, <2>2
    <2>4. t \notin Lock!Holding \cup f
      BY <1>2, <2>1
    <2>5. \A u \in Lock!Holding : ~PlansConflict(plan, g[u])
      BY <1>2, <2>1
    <2>6. Lock!Grant(t, plan)
      BY <2>3, <2>4, <2>5 DEF Lock!Grant
    <2> QED BY <2>6 DEF Lock!Next
  <1>5. ASSUME NEW s \in Running, NEW t \in Tasks, NEW k \in 1..issued,
               NEW secs \in LeaseLengths, RenewTask(s, t, k, secs)
        PROVE  Lock!Next
    <2>1. /\ Live(t) /\ tasks'[t].plan = tasks[t].plan /\ tasks'[t].status = "claimed"
          /\ \A u \in Tasks \ {t} : tasks'[u] = tasks[u]
      BY <1>5, RenewEffect DEF Running
    <2>2. \A u \in Tasks : Live(u)' => Live(u) /\ tasks'[u].plan = tasks[u].plan
      BY <2>1 DEF Live
    <2> QED BY <1>3, <2>1, <2>2 DEF Live
  <1>6. ASSUME NEW s \in Running, NEW t \in Tasks, NEW k \in 1..issued,
               NEW status \in {"open", "blocked"}, ReleaseTask(s, t, k, status)
        PROVE  Lock!Next
    <2>1. /\ Live(t) /\ tasks'[t].status = status
          /\ \A u \in Tasks \ {t} : tasks'[u] = tasks[u]
      BY <1>6, VacateEffect DEF Running, ReleaseTask
    <2>2. \A u \in Tasks : Live(u)' => Live(u) /\ tasks'[u].plan = tasks[u].plan
      BY <2>1 DEF Live
    <2> QED BY <1>3, <2>1, <2>2 DEF Live
  <1>7. ASSUME NEW s \in Running, NEW t \in Tasks, NEW k \in 1..issued,
               CloseTask(s, t, k)
        PROVE  Lock!Next
    <2>1. /\ Live(t) /\ tasks'[t].status = "complete"
          /\ \A u \in Tasks \ {t} : tasks'[u] = tasks[u]
      BY <1>7, VacateEffect DEF Running, CloseTask
    <2>2. g' = [g EXCEPT ![t] = NoPlan] /\ f' = f \cup {t}
      BY <2>1 DEF Live
    <2>3. Lock!Finish(t)
      BY <1>2, <2>1, <2>2 DEF Lock!Finish
    <2> QED BY <2>3 DEF Lock!Next
  <1>8. ASSUME NEW s \in Running, Workboard(s)
        PROVE  Lock!Next
    <2>1. tasks' = Swept(ScopeOf[s])
      BY <1>8 DEF Workboard
    <2> QED BY <1>3, <2>1, SweepKeepsLive DEF Live
  <1>9. ASSUME NEW s \in Running, Crash(s)
         PROVE  Lock!Next
    BY <1>3, <1>9 DEF Crash, Live
  <1>10. CASE Tick
    BY <1>3, <1>10, TickEffect
  <1>11. CASE UNCHANGED leaseVars
    BY <1>3, <1>11 DEF leaseVars, Live
  <1> QED
    BY StepCases, <1>4, <1>5, <1>6, <1>7, <1>8, <1>9, <1>10, <1>11

\* The task table implements the abstract lock.
THEOREM Implements == Spec => ImplementsWriterLock
  <1>1. Init => Lock!Init
    BY DEF Init, Lock!Init, NoRow, Live
  <1> QED
    BY <1>1, StepRefines, Invariance, PTL
       DEF Spec, ImplementsWriterLock, Lock!Spec

-----------------------------------------------------------------------------
(***************************************************************************)
(* The board: its inductive invariant.                                     *)
(***************************************************************************)
\* The claim under which a call began still has the row.
StillHeld(s) ==
  LET c == call[s]
  IN  tasks[c.task].status = "claimed" /\ tasks[c.task].token = c.token

\* The peers of a task that approve it as it is now declared.
Supporters(t) == {a \in tasks[t].plan.peers : Endorsed(t, a)}

\* The approvals the policies with named peers ask for.
Backed(t) ==
  LET plan == tasks[t].plan
  IN  /\ plan.mode = "quorum_required" => Cardinality(Supporters(t)) >= plan.quorum
      /\ plan.mode = "two_party_required" /\ plan.peer # NoAgent => plan.peer \in Supporters(t)

\* A hash belongs to the stamp it was taken under.
Dated(s) ==
  \A f \in HashedBy(s) :
    LET seen == call[s].hashed[f]
    IN  /\ seen.stamp <= files[f].stamp
        /\ seen.stamp = files[f].stamp => seen.content = files[f].content

\* What a multi-step call may rely on at the place it has reached.
CallOK(s) ==
  LET c == call[s]
  IN  /\ c.op # "idle" => c.token \in 1..issued /\ Dated(s)
      /\ c.op = "proof" => c.changed \subseteq HashedBy(s) \cup c.todo
      /\ c.op \in {"complete", "gate", "close"} =>
           c.records # {} /\ c.records \subseteq DOMAIN proofs
      /\ c.op \in {"gate", "close"} => NoDrift(c.records, c.hashed)
      /\ c.op = "gate" /\ StillHeld(s) => \A a \in c.approved : Endorsed(c.task, a)
      /\ c.op = "close" /\ StillHeld(s) => Backed(c.task)

\* A review is by the agent it was asked of.
Addressed == \A v \in reviews : requests[v.request].recipient = v.reviewer

\* Nobody is a required peer of its own task.
NotOwnPeer ==
  \A t \in Tasks : tasks[t].status = "claimed" => AgentOf[tasks[t].holder] \notin tasks[t].plan.peers

BoardInv ==
  /\ BoardTypeOK
  /\ IInv
  /\ NotOwnPeer
  /\ Addressed
  /\ \A s \in Sessions : CallOK(s)

(***************************************************************************)
(* The lease table under the board.                                        *)
(***************************************************************************)
\* The row of t stays with the claim that has it.
SameClaim(t) ==
  /\ tasks[t].status = "claimed"
  /\ tasks'[t].token = tasks[t].token
  /\ tasks'[t].holder = tasks[t].holder
  /\ tasks'[t].plan = tasks[t].plan
  /\ tasks'[t].revision = tasks[t].revision

\* A row that is claimed after a step is so under the claim it had before, or
\* under a new one whose declared peers do not include the writer.
ClaimsKept ==
  /\ issued' \in Nat /\ issued <= issued'
  /\ \A t \in Tasks : tasks'[t].status = "claimed" =>
       \/ SameClaim(t)
       \/ /\ tasks'[t].token = issued + 1
          /\ AgentOf[tasks'[t].holder] \notin tasks'[t].plan.peers

\* Rows that are claimed after a step and have not changed.
LEMMA RowsUnchanged ==
  ASSUME TypeOK, issued' = issued,
         \A t \in Tasks : tasks'[t].status = "claimed" => tasks'[t] = tasks[t]
  PROVE  ClaimsKept
  BY DEF TypeOK, ClaimsKept, SameClaim

\* Every step of the lease table keeps the claims.
LEMMA LeaseStepKeepsClaims ==
  ASSUME TypeOK, [Next]_leaseVars
  PROVE  ClaimsKept
<1>1. ASSUME NEW s \in Running, NEW t \in Tasks, NEW plan \in Plans,
             NEW secs \in LeaseLengths, NEW d \in 0..LockWait,
             ClaimTask(s, t, plan, secs, d)
      PROVE  ClaimsKept
  <2>1. s \in Sessions
    BY DEF Running
  <2>2. /\ issued' = issued + 1 /\ issued \in Nat
        /\ tasks'[t].plan = plan /\ tasks'[t].token = issued + 1
        /\ \A u \in Tasks \ {t} : tasks'[u] = Swept(ScopeOf[s])[u]
    BY <1>1, <2>1, ClaimEffect DEF TypeOK
  <2>3. tasks'[t].holder = s /\ AgentOf[s] \notin plan.peers
    <3> DEFINE board == Swept(ScopeOf[s])
               row   == [status |-> "claimed", holder |-> s, token |-> issued + 1,
                         left |-> secs - d, plan |-> plan,
                         revision |-> NextRevision(board[t], plan)]
    <3>1. board \in [Tasks -> TaskRow]
      BY SweepKeepsLive
    <3>2. tasks' = [board EXCEPT ![t] = row] /\ AgentOf[s] \notin plan.peers
      BY <1>1 DEF ClaimTask
    <3> HIDE DEF board
    <3>3. tasks'[t] = row
      BY <3>1, <3>2
    <3> QED BY <3>2, <3>3
  <2>4. \A u \in Tasks \ {t} : tasks'[u].status = "claimed" => tasks'[u] = tasks[u]
    BY <2>2, SweepKeepsLive
  <2> QED BY <2>2, <2>3, <2>4 DEF ClaimsKept, SameClaim
<1>2. ASSUME NEW s \in Running, NEW t \in Tasks, NEW k \in 1..issued,
             NEW secs \in LeaseLengths, RenewTask(s, t, k, secs)
      PROVE  ClaimsKept
  <2>1. /\ issued' = issued /\ issued \in Nat
        /\ tasks' = [tasks EXCEPT ![t].left = secs] /\ tasks[t].status = "claimed"
    BY <1>2 DEF RenewTask, HoldsLease, TypeOK
  <2>2. /\ tasks'[t].token = tasks[t].token /\ tasks'[t].plan = tasks[t].plan
        /\ tasks'[t].revision = tasks[t].revision
        /\ \A u \in Tasks \ {t} : tasks'[u] = tasks[u]
    BY <1>2, RenewEffect DEF Running
  <2>3. tasks'[t].holder = tasks[t].holder
    BY <2>1 DEF TypeOK, TaskRow
  <2> QED BY <2>1, <2>2, <2>3 DEF ClaimsKept, SameClaim
<1>3. ASSUME NEW s \in Running, NEW t \in Tasks, NEW k \in 1..issued,
             NEW status \in {"open", "blocked", "complete"}, HoldsLease(s, t, k),
             tasks' = [tasks EXCEPT ![t] = Unclaimed(@, status)],
             UNCHANGED <<issued, crashed>>
      PROVE  ClaimsKept
  <2>1. \A u \in Tasks : tasks'[u].status = "claimed" => tasks'[u] = tasks[u]
    BY <1>3, VacateEffect DEF Running
  <2> QED BY <1>3, <2>1, RowsUnchanged
<1>4. ASSUME NEW s \in Running, Workboard(s)
      PROVE  ClaimsKept
  <2>1. \A u \in Tasks : tasks'[u].status = "claimed" => tasks'[u] = tasks[u]
    BY <1>4, SweepKeepsLive DEF Workboard
  <2> QED BY <1>4, <2>1, RowsUnchanged DEF Workboard
<1>5. ASSUME NEW s \in Running, Crash(s)
      PROVE  ClaimsKept
  BY <1>5, RowsUnchanged DEF Crash
<1>6. CASE Tick
  <2>1. \A t \in Tasks : tasks'[t] = tasks[t] \/ tasks'[t] = [tasks[t] EXCEPT !.left = @ - 1]
    BY <1>6 DEF Tick, Aged
  <2>2. ASSUME NEW t \in Tasks
        PROVE  /\ tasks'[t].status = tasks[t].status /\ tasks'[t].token = tasks[t].token
               /\ tasks'[t].holder = tasks[t].holder /\ tasks'[t].plan = tasks[t].plan
               /\ tasks'[t].revision = tasks[t].revision
    <3>1. tasks[t] \in TaskRow
      BY DEF TypeOK
    <3> QED BY <2>1, <3>1 DEF TaskRow
  <2> QED BY <1>6, <2>2 DEF Tick, TypeOK, ClaimsKept, SameClaim
<1>7. CASE UNCHANGED leaseVars
  BY <1>7, RowsUnchanged DEF leaseVars
<1> QED
  BY StepCases, <1>1, <1>2, <1>3, <1>4, <1>5, <1>6, <1>7 DEF ReleaseTask, CloseTask

(***************************************************************************)
(* What is written stays.                                                  *)
(***************************************************************************)
\* What every step leaves to a call that others may overtake.
Moves ==
  /\ ClaimsKept
  /\ files' \in Snapshots
  /\ \A f \in Files : files'[f] = files[f] \/ files'[f].stamp > files[f].stamp
  /\ \A i \in DOMAIN proofs : i \in DOMAIN proofs' /\ proofs'[i] = proofs[i]
  /\ \A i \in DOMAIN requests : i \in DOMAIN requests' /\ requests'[i] = requests[i]
  /\ reviews \subseteq reviews'

\* An approval stands as long as the claim does.
LEMMA EndorsementKept ==
  ASSUME BoardTypeOK, Moves, NEW t \in Tasks, SameClaim(t), NEW a, Endorsed(t, a)
  PROVE  Endorsed(t, a)'
<1>1. PICK v \in reviews : /\ v.reviewer = a
                           /\ v.verdict = "approved"
                           /\ requests[v.request].task = t
                           /\ requests[v.request].recipient = a
                           /\ requests[v.request].revision = tasks[t].revision
                           /\ requests[v.request].plan = tasks[t].plan
  BY DEF Endorsed
<1>2. v.request \in DOMAIN requests
  BY <1>1 DEF BoardTypeOK
<1>3. v \in reviews' /\ requests'[v.request] = requests[v.request]
  BY <1>1, <1>2 DEF Moves
<1> QED BY <1>1, <1>3 DEF Endorsed, SameClaim

\* So do the approvals of a gate.
LEMMA BackingKept ==
  ASSUME BoardInv, Moves, NEW t \in Tasks, SameClaim(t), Backed(t)
  PROVE  Backed(t)'
<1>1. tasks'[t].plan = tasks[t].plan /\ tasks[t].plan \in Plans
  BY DEF SameClaim, BoardInv, IInv, ClaimedHasPlan
<1>2. \A a : Endorsed(t, a) => Endorsed(t, a)'
  BY EndorsementKept DEF BoardInv
<1>3. PICK old : old = Supporters(t)
  OBVIOUS
<1>4. PICK new : new = Supporters(t)'
  OBVIOUS
<1>5. old \in SUBSET new /\ new \in SUBSET tasks[t].plan.peers
  BY <1>1, <1>2, <1>3, <1>4 DEF Supporters
<1>6. IsFiniteSet(tasks[t].plan.peers) /\ tasks[t].plan.quorum \in Nat
  BY <1>1, PlanAssumption
<1>7. IsFiniteSet(new)
  BY <1>5, <1>6, FS_Subset
<1>8. Cardinality(old) <= Cardinality(new) /\ Cardinality(new) \in Nat /\ Cardinality(old) \in Nat
  BY <1>5, <1>7, FS_Subset, FS_CardinalityType
<1>9. tasks[t].plan.mode = "quorum_required" => Cardinality(new) >= tasks[t].plan.quorum
  BY <1>3, <1>6, <1>8 DEF Backed
<1>10. tasks[t].plan.mode = "two_party_required" /\ tasks[t].plan.peer # NoAgent
         => tasks[t].plan.peer \in new
  BY <1>3, <1>5 DEF Backed
<1> QED BY <1>1, <1>4, <1>9, <1>10 DEF Backed

\* The local variables of a call.
LEMMA CallTyped ==
  ASSUME BoardTypeOK, NEW s \in Sessions
  PROVE  LET c == call[s]
         IN  /\ c.op \in {"idle", "proof", "complete", "gate", "close"}
             /\ c.op = "idle" <=> c = Idle
             /\ c.op # "idle" => c.task \in Tasks /\ c.token \in Nat /\ c.hashed \in Snapshots
             /\ c.op = "proof" => c.changed \in SUBSET Files
             /\ c.op \in {"proof", "complete"} => c.todo \in SUBSET Files
             /\ c.op \in {"complete", "gate", "close"} => c.records \in SUBSET Nat
             /\ c.op = "gate" => c.approved \in SUBSET Agents
<1>1. call[s] \in Calls
  BY DEF BoardTypeOK
<1> QED BY <1>1 DEF Calls, Idle

\* What the others do does not disturb a call.
LEMMA CallKept ==
  ASSUME BoardInv, Moves, NEW s \in Sessions, call'[s] = call[s]
  PROVE  CallOK(s)'
<1> DEFINE c == call[s]
<1>1. BoardTypeOK /\ CallOK(s) /\ ClaimsKept
  BY DEF BoardInv, Moves
<1>2. HashedBy(s)' = HashedBy(s)
  BY DEF HashedBy
<1>3. c.op # "idle" => c.token \in 1..issued' /\ Dated(s)'
  <2>1. SUFFICES ASSUME c.op # "idle" PROVE c.token \in 1..issued' /\ Dated(s)'
    OBVIOUS
  <2>2. c.token \in 1..issued' /\ Dated(s)
    BY <1>1, <2>1 DEF CallOK, ClaimsKept, BoardTypeOK, TypeOK
  <2>3. ASSUME NEW f \in HashedBy(s)
        PROVE  /\ c.hashed[f].stamp <= files'[f].stamp
               /\ c.hashed[f].stamp = files'[f].stamp => c.hashed[f].content = files'[f].content
    <3>1. f \in Files /\ c.hashed \in Snapshots
      BY <1>1, <2>1, <2>3, CallTyped DEF HashedBy
    <3>2. c.hashed[f].stamp \in Nat
      BY <3>1 DEF Snapshots
    <3>3. c.hashed[f].stamp <= files[f].stamp
          /\ (c.hashed[f].stamp = files[f].stamp => c.hashed[f].content = files[f].content)
      BY <2>2, <2>3 DEF Dated
    <3>4. files[f].stamp \in Nat
      BY <1>1, <3>1 DEF BoardTypeOK, Snapshots
    <3>5. CASE files'[f] = files[f]
      BY <3>3, <3>5
    <3>6. CASE files'[f].stamp > files[f].stamp
      <4>1. files'[f].stamp \in Nat
        BY <3>1 DEF Moves, Snapshots
      <4> HIDE DEF c
      <4> QED BY <3>2, <3>3, <3>4, <3>6, <4>1
    <3> QED BY <3>1, <3>5, <3>6 DEF Moves
  <2> QED BY <1>2, <2>2, <2>3 DEF Dated
<1>4. c.op = "proof" => c.changed \subseteq HashedBy(s)' \cup c.todo
  BY <1>1, <1>2 DEF CallOK
<1>5. c.op \in {"complete", "gate", "close"} => c.records # {} /\ c.records \subseteq DOMAIN proofs'
  BY <1>1 DEF CallOK, Moves
<1>6. c.op \in {"gate", "close"} => NoDrift(c.records, c.hashed)'
  <2>1. SUFFICES ASSUME c.op \in {"gate", "close"},
                        NEW i \in c.records, NEW f \in Files, proofs'[i].hashes[f] # Missing
                 PROVE  c.hashed[f].content = proofs'[i].hashes[f]
    BY DEF NoDrift, Recorded
  <2>2. i \in DOMAIN proofs /\ NoDrift(c.records, c.hashed)
    BY <1>1, <2>1 DEF CallOK
  <2>3. proofs'[i] = proofs[i]
    BY <2>2 DEF Moves
  <2> QED BY <2>1, <2>2, <2>3 DEF NoDrift, Recorded
<1>7. c.op # "idle" /\ StillHeld(s)' => StillHeld(s) /\ SameClaim(c.task)
  <2>1. SUFFICES ASSUME c.op # "idle", StillHeld(s)'
                 PROVE  StillHeld(s) /\ SameClaim(c.task)
    OBVIOUS
  <2>2. c.task \in Tasks /\ c.token \in 1..issued /\ issued \in Nat
    BY <1>1, <2>1, CallTyped DEF CallOK, BoardTypeOK, TypeOK
  <2>3. tasks'[c.task].status = "claimed" /\ tasks'[c.task].token = c.token
    BY <2>1 DEF StillHeld
  <2>4. tasks'[c.task].token # issued + 1
    BY <2>2, <2>3
  <2> QED BY <1>1, <2>2, <2>3, <2>4 DEF ClaimsKept, SameClaim, StillHeld
<1>8. c.op = "gate" /\ StillHeld(s)' => \A a \in c.approved : Endorsed(c.task, a)'
  <2>1. SUFFICES ASSUME c.op = "gate", StillHeld(s)', NEW a \in c.approved
                 PROVE  Endorsed(c.task, a)'
    OBVIOUS
  <2>2. PICK t : t = c.task
    OBVIOUS
  <2>3. t \in Tasks /\ SameClaim(t) /\ Endorsed(t, a)
    BY <1>1, <1>7, <2>1, <2>2, CallTyped DEF CallOK
  <2>4. Endorsed(t, a)'
    BY <1>1, <2>3, EndorsementKept
  <2> QED BY <2>2, <2>4 DEF Endorsed
<1>9. c.op = "close" /\ StillHeld(s)' => Backed(c.task)'
  <2>1. SUFFICES ASSUME c.op = "close", StillHeld(s)'
                 PROVE  Backed(c.task)'
    OBVIOUS
  <2>2. PICK t : t = c.task
    OBVIOUS
  <2>3. t \in Tasks /\ SameClaim(t) /\ Backed(t)
    BY <1>1, <1>7, <2>1, <2>2, CallTyped DEF CallOK
  <2>4. Backed(t)'
    BY <2>3, BackingKept
  <2>5. t = c.task'
    BY <2>2
  <2> QED BY <2>2, <2>4, <2>5 DEF Backed, Supporters, Endorsed
<1> QED BY <1>3, <1>4, <1>5, <1>6, <1>8, <1>9 DEF CallOK

(***************************************************************************)
(* Steps.                                                                  *)
(***************************************************************************)
\* The three action properties, about one step.
LiveStep ==
  \A t \in Tasks : Completes(t) =>
    /\ ProofsOf(t) # {}
    /\ \A i \in ProofsOf(t) : \A f \in Recorded(i) : files[f].content = proofs[i].hashes[f]

HonestStep ==
  Len(proofs') > Len(proofs) =>
    LET p == proofs'[Len(proofs')]
    IN  /\ Live(p.task)
        /\ \A f \in p.changed : InScope(f, tasks[p.task].plan)
        /\ \A f \in p.changed : p.hashes[f] # Missing
        /\ \A f \in Files : p.hashes[f] \in {Missing, files[f].content}

ReviewedStep ==
  \A t \in Tasks : Completes(t) =>
    LET plan   == tasks[t].plan
        backed == {a \in plan.peers \ {AgentOf[tasks[t].holder]} : Endorsed(t, a)}
    IN  /\ plan.mode = "quorum_required" => Cardinality(backed) >= plan.quorum
        /\ plan.mode = "two_party_required" /\ plan.peer # NoAgent => plan.peer \in backed

BoardStep == [Next]_leaseVars /\ BoardInv' /\ LiveStep /\ HonestStep /\ ReviewedStep

\* A step of the board that moves nothing under the calls of others.
LEMMA StepKeepsInvariant ==
  ASSUME BoardInv, [Next]_leaseVars, BoardTypeOK', Moves, Addressed',
         \A s \in Sessions : CallOK(s)'
  PROVE  BoardInv'
<1>1. IInv'
  BY NextIInv DEF BoardInv
<1>2. NotOwnPeer'
  BY DEF BoardInv, NotOwnPeer, Moves, ClaimsKept, SameClaim
<1> QED BY <1>1, <1>2 DEF BoardInv

\* A step that completes no task and adds no record.
LEMMA NothingToShow ==
  ASSUME \A t \in Tasks : tasks'[t].status = "complete" => tasks[t].status = "complete",
         proofs' = proofs, proofs \in Seq([task : Tasks, changed : SUBSET Files,
                                           hashes : [Files -> Contents \cup {Missing}]])
  PROVE  LiveStep /\ HonestStep /\ ReviewedStep
<1>1. Len(proofs) \in Nat
  BY LenProperties
<1>2. \A t \in Tasks : ~Completes(t)
  BY DEF Completes
<1>3. ~(Len(proofs') > Len(proofs))
  BY <1>1
<1> QED BY <1>2, <1>3 DEF LiveStep, HonestStep, ReviewedStep

\* The tables when a step changes none of them but presence and calls.
LEMMA TablesUnchanged ==
  ASSUME BoardInv, UNCHANGED <<files, proofs, requests, reviews>>, [Next]_leaseVars
  PROVE  /\ Moves /\ Addressed'
         /\ TypeOK'
<1>1. TypeOK /\ Addressed /\ files \in Snapshots
  BY DEF BoardInv, BoardTypeOK
<1>2. ClaimsKept
  BY <1>1, LeaseStepKeepsClaims
<1>3. TypeOK'
  BY NextIInv DEF BoardInv, IInv
<1> QED BY <1>1, <1>2, <1>3 DEF Moves, Addressed

\* A step in which a call goes on and nothing else changes.
LEMMA CallGoesOn ==
  ASSUME BoardInv, NEW s \in Sessions, NEW new \in Calls,
         call' = [call EXCEPT ![s] = new],
         UNCHANGED <<leaseVars, files, proofs, requests, reviews, present>>,
         CallOK(s)'
  PROVE  BoardStep
<1>1. [Next]_leaseVars
  OBVIOUS
<1>2. Moves /\ Addressed' /\ TypeOK'
  BY <1>1, TablesUnchanged
<1>3. call \in [Sessions -> Calls]
  BY DEF BoardInv, BoardTypeOK
<1>4. call' \in [Sessions -> Calls] /\ \A r \in Sessions \ {s} : call'[r] = call[r]
  BY <1>3
<1>5. BoardTypeOK'
  BY <1>2, <1>4 DEF BoardInv, BoardTypeOK
<1>6. \A r \in Sessions : CallOK(r)'
  BY <1>2, <1>4, CallKept
<1>7. BoardInv'
  BY <1>1, <1>2, <1>5, <1>6, StepKeepsInvariant
<1>8. LiveStep /\ HonestStep /\ ReviewedStep
  BY NothingToShow DEF leaseVars, BoardInv, BoardTypeOK
<1> QED BY <1>1, <1>7, <1>8 DEF BoardStep

\* A call that has ended relies on nothing.
LEMMA CallEnded ==
  ASSUME NEW s \in Sessions, call'[s] = Idle
  PROVE  CallOK(s)'
  BY DEF CallOK, Idle

\* record_proof begins.
LEMMA BeginProofStep ==
  ASSUME BoardInv, NEW s \in Running, NEW t \in Tasks, NEW k \in 1..issued,
         NEW changed \in SUBSET Files, NEW evidence \in SUBSET Files,
         BeginProof(s, t, k, changed, evidence)
  PROVE  BoardStep
<1> DEFINE new == [op |-> "proof", task |-> t, token |-> k, changed |-> changed,
                   todo |-> changed \cup evidence, hashed |-> Unhashed]
<1>1. s \in Sessions /\ issued \in Nat /\ call \in [Sessions -> Calls]
  BY DEF Running, BoardInv, BoardTypeOK, TypeOK
<1>2. Unhashed \in Snapshots
  BY DEF Unhashed, Snapshots
<1>3. new \in Calls
  BY <1>1, <1>2 DEF Calls
<1>4. call' = [call EXCEPT ![s] = new]
      /\ UNCHANGED <<leaseVars, files, proofs, requests, reviews, present>>
  BY DEF BeginProof
<1>5. call'[s] = new
  BY <1>1, <1>4
<1>6. HashedBy(s)' = {}
  BY <1>5 DEF HashedBy, Unhashed
<1>7. CallOK(s)'
  BY <1>4, <1>5, <1>6 DEF CallOK, Dated, leaseVars
<1> QED BY <1>1, <1>3, <1>4, <1>7, CallGoesOn

\* complete_task begins.
LEMMA BeginCompleteStep ==
  ASSUME BoardInv, NEW s \in Running, NEW t \in Tasks, NEW k \in 1..issued,
         BeginComplete(s, t, k)
  PROVE  BoardStep
<1> DEFINE new == [op |-> "complete", task |-> t, token |-> k, records |-> ProofsOf(t),
                   todo |-> PathsOf(ProofsOf(t)), hashed |-> Unhashed]
<1>1. s \in Sessions /\ issued \in Nat /\ call \in [Sessions -> Calls]
  BY DEF Running, BoardInv, BoardTypeOK, TypeOK
<1>2. Unhashed \in Snapshots
  BY DEF Unhashed, Snapshots
<1>3. ProofsOf(t) \in SUBSET Nat /\ ProofsOf(t) \subseteq DOMAIN proofs
  BY LenProperties DEF ProofsOf, BoardInv, BoardTypeOK
<1>4. PathsOf(ProofsOf(t)) \in SUBSET Files
  BY DEF PathsOf, Recorded
<1>5. new \in Calls
  BY <1>1, <1>2, <1>3, <1>4 DEF Calls
<1>6. /\ call' = [call EXCEPT ![s] = new]
      /\ UNCHANGED <<leaseVars, files, proofs, requests, reviews, present>>
      /\ ProofsOf(t) # {}
  BY DEF BeginComplete
<1>7. call'[s] = new
  BY <1>1, <1>6
<1>8. HashedBy(s)' = {}
  BY <1>7 DEF HashedBy, Unhashed
<1>9. CallOK(s)'
  BY <1>3, <1>6, <1>7, <1>8 DEF CallOK, Dated, leaseVars
<1> QED BY <1>1, <1>5, <1>6, <1>9, CallGoesOn

\* A file is hashed, or is not there.
LEMMA HashFileStep ==
  ASSUME BoardInv, NEW s \in Running, NEW f \in Files, HashFile(s, f)
  PROVE  BoardStep
<1> DEFINE c   == call[s]
           new == IF files[f].content = Missing THEN Idle
                  ELSE [c EXCEPT !.todo = c.todo \ {f}, !.hashed[f] = files[f]]
<1>1. s \in Sessions /\ c \in Calls /\ call \in [Sessions -> Calls]
  BY DEF Running, BoardInv, BoardTypeOK
<1>2. call' = [call EXCEPT ![s] = new]
      /\ UNCHANGED <<leaseVars, files, proofs, requests, reviews, present>>
      /\ c.op \in {"proof", "complete"}
  BY DEF HashFile
<1>3. call'[s] = new
  BY <1>1, <1>2
<1>4. CASE files[f].content = Missing
  <2>1. new = Idle /\ new \in Calls
    BY <1>4 DEF Calls
  <2> QED BY <1>1, <1>2, <1>3, <2>1, CallEnded, CallGoesOn
<1>5. CASE files[f].content # Missing
  <2>1. new = [c EXCEPT !.todo = c.todo \ {f}, !.hashed[f] = files[f]]
    BY <1>5
  <2> HIDE DEF new
  <2>2. files[f] \in [content : Contents \cup {Missing}, stamp : Nat] /\ files \in Snapshots
    BY DEF BoardInv, BoardTypeOK, Snapshots
  <2>3. c.hashed \in Snapshots /\ CallOK(s) /\ BoardTypeOK
    BY <1>1, <1>2, CallTyped DEF BoardInv
  <2>4. [c.hashed EXCEPT ![f] = files[f]] \in Snapshots
    BY <2>2, <2>3 DEF Snapshots
  <2>5. /\ new.op = c.op /\ new.task = c.task /\ new.token = c.token
        /\ new.todo = c.todo \ {f} /\ new.hashed = [c.hashed EXCEPT ![f] = files[f]]
        /\ c.op = "proof" => new.changed = c.changed
        /\ c.op = "complete" => new.records = c.records
        /\ new \in Calls
    <3>1. CASE c.op = "proof"
      <4>1. c \in [op : {"proof"}, task : Tasks, token : Nat, changed : SUBSET Files,
                   todo : SUBSET Files, hashed : Snapshots]
        BY <1>1, <3>1 DEF Calls, Idle
      <4> HIDE DEF c
      <4>2. /\ new.op = c.op /\ new.task = c.task /\ new.token = c.token
            /\ new.todo = c.todo \ {f} /\ new.hashed = [c.hashed EXCEPT ![f] = files[f]]
            /\ new.changed = c.changed
            /\ new \in [op : {"proof"}, task : Tasks, token : Nat, changed : SUBSET Files,
                        todo : SUBSET Files, hashed : Snapshots]
        <5> DEFINE todo == c.todo \ {f}
                   h    == [c.hashed EXCEPT ![f] = files[f]]
        <5>1. new = [c EXCEPT !.todo = todo, !.hashed = h]
          BY <2>1, <4>1
        <5>2. todo \in SUBSET Files /\ h \in Snapshots
          BY <2>4, <4>1
        <5> HIDE DEF todo, h
        <5>3. new.op = c.op /\ new.task = c.task /\ new.token = c.token
              /\ new.todo = todo /\ new.hashed = h
          BY <4>1, <5>1
        <5> QED BY <4>1, <5>1, <5>2, <5>3 DEF todo, h
      <4> QED BY <3>1, <4>2 DEF Calls
    <3>2. CASE c.op = "complete"
      <4>1. c \in [op : {"complete"}, task : Tasks, token : Nat, records : SUBSET Nat,
                   todo : SUBSET Files, hashed : Snapshots]
        BY <1>1, <3>2 DEF Calls, Idle
      <4> HIDE DEF c
      <4>2. /\ new.op = c.op /\ new.task = c.task /\ new.token = c.token
            /\ new.todo = c.todo \ {f} /\ new.hashed = [c.hashed EXCEPT ![f] = files[f]]
            /\ new.records = c.records
            /\ new \in [op : {"complete"}, task : Tasks, token : Nat, records : SUBSET Nat,
                        todo : SUBSET Files, hashed : Snapshots]
        <5> DEFINE todo == c.todo \ {f}
                   h    == [c.hashed EXCEPT ![f] = files[f]]
        <5>1. new = [c EXCEPT !.todo = todo, !.hashed = h]
          BY <2>1, <4>1
        <5>2. todo \in SUBSET Files /\ h \in Snapshots
          BY <2>4, <4>1
        <5> HIDE DEF todo, h
        <5>3. new.op = c.op /\ new.task = c.task /\ new.token = c.token
              /\ new.todo = todo /\ new.hashed = h
          BY <4>1, <5>1
        <5> QED BY <4>1, <5>1, <5>2, <5>3 DEF todo, h
      <4> QED BY <3>2, <4>2 DEF Calls
    <3> QED BY <1>2, <3>1, <3>2
  <2>6. HashedBy(s)' = HashedBy(s) \cup {f}
    <3> DEFINE h == call'[s].hashed
    <3>1. h = [c.hashed EXCEPT ![f] = files[f]] /\ c.hashed \in Snapshots
      BY <1>3, <2>3, <2>5
    <3> HIDE DEF h
    <3>2. h[f] = files[f] /\ \A g \in Files \ {f} : h[g] = c.hashed[g]
      BY <3>1 DEF Snapshots
    <3>3. HashedBy(s)' = {g \in Files : h[g].content # Missing}
      BY DEF HashedBy, h
    <3>4. HashedBy(s) = {g \in Files : c.hashed[g].content # Missing}
      BY DEF HashedBy
    <3> HIDE DEF c
    <3> QED BY <1>5, <3>2, <3>3, <3>4
  <2>7. Dated(s)'
    <3> SUFFICES ASSUME NEW g \in HashedBy(s)'
                 PROVE  /\ new.hashed[g].stamp <= files[g].stamp
                        /\ new.hashed[g].stamp = files[g].stamp => new.hashed[g].content = files[g].content
      BY <1>2, <1>3 DEF Dated
    <3>1. CASE g = f
      <4>1. new.hashed[g] = files[g]
        BY <2>3, <2>5, <3>1 DEF Snapshots
      <4> QED BY <2>2, <3>1, <4>1
    <3>2. CASE g # f
      <4>1. g \in HashedBy(s) /\ new.hashed[g] = c.hashed[g]
        BY <2>3, <2>5, <2>6, <3>2 DEF Snapshots
      <4> QED BY <1>2, <2>3, <4>1 DEF CallOK, Dated
    <3> QED BY <3>1, <3>2
  <2>8. CallOK(s)'
    BY <1>2, <1>3, <2>3, <2>5, <2>6, <2>7 DEF CallOK, leaseVars
  <2> QED BY <1>1, <1>2, <2>5, <2>8, CallGoesOn
<1> QED BY <1>4, <1>5

\* The files of a completion are compared with their records, and the reviews
\* are read.
LEMMA ReadReviewsStep ==
  ASSUME BoardInv, NEW s \in Running, ReadReviews(s)
  PROVE  BoardStep
<1> DEFINE c   == call[s]
           new == IF NoDrift(c.records, c.hashed)
                  THEN [op |-> "gate", task |-> c.task, token |-> c.token,
                        records |-> c.records, hashed |-> c.hashed,
                        approved |-> Approved(c.task)]
                  ELSE Idle
<1>1. s \in Sessions /\ c \in Calls /\ call \in [Sessions -> Calls]
  BY DEF Running, BoardInv, BoardTypeOK
<1>2. call' = [call EXCEPT ![s] = new]
      /\ UNCHANGED <<leaseVars, files, proofs, requests, reviews, present>>
      /\ c.op = "complete"
  BY DEF ReadReviews
<1>3. call'[s] = new
  BY <1>1, <1>2
<1>4. CASE ~NoDrift(c.records, c.hashed)
  <2>1. new = Idle /\ new \in Calls
    BY <1>4 DEF Calls
  <2> QED BY <1>1, <1>2, <1>3, <2>1, CallEnded, CallGoesOn
<1>5. CASE NoDrift(c.records, c.hashed)
  <2>1. new = [op |-> "gate", task |-> c.task, token |-> c.token,
               records |-> c.records, hashed |-> c.hashed, approved |-> Approved(c.task)]
    BY <1>5
  <2>2. BoardTypeOK /\ CallOK(s) /\ Addressed
    BY <1>1 DEF BoardInv
  <2>3. /\ c.task \in Tasks /\ c.token \in Nat /\ c.hashed \in Snapshots
        /\ c.records \in SUBSET Nat
    BY <1>1, <1>2, <2>2, CallTyped
  <2>4. Approved(c.task) \in SUBSET Agents
    BY <2>2 DEF Approved, BoardTypeOK
  <2>5. \A a \in Approved(c.task) : Endorsed(c.task, a)
    BY <2>2 DEF Approved, Addressed, Current, Endorsed
  <2> HIDE DEF c
  <2>6. new \in Calls
    BY <2>1, <2>3, <2>4 DEF Calls
  <2>7. /\ call'[s].op = "gate" /\ call'[s].task = c.task /\ call'[s].token = c.token
        /\ call'[s].records = c.records /\ call'[s].hashed = c.hashed
        /\ call'[s].approved = Approved(c.task)
    BY <1>3, <2>1
  <2>8. HashedBy(s)' = HashedBy(s)
    BY <2>7 DEF HashedBy, c
  <2>9. Dated(s)'
    BY <1>2, <2>2, <2>7, <2>8 DEF CallOK, Dated, c
  <2>10. CallOK(s)'
    <3>1. PICK t : t = c.task
      OBVIOUS
    <3>2. PICK records : records = c.records
      OBVIOUS
    <3>3. PICK hashed : hashed = c.hashed
      OBVIOUS
    <3>4. PICK approved : approved = Approved(c.task)
      OBVIOUS
    <3>5. \A a \in approved : Endorsed(t, a)'
      BY <1>2, <2>5, <3>1, <3>4 DEF Endorsed, leaseVars
    <3>6. NoDrift(records, hashed)'
      BY <1>2, <1>5, <3>2, <3>3 DEF NoDrift, Recorded, c
    <3>7. records # {} /\ records \subseteq DOMAIN proofs /\ c.token \in 1..issued
      BY <1>2, <2>2, <3>2 DEF CallOK, c
    <3>8. call'[s].task = t /\ call'[s].records = records /\ call'[s].hashed = hashed
          /\ call'[s].approved = approved
      BY <2>7, <3>1, <3>2, <3>3, <3>4
    <3>9. \A a \in call'[s].approved : Endorsed(call[s].task, a)'
      BY <3>5, <3>8 DEF Endorsed
    <3>10. NoDrift(call[s].records, call[s].hashed)'
      BY <3>6, <3>8 DEF NoDrift
    <3> QED BY <1>2, <2>7, <2>9, <3>7, <3>8, <3>9, <3>10 DEF CallOK, leaseVars
  <2> QED BY <1>1, <1>2, <2>6, <2>10, CallGoesOn
<1> QED BY <1>4, <1>5

\* The gate that was passed is backed: GateReady is about the plan of the row
\* that the call still has.
LEMMA GateIsBacked ==
  ASSUME BoardInv, NEW t \in Tasks, tasks[t].plan \in Plans, NEW approved \in SUBSET Agents,
         NEW online, \A a \in approved : Endorsed(t, a),
         GateReady(tasks[t].plan, approved, online)
  PROVE  Backed(t)
<1> DEFINE plan == tasks[t].plan
<1>1. /\ plan.mode \in Modes /\ plan.peers \subseteq Agents /\ IsFiniteSet(plan.peers)
      /\ plan.peer \in plan.peers \cup {NoAgent} /\ plan.quorum \in Nat
  BY PlanAssumption
<1>2. plan.peers \cap approved \in SUBSET Supporters(t) /\ Supporters(t) \in SUBSET plan.peers
  BY DEF Supporters
<1> HIDE DEF plan
<1>3. IsFiniteSet(Supporters(t))
  BY <1>1, <1>2, FS_Subset
<1>4. /\ Cardinality(plan.peers \cap approved) <= Cardinality(Supporters(t))
      /\ Cardinality(Supporters(t)) \in Nat /\ Cardinality(plan.peers \cap approved) \in Nat
  BY <1>2, <1>3, FS_Subset, FS_CardinalityType
<1>5. CASE plan.mode = "quorum_required"
  <2>1. Cardinality(plan.peers \cap approved) >= plan.quorum
    BY <1>5 DEF GateReady, plan
  <2>2. Cardinality(Supporters(t)) >= plan.quorum
    BY <1>1, <1>4, <2>1
  <2> QED BY <1>5, <2>2 DEF Backed, plan
<1>6. CASE plan.mode = "two_party_required"
  <2>1. plan.peer # NoAgent => plan.peer \in approved
    BY <1>6 DEF GateReady, plan
  <2> QED BY <1>1, <1>2, <1>6, <2>1 DEF Backed, plan
<1>7. CASE plan.mode \notin {"quorum_required", "two_party_required"}
  BY <1>7 DEF Backed, plan
<1> QED BY <1>5, <1>6, <1>7

\* Presence is read and the gate is evaluated.
LEMMA PassGateStep ==
  ASSUME BoardInv, NEW s \in Running, PassGate(s)
  PROVE  BoardStep
<1> DEFINE c   == call[s]
           new == IF GateReady(tasks[c.task].plan, c.approved, Online(c.task))
                  THEN [op |-> "close", task |-> c.task, token |-> c.token,
                        records |-> c.records, hashed |-> c.hashed]
                  ELSE Idle
<1>1. s \in Sessions /\ c \in Calls /\ call \in [Sessions -> Calls]
  BY DEF Running, BoardInv, BoardTypeOK
<1>2. call' = [call EXCEPT ![s] = new]
      /\ UNCHANGED <<leaseVars, files, proofs, requests, reviews, present>>
      /\ c.op = "gate"
  BY DEF PassGate
<1>3. call'[s] = new
  BY <1>1, <1>2
<1>4. CASE ~GateReady(tasks[c.task].plan, c.approved, Online(c.task))
  <2>1. new = Idle /\ new \in Calls
    BY <1>4 DEF Calls
  <2> QED BY <1>1, <1>2, <1>3, <2>1, CallEnded, CallGoesOn
<1>5. CASE GateReady(tasks[c.task].plan, c.approved, Online(c.task))
  <2>1. new = [op |-> "close", task |-> c.task, token |-> c.token,
               records |-> c.records, hashed |-> c.hashed]
    BY <1>5
  <2>2. BoardTypeOK /\ CallOK(s)
    BY <1>1 DEF BoardInv
  <2>3. /\ c.task \in Tasks /\ c.token \in Nat /\ c.hashed \in Snapshots
        /\ c.records \in SUBSET Nat /\ c.approved \in SUBSET Agents
    BY <1>1, <1>2, <2>2, CallTyped
  <2>4. StillHeld(s) => Backed(c.task)
    <3>1. SUFFICES ASSUME StillHeld(s) PROVE Backed(c.task)
      OBVIOUS
    <3>2. tasks[c.task].plan \in Plans
      BY <2>3, <3>1 DEF StillHeld, BoardInv, IInv, ClaimedHasPlan
    <3>3. \A a \in c.approved : Endorsed(c.task, a)
      BY <1>2, <2>2, <3>1 DEF CallOK
    <3> QED BY <1>5, <2>3, <3>2, <3>3, GateIsBacked
  <2> HIDE DEF c
  <2>5. new \in Calls
    BY <2>1, <2>3 DEF Calls
  <2>6. /\ call'[s].op = "close" /\ call'[s].task = c.task /\ call'[s].token = c.token
        /\ call'[s].records = c.records /\ call'[s].hashed = c.hashed
    BY <1>3, <2>1
  <2>7. HashedBy(s)' = HashedBy(s)
    BY <2>6 DEF HashedBy, c
  <2>8. Dated(s)'
    BY <1>2, <2>2, <2>6, <2>7 DEF CallOK, Dated, c
  <2>9. CallOK(s)'
    <3>1. PICK t : t = c.task
      OBVIOUS
    <3>2. PICK records : records = c.records
      OBVIOUS
    <3>3. PICK hashed : hashed = c.hashed
      OBVIOUS
    <3>4. NoDrift(records, hashed)'
      BY <1>2, <2>2, <3>2, <3>3 DEF CallOK, NoDrift, Recorded, c
    <3>5. records # {} /\ records \subseteq DOMAIN proofs /\ c.token \in 1..issued
      BY <1>2, <2>2, <3>2 DEF CallOK, c
    <3>6. StillHeld(s)' => StillHeld(s)
      BY <1>2, <2>6 DEF StillHeld, leaseVars, c
    <3>7. Backed(t) => Backed(t)'
      BY <1>2 DEF Backed, Supporters, Endorsed, leaseVars
    <3>8. call'[s].task = t /\ call'[s].records = records /\ call'[s].hashed = hashed
      BY <2>6, <3>1, <3>2, <3>3
    <3>9. StillHeld(s)' => Backed(call[s].task)'
      BY <2>4, <3>1, <3>6, <3>7, <3>8 DEF Backed, Supporters, Endorsed
    <3>10. NoDrift(call[s].records, call[s].hashed)'
      BY <3>4, <3>8 DEF NoDrift
    <3> QED BY <1>2, <2>6, <2>8, <3>5, <3>8, <3>9, <3>10 DEF CallOK, leaseVars
  <2> QED BY <1>1, <1>2, <2>5, <2>9, CallGoesOn
<1> QED BY <1>4, <1>5

\* The files of a call that are undisturbed hold what was hashed.
LEMMA HashesLive ==
  ASSUME BoardInv, NEW s \in Sessions, call[s].op # "idle", Undisturbed(s), NEW f \in HashedBy(s)
  PROVE  files[f].content = call[s].hashed[f].content
  BY DEF Undisturbed, BoardInv, CallOK, Dated

\* The transaction of record_proof.
LEMMA RecordProofStep ==
  ASSUME BoardInv, NEW s \in Running, RecordProof(s)
  PROVE  BoardStep
<1> DEFINE c   == call[s]
           row == [task |-> c.task, changed |-> c.changed,
                   hashes |-> [f \in Files |-> c.hashed[f].content]]
           checked == /\ HoldsLease(s, c.task, c.token)
                      /\ \A f \in c.changed : InScope(f, tasks[c.task].plan)
                      /\ Undisturbed(s)
           Rows == [task : Tasks, changed : SUBSET Files, hashes : [Files -> Contents \cup {Missing}]]
<1>1. /\ s \in Sessions /\ call \in [Sessions -> Calls] /\ proofs \in Seq(Rows)
      /\ BoardTypeOK /\ CallOK(s)
  BY DEF Running, BoardInv, BoardTypeOK
<1>2. /\ c.op = "proof" /\ c.todo = {}
      /\ proofs' = IF checked THEN Append(proofs, row) ELSE proofs
      /\ call' = [call EXCEPT ![s] = Idle]
      /\ UNCHANGED <<leaseVars, files, requests, reviews, present>>
  BY DEF RecordProof
<1>3. call'[s] = Idle /\ Idle \in Calls
  BY <1>1, <1>2 DEF Calls
<1>4. CASE ~checked
  BY <1>1, <1>2, <1>3, <1>4, CallEnded, CallGoesOn
<1>5. CASE checked
  <2>1. /\ c.task \in Tasks /\ c.hashed \in Snapshots /\ c.changed \in SUBSET Files
    BY <1>1, <1>2, CallTyped
  <2>2. row \in Rows
    BY <2>1 DEF Snapshots
  <2>3. c.changed \subseteq HashedBy(s)
    BY <1>1, <1>2 DEF CallOK
  <2>4. proofs' = Append(proofs, row)
    BY <1>2, <1>5
  <2>5. \A f \in Files : row.hashes[f] \in {Missing, files[f].content}
    <3> SUFFICES ASSUME NEW f \in Files, c.hashed[f].content # Missing
                 PROVE  c.hashed[f].content = files[f].content
      OBVIOUS
    <3>1. f \in HashedBy(s)
      BY DEF HashedBy
    <3> QED BY <1>1, <1>2, <1>5, <3>1, HashesLive
  <2>6. \A f \in row.changed : row.hashes[f] # Missing
    BY <2>1, <2>3 DEF HashedBy
  <2>7. Live(row.task) /\ \A f \in row.changed : InScope(f, tasks[row.task].plan)
    BY <1>5 DEF HoldsLease, Live
  <2> HIDE DEF row, Rows
  <2>8. /\ proofs' \in Seq(Rows) /\ Len(proofs') = Len(proofs) + 1 /\ proofs'[Len(proofs')] = row
        /\ \A i \in DOMAIN proofs : i \in DOMAIN proofs' /\ proofs'[i] = proofs[i]
        /\ Len(proofs) \in Nat
    BY <1>1, <2>2, <2>4, AppendProperties, LenProperties
  <2>9. [Next]_leaseVars /\ tasks' = tasks
    BY <1>2 DEF leaseVars
  <2>10. ClaimsKept /\ TypeOK'
    BY <1>1, <2>9, LeaseStepKeepsClaims, NextIInv DEF BoardInv, IInv
  <2>11. Moves
    BY <1>1, <1>2, <2>8, <2>10 DEF Moves, BoardTypeOK
  <2>12. call' \in [Sessions -> Calls] /\ \A r \in Sessions \ {s} : call'[r] = call[r]
    BY <1>1, <1>2, <1>3
  <2>13. BoardTypeOK'
    BY <1>1, <1>2, <2>8, <2>10, <2>12 DEF BoardTypeOK, Rows
  <2>14. \A r \in Sessions : CallOK(r)'
    BY <1>3, <2>11, <2>12, CallKept, CallEnded
  <2>15. BoardInv'
    BY <1>2, <2>9, <2>11, <2>13, <2>14, StepKeepsInvariant DEF Addressed, BoardInv
  <2>16. HonestStep
    BY <2>5, <2>6, <2>7, <2>8 DEF HonestStep
  <2>17. LiveStep /\ ReviewedStep
    BY <2>9 DEF LiveStep, ReviewedStep, Completes
  <2> QED BY <2>9, <2>15, <2>16, <2>17 DEF BoardStep
<1> QED BY <1>4, <1>5

\* The transaction that closes the task.
LEMMA CloseCallStep ==
  ASSUME BoardInv, NEW s \in Running, CloseCall(s)
  PROVE  BoardStep
<1> DEFINE c == call[s]
           checked == /\ HoldsLease(s, c.task, c.token)
                      /\ ProofsOf(c.task) = c.records
                      /\ Undisturbed(s)
<1>1. /\ s \in Sessions /\ call \in [Sessions -> Calls]
      /\ BoardTypeOK /\ CallOK(s) /\ IInv /\ NotOwnPeer
  BY DEF Running, BoardInv, BoardTypeOK
<1>2. /\ c.op = "close"
      /\ IF checked THEN CloseTask(s, c.task, c.token) ELSE UNCHANGED leaseVars
      /\ call' = [call EXCEPT ![s] = Idle]
      /\ UNCHANGED <<files, proofs, requests, reviews, present>>
  BY DEF CloseCall
<1>3. call'[s] = Idle /\ Idle \in Calls
  BY <1>1, <1>2 DEF Calls
<1>4. CASE ~checked
  BY <1>1, <1>2, <1>3, <1>4, CallEnded, CallGoesOn
<1>5. CASE checked
  <2>1. PICK t \in Tasks : t = c.task
    BY <1>1, <1>2, CallTyped
  <2>2. CloseTask(s, t, c.token) /\ c.token \in 1..issued
    BY <1>1, <1>2, <1>5, <2>1 DEF CallOK
  <2>3. [Next]_leaseVars
    BY <2>2 DEF Next, SessionStep
  <2>4. Moves /\ Addressed' /\ TypeOK'
    BY <1>2, <2>3, TablesUnchanged
  <2>5. call' \in [Sessions -> Calls] /\ \A r \in Sessions \ {s} : call'[r] = call[r]
    BY <1>1, <1>2, <1>3
  <2>6. BoardTypeOK'
    BY <1>1, <1>2, <2>4, <2>5 DEF BoardTypeOK
  <2>7. \A r \in Sessions : CallOK(r)'
    BY <1>3, <2>4, <2>5, CallKept, CallEnded
  <2>8. BoardInv'
    BY <2>3, <2>4, <2>6, <2>7, StepKeepsInvariant
  <2>9. /\ \A u \in Tasks : Completes(u) => u = t
        /\ tasks[t].holder = s /\ tasks[t].status = "claimed" /\ tasks[t].token = c.token
    BY <1>1, <2>2, VacateEffect DEF CloseTask, HoldsLease, Completes, IInv
  <2>10. LiveStep
    <3>1. ProofsOf(t) # {}
      BY <1>1, <1>2, <1>5, <2>1 DEF CallOK
    <3>2. ASSUME NEW i \in ProofsOf(t), NEW f \in Recorded(i)
          PROVE  files[f].content = proofs[i].hashes[f]
      <4>1. /\ c.hashed[f].content = proofs[i].hashes[f]
            /\ proofs[i].hashes[f] # Missing /\ f \in Files
        BY <1>1, <1>2, <1>5, <2>1, <3>2 DEF CallOK, NoDrift, Recorded
      <4>2. f \in HashedBy(s)
        BY <4>1 DEF HashedBy
      <4> QED BY <1>1, <1>2, <1>5, <4>1, <4>2, HashesLive
    <3> QED BY <2>9, <3>1, <3>2 DEF LiveStep
  <2>11. ReviewedStep
    <3>1. StillHeld(s)
      BY <2>1, <2>9 DEF StillHeld
    <3>2. Backed(t)
      BY <1>1, <1>2, <2>1, <3>1 DEF CallOK
    <3>3. AgentOf[tasks[t].holder] \notin tasks[t].plan.peers
      BY <1>1, <2>9 DEF NotOwnPeer
    <3>4. Supporters(t) =
            {a \in tasks[t].plan.peers \ {AgentOf[tasks[t].holder]} : Endorsed(t, a)}
      BY <3>3 DEF Supporters
    <3> QED BY <2>9, <3>2, <3>4 DEF ReviewedStep, Backed
  <2>12. HonestStep
    <3>1. Len(proofs) \in Nat
      BY <1>1, LenProperties DEF BoardTypeOK
    <3> QED BY <1>2, <3>1 DEF HonestStep
  <2> QED BY <2>3, <2>8, <2>10, <2>11, <2>12 DEF BoardStep
<1> QED BY <1>4, <1>5

\* The one-transaction operations of the lease table, the end of a process and
\* the passing of time: they complete nothing.
LEMMA LeaseMoves ==
  ASSUME BoardInv, [Next]_leaseVars,
         \A t \in Tasks : tasks'[t].status = "complete" => tasks[t].status = "complete",
         present' \in [Sessions -> 0..PresenceTicks],
         \A s \in Sessions : call'[s] = call[s] \/ call'[s] = Idle,
         call' \in [Sessions -> Calls],
         UNCHANGED <<files, proofs, requests, reviews>>
  PROVE  BoardStep
<1>1. Moves /\ Addressed' /\ TypeOK'
  BY TablesUnchanged
<1>2. BoardTypeOK'
  BY <1>1 DEF BoardInv, BoardTypeOK
<1>3. \A r \in Sessions : CallOK(r)'
  BY <1>1, CallKept, CallEnded
<1>4. BoardInv'
  BY <1>1, <1>2, <1>3, StepKeepsInvariant
<1>5. LiveStep /\ HonestStep /\ ReviewedStep
  BY NothingToShow DEF BoardInv, BoardTypeOK
<1> QED BY <1>4, <1>5 DEF BoardStep

\* claim_task, renew_task, release_task and workboard.
LEMMA LeaseCallStep ==
  ASSUME BoardInv, NEW s \in Running, LeaseCall(s)
  PROVE  BoardStep
<1>1. BoardTypeOK /\ TypeOK /\ s \in Sessions
  BY DEF BoardInv, BoardTypeOK, Running
<1>2. [Next]_leaseVars
  BY DEF LeaseCall, Next, SessionStep
<1>3. \A t \in Tasks : tasks'[t].status = "complete" => tasks[t].status = "complete"
  <2>1. ASSUME NEW t \in Tasks, NEW plan \in Plans, NEW secs \in LeaseLengths,
               NEW d \in 0..LockWait, ClaimTask(s, t, plan, secs, d), NEW u \in Tasks,
               tasks'[u].status = "complete"
        PROVE  tasks[u].status = "complete"
    BY <1>1, <2>1, ClaimEffect, SweepKeepsLive
  <2>2. ASSUME NEW t \in Tasks, NEW k \in 1..issued, NEW secs \in LeaseLengths,
               RenewTask(s, t, k, secs), NEW u \in Tasks, tasks'[u].status = "complete"
        PROVE  tasks[u].status = "complete"
    BY <1>1, <2>2, RenewEffect
  <2>3. ASSUME NEW t \in Tasks, NEW k \in 1..issued, NEW status \in {"open", "blocked"},
               ReleaseTask(s, t, k, status), NEW u \in Tasks, tasks'[u].status = "complete"
        PROVE  tasks[u].status = "complete"
    BY <1>1, <2>3, VacateEffect DEF ReleaseTask
  <2>4. ASSUME Workboard(s), NEW u \in Tasks, tasks'[u].status = "complete"
        PROVE  tasks[u].status = "complete"
    BY <1>1, <2>4, SweepKeepsLive DEF Workboard
  <2> QED BY <2>1, <2>2, <2>3, <2>4 DEF LeaseCall
<1> QED BY <1>1, <1>2, <1>3, LeaseMoves DEF LeaseCall, BoardTypeOK

\* The heartbeat.
LEMMA TouchPresenceStep ==
  ASSUME BoardInv, NEW s \in Running, TouchPresence(s)
  PROVE  BoardStep
<1>1. BoardTypeOK /\ PresenceTicks \in 0..PresenceTicks
  BY BoardAssumption DEF BoardInv
<1>2. present' \in [Sessions -> 0..PresenceTicks]
  BY <1>1 DEF TouchPresence, BoardTypeOK
<1>3. [Next]_leaseVars /\ UNCHANGED <<leaseVars, files, proofs, requests, reviews, call>>
  BY DEF TouchPresence
<1> QED BY <1>1, <1>2, <1>3, LeaseMoves DEF leaseVars, BoardTypeOK

\* The end of a process, in order or not.
LEMMA EndStep ==
  ASSUME BoardInv, NEW s \in Running, Exit(s) \/ Die(s)
  PROVE  BoardStep
<1>1. BoardTypeOK /\ s \in Sessions /\ 0 \in 0..PresenceTicks /\ Idle \in Calls
  BY BoardAssumption DEF BoardInv, Running, Calls
<1>2. Crash(s) /\ UNCHANGED <<files, proofs, requests, reviews>>
  BY DEF Exit, Die
<1>3. [Next]_leaseVars /\ tasks' = tasks
  BY <1>2 DEF Next, SessionStep, Crash
<1>4. present' \in [Sessions -> 0..PresenceTicks]
  BY <1>1 DEF Exit, Die, BoardTypeOK
<1>5. /\ call' \in [Sessions -> Calls]
      /\ \A r \in Sessions : call'[r] = call[r] \/ call'[r] = Idle
  BY <1>1 DEF Exit, Die, BoardTypeOK
<1> QED BY <1>2, <1>3, <1>4, <1>5, LeaseMoves

\* Time.
LEMMA BoardTickStep ==
  ASSUME BoardInv, BoardTick
  PROVE  BoardStep
<1>1. BoardTypeOK /\ TypeOK
  BY DEF BoardInv, BoardTypeOK
<1>2. [Next]_leaseVars
  BY DEF BoardTick, Next, Tick, leaseVars
<1>3. \A t \in Tasks : tasks'[t].status = tasks[t].status
  <2>1. CASE Tick
    BY <1>1, <2>1, TickEffect
  <2> QED BY <2>1 DEF BoardTick, Tick
<1>4. present' \in [Sessions -> 0..PresenceTicks]
  <2>1. \A n \in 0..PresenceTicks : n > 0 => n - 1 \in 0..PresenceTicks
    BY BoardAssumption
  <2>2. present \in [Sessions -> 0..PresenceTicks]
    BY <1>1 DEF BoardTypeOK
  <2> QED BY <2>1, <2>2 DEF BoardTick, Faded
<1> QED BY <1>1, <1>2, <1>3, <1>4, LeaseMoves DEF BoardTick, BoardTypeOK

\* Somebody changes a file.
LEMMA EditFileStep ==
  ASSUME BoardInv, NEW f \in Files, NEW content \in Contents \cup {Missing},
         EditFile(f, content)
  PROVE  BoardStep
<1>1. BoardTypeOK /\ files \in Snapshots /\ files[f].stamp \in Nat
  BY DEF BoardInv, BoardTypeOK, Snapshots
<1>2. /\ files' = [files EXCEPT ![f] = [content |-> content, stamp |-> files[f].stamp + 1]]
      /\ UNCHANGED <<leaseVars, proofs, requests, reviews, present, call>>
  BY DEF EditFile
<1>3. files' \in Snapshots /\ \A g \in Files : files'[g] = files[g] \/ files'[g].stamp > files[g].stamp
  BY <1>1, <1>2 DEF Snapshots
<1>4. [Next]_leaseVars
  BY <1>2
<1>5. ClaimsKept /\ TypeOK'
  BY <1>1, <1>4, LeaseStepKeepsClaims, NextIInv DEF BoardInv, BoardTypeOK, IInv
<1>6. Moves
  BY <1>2, <1>3, <1>5 DEF Moves
<1>7. BoardTypeOK'
  BY <1>1, <1>2, <1>3, <1>5 DEF BoardTypeOK
<1>8. \A r \in Sessions : CallOK(r)'
  BY <1>2, <1>6, CallKept
<1>9. BoardInv'
  BY <1>2, <1>4, <1>6, <1>7, <1>8, StepKeepsInvariant DEF Addressed, BoardInv
<1>10. LiveStep /\ HonestStep /\ ReviewedStep
  BY <1>1, <1>2, NothingToShow DEF leaseVars, BoardTypeOK
<1> QED BY <1>4, <1>9, <1>10 DEF BoardStep

\* request_review and submit_review only add rows.
LEMMA ReviewMoves ==
  ASSUME BoardInv, UNCHANGED <<leaseVars, files, proofs, present, call>>,
         BoardTypeOK', Addressed',
         \A i \in DOMAIN requests : i \in DOMAIN requests' /\ requests'[i] = requests[i],
         reviews \subseteq reviews'
  PROVE  BoardStep
<1>1. [Next]_leaseVars /\ BoardTypeOK
  BY DEF BoardInv
<1>2. ClaimsKept
  BY <1>1, LeaseStepKeepsClaims DEF BoardTypeOK
<1>3. Moves
  BY <1>1, <1>2 DEF Moves, BoardTypeOK
<1>4. \A r \in Sessions : CallOK(r)'
  BY <1>3, CallKept
<1>5. BoardInv'
  BY <1>1, <1>3, <1>4, StepKeepsInvariant
<1>6. LiveStep /\ HonestStep /\ ReviewedStep
  BY <1>1, NothingToShow DEF leaseVars, BoardTypeOK
<1> QED BY <1>1, <1>5, <1>6 DEF BoardStep

\* A review is asked for.
LEMMA RequestReviewStep ==
  ASSUME BoardInv, NEW s \in Running, NEW t \in Tasks, NEW k \in 1..issued,
         NEW recipient \in Agents, RequestReview(s, t, k, recipient)
  PROVE  BoardStep
<1> DEFINE Rows == [task : Tasks, recipient : Agents, revision : Nat, plan : Plans,
                    live : [Files -> Contents \cup {Missing}]]
           row  == [task |-> t, recipient |-> recipient, revision |-> tasks[t].revision,
                    plan |-> tasks[t].plan, live |-> [f \in Files |-> files[f].content]]
<1>1. BoardTypeOK /\ TypeOK /\ requests \in Seq(Rows) /\ Addressed
  BY DEF BoardInv, BoardTypeOK
<1>2. tasks[t].plan \in Plans /\ tasks[t].revision \in Nat
  BY <1>1 DEF RequestReview, HoldsLease, BoardInv, IInv, ClaimedHasPlan, TypeOK, TaskRow
<1>3. [f \in Files |-> files[f].content] \in [Files -> Contents \cup {Missing}]
  BY <1>1 DEF BoardTypeOK, Snapshots
<1>4. row \in Rows
  BY <1>2, <1>3
<1>5. requests' = Append(requests, row)
      /\ UNCHANGED <<leaseVars, files, proofs, reviews, present, call>>
  BY DEF RequestReview
<1> HIDE DEF Rows, row
<1>6. /\ requests' \in Seq(Rows)
      /\ \A i \in DOMAIN requests : i \in DOMAIN requests' /\ requests'[i] = requests[i]
  BY <1>1, <1>4, <1>5, AppendProperties, LenProperties
<1>7. reviews \subseteq [request : DOMAIN requests', reviewer : Agents,
                         verdict : {"approved", "changes_requested"}]
  BY <1>1, <1>6 DEF BoardTypeOK
<1>8. BoardTypeOK'
  BY <1>1, <1>5, <1>6, <1>7 DEF BoardTypeOK, TypeOK, leaseVars, Rows
<1>9. Addressed'
  BY <1>1, <1>5, <1>6 DEF Addressed, BoardTypeOK
<1> QED BY <1>5, <1>6, <1>8, <1>9, ReviewMoves

\* A review is given.
LEMMA SubmitReviewStep ==
  ASSUME BoardInv, NEW s \in Running, NEW i \in DOMAIN requests,
         NEW verdict \in {"approved", "changes_requested"}, SubmitReview(s, i, verdict)
  PROVE  BoardStep
<1>1. BoardTypeOK /\ Addressed /\ AgentOf[s] \in Agents
  BY SessionAssumption DEF BoardInv, Running
<1>2. /\ reviews' = reviews \cup {[request |-> i, reviewer |-> AgentOf[s], verdict |-> verdict]}
      /\ requests[i].recipient = AgentOf[s]
      /\ UNCHANGED <<leaseVars, files, proofs, requests, present, call>>
  BY DEF SubmitReview
<1>3. BoardTypeOK'
  BY <1>1, <1>2 DEF BoardTypeOK, TypeOK, leaseVars
<1>4. Addressed'
  BY <1>1, <1>2 DEF Addressed
<1> QED BY <1>2, <1>3, <1>4, ReviewMoves

\* The empty board.
LEMMA BoardStart ==
  ASSUME BoardInit
  PROVE  BoardInv
<1>1. IInv /\ TypeOK
  BY InitIInv DEF BoardInit, IInv
<1>2. /\ files \in Snapshots /\ proofs = <<>> /\ requests = <<>> /\ reviews = {}
      /\ present = [s \in Sessions |-> 0] /\ call = [s \in Sessions |-> Idle]
  BY DEF BoardInit, Snapshots
<1>3. 0 \in 0..PresenceTicks /\ Idle \in Calls
  BY BoardAssumption DEF Calls
<1>4. BoardTypeOK
  BY <1>1, <1>2, <1>3, EmptySeq DEF BoardTypeOK
<1>5. NotOwnPeer
  BY DEF BoardInit, Init, NoRow, NotOwnPeer
<1>6. \A s \in Sessions : CallOK(s)
  BY <1>2 DEF CallOK, Idle
<1> QED BY <1>1, <1>2, <1>4, <1>5, <1>6 DEF BoardInv, Addressed

\* Every step of the board.
LEMMA BoardNextStep ==
  ASSUME BoardInv, BoardNext
  PROVE  BoardStep
<1>1. ASSUME NEW s \in Running, ProofStep(s)
      PROVE  BoardStep
  BY <1>1, BeginProofStep, HashFileStep, RecordProofStep DEF ProofStep
<1>2. ASSUME NEW s \in Running, ReviewStep(s)
      PROVE  BoardStep
  BY <1>2, RequestReviewStep, SubmitReviewStep DEF ReviewStep
<1>3. ASSUME NEW s \in Running, CompleteStep(s)
      PROVE  BoardStep
  BY <1>3, BeginCompleteStep, ReadReviewsStep, PassGateStep, CloseCallStep DEF CompleteStep
<1> QED
  BY <1>1, <1>2, <1>3, LeaseCallStep, TouchPresenceStep, EndStep, EditFileStep, BoardTickStep
     DEF BoardNext

\* A step of others.
LEMMA BoardStutter ==
  ASSUME BoardInv, UNCHANGED boardVars
  PROVE  BoardInv' /\ UNCHANGED leaseVars
<1>1. UNCHANGED <<leaseVars, files, proofs, requests, reviews, present, call>>
  BY DEF boardVars, leaseVars
<1>2. [Next]_leaseVars /\ Moves /\ Addressed'
  BY <1>1, TablesUnchanged
<1>3. BoardTypeOK'
  BY <1>1 DEF BoardInv, BoardTypeOK, TypeOK, leaseVars
<1>4. \A r \in Sessions : CallOK(r)'
  BY <1>1, <1>2, CallKept
<1> QED BY <1>1, <1>2, <1>3, <1>4, StepKeepsInvariant

(***************************************************************************)
(* Theorems.                                                               *)
(***************************************************************************)
\* The inductive invariant of the board.
THEOREM BoardInvariant == BoardSpec => []BoardInv
<1>1. BoardInit => BoardInv
  BY BoardStart
<1>2. BoardInv /\ [BoardNext]_boardVars => BoardInv'
  BY BoardNextStep, BoardStutter DEF BoardStep
<1> QED BY <1>1, <1>2, PTL DEF BoardSpec

\* Every table of the board holds rows of its type, and every multi-step call
\* the variables of its place.
THEOREM BoardTypes == BoardSpec => []BoardTypeOK
<1>1. BoardInv => BoardTypeOK
  BY DEF BoardInv
<1> QED BY <1>1, BoardInvariant, PTL

\* The board uses the lease table as TaskLease allows: whatever is proved and
\* reviewed around it, a lease is claimed, renewed, released and completed
\* only by the steps of Spec.
THEOREM BoardUsesLeases == BoardSpec => Spec
<1>1. BoardInit => Init
  BY DEF BoardInit
<1>2. BoardInv /\ [BoardNext]_boardVars => [Next]_leaseVars
  BY BoardNextStep, BoardStutter DEF BoardStep
<1> QED BY <1>1, <1>2, BoardInvariant, PTL DEF BoardSpec, Spec

\* So no two writers of a board conflict,
THEOREM BoardExclusion == BoardSpec => []WriterExclusion
  BY BoardUsesLeases, Exclusion, PTL

\* and the board implements the abstract writer lock.
THEOREM BoardImplementsLock == BoardSpec => ImplementsWriterLock
  BY BoardUsesLeases, Implements, PTL

\* complete_task closes a task only over live proofs, although it hashed the
\* files without a lock and others may have edited them since.
THEOREM CompletionsLive == BoardSpec => CompletionProofLive
<1>1. BoardInv /\ [BoardNext]_boardVars =>
        [\A t \in Tasks : Completes(t) =>
           /\ ProofsOf(t) # {}
           /\ \A i \in ProofsOf(t) : \A f \in Recorded(i) :
                 files[f].content = proofs[i].hashes[f]]_boardVars
  BY BoardNextStep DEF BoardStep, LiveStep
<1> QED BY <1>1, BoardInvariant, PTL DEF BoardSpec, CompletionProofLive

\* record_proof records what the files hold in that very step, of paths in the
\* write scope of a task that is leased.
THEOREM ProofsHonest == BoardSpec => ProofHonest
<1>1. BoardInv /\ [BoardNext]_boardVars =>
        [Len(proofs') > Len(proofs) =>
           LET p == proofs'[Len(proofs')]
           IN  /\ Live(p.task)
               /\ \A f \in p.changed : InScope(f, tasks[p.task].plan)
               /\ \A f \in p.changed : p.hashes[f] # Missing
               /\ \A f \in Files : p.hashes[f] \in {Missing, files[f].content}]_boardVars
  BY BoardNextStep DEF BoardStep, HonestStep
<1> QED BY <1>1, BoardInvariant, PTL DEF BoardSpec, ProofHonest

\* complete_task under a policy with named peers: the approvals stand in the
\* step that closes the task, although the gate was evaluated before it.
THEOREM CompletionsReviewed == BoardSpec => CompletionReviewed
<1>1. BoardInv /\ [BoardNext]_boardVars =>
        [\A t \in Tasks : Completes(t) =>
           LET plan   == tasks[t].plan
               backed == {a \in plan.peers \ {AgentOf[tasks[t].holder]} : Endorsed(t, a)}
           IN  /\ plan.mode = "quorum_required" => Cardinality(backed) >= plan.quorum
               /\ plan.mode = "two_party_required" /\ plan.peer # NoAgent
                    => plan.peer \in backed]_boardVars
  BY BoardNextStep DEF BoardStep, ReviewedStep
<1> QED BY <1>1, BoardInvariant, PTL DEF BoardSpec, CompletionReviewed
=============================================================================
