----------------------------- MODULE TaskLease ------------------------------
(***************************************************************************)
(* The task table of bridge.py: claim_task, renew_task, release_task, the  *)
(* lease expiry sweep, and the lease half of complete_task.                *)
(*                                                                         *)
(* Every PeerBridge session is a process of its own; all of them work on   *)
(* one SQLite file, and each operation below is one BEGIN IMMEDIATE        *)
(* transaction, hence one step.  A transaction whose check raises is       *)
(* rolled back (_ClosingConnection) and is no step at all.                 *)
(*                                                                         *)
(* Wall-clock time appears as the ticks a lease has left: Tick is the      *)
(* passing of one unit.  claim_task reads the clock before it waits for    *)
(* the write lock, so its notion of now may be up to LockWait ticks old;   *)
(* that is why `left' keeps counting below zero.                           *)
(***************************************************************************)
EXTENDS Integers, FiniteSets, Sequences

CONSTANTS
  Sessions,       (* stdio server processes, each with its session_id         *)
  Agents,         (* agent ids                                                *)
  AgentOf,        (* AgentOf[s]: the agent id session s was started with      *)
  Scopes,         (* scopes that share one project root and database          *)
  ScopeOf,        (* ScopeOf[s]: the scope session s was started with         *)
  Tasks,          (* (scope, task_id) pairs                                   *)
  TaskScope,      (* TaskScope[t]: the scope part of t                        *)
  Plans,          (* what a claim can declare: paths and approval policy      *)
  LeaseLengths,   (* values of lease_seconds after clamping, in ticks         *)
  LockWait,       (* longest wait for the SQLite write lock, in ticks         *)
  MaxClaims,      (* bound: lease tokens ever issued                          *)
  NoSession,      (* NULL in claimed_session_id                               *)
  NoPlan          (* the plan of a task that has no row                       *)

ASSUME SessionAssumption ==
  /\ AgentOf \in [Sessions -> Agents]
  /\ ScopeOf \in [Sessions -> Scopes]
  /\ TaskScope \in [Tasks -> Scopes]
  /\ NoSession \notin Sessions
  /\ NoPlan \notin Plans

(* lease_seconds is at least 30, the busy timeout at most 10.               *)
ASSUME LeaseAssumption ==
  /\ LockWait \in Nat
  /\ MaxClaims \in Nat
  /\ LeaseLengths \subseteq Nat
  /\ \A n \in LeaseLengths : n > LockWait

(***************************************************************************)
(* A plan is a record with at least the fields read and write (sets of     *)
(* path prefixes, each a sequence of names, <<>> being ".") and peers (the *)
(* required_peers).  Two prefixes overlap when one is an ancestor of the   *)
(* other or equal to it.                                                   *)
(***************************************************************************)
Within(path, prefix) == /\ Len(prefix) <= Len(path)
                        /\ \A i \in 1..Len(prefix) : prefix[i] = path[i]

Overlaps(left, right) == Within(left, right) \/ Within(right, left)

\* Read against read is the only overlap that is allowed.
PlansConflict(p, q) ==
  \/ \E a \in p.write, b \in q.write \cup q.read : Overlaps(a, b)
  \/ \E a \in p.read, b \in q.write : Overlaps(a, b)

VARIABLES
  tasks,     (* tasks[t]: the row of t                                        *)
  issued,    (* lease tokens issued so far; a token is its number             *)
  crashed    (* sessions whose process is gone                                *)

leaseVars == <<tasks, issued, crashed>>

Status == {"absent", "open", "blocked", "claimed", "complete"}

TaskRow == [status : Status, holder : Sessions \cup {NoSession}, token : Nat,
            left : Int, plan : Plans \cup {NoPlan}, revision : Nat]

NoRow == [status |-> "absent", holder |-> NoSession, token |-> 0,
          left |-> 0, plan |-> NoPlan, revision |-> 0]

Running == Sessions \ crashed

Live(t) == tasks[t].status = "claimed" /\ tasks[t].left > 0

\* The row once claimed_by, claimed_session_id, the token and the expiry are
\* set to NULL.
Unclaimed(row, status) ==
  [status |-> status, holder |-> NoSession, token |-> 0, left |-> 0,
   plan |-> row.plan, revision |-> row.revision]

\* _expire_leases: every lease of this scope whose time is over is reopened.
Swept(scope) ==
  [t \in Tasks |-> IF /\ TaskScope[t] = scope
                      /\ tasks[t].status = "claimed"
                      /\ tasks[t].left <= 0
                   THEN Unclaimed(tasks[t], "open")
                   ELSE tasks[t]]

\* Mutants: the expiry is not looked at; the session is not looked at.
HoldsLeaseIgnoringExpiry(s, t, k) ==
  tasks[t].status = "claimed" /\ tasks[t].holder = s /\ tasks[t].token = k

HoldsLeaseOfAnySession(s, t, k) ==
  tasks[t].status = "claimed" /\ tasks[t].left > 0 /\ tasks[t].token = k

\* _require_lease: the token must be that of an unexpired lease claimed by
\* this very session.
HoldsLease(s, t, k) ==
  /\ tasks[t].status = "claimed"
  /\ tasks[t].left > 0
  /\ tasks[t].holder = s
  /\ tasks[t].token = k

\* Mutant: only the approval policy makes a new revision.
NextRevisionOfPolicy(row, plan) ==
  IF row.status # "absent" /\ row.plan.peers = plan.peers
  THEN row.revision ELSE row.revision + 1

\* The revision a claim stores: a new number whenever task_sha256 differs.
NextRevision(row, plan) ==
  IF row.status # "absent" /\ row.plan = plan THEN row.revision ELSE row.revision + 1

Init == /\ tasks   = [t \in Tasks |-> NoRow]
        /\ issued  = 0
        /\ crashed = {}

\* Mutants: a complete task is claimed like an open one; conflicts are looked
\* for in the task's own scope only.
ClaimableUnlessHeld(row) == row.status # "claimed"

ActiveInScope(board, t, d) ==
  {u \in Tasks \ {t} : /\ TaskScope[u] = TaskScope[t]
                       /\ board[u].status = "claimed"
                       /\ board[u].left + d > 0}

Claimable(row) == row.status \in {"absent", "open", "blocked"}

\* The leases a claim must not conflict with: of every scope, as of a clock
\* reading d ticks ago.
Active(board, t, d) ==
  {u \in Tasks \ {t} : board[u].status = "claimed" /\ board[u].left + d > 0}

\* claim_task, with a clock reading that is d ticks old.
ClaimTask(s, t, plan, secs, d) ==
  LET board == Swept(ScopeOf[s])
  IN  /\ issued < MaxClaims
      /\ TaskScope[t] = ScopeOf[s]
      /\ AgentOf[s] \notin plan.peers
      /\ Claimable(board[t])
      /\ \A u \in Active(board, t, d) : ~PlansConflict(plan, board[u].plan)
      /\ issued' = issued + 1
      /\ tasks'  = [board EXCEPT ![t] =
                      [status |-> "claimed", holder |-> s, token |-> issued + 1,
                       left |-> secs - d, plan |-> plan,
                       revision |-> NextRevision(board[t], plan)]]
      /\ UNCHANGED crashed

RenewTask(s, t, k, secs) ==
  /\ HoldsLease(s, t, k)
  /\ tasks' = [tasks EXCEPT ![t].left = secs]
  /\ UNCHANGED <<issued, crashed>>

ReleaseTask(s, t, k, status) ==
  /\ HoldsLease(s, t, k)
  /\ tasks' = [tasks EXCEPT ![t] = Unclaimed(@, status)]
  /\ UNCHANGED <<issued, crashed>>

\* The last transaction of complete_task.  TaskBoard adds the proof and
\* review gates that come before it.
CloseTask(s, t, k) ==
  /\ HoldsLease(s, t, k)
  /\ tasks' = [tasks EXCEPT ![t] = Unclaimed(@, "complete")]
  /\ UNCHANGED <<issued, crashed>>

\* workboard sweeps before it lists.
Workboard(s) ==
  /\ tasks' = Swept(ScopeOf[s])
  /\ tasks' # tasks
  /\ UNCHANGED <<issued, crashed>>

\* One unit of wall-clock time.  Below -LockWait nothing can tell the
\* difference any more.
Aged == [t \in Tasks |->
           IF tasks[t].status = "claimed" /\ tasks[t].left > -LockWait
           THEN [tasks[t] EXCEPT !.left = @ - 1]
           ELSE tasks[t]]

Tick == /\ Aged # tasks
        /\ tasks' = Aged
        /\ UNCHANGED <<issued, crashed>>

\* A server process dies with whatever leases it holds; its session_id and
\* tokens are gone for good.
Crash(s) ==
  /\ crashed' = crashed \cup {s}
  /\ UNCHANGED <<tasks, issued>>

SessionStep(s) ==
  \/ \E t \in Tasks, plan \in Plans, secs \in LeaseLengths, d \in 0..LockWait :
        ClaimTask(s, t, plan, secs, d)
  \/ \E t \in Tasks, k \in 1..issued, secs \in LeaseLengths : RenewTask(s, t, k, secs)
  \/ \E t \in Tasks, k \in 1..issued, status \in {"open", "blocked"} :
        ReleaseTask(s, t, k, status)
  \/ \E t \in Tasks, k \in 1..issued : CloseTask(s, t, k)
  \/ Workboard(s)
  \/ Crash(s)

Next == \/ \E s \in Running : SessionStep(s)
        \/ Tick

Spec == Init /\ [][Next]_leaseVars

(***************************************************************************)
(* Properties                                                              *)
(***************************************************************************)

\* Every column has a value of its type: what claim_task, renew_task,
\* release_task and the expiry sweep may store in a row of tasks.
TypeOK ==
  /\ tasks \in [Tasks -> TaskRow]
  /\ issued \in Nat
  /\ crashed \subseteq Sessions

\* One task has one writer lease: two unexpired leases never cover
\* overlapping paths unless both only read there.  claim_task checks it once,
\* against an old clock and across scopes; expiry, renewal and takeover must
\* keep it.
WriterExclusion ==
  \A t, u \in Tasks :
     t # u /\ Live(t) /\ Live(u) => ~PlansConflict(tasks[t].plan, tasks[u].plan)

\* A lease that claim_task granted lives without a gap: a task is live after a
\* step either under the lease it was live under before, or under a token
\* issued in that step.  No step steals a live lease or revives an expired one,
\* whoever still knows its token.
LeaseContinuity ==
  [][\A t \in Tasks : Live(t)' =>
        \/ Live(t) /\ tasks'[t].token = tasks[t].token
        \/ ~Live(t) /\ tasks'[t].token = issued + 1]_leaseVars

\* The holder of a revision number knows what it stands for: the row of a task
\* never changes its declared plan under an unchanged task_revision, however
\* often the task is released, expired and claimed again.
RevisionNamesOnePlan ==
  [][\A t \in Tasks : tasks'[t].plan # tasks[t].plan
                        => tasks'[t].revision > tasks[t].revision]_leaseVars

\* Time always passes; nothing is assumed of the sessions.
FairSpec == Spec /\ WF_leaseVars(Tick)

\* A process that dies with a lease does not block the paths of its task for
\* ever: claim_task stops counting the lease as active.
OrphanedLeaseEnds ==
  \A t \in Tasks :
     (tasks[t].status = "claimed" /\ tasks[t].holder \in crashed) ~> ~Live(t)

\* The detailed specification implements the abstract lock.
Lock == INSTANCE WriterLock
  WITH Claims   <- Plans,
       NoClaim  <- NoPlan,
       Conflict <- PlansConflict,
       granted  <- [t \in Tasks |-> IF Live(t) THEN tasks[t].plan ELSE NoPlan],
       finished <- {t \in Tasks : tasks[t].status = "complete"}

\* Seen through its live leases, the task table behaves like WriterLock: a claim
\* is granted only against conflict-free holders and a completed task is never
\* granted again.
ImplementsWriterLock == Lock!Spec

=============================================================================
