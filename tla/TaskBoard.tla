------------------------------ MODULE TaskBoard -----------------------------
(***************************************************************************)
(* The task board of bridge.py: the lease table of TaskLease.tla with file *)
(* proofs (record_proof), peer reviews (request_review, submit_review),    *)
(* presence (touch_presence, clear_presence) and the completion gate       *)
(* (complete_task).                                                        *)
(*                                                                         *)
(* record_proof and complete_task are the two operations that are not one  *)
(* transaction: they check the lease, hash files without a lock, and check *)
(* again under BEGIN IMMEDIATE.  Each of their steps is an action here;    *)
(* call[s] is what such a call keeps in local variables.  A session is a   *)
(* stdio loop that handles one call at a time, so every other operation    *)
(* of s waits for it; only the heartbeat thread does not.                  *)
(***************************************************************************)
EXTENDS TaskLease

CONSTANTS
  Files,          (* files of the project                                     *)
  PathOf,         (* PathOf[f]: the path of f, a sequence of names            *)
  Contents,       (* what a file may contain, told apart by SHA-256           *)
  Missing,        (* the content of a file that is not there, and the hash of *)
                  (* a file that was not hashed                               *)
  NoAgent,        (* a task without required_peer                             *)
  PresenceTicks,  (* presence_ttl_seconds, in ticks                           *)
  MaxEdits,       (* bound: edits of one file                                 *)
  MaxProofs,      (* bound: rows of integration_records                       *)
  MaxRequests     (* bound: rows of peer_calls                                *)

Modes == {"solo_allowed", "two_party_required", "presence_aware", "quorum_required"}

ASSUME BoardAssumption ==
  /\ PathOf \in [Files -> Seq(STRING)]
  /\ Missing \notin Contents
  /\ NoAgent \notin Agents
  /\ {PresenceTicks, MaxEdits, MaxProofs, MaxRequests} \subseteq Nat

\* A plan also carries the approval policy, as far as claim_task accepts it.
ASSUME PlanAssumption ==
  \A p \in Plans :
     /\ p.mode \in Modes
     /\ p.peers \subseteq Agents /\ IsFiniteSet(p.peers)
     /\ p.peer \in p.peers \cup {NoAgent}
     /\ p.quorum \in Nat \ {0}
     /\ p.peers # {} => p.quorum <= Cardinality(p.peers)
     /\ p.mode = "quorum_required" => p.peers # {}

VARIABLES
  files,      (* files[f]: content and stamp, the (size, mtime_ns) of f       *)
  proofs,     (* integration_records, in order                                *)
  requests,   (* peer_calls, in order                                         *)
  reviews,    (* peer_reviews                                                 *)
  present,    (* present[s]: ticks until the presence of s expires, 0 if none *)
  call        (* call[s]: the multi-step call s is in                         *)

boardVars == <<tasks, issued, crashed, files, proofs, requests, reviews, present, call>>

Idle == [op |-> "idle"]

(***************************************************************************)
(* Proofs                                                                  *)
(***************************************************************************)
InScope(f, plan) == \E prefix \in plan.write : Within(PathOf[f], prefix)

ProofsOf(t) == {i \in DOMAIN proofs : proofs[i].task = t}

\* The files a record has a hash of, those that several records have one of,
\* and those a call has hashed so far.
Recorded(i) == {f \in Files : proofs[i].hashes[f] # Missing}

PathsOf(records) == UNION {Recorded(i) : i \in records}

Unhashed == [f \in Files |-> [content |-> Missing, stamp |-> 0]]

HashedBy(s) == {f \in Files : call[s].hashed[f].content # Missing}

\* The lock-free part of record_proof: lease and write scope.
BeginProof(s, t, k, changed, evidence) ==
  /\ call[s] = Idle
  /\ Len(proofs) + Cardinality({r \in Sessions : call[r].op = "proof"}) < MaxProofs
  /\ HoldsLease(s, t, k)
  /\ changed \cup evidence # {}
  /\ \A f \in changed : InScope(f, tasks[t].plan)
  /\ call' = [call EXCEPT ![s] =
                [op |-> "proof", task |-> t, token |-> k, changed |-> changed,
                 todo |-> changed \cup evidence, hashed |-> Unhashed]]
  /\ UNCHANGED <<leaseVars, files, proofs, requests, reviews, present>>

\* _hash_proof_files, one file.  _hash_file_streaming compares the identity
\* before and after it reads, so a hash belongs to one stamp; a file that is
\* not there ends the call.
HashFile(s, f) ==
  /\ call[s].op \in {"proof", "complete"}
  /\ f \in call[s].todo
  /\ call' = [call EXCEPT ![s] =
                IF files[f].content = Missing THEN Idle
                ELSE [call[s] EXCEPT !.todo = call[s].todo \ {f}, !.hashed[f] = files[f]]]
  /\ UNCHANGED <<leaseVars, files, proofs, requests, reviews, present>>

\* Mutant: the transaction only looks whether the files are still there.
UndisturbedIfPresent(s) == \A f \in HashedBy(s) : files[f].content # Missing

\* Every file the call hashed still has the identity it was hashed under.
Undisturbed(s) ==
  \A f \in HashedBy(s) : /\ files[f].content # Missing
                         /\ files[f].stamp = call[s].hashed[f].stamp

\* The transaction of record_proof: everything is checked again.
RecordProof(s) ==
  LET c == call[s]
  IN  /\ c.op = "proof"
      /\ c.todo = {}
      /\ IF /\ HoldsLease(s, c.task, c.token)
            /\ \A f \in c.changed : InScope(f, tasks[c.task].plan)
            /\ Undisturbed(s)
         THEN proofs' = Append(proofs,
                [task |-> c.task, changed |-> c.changed,
                 hashes |-> [f \in Files |-> c.hashed[f].content]])
         ELSE UNCHANGED proofs
      /\ call' = [call EXCEPT ![s] = Idle]
      /\ UNCHANGED <<leaseVars, files, requests, reviews, present>>

(***************************************************************************)
(* Reviews and presence                                                    *)
(***************************************************************************)
\* `live' is not in the table: it is what the files held when the review was
\* asked for, kept for ReviewBindsContent.
RequestReview(s, t, k, recipient) ==
  /\ call[s] = Idle
  /\ recipient # AgentOf[s]
  /\ HoldsLease(s, t, k)
  /\ Len(requests) < MaxRequests
  /\ requests' = Append(requests,
       [task |-> t, recipient |-> recipient, revision |-> tasks[t].revision,
        plan |-> tasks[t].plan, live |-> [f \in Files |-> files[f].content]])
  /\ UNCHANGED <<leaseVars, files, proofs, reviews, present, call>>

\* Mutant: a review stays current whatever becomes of the task.
AlwaysCurrent(i) == requests[i].task \in Tasks

\* The revision and task_sha256 a request is bound to are those of its task.
Current(i) == /\ requests[i].revision = tasks[requests[i].task].revision
              /\ requests[i].plan = tasks[requests[i].task].plan

\* The task need not be claimed.  peer_reviews is UNIQUE on request and
\* reviewer.  Verdict "blocked" has no effect of its own.
SubmitReview(s, i, verdict) ==
  /\ call[s] = Idle
  /\ TaskScope[requests[i].task] = ScopeOf[s]
  /\ requests[i].recipient = AgentOf[s]
  /\ Current(i)
  /\ ~\E v \in reviews : v.request = i /\ v.reviewer = AgentOf[s]
  /\ reviews' = reviews \cup
       {[request |-> i, reviewer |-> AgentOf[s], verdict |-> verdict]}
  /\ UNCHANGED <<leaseVars, files, proofs, requests, present, call>>

Approved(t) ==
  {v.reviewer : v \in {w \in reviews : /\ w.verdict = "approved"
                                       /\ requests[w.request].task = t
                                       /\ Current(w.request)}}

\* Mutant: the holder's own heartbeat counts.
OnlineWithHolder(t) ==
  {AgentOf[s] : s \in {r \in Sessions : ScopeOf[r] = TaskScope[t] /\ present[r] > 0}}

\* The agents review_summary takes for online: not the holder itself.  Nor the
\* human-operator, who is not among the Agents here.
Online(t) ==
  {AgentOf[s] : s \in {r \in Sessions : /\ ScopeOf[r] = TaskScope[t]
                                        /\ present[r] > 0
                                        /\ tasks[t].holder # NoSession
                                             => AgentOf[r] # AgentOf[tasks[t].holder]}}

\* ready_for_completion, from who approved and who is online.
GateReady(plan, approved, online) ==
  LET Quorum(eligible, needed) == Cardinality(eligible \cap approved) >= needed
      AtMost(n) == IF plan.quorum <= n THEN plan.quorum ELSE n
      reachable == plan.peers \cap online
  IN  CASE plan.mode = "solo_allowed" -> TRUE
        [] plan.mode = "two_party_required" ->
             IF plan.peer = NoAgent THEN approved # {} ELSE plan.peer \in approved
        [] plan.mode = "quorum_required" -> Quorum(plan.peers, plan.quorum)
        [] OTHER ->
             IF reachable # {} THEN Quorum(reachable, AtMost(Cardinality(reachable)))
             ELSE Quorum(online, AtMost(Cardinality(online)))

(***************************************************************************)
(* complete_task                                                           *)
(***************************************************************************)
\* Lease and list of proof records; a path that is not there is already drift.
BeginComplete(s, t, k) ==
  /\ call[s] = Idle
  /\ HoldsLease(s, t, k)
  /\ ProofsOf(t) # {}
  /\ \A f \in PathsOf(ProofsOf(t)) : files[f].content # Missing
  /\ call' = [call EXCEPT ![s] =
                [op |-> "complete", task |-> t, token |-> k, records |-> ProofsOf(t),
                 todo |-> PathsOf(ProofsOf(t)), hashed |-> Unhashed]]
  /\ UNCHANGED <<leaseVars, files, proofs, requests, reviews, present>>

\* No record of the list differs from what was hashed.
NoDrift(records, hashed) ==
  \A i \in records : \A f \in Recorded(i) : hashed[f].content = proofs[i].hashes[f]

\* The end of _proofs_are_live and the first query of review_summary.
ReadReviews(s) ==
  LET c == call[s]
  IN  /\ c.op = "complete"
      /\ c.todo = {}
      /\ call' = [call EXCEPT ![s] =
                    IF NoDrift(c.records, c.hashed)
                    THEN [op |-> "gate", task |-> c.task, token |-> c.token,
                          records |-> c.records, hashed |-> c.hashed,
                          approved |-> Approved(c.task)]
                    ELSE Idle]
      /\ UNCHANGED <<leaseVars, files, proofs, requests, reviews, present>>

\* presence_snapshot, on a connection of its own, and the policy.  The plan is
\* read with the reviews in the code; should it differ now, the lease is lost
\* and CloseCall fails either way.
PassGate(s) ==
  LET c == call[s]
  IN  /\ c.op = "gate"
      /\ call' = [call EXCEPT ![s] =
                    IF GateReady(tasks[c.task].plan, c.approved, Online(c.task))
                    THEN [op |-> "close", task |-> c.task, token |-> c.token,
                          records |-> c.records, hashed |-> c.hashed]
                    ELSE Idle]
      /\ UNCHANGED <<leaseVars, files, proofs, requests, reviews, present>>

\* The transaction that closes the task: lease, record list and file
\* identities are checked again; the review gate is not.
CloseCall(s) ==
  LET c == call[s]
  IN  /\ c.op = "close"
      /\ IF /\ HoldsLease(s, c.task, c.token)
            /\ ProofsOf(c.task) = c.records
            /\ Undisturbed(s)
         THEN CloseTask(s, c.task, c.token)
         ELSE UNCHANGED leaseVars
      /\ call' = [call EXCEPT ![s] = Idle]
      /\ UNCHANGED <<files, proofs, requests, reviews, present>>

(***************************************************************************)
(* The other operations, processes, time and the world outside             *)
(***************************************************************************)
BoardInit ==
  /\ Init
  /\ files    \in [Files -> [content : Contents \cup {Missing}, stamp : {0}]]
  /\ proofs   = <<>>
  /\ requests = <<>>
  /\ reviews  = {}
  /\ present  = [s \in Sessions |-> 0]
  /\ call     = [s \in Sessions |-> Idle]

\* The one-transaction operations of TaskLease.
LeaseCall(s) ==
  /\ call[s] = Idle
  /\ \/ \E t \in Tasks, plan \in Plans, secs \in LeaseLengths, d \in 0..LockWait :
           ClaimTask(s, t, plan, secs, d)
     \/ \E t \in Tasks, k \in 1..issued, secs \in LeaseLengths : RenewTask(s, t, k, secs)
     \/ \E t \in Tasks, k \in 1..issued, status \in {"open", "blocked"} :
           ReleaseTask(s, t, k, status)
     \/ Workboard(s)
  /\ UNCHANGED <<files, proofs, requests, reviews, present, call>>

\* touch_presence: at start-up and then from the heartbeat thread.
TouchPresence(s) ==
  /\ present[s] # PresenceTicks
  /\ present' = [present EXCEPT ![s] = PresenceTicks]
  /\ UNCHANGED <<leaseVars, files, proofs, requests, reviews, call>>

\* The stdio stream ends: clear_presence, then the process is gone.
Exit(s) ==
  /\ call[s] = Idle
  /\ Crash(s)
  /\ present' = [present EXCEPT ![s] = 0]
  /\ UNCHANGED <<files, proofs, requests, reviews, call>>

\* The process dies, at any point of a call.
Die(s) ==
  /\ Crash(s)
  /\ call' = [call EXCEPT ![s] = Idle]
  /\ UNCHANGED <<files, proofs, requests, reviews, present>>

\* Somebody writes, replaces or removes a file, lease or no lease.  A file
\* never has the same size and mtime_ns with two contents.
EditFile(f, content) ==
  /\ files[f].stamp < MaxEdits
  /\ files' = [files EXCEPT ![f] = [content |-> content, stamp |-> @.stamp + 1]]
  /\ UNCHANGED <<leaseVars, proofs, requests, reviews, present, call>>

Faded == [s \in Sessions |-> IF present[s] > 0 THEN present[s] - 1 ELSE 0]

BoardTick ==
  /\ Aged # tasks \/ Faded # present
  /\ tasks' = Aged
  /\ present' = Faded
  /\ UNCHANGED <<issued, crashed, files, proofs, requests, reviews, call>>

ProofStep(s) ==
  \/ \E t \in Tasks, k \in 1..issued, changed, evidence \in SUBSET Files :
        BeginProof(s, t, k, changed, evidence)
  \/ \E f \in Files : HashFile(s, f)
  \/ RecordProof(s)

ReviewStep(s) ==
  \/ \E t \in Tasks, k \in 1..issued, recipient \in Agents :
        RequestReview(s, t, k, recipient)
  \/ \E i \in DOMAIN requests, verdict \in {"approved", "changes_requested"} :
        SubmitReview(s, i, verdict)

CompleteStep(s) ==
  \/ \E t \in Tasks, k \in 1..issued : BeginComplete(s, t, k)
  \/ ReadReviews(s)
  \/ PassGate(s)
  \/ CloseCall(s)

BoardNext ==
  \/ \E s \in Running : \/ LeaseCall(s)
                        \/ ProofStep(s)
                        \/ ReviewStep(s)
                        \/ CompleteStep(s)
                        \/ TouchPresence(s)
                        \/ Exit(s)
                        \/ Die(s)
  \/ \E f \in Files, content \in Contents \cup {Missing} : EditFile(f, content)
  \/ BoardTick

BoardSpec == BoardInit /\ [][BoardNext]_boardVars

(***************************************************************************)
(* Properties                                                              *)
(***************************************************************************)
Snapshots == [Files -> [content : Contents \cup {Missing}, stamp : Nat]]

Calls ==
  {Idle}
  \cup [op : {"proof"}, task : Tasks, token : Nat, changed : SUBSET Files,
        todo : SUBSET Files, hashed : Snapshots]
  \cup [op : {"complete"}, task : Tasks, token : Nat, records : SUBSET Nat,
        todo : SUBSET Files, hashed : Snapshots]
  \cup [op : {"gate"}, task : Tasks, token : Nat, records : SUBSET Nat,
        hashed : Snapshots, approved : SUBSET Agents]
  \cup [op : {"close"}, task : Tasks, token : Nat, records : SUBSET Nat,
        hashed : Snapshots]

\* Every table of the board holds rows of its type, and a multi-step call
\* holds the local variables of the point it has reached.
BoardTypeOK ==
  /\ TypeOK
  /\ files \in Snapshots
  /\ proofs \in Seq([task : Tasks, changed : SUBSET Files,
                     hashes : [Files -> Contents \cup {Missing}]])
  /\ requests \in Seq([task : Tasks, recipient : Agents, revision : Nat, plan : Plans,
                       live : [Files -> Contents \cup {Missing}]])
  /\ reviews \subseteq [request : DOMAIN requests, reviewer : Agents,
                        verdict : {"approved", "changes_requested"}]
  /\ present \in [Sessions -> 0..PresenceTicks]
  /\ call \in [Sessions -> Calls]

Completes(t) == tasks[t].status # "complete" /\ tasks'[t].status = "complete"

\* complete_task closes a task only over a live proof: in that very step it
\* has a record, and every file of every record holds what was recorded, although
\* the files were hashed without a lock several steps earlier.
CompletionProofLive ==
  [][\A t \in Tasks : Completes(t) =>
        /\ ProofsOf(t) # {}
        /\ \A i \in ProofsOf(t) : \A f \in Recorded(i) :
              files[f].content = proofs[i].hashes[f]]_boardVars

\* record_proof records the truth: the hashes are those of the files as they
\* are when the row is written, every changed path lies in the write scope of
\* the task, and the task is leased at that moment.
ProofHonest ==
  [][Len(proofs') > Len(proofs) =>
        LET p == proofs'[Len(proofs')]
        IN  /\ Live(p.task)
            /\ \A f \in p.changed : InScope(f, tasks[p.task].plan)
            /\ \A f \in p.changed : p.hashes[f] # Missing
            /\ \A f \in Files : p.hashes[f] \in {Missing, files[f].content}]_boardVars

\* A peer approves the task as it is now declared: some request for exactly
\* this revision and plan was approved by the agent it was addressed to.
Endorsed(t, a) ==
  \E v \in reviews : /\ v.reviewer = a
                     /\ v.verdict = "approved"
                     /\ requests[v.request].task = t
                     /\ requests[v.request].recipient = a
                     /\ requests[v.request].revision = tasks[t].revision
                     /\ requests[v.request].plan = tasks[t].plan

\* complete_task under quorum_required or a named required_peer: the approvals
\* hold in the step that closes the task, although the gate was evaluated
\* earlier; they are for its current revision, and none is the writer's own.
CompletionReviewed ==
  [][\A t \in Tasks : Completes(t) =>
        LET plan   == tasks[t].plan
            backed == {a \in plan.peers \ {AgentOf[tasks[t].holder]} : Endorsed(t, a)}
        IN  /\ plan.mode = "quorum_required" => Cardinality(backed) >= plan.quorum
            /\ plan.mode = "two_party_required" /\ plan.peer # NoAgent
                 => plan.peer \in backed]_boardVars

FairBoard == BoardSpec /\ WF_boardVars(BoardTick)

\* Peers that are gone do not block a presence_aware task: once every other
\* process is dead, the lease ends or the gate opens, whatever the holder does.
DeadPeersReleaseGate ==
  \A t \in Tasks :
     (/\ Live(t) /\ tasks[t].plan.mode = "presence_aware"
      /\ Sessions \ {tasks[t].holder} \subseteq crashed)
     ~> (~Live(t) \/ GateReady(tasks[t].plan, Approved(t), Online(t)))

\* What docs/architecture.md says of reviews: a request binds the live hashes.
\* An approval counts for a completion only if the files of the proof are those
\* the review was asked for.
ReviewBindsContent ==
  [][\A t \in Tasks : Completes(t) /\ tasks[t].plan.mode = "quorum_required" =>
        \E v \in reviews :
           /\ v.verdict = "approved" /\ requests[v.request].task = t
           /\ \A f \in PathsOf(ProofsOf(t)) :
                 files[f].content = requests[v.request].live[f]]_boardVars

=============================================================================
