-------------------------- MODULE GuidedRoomProofs --------------------------
(***************************************************************************)
(* Proofs about GuidedRoom.tla: for any number of guided operations, of    *)
(* tracker threads and of attempts, its processes use the queue as the     *)
(* queue allows, only a completed discussion makes an operation succeed,   *)
(* an operation that ends for a lost worker or its deadline leaves no      *)
(* discussion open, and neither does a start that was not killed.          *)
(*                                                                         *)
(* Good relates the row of a guided operation to its discussion; a lemma   *)
(* for each transaction of the queue shows that it keeps Good.  Knows is   *)
(* what a tracker thread may rely on: what it has seen of a discussion     *)
(* that is over stays true while it comes back with its call.  GivesUp is  *)
(* why the failure a thread reports after a refused call ends no operation *)
(* whose discussion is open: the claim has lapsed, and no step of another  *)
(* process gives it more time (Lapses).  StartKnows is what the starter    *)
(* leaves behind.                                                          *)
(***************************************************************************)
EXTENDS GuidedRoom, OperationQueueProofs

\* Outcomes of an operation that was bound to a discussion which do not leave
\* that discussion to the operator.
LostOutcomes == Outcomes \ ({"none"} \cup LeftToOperator)

Closed == {"completed", "stopped"}

\* A row of a guided operation and the discussion of that operation.
Good(row, t) ==
  /\ t.exact => t.status # "none"
  /\ row.bound => t.status # "none"
  /\ row.status \in Active => row.bound
  /\ row.status \in Terminal <=> row.outcome # "none"
  /\ row.bound /\ row.outcome \in LostOutcomes => t.status \notin OpenTalk
  /\ row.status = "succeeded" => t.status = "completed"

AllGood == \A o \in Guided : Good(op[o], talk[o])

\* A tracker thread at work.
Knows(mind, t) ==
  /\ mind.at # "idle" => mind.for \in Guided /\ t[mind.for].status # "none"
  /\ mind.at = "stop" => mind.goal \notin {"complete", "discussion-stopped"}
  /\ mind.at = "call" /\ mind.goal = "complete" => t[mind.for].status = "completed"
  /\ mind.at = "call" /\ mind.goal \in {"timeout", "discussion-stopped", "source-drift", "acknowledge"}
       => t[mind.for].status \in Closed

\* The claim of a thread that gives up has lapsed, or its discussion is over.
GivesUp(w) ==
  tracker[w].at = "unwind" =>
    \/ talk[tracker[w].for].status \in Closed
    \/ ~LiveWorker(w, tracker[w].for, tracker[w].token, 0)

\* What the thread that starts o has brought about.
StartKnows(o) ==
  /\ starter[o] \in {"idle", "post"} => talk[o].status = "none"
  /\ starter[o] = "cancel" => talk[o].status \notin OpenTalk
  /\ starter[o] = "over" => op[o].bound \/ talk[o].status \notin OpenTalk

Mind == [at : {"idle", "look", "stop", "call", "unwind"},
         for : Guided \cup {"none"}, token : Nat, goal : Goals]

OwnTyped ==
  /\ starter \in [Guided -> {"idle", "post", "bind", "stop", "cancel", "over", "gone"}]
  /\ operator \in [Guided -> {"none", "cancel", "done"}]
  /\ drift \in [Guided -> BOOLEAN]
  /\ tracker \in [Workers -> Mind]

GuidedInv ==
  /\ QueueInv
  /\ OwnTyped
  /\ AllGood
  /\ \A w \in Workers : Knows(tracker[w], talk) /\ GivesUp(w)
  /\ \A o \in Guided : StartKnows(o)

\* What no step undoes of a discussion: it was started, and it is over.
Onward(old, new) ==
  /\ old.status # "none" => new.status # "none"
  /\ old.status \in Closed => new.status = old.status

-----------------------------------------------------------------------------
(* One row and its discussion.                                             *)

\* What Good asks of a row that is over, or waits, with the binding it had.
LEMMA GoodByFields ==
  ASSUME NEW row, NEW new, NEW t, Good(row, t), new.bound => row.bound,
         new.status \notin Active,
         \/ new.status \in {"failed", "cancelled"}
            /\ new.outcome # "none"
            /\ (row.bound /\ new.outcome \in LostOutcomes => t.status \notin OpenTalk)
         \/ new.status = "succeeded" /\ new.outcome # "none" /\ t.status = "completed"
         \/ new.status = "retry" /\ new.outcome = "none"
  PROVE  Good(new, t)
<1>1. new.bound => t.status # "none"
  BY DEF Good
<1>2. new.status \in Terminal <=> new.outcome # "none"
  BY DEF Terminal
<1>3. new.bound /\ new.outcome \in LostOutcomes => t.status \notin OpenTalk
  BY DEF LostOutcomes, OpenTalk
<1>4. t.exact => t.status # "none"
  BY DEF Good
<1> QED BY <1>1, <1>2, <1>3, <1>4 DEF Good

\* An operation that fails or is cancelled.
LEMMA GoodEnded ==
  ASSUME NEW row \in OperationRow, NEW t, Good(row, t),
         NEW status \in {"failed", "cancelled"}, NEW outcome \in Outcomes \ {"none"},
         row.bound /\ outcome \in LostOutcomes => t.status \notin OpenTalk
  PROVE  Good(Ended(row, status, outcome), t)
<1> DEFINE new == Ended(row, status, outcome)
<1>1. new.status = status /\ new.outcome = outcome
  BY DEF Ended, OperationRow
<1>2. new.bound => row.bound
  BY DEF Ended, OperationRow
<1>3. new.status \notin Active
  BY <1>1 DEF Active
<1> HIDE DEF new
<1>5. Good(new, t)
  BY <1>1, <1>2, <1>3, GoodByFields
<1> QED BY <1>5 DEF new

\* An operation that succeeds.
LEMMA GoodSucceeded ==
  ASSUME NEW row \in OperationRow, NEW t, Good(row, t), t.status = "completed"
  PROVE  Good(Ended(row, "succeeded", "completed"), t)
<1> DEFINE new == Ended(row, "succeeded", "completed")
<1>1. new.status = "succeeded" /\ new.outcome = "completed"
  BY DEF Ended, OperationRow
<1>2. new.bound => row.bound
  BY DEF Ended, OperationRow
<1>3. new.status \notin Active
  BY <1>1 DEF Active
<1> HIDE DEF new
<1>5. Good(new, t)
  BY <1>1, <1>2, <1>3, GoodByFields
<1> QED BY <1>5 DEF new

\* An attempt that is given back.
LEMMA GoodRequeued ==
  ASSUME NEW row \in OperationRow, NEW t, Good(row, t), NEW wait \in Int,
         row.status \in Active
  PROVE  Good(Requeued(row, wait), t)
<1> DEFINE new == Requeued(row, wait)
<1>1. new.status = "retry" /\ new.outcome = row.outcome
  BY DEF Requeued, OperationRow
<1>2. new.bound => row.bound
  BY DEF Requeued, OperationRow
<1>3. new.status \notin Active
  BY <1>1 DEF Active
<1>4. row.outcome = "none"
  BY DEF Good, Active, Terminal
<1> HIDE DEF new
<1>5. Good(new, t)
  BY <1>1, <1>2, <1>3, <1>4, GoodByFields
<1> QED BY <1>5 DEF new

\* A row whose status, outcome and binding are as before.
LEMMA GoodSame ==
  ASSUME NEW row, NEW new, NEW t, Good(row, t),
         new.status = row.status, new.outcome = row.outcome, new.bound = row.bound
  PROVE  Good(new, t)
  BY DEF Good

\* A row that is bound.
LEMMA GoodBound ==
  ASSUME NEW row \in OperationRow, NEW t, Good(row, t), row.status \in Waiting, t.exact
  PROVE  Good([row EXCEPT !.bound = TRUE], t)
<1> DEFINE new == [row EXCEPT !.bound = TRUE]
<1>1. new.status = row.status /\ new.outcome = row.outcome
  BY DEF OperationRow
<1>2. row.outcome = "none" /\ t.status # "none"
  BY DEF Good, Waiting, Terminal
<1> HIDE DEF new
<1> QED BY <1>1, <1>2 DEF Good, Active, Waiting, Terminal, LostOutcomes

\* An open discussion that moves on.
LEMMA GoodTalk ==
  ASSUME NEW row, NEW t, Good(row, t), t.status \in OpenTalk,
         NEW new, new.exact = t.exact, new.status # "none"
  PROVE  Good(row, new) /\ Onward(t, new)
<1>1. row.status # "succeeded"
  BY DEF Good, OpenTalk
<1>2. row.bound => row.outcome \notin LostOutcomes
  BY DEF Good
<1> QED BY <1>1, <1>2 DEF Good, Onward, Closed, OpenTalk

-----------------------------------------------------------------------------
(* Transactions of the queue.                                              *)

GoodKept == AllGood' /\ \A o \in Guided : Onward(talk[o], talk'[o])

\* Nothing is written that Good speaks of.
LEMMA GoodStays ==
  ASSUME AllGood, UNCHANGED <<op, talk>>
  PROVE  GoodKept
  BY DEF GoodKept, AllGood, Onward

\* One row is written.
LEMMA GoodUpdate ==
  ASSUME QueueInv, AllGood, NEW o \in Operations, NEW row,
         o \in Guided => Good(row, talk[o]),
         op' = [op EXCEPT ![o] = row], UNCHANGED talk
  PROVE  GoodKept
<1>1. Guided \subseteq Operations /\ op \in [Operations -> OperationRow]
  BY QueueAssumption DEF QueueInv
<1>2. \A p \in Guided : Good(op'[p], talk[p])
  BY <1>1 DEF AllGood
<1> QED BY <1>2 DEF GoodKept, AllGood, Onward

\* What a guided operation whose worker is lost becomes.
LEMMA LostForms ==
  ASSUME NEW o \in Guided, NEW row \in OperationRow, NEW age \in Int, Lost(row, age)
  PROVE  \/ Settled(o, row, age) = Requeued(row, -age)
         \/ \E status \in {"failed", "cancelled"}, outcome \in Outcomes \ {"none"} :
              Settled(o, row, age) = Ended(row, status, outcome)
<1>1. row.status # "retry"
  BY DEF Lost, Active
<1>2. {"retry_disallowed", "cancelled_after_worker_loss", "timeout", "worker_lost"} \subseteq Outcomes \ {"none"}
  BY DEF Outcomes
<1>3. CASE row.status = "cancelling" \/ row.cancel
  BY <1>1, <1>2, <1>3, Zenon DEF Settled
<1>4. CASE ~(row.status = "cancelling" \/ row.cancel) /\ Past(row.deadline, age)
  <2>1. Settled(o, row, age) = Ended(row, "failed", "timeout")
    BY <1>1, <1>4, Zenon DEF Settled
  <2> QED BY <1>2, <2>1
<1>5. CASE ~(row.status = "cancelling" \/ row.cancel) /\ ~Past(row.deadline, age)
  <2>1. Settled(o, row, age) \in {Requeued(row, -age), Ended(row, "failed", "worker_lost")}
    BY <1>1, <1>5, Zenon DEF Settled
  <2> QED BY <1>2, <2>1
<1> QED BY <1>3, <1>4, <1>5

\* A row that is not active stays as it is, but for recovery.
LEMMA SettledNot ==
  ASSUME NEW o \in Guided, NEW row, NEW age, ~Lost(row, age)
  PROVE  Settled(o, row, age) = row
  BY QueueAssumption DEF Settled

\* _reconcile_locked, on the row of a guided operation and its discussion.
LEMMA ReconciledGood ==
  ASSUME QueueInv, AllGood, NEW age \in Int, NEW o \in Guided
  PROVE  /\ Good(Reconciled(age)[o], ReconciledTalk(age)[o])
         /\ Onward(talk[o], ReconciledTalk(age)[o])
<1> DEFINE row == op[o]
           t == talk[o]
           new == Reconciled(age)[o]
           t2 == ReconciledTalk(age)[o]
           over == [t EXCEPT !.status = "stopped"]
           stops == /\ t.status \in OpenTalk
                    /\ \/ Unbound(o) /\ OpenMismatch(o)
                       \/ row.bound /\ row.status \in Active /\ new.status \in Terminal
<1>1. o \in Operations /\ row \in OperationRow /\ t \in TalkRow /\ Good(row, t)
  BY QueueAssumption DEF QueueInv, AllGood
<1>2. new = Settled(o, Recovered(o, age), age)
  BY <1>1 DEF Reconciled
<1>3. t2 = IF stops THEN over ELSE t
  BY <1>1 DEF ReconciledTalk
<1>4. over.status = "stopped" /\ over.exact = t.exact
  BY <1>1 DEF TalkRow
<1>5. Good(row, t2) /\ Onward(t, t2)
  <2>1. CASE ~stops
    BY <1>1, <1>3, <2>1 DEF Onward
  <2>2. CASE stops
    <3>1. t2 = over /\ t.status \in OpenTalk
      BY <1>3, <2>2
    <3> HIDE DEF over, t2
    <3> QED BY <1>1, <1>4, <3>1, GoodTalk
  <2> QED BY <2>1, <2>2
<1>6. CASE ~Unbound(o)
  <2>1. Recovered(o, age) = row
    BY <1>6 DEF Recovered
  <2>2. CASE ~Lost(row, age)
    <3>1. new = row
      BY <1>2, <2>1, <2>2, SettledNot
    <3> QED BY <1>5, <3>1
  <2>3. CASE Lost(row, age)
    <3>1. row.status \in Active /\ row.bound
      BY <1>1, <2>3 DEF Lost, Good
    <3>2. CASE new = Requeued(row, -age)
      <4> DEFINE soon == -age
      <4>1. soon \in Int /\ new = Requeued(row, soon)
        BY <3>2
      <4>2. Good(new, t2)
        <5> HIDE DEF row, new, t2, soon
        <5> QED BY <1>1, <1>5, <3>1, <4>1, GoodRequeued
      <4> QED BY <1>5, <4>2
    <3>3. ASSUME NEW status \in {"failed", "cancelled"}, NEW outcome \in Outcomes \ {"none"},
                 new = Ended(row, status, outcome)
          PROVE  Good(new, t2)
      <4>1. new.status \in Terminal
        BY <1>1, <3>3 DEF Ended, OperationRow, Terminal
      <4>2. t2.status \notin OpenTalk
        BY <1>3, <1>4, <3>1, <4>1 DEF OpenTalk
      <4> HIDE DEF row, new, t2
      <4> QED BY <1>1, <1>5, <3>3, <4>2, GoodEnded
    <3>4. \/ new = Requeued(row, -age)
          \/ \E status \in {"failed", "cancelled"}, outcome \in Outcomes \ {"none"} :
               new = Ended(row, status, outcome)
      BY <1>1, <1>2, <2>1, <2>3, LostForms
    <3> QED BY <1>5, <3>2, <3>3, <3>4
  <2> QED BY <2>2, <2>3
<1>7. CASE Unbound(o)
  <2>1. row.status \in Waiting
    BY <1>7 DEF Unbound
  <2>2. ASSUME NEW r, r.status \notin Active
        PROVE  Settled(o, r, age) = r
    BY <2>2, SettledNot DEF Lost
  <2>3. Recovered(o, age) \in {Ended(row, "failed", "source-binding"), [row EXCEPT !.bound = TRUE], row}
    BY DEF Recovered
  <2>4. CASE Recovered(o, age) = Ended(row, "failed", "source-binding")
    <3>1. "source-binding" \in Outcomes \ {"none"} /\ ~row.bound
      BY <1>7 DEF Outcomes, Unbound
    <3>2. Good(Ended(row, "failed", "source-binding"), t2)
      <4> HIDE DEF row, t2
      <4> QED BY <1>1, <1>5, <3>1, GoodEnded
    <3>3. Ended(row, "failed", "source-binding").status = "failed"
      BY <1>1 DEF Ended, OperationRow
    <3>4. new = Ended(row, "failed", "source-binding")
      BY <1>2, <2>2, <2>4, <3>3 DEF Active
    <3> QED BY <1>5, <3>2, <3>4
  <2>5. CASE Recovered(o, age) = [row EXCEPT !.bound = TRUE] /\ t.exact
    <3>1. [row EXCEPT !.bound = TRUE].status = row.status
      BY <1>1 DEF OperationRow
    <3>2. new = [row EXCEPT !.bound = TRUE]
      BY <1>2, <2>1, <2>2, <2>5, <3>1 DEF Active, Waiting
    <3>3. t2.exact
      BY <1>3, <1>4, <2>5
    <3>4. Good([row EXCEPT !.bound = TRUE], t2)
      <4> HIDE DEF row, t2
      <4> QED BY <1>1, <1>5, <2>1, <3>3, GoodBound
    <3> QED BY <1>5, <3>2, <3>4
  <2>6. CASE Recovered(o, age) = row
    <3>1. new = row
      BY <1>2, <2>1, <2>2, <2>6 DEF Active, Waiting
    <3> QED BY <1>5, <3>1
  <2>7. \/ Recovered(o, age) \in {Ended(row, "failed", "source-binding"), row}
        \/ Recovered(o, age) = [row EXCEPT !.bound = TRUE] /\ t.exact
    BY <1>7, Zenon DEF Recovered
  <2> QED BY <2>4, <2>5, <2>6, <2>7
<1> QED BY <1>6, <1>7

\* reconcile.
LEMMA ReconcileGood ==
  ASSUME QueueInv, AllGood, NEW age \in Int, Reconcile(age)
  PROVE  GoodKept
  BY ReconciledGood DEF Reconcile, GoodKept, AllGood

\* claim: what is claimed is bound.
LEMMA ClaimGood ==
  ASSUME QueueInv, AllGood, NEW w, NEW o \in Operations, NEW class, NEW age \in Int,
         Claim(w, o, class, age)
  PROVE  GoodKept /\ (o \in Guided => op'[o].bound)
<1> DEFINE row == Reconciled(age)[o]
           new == ClaimedRow(row, w, age)
<1>1. op' = [Reconciled(age) EXCEPT ![o] = new] /\ talk' = ReconciledTalk(age)
  BY DEF Claim
<1>2. row.status \in Waiting /\ (o \in Guided => row.bound)
  BY DEF Claim, FirstReady, Ready
<1>3. row \in OperationRow
  BY ReconciledRow DEF QueueInv, RowOK
<1>4. new.status = "running" /\ new.outcome = row.outcome
  BY <1>3 DEF ClaimedRow, OperationRow
<1>5. o \in Guided => new.bound
  BY <1>2, <1>3 DEF ClaimedRow, OperationRow
<1>6. \A p \in Operations : op'[p] = IF p = o THEN new ELSE Reconciled(age)[p]
  BY <1>1 DEF Reconciled
<1>7. o \in Guided => Good(new, talk'[o])
  <2> SUFFICES ASSUME o \in Guided PROVE Good(new, talk'[o])
    OBVIOUS
  <2>1. Good(row, talk'[o])
    BY <1>1, ReconciledGood
  <2>2. row.outcome = "none"
    BY <1>2, <2>1 DEF Good, Waiting, Terminal
  <2>3. /\ talk'[o].exact => talk'[o].status # "none"
        /\ talk'[o].status # "none"
    BY <1>2, <2>1 DEF Good
  <2> HIDE DEF new, row
  <2> QED BY <1>4, <1>5, <2>2, <2>3 DEF Good, Terminal, LostOutcomes
<1>8. \A p \in Guided : Good(op'[p], talk'[p]) /\ Onward(talk[p], talk'[p])
  BY <1>1, <1>6, <1>7, ReconciledGood, QueueAssumption
<1> HIDE DEF new
<1> QED BY <1>5, <1>6, <1>8 DEF GoodKept, AllGood

\* heartbeat.
LEMMA HeartbeatGood ==
  ASSUME QueueInv, AllGood, NEW w, NEW o \in Guided, NEW k, NEW age, Heartbeat(w, o, k, age)
  PROVE  GoodKept
<1> DEFINE x == Earlier(LeaseTime - age, op[o].deadline)
           new == [op[o] EXCEPT !.lease = x]
<1>1. op' = [op EXCEPT ![o] = new] /\ UNCHANGED talk
  BY DEF Heartbeat, Update
<1>2. o \in Operations /\ op[o] \in OperationRow
  BY QueueAssumption DEF QueueInv
<1>3. new.status = op[o].status /\ new.outcome = op[o].outcome /\ new.bound = op[o].bound
  <2> HIDE DEF x
  <2> QED BY <1>2 DEF OperationRow
<1>4. Good(new, talk[o])
  BY <1>3, GoodSame DEF AllGood
<1> HIDE DEF new
<1> QED BY <1>1, <1>2, <1>4, GoodUpdate

\* A call that ends the operation without success.
LEMMA EndedGood ==
  ASSUME QueueInv, AllGood, NEW o \in Guided, NEW status \in {"failed", "cancelled"},
         NEW outcome \in Outcomes \ {"none"},
         op[o].bound /\ outcome \in LostOutcomes => talk[o].status \notin OpenTalk,
         op' = [op EXCEPT ![o] = Ended(op[o], status, outcome)], UNCHANGED talk
  PROVE  GoodKept
<1>1. o \in Operations /\ op[o] \in OperationRow /\ Good(op[o], talk[o])
  BY QueueAssumption DEF QueueInv, AllGood
<1>2. Good(Ended(op[o], status, outcome), talk[o])
  BY <1>1, GoodEnded
<1> QED BY <1>1, <1>2, GoodUpdate

\* complete, of an operation whose discussion is completed.
LEMMA CompleteGood ==
  ASSUME QueueInv, AllGood, NEW w, NEW o \in Guided, NEW k, NEW age, Complete(w, o, k, age),
         talk[o].status = "completed"
  PROVE  GoodKept
<1>1. o \in Operations /\ op[o] \in OperationRow /\ Good(op[o], talk[o])
  BY QueueAssumption DEF QueueInv, AllGood
<1>2. Good(Ended(op[o], "succeeded", "completed"), talk[o])
  BY <1>1, GoodSucceeded
<1> QED BY <1>1, <1>2, GoodUpdate DEF Complete, Update

\* acknowledge_cancel.
LEMMA AcknowledgeGood ==
  ASSUME QueueInv, AllGood, NEW w, NEW o \in Guided, NEW k, NEW age,
         AcknowledgeCancel(w, o, k, age)
  PROVE  GoodKept
<1>1. "cancelled" \in Outcomes \ ({"none"} \cup LostOutcomes)
  BY DEF Outcomes, LostOutcomes, LeftToOperator
<1>2. op' = [op EXCEPT ![o] = Ended(op[o], "cancelled", "cancelled")] /\ UNCHANGED talk
  BY DEF AcknowledgeCancel, Update
<1> QED BY <1>1, <1>2, EndedGood

\* fail: a timeout is reported after the discussion was stopped.
LEMMA FailGood ==
  ASSUME QueueInv, AllGood, NEW w, NEW o \in Guided, NEW k, NEW class \in Outcomes \ {"none"},
         NEW delay \in Int, NEW allow, NEW age \in Int, Fail(w, o, k, class, delay, allow, age),
         class \in LostOutcomes => talk[o].status \notin OpenTalk
  PROVE  GoodKept
<1> DEFINE row == FailedRow(o, class, delay, allow, age)
<1>1. op' = [op EXCEPT ![o] = row] /\ UNCHANGED talk /\ op[o].status \in Active
  BY DEF Fail, Update, LiveWorker
<1>2. \/ row = Requeued(op[o], delay - age)
      \/ row = Ended(op[o], "failed", class)
      \/ row = Ended(op[o], "cancelled", "cancelled")
  BY Zenon DEF FailedRow
<1>3. CASE row = Requeued(op[o], delay - age)
  <2> DEFINE wait == delay - age
  <2>1. wait \in Int
    OBVIOUS
  <2>2. o \in Operations /\ op[o] \in OperationRow /\ Good(op[o], talk[o])
    BY QueueAssumption DEF QueueInv, AllGood
  <2>3. row = Requeued(op[o], wait)
    BY <1>3
  <2> HIDE DEF wait, row
  <2>4. Good(row, talk[o])
    BY <1>1, <2>1, <2>2, <2>3, GoodRequeued
  <2> QED BY <1>1, <2>2, <2>4, GoodUpdate
<1>4. CASE row = Ended(op[o], "failed", class)
  BY <1>1, <1>4, EndedGood
<1>5. CASE row = Ended(op[o], "cancelled", "cancelled")
  <2>1. "cancelled" \in Outcomes \ ({"none"} \cup LostOutcomes)
    BY DEF Outcomes, LostOutcomes, LeftToOperator
  <2> QED BY <1>1, <1>5, <2>1, EndedGood
<1> QED BY <1>2, <1>3, <1>4, <1>5

\* request_cancel.
LEMMA RequestCancelGood ==
  ASSUME QueueInv, AllGood, NEW o \in Guided, RequestCancel(o)
  PROVE  GoodKept
<1>1. o \in Operations /\ op[o] \in OperationRow /\ Good(op[o], talk[o])
  BY QueueAssumption DEF QueueInv, AllGood
<1>2. CASE op[o].status \in Waiting
  <2>1. "cancelled_before_start" \in Outcomes \ ({"none"} \cup LostOutcomes)
    BY DEF Outcomes, LostOutcomes, LeftToOperator
  <2>2. op' = [op EXCEPT ![o] = Ended(op[o], "cancelled", "cancelled_before_start")]
        /\ UNCHANGED talk
    BY <1>2 DEF RequestCancel, Update
  <2> QED BY <2>1, <2>2, EndedGood
<1>3. CASE op[o].status \in Active
  <2> DEFINE new == [op[o] EXCEPT !.status = "cancelling", !.cancel = TRUE]
  <2>1. op' = [op EXCEPT ![o] = new] /\ UNCHANGED talk
    BY <1>3 DEF RequestCancel, Update, Active, Waiting
  <2>2. new.status = "cancelling" /\ new.outcome = op[o].outcome
    BY <1>1 DEF OperationRow
  <2>3. new.bound = op[o].bound
    BY <1>1 DEF OperationRow
  <2>4. op[o].outcome = "none" /\ op[o].bound /\ talk[o].status # "none"
    BY <1>1, <1>3 DEF Good, Active, Terminal
  <2> HIDE DEF new
  <2>5. Good(new, talk[o])
    BY <2>2, <2>3, <2>4 DEF Good, Terminal, LostOutcomes
  <2> QED BY <1>1, <2>1, <2>5, GoodUpdate
<1> QED BY <1>2, <1>3 DEF RequestCancel

\* bind_guided_discussion.
LEMMA BindGood ==
  ASSUME QueueInv, AllGood, NEW o \in Guided, Bind(o)
  PROVE  GoodKept
<1> DEFINE new == [op[o] EXCEPT !.bound = TRUE]
<1>1. o \in Operations /\ op[o] \in OperationRow /\ Good(op[o], talk[o])
  BY QueueAssumption DEF QueueInv, AllGood
<1>2. op' = [op EXCEPT ![o] = new] /\ UNCHANGED talk
  BY DEF Bind, Update
<1>3. Good(new, talk[o])
  BY <1>1, GoodBound DEF Bind, Bindable
<1> HIDE DEF new
<1> QED BY <1>1, <1>2, <1>3, GoodUpdate

\* The discussion of o is started, or moves while it is open; the table of
\* operations changes in the row of o at most.
LEMMA TalkWritten ==
  ASSUME QueueInv, AllGood, NEW o \in Guided, NEW row, NEW t,
         op' = [op EXCEPT ![o] = row], talk' = [talk EXCEPT ![o] = t],
         Good(row, t), Onward(talk[o], t)
  PROVE  GoodKept
<1>1. /\ Guided \subseteq Operations /\ op \in [Operations -> OperationRow]
      /\ talk \in [Operations -> TalkRow]
  BY QueueAssumption DEF QueueInv
<1>2. \A p \in Guided : p # o => op'[p] = op[p] /\ talk'[p] = talk[p]
  BY <1>1
<1>3. op'[o] = row /\ talk'[o] = t
  BY <1>1
<1>4. \A p \in Guided : Good(op'[p], talk'[p])
  BY <1>2, <1>3 DEF AllGood
<1>5. \A p \in Guided : Onward(talk[p], talk'[p])
  BY <1>2, <1>3 DEF Onward
<1> QED BY <1>4, <1>5 DEF GoodKept, AllGood

\* bind_guided_discussion with a discussion that does not match.
LEMMA BindMismatchGood ==
  ASSUME QueueInv, AllGood, NEW o \in Guided, BindMismatch(o)
  PROVE  GoodKept
<1> DEFINE row == Ended(op[o], "failed", "source-binding")
           t == [talk[o] EXCEPT !.status = IF talk[o].status \in OpenTalk THEN "stopped"
                                           ELSE talk[o].status]
<1>1. /\ o \in Operations /\ op[o] \in OperationRow /\ talk[o] \in TalkRow
      /\ talk \in [Operations -> TalkRow] /\ Good(op[o], talk[o])
  BY QueueAssumption DEF QueueInv, AllGood
<1>2. op' = [op EXCEPT ![o] = row] /\ talk' = [talk EXCEPT ![o] = t]
  BY <1>1 DEF BindMismatch
<1>3. "source-binding" \in Outcomes \ {"none"} /\ ~op[o].bound
  BY DEF Outcomes, BindMismatch, Bindable
<1>4. Good(op[o], t) /\ Onward(talk[o], t)
  <2>1. CASE talk[o].status \in OpenTalk
    <3>1. t.status = "stopped" /\ t.exact = talk[o].exact
      BY <1>1, <2>1 DEF TalkRow
    <3> HIDE DEF t
    <3> QED BY <1>1, <2>1, <3>1, GoodTalk
  <2>2. CASE talk[o].status \notin OpenTalk
    <3>1. t = talk[o]
      BY <1>1, <2>2 DEF TalkRow
    <3> QED BY <1>1, <3>1 DEF Onward
  <2> QED BY <2>1, <2>2
<1>5. Good(row, t)
  <2> HIDE DEF t
  <2> QED BY <1>1, <1>3, <1>4, GoodEnded
<1> HIDE DEF row, t
<1> QED BY <1>2, <1>4, <1>5, TalkWritten

\* post_room_message: the discussion of an operation that has none starts.
LEMMA StartTalkGood ==
  ASSUME QueueInv, AllGood, NEW o \in Guided, NEW exact, StartTalk(o, exact)
  PROVE  GoodKept /\ talk'[o].status = "active"
<1> DEFINE t == [status |-> "active", exact |-> exact]
<1>1. /\ o \in Operations /\ op \in [Operations -> OperationRow]
      /\ talk \in [Operations -> TalkRow] /\ Good(op[o], talk[o])
  BY QueueAssumption DEF QueueInv, AllGood
<1>2. op' = [op EXCEPT ![o] = op[o]] /\ talk' = [talk EXCEPT ![o] = t] /\ talk[o].status = "none"
  BY <1>1 DEF StartTalk
<1>3. t.status = "active"
  OBVIOUS
<1>4. op[o].status # "succeeded" /\ ~op[o].bound
  BY <1>1, <1>2 DEF Good
<1> HIDE DEF t
<1>5. Good(op[o], t) /\ Onward(talk[o], t)
  BY <1>1, <1>2, <1>3, <1>4 DEF Good, Onward, Closed
<1>6. talk'[o].status = "active"
  BY <1>1, <1>2, <1>3
<1> QED BY <1>2, <1>5, <1>6, TalkWritten

\* The Room, the operator or a tracker moves an open discussion.
LEMMA MoveTalkGood ==
  ASSUME QueueInv, AllGood, NEW o \in Guided, NEW from \in SUBSET OpenTalk,
         NEW to \in OpenTalk \cup Closed, MoveTalk(o, from, to)
  PROVE  GoodKept /\ talk'[o].status = to
<1> DEFINE t == [talk[o] EXCEPT !.status = to]
<1>1. /\ o \in Operations /\ op \in [Operations -> OperationRow] /\ talk[o] \in TalkRow
      /\ talk \in [Operations -> TalkRow] /\ Good(op[o], talk[o])
  BY QueueAssumption DEF QueueInv, AllGood
<1>2. op' = [op EXCEPT ![o] = op[o]] /\ talk' = [talk EXCEPT ![o] = t] /\ talk[o].status \in OpenTalk
  BY <1>1 DEF MoveTalk
<1>3. t.status = to /\ t.exact = talk[o].exact /\ to # "none"
  BY <1>1 DEF TalkRow, OpenTalk, Closed
<1> HIDE DEF t
<1>4. Good(op[o], t) /\ Onward(talk[o], t)
  BY <1>1, <1>2, <1>3, GoodTalk
<1>5. talk'[o].status = to
  BY <1>1, <1>2, <1>3
<1> QED BY <1>2, <1>4, <1>5, TalkWritten

\* enqueue.
LEMMA EnqueueGood ==
  ASSUME QueueInv, AllGood, NEW o \in Guided, Enqueue(o)
  PROVE  GoodKept
<1> DEFINE new == NewRow(0)
<1>1. op' = [op EXCEPT ![o] = new] /\ UNCHANGED talk
  BY DEF Enqueue
<1>2. new.status = "queued" /\ new.outcome = "none"
  BY DEF NewRow, NoRow
<1>3. ~new.bound
  BY DEF NewRow, NoRow
<1> HIDE DEF new
<1>4. Good(new, talk[o])
  BY <1>2, <1>3 DEF Good, AllGood, Active, LostOutcomes, Terminal
<1> QED BY <1>1, <1>4, GoodUpdate, QueueAssumption

\* Time passes.
LEMMA TickGood ==
  ASSUME QueueInv, AllGood, TickQueue
  PROVE  GoodKept
<1>1. ASSUME NEW o \in Guided PROVE Good(op'[o], talk[o])
  <2> DEFINE row == op[o]
             l == Less(row.lease)
             d == Less(row.deadline)
             x == Less(row.wait)
  <2>1. o \in Operations /\ row \in OperationRow /\ Good(row, talk[o])
    BY <1>1, QueueAssumption DEF QueueInv, AllGood
  <2>2. op'[o] \in {[row EXCEPT !.lease = l, !.deadline = d], [row EXCEPT !.wait = x], row}
    BY <2>1 DEF TickQueue
  <2> HIDE DEF l, d, x
  <2>3. op'[o].status = row.status /\ op'[o].outcome = row.outcome
    BY <2>1, <2>2 DEF OperationRow
  <2>4. op'[o].bound = row.bound
    BY <2>1, <2>2 DEF OperationRow
  <2> HIDE DEF row
  <2> QED BY <2>1, <2>3, <2>4, GoodSame
<1>2. UNCHANGED talk
  BY DEF TickQueue
<1> QED BY <1>1, <1>2 DEF GoodKept, AllGood, Onward

-----------------------------------------------------------------------------
(* What else a step leaves as it was.                                      *)

\* A worker holds an attempt afterwards only if it held it before, and has no
\* more time for it.
Lapses(row, new, w) ==
  new.status \in Active /\ new.owner = w =>
    /\ row.status \in Active /\ row.owner = w
    /\ new.attempt = row.attempt
    /\ new.lease <= row.lease /\ new.deadline <= row.deadline

\* A binding is not undone, and no discussion starts.
Still(o) ==
  /\ op[o].bound => op'[o].bound
  /\ talk[o].status = "none" => talk'[o].status = "none"

\* A step in which no other worker than w gets or prolongs an attempt.
LapseAll(w) == \A v \in Workers \ {w}, o \in Guided : Lapses(op[o], op'[o], v)

AllStill == \A o \in Guided : Still(o)

\* Rows that have ended, were given back or were bound.
LEMMA RowForms ==
  ASSUME NEW row \in OperationRow, NEW status \in Terminal, NEW outcome, NEW wait
  PROVE  /\ Ended(row, status, outcome).bound = row.bound
         /\ Ended(row, status, outcome).status \notin Active
         /\ Requeued(row, wait).bound = row.bound
         /\ Requeued(row, wait).status \notin Active
  BY DEF Ended, Requeued, OperationRow, Terminal, Active

\* One row is written, of an operation whose worker may be w.
LEMMA OneRowStill ==
  ASSUME QueueInv, NEW w, NEW o \in Guided, NEW row,
         op' = [op EXCEPT ![o] = row], UNCHANGED talk,
         op[o].bound => row.bound,
         \A v \in Workers \ {w} : Lapses(op[o], row, v)
  PROVE  LapseAll(w) /\ AllStill
<1>1. Guided \subseteq Operations /\ op \in [Operations -> OperationRow]
  BY QueueAssumption DEF QueueInv
<1>2. op'[o] = row /\ \A p \in Guided \ {o} : op'[p] = op[p]
  BY <1>1
<1>3. \A p \in Guided : \A v : Lapses(op[p], op[p], v)
  <2> SUFFICES ASSUME NEW p \in Guided, NEW v PROVE Lapses(op[p], op[p], v)
    OBVIOUS
  <2>1. op[p].lease <= op[p].lease /\ op[p].deadline <= op[p].deadline
    BY <1>1 DEF OperationRow
  <2> QED BY <2>1 DEF Lapses
<1>4. LapseAll(w)
  BY <1>2, <1>3 DEF LapseAll
<1>5. AllStill
  BY <1>2 DEF AllStill, Still
<1> QED BY <1>4, <1>5

\* No row is written.
LEMMA NoRowStill ==
  ASSUME QueueInv, UNCHANGED op, NEW w
  PROVE  LapseAll(w) /\ \A o \in Guided : op[o].bound => op'[o].bound
<1>1. \A o \in Guided : op[o] \in OperationRow
  BY QueueAssumption DEF QueueInv
<1>2. \A o \in Guided : op[o].lease <= op[o].lease /\ op[o].deadline <= op[o].deadline
  BY <1>1 DEF OperationRow
<1> QED BY <1>2 DEF LapseAll, Lapses

\* What reconcile makes of a row: it ends, waits, or stays with its worker.
LEMMA SettledStill ==
  ASSUME NEW o \in Guided, NEW row \in OperationRow, NEW age \in Int
  PROVE  /\ Settled(o, row, age).bound = row.bound
         /\ \/ Settled(o, row, age).status \notin Active
            \/ Settled(o, row, age) = row
<1>1. CASE ~Lost(row, age)
  BY <1>1, SettledNot
<1>2. CASE Lost(row, age)
  <2>1. {"failed", "cancelled"} \subseteq Terminal
    BY DEF Terminal
  <2> QED BY <1>2, <2>1, LostForms, RowForms
<1> QED BY <1>1, <1>2

\* reconcile.
LEMMA ReconciledStill ==
  ASSUME QueueInv, NEW age \in Int, NEW o \in Guided
  PROVE  /\ op[o].bound => Reconciled(age)[o].bound
         /\ talk[o].status = "none" => ReconciledTalk(age)[o].status = "none"
         /\ \A v : Lapses(op[o], Reconciled(age)[o], v)
<1> DEFINE row == op[o]
           mid == Recovered(o, age)
           new == Reconciled(age)[o]
<1>1. o \in Operations /\ row \in OperationRow
  BY QueueAssumption DEF QueueInv
<1>2. new = Settled(o, mid, age)
  BY <1>1 DEF Reconciled
<1>3. /\ mid \in OperationRow /\ (row.bound => mid.bound)
      /\ mid = row \/ mid.status \notin Active
  <2>1. CASE mid = row
    BY <1>1, <2>1
  <2>2. CASE Unbound(o) /\ mid = Ended(row, "failed", "source-binding")
    <3>1. "failed" \in Terminal /\ "source-binding" \in Outcomes
      BY DEF Terminal, Outcomes
    <3>2. mid \in OperationRow
      BY <1>1, <2>2, <3>1, EndedTyped
    <3> QED BY <1>1, <2>2, <3>1, <3>2, RowForms
  <2>3. CASE Unbound(o) /\ mid = [row EXCEPT !.bound = TRUE]
    <3>1. mid \in OperationRow /\ mid.bound
      BY <1>1, <2>3, WriteBound DEF OperationRow
    <3>2. mid.status = row.status
      BY <1>1, <2>3 DEF OperationRow
    <3>3. row.status \notin Active
      BY <2>3 DEF Unbound, Waiting, Active
    <3> QED BY <3>1, <3>2, <3>3
  <2> QED BY <2>1, <2>2, <2>3, Zenon DEF Recovered
<1> HIDE DEF mid
<1>4. new.bound = mid.bound /\ (new.status \notin Active \/ new = mid)
  BY <1>2, <1>3, SettledStill
<1>5. \A v : Lapses(row, new, v)
  <2>1. row.lease <= row.lease /\ row.deadline <= row.deadline
    BY <1>1 DEF OperationRow
  <2>2. new.status \notin Active \/ new = row
    BY <1>3, <1>4
  <2> HIDE DEF new, row
  <2> QED BY <2>1, <2>2 DEF Lapses
<1>6. talk[o].status = "none" => ReconciledTalk(age)[o] = talk[o]
  BY <1>1 DEF ReconciledTalk, OpenTalk
<1> QED BY <1>3, <1>4, <1>5, <1>6

\* reconcile, of all rows.
LEMMA ReconcileStill ==
  ASSUME QueueInv, NEW age \in Int, Reconcile(age), NEW w
  PROVE  LapseAll(w) /\ AllStill
  BY ReconciledStill DEF Reconcile, LapseAll, AllStill, Still

\* claim: the attempt is the one of its caller.
LEMMA ClaimStill ==
  ASSUME QueueInv, NEW w, NEW o \in Guided, NEW age \in Int, Claim(w, o, Guided, age)
  PROVE  LapseAll(w) /\ AllStill
<1> DEFINE row == Reconciled(age)[o]
           new == ClaimedRow(row, w, age)
<1>1. o \in Operations /\ row \in OperationRow
  BY ReconciledRow, QueueAssumption DEF QueueInv, RowOK
<1>2. /\ op' = [Reconciled(age) EXCEPT ![o] = new] /\ talk' = ReconciledTalk(age)
      /\ DOMAIN Reconciled(age) = Operations /\ Guided \subseteq Operations
  BY QueueAssumption DEF Claim, Reconciled
<1>3. op'[o] = new /\ \A p \in Guided \ {o} : op'[p] = Reconciled(age)[p]
  BY <1>1, <1>2
<1>4. new.owner = w /\ new.bound = row.bound
  BY <1>1 DEF ClaimedRow, OperationRow
<1> HIDE DEF new, row
<1>5. \A v \in Workers \ {w} : Lapses(op[o], new, v)
  BY <1>4 DEF Lapses
<1>6. LapseAll(w)
  BY <1>3, <1>5, ReconciledStill DEF LapseAll
<1>7. \A p \in Guided : op[p].bound => op'[p].bound
  BY <1>3, <1>4, ReconciledStill DEF row
<1>8. \A p \in Guided : talk[p].status = "none" => talk'[p].status = "none"
  BY <1>2, ReconciledStill
<1> QED BY <1>6, <1>7, <1>8 DEF AllStill, Still

\* A call of the worker w.
LEMMA WorkerStill ==
  ASSUME QueueInv, NEW w, NEW o \in Guided, NEW k, NEW age \in Int,
         \/ Heartbeat(w, o, k, age) \/ Complete(w, o, k, age) \/ AcknowledgeCancel(w, o, k, age)
         \/ \E class, delay, allow : Fail(w, o, k, class, delay, allow, age)
  PROVE  LapseAll(w) /\ AllStill
<1>1. op[o] \in OperationRow
  BY QueueAssumption DEF QueueInv
<1>2. UNCHANGED talk
  BY DEF Heartbeat, Complete, AcknowledgeCancel, Fail, Update
<1>3. CASE Heartbeat(w, o, k, age)
  <2> DEFINE x   == Earlier(LeaseTime - age, op[o].deadline)
             row == [op[o] EXCEPT !.lease = x]
  <2>1. op' = [op EXCEPT ![o] = row] /\ op[o].owner = w
    BY <1>3 DEF Heartbeat, Update, LiveWorker
  <2>2. row.owner = w /\ row.bound = op[o].bound
    <3> HIDE DEF x
    <3> QED BY <1>1, <2>1 DEF OperationRow
  <2> HIDE DEF row
  <2>3. \A v \in Workers \ {w} : Lapses(op[o], row, v)
    BY <2>2 DEF Lapses
  <2> QED BY <1>2, <2>1, <2>2, <2>3, OneRowStill
<1>4. ASSUME NEW row, op' = [op EXCEPT ![o] = row],
             \/ \E status \in Terminal : \E outcome : row = Ended(op[o], status, outcome)
             \/ \E wait : row = Requeued(op[o], wait)
      PROVE  LapseAll(w) /\ AllStill
  <2>1. row.bound = op[o].bound /\ row.status \notin Active
    <3>1. ASSUME NEW status \in Terminal, NEW outcome, row = Ended(op[o], status, outcome)
          PROVE  row.bound = op[o].bound /\ row.status \notin Active
      BY <1>1, <3>1, RowForms
    <3>2. ASSUME NEW wait, row = Requeued(op[o], wait)
          PROVE  row.bound = op[o].bound /\ row.status \notin Active
      <4>1. "failed" \in Terminal
        BY DEF Terminal
      <4> QED BY <1>1, <3>2, <4>1, RowForms
    <3> QED BY <1>4, <3>1, <3>2
  <2>2. \A v \in Workers \ {w} : Lapses(op[o], row, v)
    BY <2>1 DEF Lapses
  <2> QED BY <1>2, <1>4, <2>1, <2>2, OneRowStill
<1>5. {"succeeded", "failed", "cancelled"} \subseteq Terminal
  BY DEF Terminal
<1>6. CASE Complete(w, o, k, age)
  <2>1. op' = [op EXCEPT ![o] = Ended(op[o], "succeeded", "completed")]
    BY <1>6 DEF Complete, Update
  <2> QED BY <1>4, <1>5, <2>1
<1>7. CASE AcknowledgeCancel(w, o, k, age)
  <2>1. op' = [op EXCEPT ![o] = Ended(op[o], "cancelled", "cancelled")]
    BY <1>7 DEF AcknowledgeCancel, Update
  <2> QED BY <1>4, <1>5, <2>1
<1>8. ASSUME NEW class, NEW delay, NEW allow, Fail(w, o, k, class, delay, allow, age)
      PROVE  LapseAll(w) /\ AllStill
  <2> DEFINE row == FailedRow(o, class, delay, allow, age)
  <2>1. op' = [op EXCEPT ![o] = row]
    BY <1>8 DEF Fail, Update
  <2>2. \/ row = Requeued(op[o], delay - age)
        \/ row = Ended(op[o], "failed", class)
        \/ row = Ended(op[o], "cancelled", "cancelled")
    BY Zenon DEF FailedRow
  <2> HIDE DEF row
  <2> QED BY <1>4, <1>5, <2>1, <2>2
<1> QED BY <1>3, <1>6, <1>7, <1>8

\* A call of the starter or the operator on the row of o.
LEMMA CallStill ==
  ASSUME QueueInv, NEW o \in Guided, NEW w,
         \/ RequestCancel(o) \/ Bind(o) \/ BindMismatch(o)
         \/ Enqueue(o) /\ ~op[o].bound
  PROVE  LapseAll(w) /\ AllStill
<1>1. op[o] \in OperationRow /\ o \in Operations
  BY QueueAssumption DEF QueueInv
<1>2. ASSUME NEW row, op' = [op EXCEPT ![o] = row], UNCHANGED talk,
             op[o].bound => row.bound, row.status \notin Active
      PROVE  LapseAll(w) /\ AllStill
  <2>1. \A v \in Workers \ {w} : Lapses(op[o], row, v)
    BY <1>2 DEF Lapses
  <2> QED BY <1>2, <2>1, OneRowStill
<1>3. "cancelled" \in Terminal /\ "failed" \in Terminal
  BY DEF Terminal
<1>4. CASE RequestCancel(o)
  <2>1. CASE op[o].status \in Waiting
    <3> DEFINE row == Ended(op[o], "cancelled", "cancelled_before_start")
    <3>1. op' = [op EXCEPT ![o] = row] /\ UNCHANGED talk
      BY <1>4, <2>1 DEF RequestCancel, Update
    <3>2. row.bound = op[o].bound /\ row.status \notin Active
      BY <1>1, <1>3, RowForms
    <3> HIDE DEF row
    <3> QED BY <1>2, <3>1, <3>2
  <2>2. CASE op[o].status \notin Waiting
    <3> DEFINE row == [op[o] EXCEPT !.status = "cancelling", !.cancel = TRUE]
    <3>1. op' = [op EXCEPT ![o] = row] /\ UNCHANGED talk /\ op[o].status \in Active
      BY <1>4, <2>2 DEF RequestCancel, Update
    <3>2. row.bound = op[o].bound /\ row.owner = op[o].owner /\ row.attempt = op[o].attempt
      BY <1>1 DEF OperationRow
    <3>3. row.lease <= op[o].lease /\ row.deadline <= op[o].deadline
      <4>1. row.lease = op[o].lease /\ row.deadline = op[o].deadline
            /\ op[o].lease \in Int /\ op[o].deadline \in Int
        BY <1>1 DEF OperationRow
      <4> HIDE DEF row
      <4> QED BY <4>1
    <3> HIDE DEF row
    <3>4. \A v \in Workers \ {w} : Lapses(op[o], row, v)
      BY <3>1, <3>2, <3>3 DEF Lapses
    <3> QED BY <3>1, <3>2, <3>4, OneRowStill
  <2> QED BY <2>1, <2>2
<1>5. CASE Bind(o)
  <2> DEFINE row == [op[o] EXCEPT !.bound = TRUE]
  <2>1. op' = [op EXCEPT ![o] = row] /\ UNCHANGED talk /\ op[o].status \in Waiting
    BY <1>5 DEF Bind, Bindable, Update
  <2>2. row.bound /\ row.status = op[o].status
    BY <1>1 DEF OperationRow
  <2> HIDE DEF row
  <2> QED BY <1>2, <2>1, <2>2 DEF Waiting, Active
<1>6. CASE BindMismatch(o)
  <2> DEFINE row == Ended(op[o], "failed", "source-binding")
  <2>1. op' = [op EXCEPT ![o] = row]
    BY <1>1, <1>6 DEF BindMismatch, QueueInv
  <2>2. row.bound = op[o].bound /\ row.status \notin Active
    BY <1>1, <1>3, RowForms
  <2> HIDE DEF row
  <2>3. /\ op'[o] = row /\ op[o].lease <= op[o].lease
        /\ Guided \subseteq Operations /\ op \in [Operations -> OperationRow]
        /\ \A p \in Guided \ {o} : op'[p] = op[p]
    BY <1>1, <2>1, QueueAssumption DEF QueueInv, OperationRow
  <2>4. \A p \in Guided : op[p].lease <= op[p].lease /\ op[p].deadline <= op[p].deadline
    BY <2>3 DEF OperationRow
  <2>5. LapseAll(w)
    BY <2>2, <2>3, <2>4 DEF LapseAll, Lapses
  <2>6. \A p \in Guided : talk[p].status = "none" => talk'[p] = talk[p]
    BY <1>6, QueueAssumption DEF BindMismatch, QueueInv, OpenTalk, TalkRow
  <2> QED BY <2>2, <2>3, <2>5, <2>6 DEF AllStill, Still
<1>7. CASE Enqueue(o) /\ ~op[o].bound
  <2> DEFINE row == NewRow(0)
  <2>1. op' = [op EXCEPT ![o] = row] /\ UNCHANGED talk
    BY <1>7 DEF Enqueue
  <2>2. row.status \notin Active
    BY DEF NewRow, NoRow, Active
  <2> HIDE DEF row
  <2> QED BY <1>2, <1>7, <2>1, <2>2
<1> QED BY <1>4, <1>5, <1>6, <1>7

\* A discussion moves, or is started.
LEMMA TalkStill ==
  ASSUME QueueInv, NEW o \in Guided, NEW w,
         \/ \E from \in SUBSET OpenTalk : \E to : MoveTalk(o, from, to)
         \/ \E exact : StartTalk(o, exact)
  PROVE  /\ LapseAll(w) /\ \A p \in Guided \ {o} : Still(p)
         /\ (\E from \in SUBSET OpenTalk : \E to : MoveTalk(o, from, to)) => AllStill
<1>1. UNCHANGED op
  BY DEF MoveTalk, StartTalk
<1>2. \A p \in Guided \ {o} : talk'[p] = talk[p]
  BY QueueAssumption DEF MoveTalk, StartTalk, QueueInv
<1>3. (\E from \in SUBSET OpenTalk : \E to : MoveTalk(o, from, to)) => talk[o].status # "none"
  BY DEF MoveTalk, OpenTalk
<1>4. LapseAll(w) /\ \A p \in Guided : op[p].bound => op'[p].bound
  BY <1>1, NoRowStill
<1> QED BY <1>2, <1>3, <1>4 DEF AllStill, Still

\* Time passes.
LEMMA TickStill ==
  ASSUME QueueInv, TickQueue, NEW w
  PROVE  LapseAll(w) /\ AllStill
<1>1. ASSUME NEW o \in Guided
      PROVE  op'[o].bound = op[o].bound /\ \A v : Lapses(op[o], op'[o], v)
  <2> DEFINE row == op[o]
             l == Less(row.lease)
             d == Less(row.deadline)
             x == Less(row.wait)
  <2>1. row \in OperationRow /\ o \in Operations
    BY QueueAssumption DEF QueueInv
  <2>2. l <= row.lease /\ d <= row.deadline /\ row.lease <= row.lease /\ row.deadline <= row.deadline
    BY <2>1, QueueAssumption DEF Less, OperationRow
  <2>3. \/ op'[o] = [row EXCEPT !.lease = l, !.deadline = d] /\ row.status \in Active
        \/ op'[o] \in {[row EXCEPT !.wait = x], row}
    BY <2>1 DEF TickQueue
  <2> HIDE DEF l, d, x
  <2>4. CASE op'[o] = [row EXCEPT !.lease = l, !.deadline = d]
    <3>1. op'[o].bound = row.bound /\ op'[o].owner = row.owner
          /\ op'[o].attempt = row.attempt /\ op'[o].status = row.status
      BY <2>1, <2>4 DEF OperationRow
    <3>2. op'[o].lease = l /\ op'[o].deadline = d
      BY <2>1, <2>4 DEF OperationRow
    <3> HIDE DEF row
    <3> QED BY <2>2, <3>1, <3>2 DEF Lapses, row
  <2>5. CASE op'[o] = [row EXCEPT !.wait = x]
    <3>1. op'[o].bound = row.bound /\ op'[o].owner = row.owner
          /\ op'[o].attempt = row.attempt /\ op'[o].status = row.status
      BY <2>1, <2>5 DEF OperationRow
    <3>2. op'[o].lease = row.lease /\ op'[o].deadline = row.deadline
      BY <2>1, <2>5 DEF OperationRow
    <3> HIDE DEF row
    <3> QED BY <2>2, <3>1, <3>2 DEF Lapses, row
  <2>6. CASE op'[o] = row
    BY <2>2, <2>6 DEF Lapses
  <2> QED BY <2>3, <2>4, <2>5, <2>6
<1>2. UNCHANGED talk
  BY DEF TickQueue
<1> QED BY <1>1, <1>2 DEF LapseAll, AllStill, Still

-----------------------------------------------------------------------------
(* What a step of a process has to do.                                     *)

StepOK ==
  /\ [QueueNext]_queueVars
  /\ GoodKept
  /\ OwnTyped'
  /\ \A w \in Workers : Knows(tracker'[w], talk') /\ GivesUp(w)'
  /\ \A o \in Guided : StartKnows(o)'

\* A step that neither gives any worker an attempt nor starts a discussion.
Calm == AllStill /\ \A w : LapseAll(w)

\* What a thread knows of a discussion stays true.
LEMMA KnowsStays ==
  ASSUME GoodKept, NEW m, Knows(m, talk)
  PROVE  Knows(m, talk')
  BY DEF GoodKept, Knows, Onward, Closed

\* A thread that gives up does so on good grounds still, unless it acts.
LEMMA GivesUpStays ==
  ASSUME GuidedInv, [QueueNext]_queueVars, GoodKept, NEW w \in Workers, NEW u, u # w,
         LapseAll(u), tracker'[w] = tracker[w]
  PROVE  GivesUp(w)'
<1> DEFINE o == tracker[w].for
           k == tracker[w].token
<1>1. SUFFICES ASSUME tracker[w].at = "unwind", LiveWorker(w, o, k, 0)'
               PROVE  talk'[o].status \in Closed
  BY DEF GivesUp
<1>2. o \in Guided /\ o \in Operations
  BY <1>1, QueueAssumption DEF GuidedInv, Knows
<1>3. op[o] \in OperationRow /\ op'[o] \in OperationRow
  BY <1>2, QueueStep, KeptInv DEF GuidedInv, QueueInv
<1>4. /\ op[o].lease \in Int /\ op[o].deadline \in Int
      /\ op'[o].lease \in Int /\ op'[o].deadline \in Int
  BY <1>3 DEF OperationRow
<1>5. Lapses(op[o], op'[o], w)
  BY <1>2 DEF LapseAll
<1>6. LiveWorker(w, o, k, 0)
  BY <1>1, <1>4, <1>5 DEF LiveWorker, Lapses, Past
<1>7. talk[o].status \in Closed
  BY <1>1, <1>6 DEF GuidedInv, GivesUp
<1> QED BY <1>2, <1>7 DEF GoodKept, Onward

\* A starter that does nothing finds things as they were.
LEMMA StartStays ==
  ASSUME GuidedInv, GoodKept, NEW o \in Guided, Still(o), starter'[o] = starter[o]
  PROVE  StartKnows(o)'
<1>1. talk[o] \in TalkRow
  BY QueueAssumption DEF GuidedInv, QueueInv
<1>2. talk[o].status \notin OpenTalk => talk'[o].status \notin OpenTalk
  <2>1. CASE talk[o].status = "none"
    BY <2>1 DEF Still, OpenTalk
  <2>2. CASE talk[o].status \in Closed
    BY <2>2 DEF GoodKept, Onward, Closed, OpenTalk
  <2> QED BY <1>1, <2>1, <2>2 DEF TalkRow, Closed
<1>3. StartKnows(o)
  BY DEF GuidedInv
<1> QED BY <1>2, <1>3 DEF StartKnows, Still

\* A step of the starter, the operator, the Room or the clock.
LEMMA OthersStep ==
  ASSUME GuidedInv, [QueueNext]_queueVars, GoodKept, UNCHANGED tracker, LapseAll(NoWorker),
         starter' \in [Guided -> {"idle", "post", "bind", "stop", "cancel", "over", "gone"}],
         operator' \in [Guided -> {"none", "cancel", "done"}],
         drift' \in [Guided -> BOOLEAN],
         \A o \in Guided : (Still(o) /\ starter'[o] = starter[o]) \/ StartKnows(o)'
  PROVE  StepOK
<1>1. \A w \in Workers : Knows(tracker'[w], talk')
  BY KnowsStays DEF GuidedInv
<1>2. OwnTyped'
  BY DEF OwnTyped, GuidedInv
<1>3. \A w \in Workers : GivesUp(w)'
  BY GivesUpStays, QueueAssumption
<1>4. \A o \in Guided : StartKnows(o)'
  BY StartStays
<1> QED BY <1>1, <1>2, <1>3, <1>4 DEF StepOK

\* A step of the operator, the Room or the clock.
LEMMA RestStep ==
  ASSUME GuidedInv, [QueueNext]_queueVars, GoodKept, Calm, UNCHANGED <<tracker, starter>>,
         operator' \in [Guided -> {"none", "cancel", "done"}],
         drift' \in [Guided -> BOOLEAN]
  PROVE  StepOK
<1>1. LapseAll(NoWorker) /\ \A o \in Guided : Still(o) /\ starter'[o] = starter[o]
  BY DEF Calm, AllStill
<1>2. starter' \in [Guided -> {"idle", "post", "bind", "stop", "cancel", "over", "gone"}]
  BY DEF GuidedInv, OwnTyped
<1> QED BY <1>1, <1>2, OthersStep

\* A step of a tracker thread.
LEMMA TrackerMoves ==
  ASSUME GuidedInv, [QueueNext]_queueVars, GoodKept, AllStill,
         NEW w \in Workers, LapseAll(w), NEW new \in Mind,
         TrackerGoes(w, new), Knows(new, talk'),
         new.at = "unwind" =>
           talk'[new.for].status \in Closed \/ ~LiveWorker(w, new.for, new.token, 0)'
  PROVE  StepOK
<1>1. tracker' = [tracker EXCEPT ![w] = new] /\ UNCHANGED <<starter, operator, drift>>
  BY Zenon DEF TrackerGoes, Others
<1>2. tracker \in [Workers -> Mind]
  BY DEF GuidedInv, OwnTyped
<1>3. tracker' \in [Workers -> Mind] /\ tracker'[w] = new
      /\ \A v \in Workers \ {w} : tracker'[v] = tracker[v]
  BY <1>1, <1>2
<1>4. OwnTyped'
  BY <1>1, <1>3 DEF OwnTyped, GuidedInv
<1>5. \A v \in Workers : Knows(tracker'[v], talk')
  <2> SUFFICES ASSUME NEW v \in Workers PROVE Knows(tracker'[v], talk')
    OBVIOUS
  <2>1. CASE v = w
    BY <1>3, <2>1
  <2>2. CASE v # w
    BY <1>3, <2>2, KnowsStays DEF GuidedInv
  <2> QED BY <2>1, <2>2
<1>6. GivesUp(w)'
  BY <1>3 DEF GivesUp
<1>7. \A v \in Workers \ {w} : GivesUp(v)'
  BY <1>3, GivesUpStays
<1>8. \A o \in Guided : StartKnows(o)'
  BY <1>1, StartStays DEF AllStill
<1> QED BY <1>4, <1>5, <1>6, <1>7, <1>8 DEF StepOK

\* A step of the starter.
LEMMA StarterMoves ==
  ASSUME GuidedInv, [QueueNext]_queueVars, GoodKept, LapseAll(NoWorker),
         NEW o \in Guided, \A p \in Guided \ {o} : Still(p), NEW from,
         NEW to \in {"idle", "post", "bind", "stop", "cancel", "over", "gone"},
         StarterGoes(o, from, to),
         to \in {"idle", "post"} => talk'[o].status = "none",
         to = "cancel" => talk'[o].status \notin OpenTalk,
         to = "over" => op'[o].bound \/ talk'[o].status \notin OpenTalk
  PROVE  StepOK
<1>1. starter' = [starter EXCEPT ![o] = to] /\ UNCHANGED <<operator, drift, tracker>>
  BY Zenon DEF StarterGoes, Others
<1>2. /\ starter' \in [Guided -> {"idle", "post", "bind", "stop", "cancel", "over", "gone"}]
      /\ starter'[o] = to /\ \A p \in Guided \ {o} : starter'[p] = starter[p]
  BY <1>1 DEF GuidedInv, OwnTyped
<1>3. StartKnows(o)'
  BY <1>2 DEF StartKnows
<1> QED BY <1>1, <1>2, <1>3, OthersStep DEF GuidedInv, OwnTyped

\* A step that calls nothing.
LEMMA NoCallGood ==
  ASSUME GuidedInv, NoCall
  PROVE  GoodKept /\ [QueueNext]_queueVars /\ Calm
<1>1. UNCHANGED op /\ UNCHANGED talk /\ QueueInv /\ AllGood
  BY DEF GuidedInv, NoCall, queueVars
<1>2. Calm
  BY <1>1, NoRowStill DEF Calm, AllStill, Still
<1> QED BY <1>1, <1>2, GoodStays DEF NoCall

\* A call of the starter or the operator.
LEMMA CallGood ==
  ASSUME GuidedInv, NEW o \in Guided,
         \/ RequestCancel(o) \/ Bind(o) \/ BindMismatch(o) \/ (Enqueue(o) /\ ~op[o].bound)
         \/ \E from \in SUBSET OpenTalk, to \in OpenTalk \cup Closed : MoveTalk(o, from, to)
  PROVE  GoodKept /\ [QueueNext]_queueVars /\ Calm
<1>1. o \in Operations /\ QueueInv /\ AllGood
  BY QueueAssumption DEF GuidedInv
<1>2. CASE RequestCancel(o) \/ Bind(o) \/ BindMismatch(o) \/ (Enqueue(o) /\ ~op[o].bound)
  <2>1. QueueNext
    BY <1>1, <1>2, Zenon DEF QueueNext
  <2>2. GoodKept
    BY <1>1, <1>2, EnqueueGood, RequestCancelGood, BindGood, BindMismatchGood
  <2>3. \A w : LapseAll(w) /\ AllStill
    BY <1>1, <1>2, CallStill
  <2> QED BY <2>1, <2>2, <2>3 DEF Calm
<1>3. ASSUME NEW from \in SUBSET OpenTalk, NEW to \in OpenTalk \cup Closed, MoveTalk(o, from, to)
      PROVE  GoodKept /\ [QueueNext]_queueVars /\ Calm
  <2>1. MoveTalk(o, OpenTalk, to)
    BY <1>3 DEF MoveTalk
  <2>2. QueueNext
    BY <2>1, Zenon DEF QueueNext, Closed
  <2>3. \A w : LapseAll(w) /\ AllStill
    BY <1>1, <1>3, TalkStill
  <2> QED BY <1>1, <1>3, <2>2, <2>3, MoveTalkGood DEF Calm
<1> QED BY <1>2, <1>3

\* The discussion of o starts.
LEMMA StartGood ==
  ASSUME GuidedInv, NEW o \in Guided, NEW exact \in BOOLEAN, StartTalk(o, exact)
  PROVE  /\ GoodKept /\ [QueueNext]_queueVars /\ LapseAll(NoWorker)
         /\ \A p \in Guided \ {o} : Still(p)
<1>1. QueueInv /\ AllGood
  BY DEF GuidedInv
<1>2. QueueNext
  BY Zenon DEF QueueNext
<1>3. LapseAll(NoWorker) /\ \A p \in Guided \ {o} : Still(p)
  BY <1>1, TalkStill
<1> QED BY <1>1, <1>2, <1>3, StartTalkGood

-----------------------------------------------------------------------------
(* The starter, the operator and the Room.                                 *)

\* The thread that starts o.
LEMMA StarterStepOK ==
  ASSUME GuidedInv, NEW o \in Guided, StartWorkflow(o) \/ StarterStep(o) \/ StarterCrashes(o)
  PROVE  StepOK
<1>1. StartKnows(o) /\ Good(op[o], talk[o])
  BY DEF GuidedInv, AllGood
<1>2. Calm => LapseAll(NoWorker) /\ \A p \in Guided : Still(p)
  BY DEF Calm, AllStill
<1>3. CASE StartWorkflow(o)
  <2>1. StarterGoes(o, "idle", "post") /\ Enqueue(o)
    BY <1>3 DEF StartWorkflow
  <2>2. talk[o].status = "none"
    BY <1>1, <2>1 DEF StarterGoes, StartKnows
  <2>3. ~op[o].bound /\ talk'[o].status = "none"
    BY <1>1, <2>1, <2>2 DEF Good, Enqueue
  <2>4. GoodKept /\ [QueueNext]_queueVars /\ Calm
    BY <2>1, <2>3, CallGood
  <2> QED BY <1>2, <2>1, <2>3, <2>4, StarterMoves
<1>4. CASE PostTask(o)
  <2>1. StarterGoes(o, "post", "bind")
    BY <1>4 DEF PostTask
  <2>2. PICK exact \in BOOLEAN : StartTalk(o, exact)
    BY <1>4 DEF PostTask
  <2>3. /\ GoodKept /\ [QueueNext]_queueVars /\ LapseAll(NoWorker)
        /\ \A p \in Guided \ {o} : Still(p)
    BY <2>2, StartGood
  <2> QED BY <2>1, <2>3, StarterMoves
<1>5. CASE PostFails(o)
  <2>1. StarterGoes(o, "post", "cancel") /\ NoCall
    BY <1>5 DEF PostFails
  <2>2. talk'[o].status \notin OpenTalk
    BY <1>1, <2>1 DEF StarterGoes, StartKnows, NoCall, queueVars, OpenTalk
  <2>3. GoodKept /\ [QueueNext]_queueVars /\ Calm
    BY <2>1, NoCallGood
  <2> QED BY <1>2, <2>1, <2>2, <2>3, StarterMoves
<1>6. CASE ValidationFails(o) \/ BindRaises(o)
  <2>1. StarterGoes(o, "bind", "stop") /\ (NoCall \/ BindMismatch(o))
    BY <1>6 DEF ValidationFails, BindRaises
  <2>2. GoodKept /\ [QueueNext]_queueVars /\ Calm
    BY <2>1, CallGood, NoCallGood
  <2> QED BY <1>2, <2>1, <2>2, StarterMoves
<1>7. CASE BindAnswers(o)
  <2>1. StarterGoes(o, "bind", "over") /\ (Bind(o) \/ (op[o].bound /\ NoCall))
    BY <1>7 DEF BindAnswers
  <2>2. GoodKept /\ [QueueNext]_queueVars /\ Calm
    BY <2>1, CallGood, NoCallGood
  <2>3. op'[o].bound
    <3>1. CASE Bind(o)
      <4>1. o \in Operations /\ op \in [Operations -> OperationRow]
        BY QueueAssumption DEF GuidedInv, QueueInv
      <4>2. op' = [op EXCEPT ![o] = [op[o] EXCEPT !.bound = TRUE]]
        BY <3>1 DEF Bind, Update
      <4> QED BY <4>1, <4>2 DEF OperationRow
    <3>2. CASE op[o].bound /\ NoCall
      BY <3>2 DEF NoCall, queueVars
    <3> QED BY <2>1, <3>1, <3>2
  <2> QED BY <1>2, <2>1, <2>2, <2>3, StarterMoves
<1>8. CASE StarterStopsTalk(o)
  <2>1. StarterGoes(o, "stop", "cancel")
    BY <1>8 DEF StarterStopsTalk
  <2>2. CASE MoveTalk(o, OpenTalk, "stopped")
    <3>1. OpenTalk \in SUBSET OpenTalk /\ "stopped" \in OpenTalk \cup Closed
      BY DEF Closed
    <3>2. GoodKept /\ [QueueNext]_queueVars /\ Calm
      BY <2>2, <3>1, CallGood
    <3>3. QueueInv /\ AllGood
      BY DEF GuidedInv
    <3>4. talk'[o].status = "stopped"
      BY <2>2, <3>1, <3>3, MoveTalkGood
    <3>5. talk'[o].status \notin OpenTalk
      BY <3>4 DEF OpenTalk
    <3> QED BY <1>2, <2>1, <3>2, <3>5, StarterMoves
  <2>3. CASE talk[o].status \notin OpenTalk /\ NoCall
    <3>1. GoodKept /\ [QueueNext]_queueVars /\ Calm
      BY <2>3, NoCallGood
    <3>2. talk'[o].status \notin OpenTalk
      BY <2>3 DEF NoCall, queueVars
    <3> QED BY <1>2, <2>1, <3>1, <3>2, StarterMoves
  <2> QED BY <1>8, <2>2, <2>3 DEF StarterStopsTalk
<1>9. CASE StarterCancels(o)
  <2>1. StarterGoes(o, "cancel", "over") /\ (RequestCancel(o) \/ NoCall)
    BY <1>9 DEF StarterCancels
  <2>2. GoodKept /\ [QueueNext]_queueVars /\ Calm
    BY <2>1, CallGood, NoCallGood
  <2>3. talk'[o].status \notin OpenTalk
    <3>1. talk[o].status \notin OpenTalk
      BY <1>1, <2>1 DEF StarterGoes, StartKnows
    <3>2. UNCHANGED talk
      BY <2>1 DEF RequestCancel, Update, NoCall, queueVars
    <3> QED BY <3>1, <3>2
  <2> QED BY <1>2, <2>1, <2>2, <2>3, StarterMoves
<1>10. CASE StarterCrashes(o)
  <2>1. starter' = [starter EXCEPT ![o] = "gone"] /\ UNCHANGED <<operator, drift, tracker>>
    BY <1>10, Zenon DEF StarterCrashes, Others
  <2>2. /\ starter' \in [Guided -> {"idle", "post", "bind", "stop", "cancel", "over", "gone"}]
        /\ starter'[o] = "gone" /\ \A p \in Guided \ {o} : starter'[p] = starter[p]
    BY <2>1 DEF GuidedInv, OwnTyped
  <2>3. GoodKept /\ [QueueNext]_queueVars /\ Calm
    BY <1>10, NoCallGood DEF StarterCrashes
  <2>4. StartKnows(o)'
    BY <2>2 DEF StartKnows
  <2> QED BY <1>2, <2>1, <2>2, <2>3, <2>4, OthersStep DEF GuidedInv, OwnTyped
<1> QED BY <1>3, <1>4, <1>5, <1>6, <1>7, <1>8, <1>9, <1>10 DEF StarterStep

\* The operator and what happens in the Room.
LEMMA RoomStepOK ==
  ASSUME GuidedInv, NEW o \in Guided,
         \/ OperatorStops(o) \/ OperatorStopsOperation(o) \/ OperatorCancels(o)
         \/ OperatorPauses(o) \/ OperatorResumes(o) \/ OperatorContinues(o)
         \/ RoomChanges(o) \/ RoomDecides(o)
  PROVE  StepOK
<1>1. OwnTyped
  BY DEF GuidedInv
<1>2. ASSUME NEW from \in SUBSET OpenTalk, NEW to \in OpenTalk \cup Closed, MoveTalk(o, from, to)
      PROVE  GoodKept /\ [QueueNext]_queueVars /\ Calm
  BY <1>2, CallGood
<1>3. {OpenTalk, {"active"}, {"paused"}, {"paused", "waiting_human"}} \subseteq SUBSET OpenTalk
      /\ {"stopped", "completed", "waiting_human", "active", "paused"} \subseteq OpenTalk \cup Closed
  BY DEF OpenTalk, Closed
<1>4. CASE OperatorStops(o)
  <2>1. MoveTalk(o, OpenTalk, "stopped") /\ operator' = [operator EXCEPT ![o] = "cancel"]
        /\ UNCHANGED <<starter, drift, tracker>>
    BY <1>4, Zenon DEF OperatorStops, Others
  <2>2. GoodKept /\ [QueueNext]_queueVars /\ Calm
    BY <1>2, <1>3, <2>1
  <2>3. operator' \in [Guided -> {"none", "cancel", "done"}]
    BY <1>1, <2>1 DEF OwnTyped
  <2> QED BY <1>1, <2>1, <2>2, <2>3, RestStep DEF OwnTyped
<1>5. CASE OperatorStopsOperation(o)
  <2>1. RequestCancel(o) \/ NoCall
    BY <1>5 DEF OperatorStopsOperation
  <2>2. operator' = [operator EXCEPT ![o] = "done"] /\ UNCHANGED <<starter, drift, tracker>>
    BY <1>5, Zenon DEF OperatorStopsOperation, Others
  <2>3. GoodKept /\ [QueueNext]_queueVars /\ Calm
    BY <2>1, CallGood, NoCallGood
  <2>4. operator' \in [Guided -> {"none", "cancel", "done"}]
    BY <1>1, <2>2 DEF OwnTyped
  <2> QED BY <1>1, <2>2, <2>3, <2>4, RestStep DEF OwnTyped
<1>6. CASE OperatorCancels(o)
  <2>1. GoodKept /\ [QueueNext]_queueVars /\ Calm
    BY <1>6, CallGood DEF OperatorCancels
  <2> QED BY <1>1, <1>6, <2>1, RestStep DEF OwnTyped, OperatorCancels
<1>7. CASE OperatorPauses(o)
  <2>1. GoodKept /\ [QueueNext]_queueVars /\ Calm
    BY <1>2, <1>3, <1>7 DEF OperatorPauses
  <2> QED BY <1>1, <1>7, <2>1, RestStep DEF OwnTyped, OperatorPauses
<1>8. CASE OperatorResumes(o)
  <2>1. GoodKept /\ [QueueNext]_queueVars /\ Calm
    BY <1>2, <1>3, <1>8 DEF OperatorResumes
  <2> QED BY <1>1, <1>8, <2>1, RestStep DEF OwnTyped, OperatorResumes
<1>9. CASE OperatorContinues(o)
  <2>1. GoodKept /\ [QueueNext]_queueVars /\ Calm
    BY <1>2, <1>3, <1>9 DEF OperatorContinues
  <2>2. PICK limits \in BOOLEAN : drift' = [drift EXCEPT ![o] = @ \/ limits]
    BY <1>9 DEF OperatorContinues
  <2>3. (drift[o] \/ limits) \in BOOLEAN
    OBVIOUS
  <2>4. drift' \in [Guided -> BOOLEAN]
    BY <1>1, <2>2, <2>3 DEF OwnTyped
  <2> QED BY <1>1, <1>9, <2>1, <2>4, RestStep DEF OwnTyped, OperatorContinues
<1>10. CASE RoomChanges(o)
  <2>1. GoodKept /\ [QueueNext]_queueVars /\ Calm
    BY <1>10, NoCallGood DEF RoomChanges
  <2>2. drift' \in [Guided -> BOOLEAN]
    BY <1>1, <1>10 DEF OwnTyped, RoomChanges
  <2> QED BY <1>1, <1>10, <2>1, <2>2, RestStep DEF OwnTyped, RoomChanges
<1>11. CASE RoomDecides(o)
  <2>1. GoodKept /\ [QueueNext]_queueVars /\ Calm
    BY <1>2, <1>3, <1>11 DEF RoomDecides
  <2> QED BY <1>1, <1>11, <2>1, RestStep DEF OwnTyped, RoomDecides
<1> QED BY <1>4, <1>5, <1>6, <1>7, <1>8, <1>9, <1>10, <1>11

-----------------------------------------------------------------------------
(* The tracker.                                                            *)

\* Readings of the clock are integers.
LEMMA AgesAreIntegers == Ages \subseteq Int
  BY QueueAssumption

\* A call of a tracker thread is a call of a worker of the queue.
LEMMA WorkerCalls ==
  ASSUME NEW w \in Workers, NEW o \in Guided, NEW age \in Int, WorkerCall(w, o, age)
  PROVE  [QueueNext]_queueVars
  BY QueueAssumption, Zenon DEF QueueNext

\* What a thread at work is: its operation is guided and was started.
LEMMA AtWork ==
  ASSUME GuidedInv, NEW w \in Workers, tracker[w].at # "idle"
  PROVE  /\ tracker[w].for \in Guided /\ tracker[w].token \in Nat
         /\ tracker[w] \in Mind /\ Knows(tracker[w], talk)
         /\ talk[tracker[w].for].status # "none"
  BY DEF GuidedInv, OwnTyped, Mind, Knows

\* A thread that has ended knows nothing.
LEMMA IdleKnows ==
  ASSUME NEW t
  PROVE  Idle \in Mind /\ Knows(Idle, t)
  BY DEF Idle, Mind, Goals, Knows

\* A call that no other thread depends on.
LEMMA CalmFor ==
  ASSUME Calm, NEW w
  PROVE  LapseAll(w) /\ AllStill
  BY DEF Calm

\* A thread that gives up, with good grounds.
LEMMA Unwinds ==
  ASSUME GuidedInv, NEW w \in Workers, tracker[w].at # "idle", NoCall,
         TrackerGoes(w, [tracker[w] EXCEPT !.at = "unwind"]),
         \/ talk[tracker[w].for].status \in Closed
         \/ ~LiveWorker(w, tracker[w].for, tracker[w].token, 0)
  PROVE  StepOK
<1>1. tracker[w] \in Mind /\ Knows(tracker[w], talk)
  BY AtWork
<1>2. PICK new \in Mind : new = [tracker[w] EXCEPT !.at = "unwind"]
  BY <1>1 DEF Mind
<1>3. new.for = tracker[w].for /\ new.token = tracker[w].token /\ new.at = "unwind"
  BY <1>1, <1>2 DEF Mind
<1>4. UNCHANGED op /\ UNCHANGED talk
  BY DEF NoCall, queueVars
<1>5. Knows(new, talk')
  BY <1>1, <1>3, <1>4 DEF Knows
<1>6. talk'[new.for].status \in Closed \/ ~LiveWorker(w, new.for, new.token, 0)'
  BY <1>3, <1>4 DEF LiveWorker
<1>7. GoodKept /\ [QueueNext]_queueVars /\ LapseAll(w) /\ AllStill
  BY NoCallGood, CalmFor
<1>8. TrackerGoes(w, new)
  BY <1>2
<1> QED BY <1>5, <1>6, <1>7, <1>8, TrackerMoves

\* A thread that ends with a call.
LEMMA EndsWith ==
  ASSUME GuidedInv, NEW w \in Workers, [QueueNext]_queueVars, GoodKept, LapseAll(w), AllStill,
         TrackerGoes(w, Idle)
  PROVE  StepOK
<1> DEFINE new == Idle
<1>1. new \in Mind /\ Knows(new, talk') /\ new.at # "unwind"
  BY IdleKnows DEF Idle
<1>2. TrackerGoes(w, new)
  OBVIOUS
<1> HIDE DEF new
<1> QED BY <1>1, <1>2, TrackerMoves

\* _fail_claim.
LEMMA FailClaimOK ==
  ASSUME GuidedInv, NEW w \in Workers, tracker[w].at # "idle", NEW class \in Outcomes \ {"none"},
         NEW allow \in BOOLEAN, NEW age \in Int, FailClaim(w, class, allow, age),
         class \in LostOutcomes =>
           \/ talk[tracker[w].for].status \notin OpenTalk
           \/ ~LiveWorker(w, tracker[w].for, tracker[w].token, age)
  PROVE  StepOK
<1> DEFINE o == tracker[w].for
           k == tracker[w].token
<1>1. o \in Guided /\ k \in Nat /\ QueueInv /\ AllGood
  BY AtWork DEF GuidedInv
<1>2. TrackerGoes(w, Idle)
  BY DEF FailClaim
<1>3. CASE Fail(w, o, k, class, 0, allow, age)
  <2>1. WorkerCall(w, o, age)
    BY <1>1, <1>3, Zenon DEF WorkerCall
  <2>2. [QueueNext]_queueVars
    BY <1>1, <2>1, WorkerCalls
  <2>3. LiveWorker(w, o, k, age)
    BY <1>3 DEF Fail
  <2>4. GoodKept
    BY <1>1, <1>3, <2>3, FailGood
  <2>5. LapseAll(w) /\ AllStill
    BY <1>1, <1>3, WorkerStill
  <2> QED BY <1>2, <2>2, <2>4, <2>5, EndsWith
<1>4. CASE Reconcile(age)
  <2>1. QueueNext
    BY <1>4, Zenon DEF QueueNext
  <2>2. GoodKept
    BY <1>1, <1>4, ReconcileGood
  <2>3. LapseAll(w) /\ AllStill
    BY <1>1, <1>4, ReconcileStill
  <2> QED BY <1>2, <2>1, <2>2, <2>3, EndsWith
<1>5. Fail(w, o, k, class, 0, allow, age) \/ Reconcile(age)
  BY DEF FailClaim
<1> QED BY <1>3, <1>4, <1>5

\* A claim.
LEMMA TrackerClaimsOK ==
  ASSUME GuidedInv, NEW w \in Workers, NEW o \in Guided, TrackerClaims(w, o)
  PROVE  StepOK
<1> DEFINE new == [at |-> "look", for |-> o, token |-> op'[o].attempt, goal |-> "none"]
<1>1. PICK age \in Int : Claim(w, o, Guided, age)
  BY AgesAreIntegers DEF TrackerClaims
<1>2. QueueInv /\ AllGood /\ o \in Operations /\ Guided \in Classes
  BY QueueAssumption DEF GuidedInv, Classes
<1>3. [QueueNext]_queueVars
  BY <1>1, <1>2, WorkerCalls, Zenon DEF WorkerCall
<1>4. GoodKept /\ op'[o].bound
  BY <1>1, <1>2, ClaimGood
<1>5. op'[o] \in OperationRow
  BY <1>2, <1>3, QueueStep, KeptInv DEF QueueInv
<1>6. new \in Mind /\ new.at # "unwind"
  BY <1>5 DEF OperationRow, Mind, Goals
<1>7. talk'[o].status # "none"
  BY <1>4 DEF GoodKept, AllGood, Good
<1>8. Knows(new, talk')
  BY <1>7 DEF Knows
<1>9. TrackerGoes(w, new)
  BY DEF TrackerClaims
<1>10. LapseAll(w) /\ AllStill
  BY <1>1, <1>2, ClaimStill
<1> HIDE DEF new
<1> QED BY <1>3, <1>4, <1>6, <1>8, <1>9, <1>10, TrackerMoves

\* A look at the discussion sees what is there.
LEMMA LookSees ==
  ASSUME NEW o
  PROVE  /\ LookGoal(o) \in Goals
         /\ LookGoal(o) = "complete" => talk[o].status = "completed"
         /\ LookGoal(o) = "discussion-stopped" => talk[o].status = "stopped"
  BY DEF LookGoal, Goals

\* The thread looks.
LEMMA TrackerLooksOK ==
  ASSUME GuidedInv, NEW w \in Workers, TrackerLooks(w)
  PROVE  StepOK
<1> DEFINE o == tracker[w].for
           goal == LookGoal(o)
           at == IF goal \in {"source-drift", "acknowledge", "timeout"} THEN "stop" ELSE "call"
           new == [tracker[w] EXCEPT !.goal = goal, !.at = at]
<1>1. tracker[w].at # "idle" /\ NoCall /\ TrackerGoes(w, new)
  BY DEF TrackerLooks
<1>2. o \in Guided /\ tracker[w] \in Mind /\ talk[o].status # "none"
  BY <1>1, AtWork
<1>3. /\ goal \in Goals /\ (goal = "complete" => talk[o].status = "completed")
      /\ goal = "discussion-stopped" => talk[o].status = "stopped"
  BY LookSees
<1>4. /\ at \in {"stop", "call"}
      /\ at = "stop" => goal \notin {"complete", "discussion-stopped"}
      /\ at = "call" => goal \notin {"source-drift", "acknowledge", "timeout"}
  BY <1>3
<1> HIDE DEF goal, at
<1>5. new \in Mind /\ new.for = o /\ new.goal = goal /\ new.at = at
  BY <1>2, <1>3, <1>4 DEF Mind
<1> HIDE DEF new, o
<1>6. Knows(new, talk) /\ new.at # "unwind"
  BY <1>2, <1>3, <1>4, <1>5 DEF Knows, Closed
<1>7. GoodKept /\ [QueueNext]_queueVars /\ LapseAll(w) /\ AllStill
  BY <1>1, NoCallGood, CalmFor
<1> QED BY <1>1, <1>5, <1>6, <1>7, KnowsStays, TrackerMoves

\* The thread stops the discussion of its operation.
LEMMA TrackerStopsTalkOK ==
  ASSUME GuidedInv, NEW w \in Workers, TrackerStopsTalk(w)
  PROVE  StepOK
<1> DEFINE o == tracker[w].for
           new == [tracker[w] EXCEPT !.at = "call"]
<1>1. tracker[w].at = "stop" /\ TrackerGoes(w, new)
  BY DEF TrackerStopsTalk
<1>2. /\ o \in Guided /\ o \in Operations /\ tracker[w] \in Mind /\ talk[o].status # "none"
      /\ tracker[w].goal \notin {"complete", "discussion-stopped"} /\ QueueInv /\ AllGood
  BY <1>1, AtWork, QueueAssumption DEF Knows, GuidedInv
<1>3. new \in Mind /\ new.for = o /\ new.goal = tracker[w].goal /\ new.at = "call"
  BY <1>2 DEF Mind
<1>4. GoodKept /\ [QueueNext]_queueVars /\ Calm /\ talk'[o].status \in Closed
  <2>1. CASE MoveTalk(o, OpenTalk, "stopped")
    <3>1. OpenTalk \in SUBSET OpenTalk /\ "stopped" \in OpenTalk \cup Closed /\ "stopped" \in Closed
      BY DEF Closed
    <3> QED BY <1>2, <2>1, <3>1, MoveTalkGood, CallGood
  <2>2. CASE talk[o].status \notin OpenTalk /\ NoCall
    <3>1. talk[o] \in TalkRow
      BY <1>2 DEF QueueInv
    <3>2. talk[o].status \in Closed
      BY <1>2, <2>2, <3>1 DEF TalkRow, Closed
    <3> QED BY <2>2, <3>2, NoCallGood DEF NoCall, queueVars
  <2> QED BY <2>1, <2>2 DEF TrackerStopsTalk
<1>5. LapseAll(w) /\ AllStill
  BY <1>4, CalmFor
<1> HIDE DEF new, o
<1>6. Knows(new, talk') /\ new.at # "unwind"
  BY <1>2, <1>3, <1>4 DEF Knows, Closed
<1> QED BY <1>1, <1>3, <1>4, <1>5, <1>6, TrackerMoves

\* A claim that is not live by an earlier reading of the clock has lapsed.
LEMMA NotLiveNow ==
  ASSUME QueueInv, NEW w, NEW o \in Operations, NEW k, NEW age \in Nat, ~LiveWorker(w, o, k, age)
  PROVE  ~LiveWorker(w, o, k, 0)
<1>1. op[o].lease \in Int /\ op[o].deadline \in Int
  BY DEF QueueInv, OperationRow
<1> QED BY <1>1 DEF LiveWorker, Past

\* The calls whose refusal is left to the wrapper.
LEMMA TriesOK ==
  ASSUME GuidedInv, NEW w \in Workers, NEW age \in Ages,
         TrackerBeats(w, age) \/ TrackerCompletes(w, age) \/ TrackerAcknowledges(w, age)
  PROVE  StepOK
<1> DEFINE o == tracker[w].for
           k == tracker[w].token
           unwinds == [tracker[w] EXCEPT !.at = "unwind"]
           looks == [tracker[w] EXCEPT !.at = "look", !.goal = "none"]
<1>1. tracker[w].at = "call" /\ age \in Int /\ age \in Nat
  BY QueueAssumption DEF TrackerBeats, TrackerCompletes, TrackerAcknowledges
<1>2. /\ o \in Guided /\ o \in Operations /\ k \in Nat /\ QueueInv /\ AllGood
      /\ Knows(tracker[w], talk) /\ tracker[w] \in Mind /\ talk[o].status # "none"
  BY <1>1, AtWork, QueueAssumption DEF GuidedInv
<1>3. ASSUME Heartbeat(w, o, k, age) \/ Complete(w, o, k, age) \/ AcknowledgeCancel(w, o, k, age)
      PROVE  [QueueNext]_queueVars /\ LapseAll(w) /\ AllStill
  <2>1. WorkerCall(w, o, age)
    BY <1>2, <1>3, Zenon DEF WorkerCall
  <2>2. [QueueNext]_queueVars
    BY <1>1, <1>2, <2>1, WorkerCalls
  <2> QED BY <1>1, <1>2, <1>3, <2>2, WorkerStill
<1>4. CASE /\ NoCall /\ TrackerGoes(w, unwinds)
           /\ \/ ~LiveWorker(w, o, k, age)
              \/ tracker[w].goal \in {"complete", "acknowledge"}
  <2>1. talk[o].status \in Closed \/ ~LiveWorker(w, o, k, 0)
    BY <1>1, <1>2, <1>4, NotLiveNow DEF Knows, Closed
  <2> QED BY <1>1, <1>4, <2>1, Unwinds
<1>5. CASE Heartbeat(w, o, k, age) /\ TrackerGoes(w, looks)
  <2>1. GoodKept
    BY <1>2, <1>5, HeartbeatGood
  <2>2. looks \in Mind /\ looks.for = o /\ looks.at = "look"
    BY <1>2 DEF Mind, Goals
  <2>3. talk'[o].status # "none"
    BY <1>2, <2>1 DEF GoodKept, Onward
  <2>4. Knows(looks, talk') /\ looks.at # "unwind"
    <3> HIDE DEF looks
    <3> QED BY <1>2, <2>2, <2>3 DEF Knows
  <2> HIDE DEF looks
  <2> QED BY <1>3, <1>5, <2>1, <2>2, <2>4, TrackerMoves
<1>6. CASE Complete(w, o, k, age) /\ TrackerGoes(w, Idle) /\ tracker[w].goal = "complete"
  <2>1. talk[o].status = "completed"
    BY <1>1, <1>2, <1>6 DEF Knows
  <2>2. GoodKept
    BY <1>2, <1>6, <2>1, CompleteGood
  <2> QED BY <1>3, <1>6, <2>2, EndsWith
<1>7. CASE AcknowledgeCancel(w, o, k, age) /\ TrackerGoes(w, Idle)
  <2>1. GoodKept
    BY <1>2, <1>7, AcknowledgeGood
  <2> QED BY <1>3, <1>7, <2>1, EndsWith
<1>8. \/ /\ NoCall /\ TrackerGoes(w, unwinds)
         /\ ~LiveWorker(w, o, k, age) \/ tracker[w].goal \in {"complete", "acknowledge"}
      \/ Heartbeat(w, o, k, age) /\ TrackerGoes(w, looks)
      \/ Complete(w, o, k, age) /\ TrackerGoes(w, Idle) /\ tracker[w].goal = "complete"
      \/ AcknowledgeCancel(w, o, k, age) /\ TrackerGoes(w, Idle)
  <2>1. CASE TrackerBeats(w, age)
    BY <2>1, Zenon DEF TrackerBeats, Tries
  <2>2. CASE TrackerCompletes(w, age)
    BY <2>2 DEF TrackerCompletes, Tries
  <2>3. CASE TrackerAcknowledges(w, age)
    BY <2>3 DEF TrackerAcknowledges, Tries
  <2> QED BY <2>1, <2>2, <2>3
<1> QED BY <1>4, <1>5, <1>6, <1>7, <1>8

\* The failures, and the end of a thread.
LEMMA TrackerEndsOK ==
  ASSUME GuidedInv, NEW w \in Workers,
         \/ TrackerRaises(w) \/ TrackerTimesOut(w) \/ TrackerUnwinds(w) \/ TrackerCrashes(w)
         \/ \E age \in Ages : TrackerFails(w, age)
  PROVE  StepOK
<1> DEFINE o == tracker[w].for
           k == tracker[w].token
<1>1. /\ {"source-binding", "human-attention", "discussion-stopped", "timeout"}
           \subseteq Outcomes \ {"none"}
      /\ "human-attention" \notin LostOutcomes
  BY DEF Outcomes, LostOutcomes, LeftToOperator
<1>2. talk[o].status \in Closed => talk[o].status \notin OpenTalk
  BY DEF Closed, OpenTalk
<1>3. CASE TrackerRaises(w)
  <2>1. tracker[w].at = "call" /\ tracker[w].goal = "source-drift"
        /\ NoCall /\ TrackerGoes(w, [tracker[w] EXCEPT !.at = "unwind"])
    BY <1>3 DEF TrackerRaises
  <2>2. Knows(tracker[w], talk)
    BY <2>1, AtWork
  <2>3. talk[o].status \in Closed
    BY <2>1, <2>2 DEF Knows
  <2> QED BY <2>1, <2>3, Unwinds
<1>4. CASE TrackerTimesOut(w)
  <2> DEFINE age == IF op[o].status \in Active /\ Past(op[o].deadline, 0)
                    THEN 1 - op[o].deadline ELSE 1
  <2>1. tracker[w].at = "call" /\ tracker[w].goal = "timeout"
        /\ FailClaim(w, "timeout", FALSE, age)
    BY <1>4 DEF TrackerTimesOut
  <2>2. o \in Guided /\ Knows(tracker[w], talk)
    BY <2>1, AtWork
  <2>3. talk[o].status \notin OpenTalk
    BY <1>2, <2>1, <2>2 DEF Knows
  <2>4. age \in Int
    <3>1. op[o].deadline \in Int
      BY <2>2, QueueAssumption DEF GuidedInv, QueueInv, OperationRow
    <3> QED BY <3>1
  <2> HIDE DEF age
  <2> QED BY <1>1, <2>1, <2>3, <2>4, FailClaimOK
<1>5. CASE TrackerUnwinds(w)
  <2> DEFINE age == 0
             allow == TRUE
  <2>1. tracker[w].at # "idle" /\ FailClaim(w, "source-binding", allow, age)
    BY <1>5 DEF TrackerUnwinds
  <2>2. age \in Int /\ allow \in BOOLEAN
    OBVIOUS
  <2>3. talk[o].status \in Closed \/ ~LiveWorker(w, o, k, age)
    BY <1>5 DEF GuidedInv, GivesUp, TrackerUnwinds
  <2> HIDE DEF age, allow
  <2> QED BY <1>1, <1>2, <2>1, <2>2, <2>3, FailClaimOK
<1>6. CASE TrackerCrashes(w)
  <2>1. NoCall /\ TrackerGoes(w, Idle)
    BY <1>6 DEF TrackerCrashes
  <2>2. GoodKept /\ [QueueNext]_queueVars /\ LapseAll(w) /\ AllStill
    BY <2>1, NoCallGood, CalmFor
  <2> QED BY <2>1, <2>2, EndsWith
<1>7. ASSUME NEW age \in Ages, TrackerFails(w, age)
      PROVE  StepOK
  <2> DEFINE class == tracker[w].goal
  <2>1. tracker[w].at = "call" /\ class \in {"human-attention", "discussion-stopped"}
        /\ FailClaim(w, class, TRUE, age)
    BY <1>7 DEF TrackerFails
  <2>2. age \in Int
    BY AgesAreIntegers
  <2>3. Knows(tracker[w], talk)
    BY <2>1, AtWork
  <2>4. class \in LostOutcomes => talk[o].status \notin OpenTalk
    BY <1>1, <1>2, <2>1, <2>3 DEF Knows
  <2>5. class \in Outcomes \ {"none"}
    BY <1>1, <2>1
  <2> HIDE DEF class
  <2> QED BY <2>1, <2>2, <2>4, <2>5, FailClaimOK
<1> QED BY <1>3, <1>4, <1>5, <1>6, <1>7

\* The main loop of the tracker, and the clock.
LEMMA LoopOK ==
  ASSUME GuidedInv, TrackerReconciles \/ TrackerFindsNothing \/ Tick
  PROVE  StepOK
<1>1. QueueInv /\ AllGood /\ OwnTyped
  BY DEF GuidedInv
<1>2. ASSUME NEW age \in Int, Reconcile(age)
      PROVE  GoodKept /\ [QueueNext]_queueVars /\ Calm
  <2>1. QueueNext
    BY <1>2, Zenon DEF QueueNext
  <2>2. \A w : LapseAll(w) /\ AllStill
    BY <1>1, <1>2, ReconcileStill
  <2> QED BY <1>1, <1>2, <2>1, <2>2, ReconcileGood DEF Calm
<1>3. GoodKept /\ [QueueNext]_queueVars /\ Calm
  <2>1. CASE TrackerReconciles
    <3> DEFINE now == 0
    <3>1. now \in Int /\ Reconcile(now)
      BY <2>1 DEF TrackerReconciles
    <3> HIDE DEF now
    <3> QED BY <1>2, <3>1
  <2>2. CASE TrackerFindsNothing
    BY <1>2, <2>2, AgesAreIntegers DEF TrackerFindsNothing, ClaimNothing
  <2>3. CASE Tick
    <3>1. QueueNext
      BY <2>3 DEF Tick, QueueNext
    <3>2. TickQueue
      BY <2>3 DEF Tick
    <3>3. \A w : LapseAll(w) /\ AllStill
      BY <1>1, <3>2, TickStill
    <3> QED BY <1>1, <3>1, <3>2, <3>3, TickGood DEF Calm
  <2> QED BY <2>1, <2>2, <2>3
<1>4. UNCHANGED <<starter, operator, drift, tracker>>
  BY DEF TrackerReconciles, TrackerFindsNothing, Tick
<1> QED BY <1>1, <1>3, <1>4, RestStep DEF OwnTyped

-----------------------------------------------------------------------------
\* Every step of the composition is in order.
LEMMA GuidedStep ==
  ASSUME GuidedInv, [GuidedNext]_guidedVars
  PROVE  StepOK
<1>1. ASSUME NEW o \in Guided,
             \/ StartWorkflow(o) \/ PostTask(o) \/ PostFails(o) \/ ValidationFails(o)
             \/ BindAnswers(o) \/ BindRaises(o) \/ StarterStopsTalk(o) \/ StarterCancels(o)
             \/ StarterCrashes(o)
             \/ OperatorStops(o) \/ OperatorStopsOperation(o) \/ OperatorCancels(o)
             \/ OperatorPauses(o) \/ OperatorResumes(o) \/ OperatorContinues(o)
             \/ RoomChanges(o) \/ RoomDecides(o)
      PROVE  StepOK
  <2>1. CASE StartWorkflow(o) \/ StarterStep(o) \/ StarterCrashes(o)
    BY <2>1, StarterStepOK
  <2>2. CASE \/ OperatorStops(o) \/ OperatorStopsOperation(o) \/ OperatorCancels(o)
             \/ OperatorPauses(o) \/ OperatorResumes(o) \/ OperatorContinues(o)
             \/ RoomChanges(o) \/ RoomDecides(o)
    BY <2>2, RoomStepOK
  <2> QED BY <1>1, <2>1, <2>2, Zenon DEF StarterStep
<1>2. ASSUME NEW w \in Workers,
             \/ \E o \in Guided : TrackerClaims(w, o)
             \/ TrackerLooks(w) \/ TrackerStopsTalk(w) \/ TrackerRaises(w)
             \/ TrackerTimesOut(w) \/ TrackerUnwinds(w) \/ TrackerCrashes(w)
             \/ \E age \in Ages : \/ TrackerBeats(w, age) \/ TrackerCompletes(w, age)
                                  \/ TrackerAcknowledges(w, age) \/ TrackerFails(w, age)
      PROVE  StepOK
  BY <1>2, TrackerClaimsOK, TrackerLooksOK, TrackerStopsTalkOK, TriesOK, TrackerEndsOK, Zenon
<1>3. CASE UNCHANGED guidedVars
  <2>1. NoCall /\ UNCHANGED <<starter, operator, drift, tracker>>
    BY <1>3 DEF guidedVars, queueVars, NoCall
  <2>2. GoodKept /\ [QueueNext]_queueVars /\ Calm
    BY <2>1, NoCallGood
  <2> QED BY <2>1, <2>2, RestStep DEF GuidedInv, OwnTyped
<1>4. CASE GuidedNext
  BY <1>1, <1>2, <1>4, LoopOK, Zenon DEF GuidedNext
<1> QED BY <1>3, <1>4

\* Where the composition starts.
LEMMA GuidedStart ==
  ASSUME GuidedInit
  PROVE  GuidedInv
<1>1. QueueInv
  BY QueueStart DEF GuidedInit
<1>2. \A w \in Workers : tracker[w] \in Mind /\ Knows(tracker[w], talk) /\ GivesUp(w)
  BY IdleKnows DEF GuidedInit, GivesUp, Idle
<1>3. OwnTyped
  BY <1>2 DEF GuidedInit, OwnTyped
<1>4. ASSUME NEW o \in Guided PROVE Good(op[o], talk[o])
  <2>1. talk[o].status = "none" /\ ~talk[o].exact
    BY QueueAssumption DEF GuidedInit, QueueInit
  <2>2. op[o] = NoRow
    <3>1. PICK left \in SUBSET Legacy :
            op = [p \in Operations |->
                    IF p \in left THEN [NoRow EXCEPT !.status = "retry", !.attempt = 1] ELSE NoRow]
      BY DEF GuidedInit, QueueInit
    <3>2. o \in Operations /\ o \notin left
      BY QueueAssumption
    <3> QED BY <3>1, <3>2
  <2>3. op[o].status = "absent" /\ op[o].outcome = "none"
    BY <2>2 DEF NoRow
  <2>4. ~op[o].bound
    BY <2>2 DEF NoRow
  <2> QED BY <2>1, <2>3, <2>4 DEF Good, Active, Terminal, LostOutcomes
<1>5. ASSUME NEW o \in Guided PROVE StartKnows(o)
  BY QueueAssumption DEF GuidedInit, QueueInit, StartKnows
<1> QED BY <1>1, <1>2, <1>3, <1>4, <1>5 DEF GuidedInv, AllGood

\* GuidedInv holds in every reachable state of the composition.
THEOREM GuidedInvariant == GuidedSpec => []GuidedInv
<1>1. GuidedInit => GuidedInv
  BY GuidedStart
<1>2. GuidedInv /\ [GuidedNext]_guidedVars => GuidedInv'
  <2> SUFFICES ASSUME GuidedInv, [GuidedNext]_guidedVars PROVE GuidedInv'
    OBVIOUS
  <2>1. StepOK
    BY GuidedStep
  <2>2. QueueInv'
    BY <2>1, QueueStep, KeptInv DEF StepOK, GuidedInv
  <2> QED BY <2>1, <2>2 DEF StepOK, GoodKept, GuidedInv
<1> QED BY <1>1, <1>2, PTL DEF GuidedSpec

\* The variables of the queue, of the starter, of the operator and of the
\* trackers keep their types.
THEOREM GuidedTypes == GuidedSpec => []GuidedTypeOK
<1>1. GuidedInv => GuidedTypeOK
  <2> SUFFICES ASSUME GuidedInv PROVE GuidedTypeOK
    OBVIOUS
  <2>1. QueueTypeOK
    BY DEF GuidedInv, QueueInv, QueueTypeOK, RowOK
  <2> QED BY <2>1 DEF GuidedInv, OwnTyped, Mind, GuidedTypeOK
<1> QED BY <1>1, GuidedInvariant, PTL

\* Whatever starter, operator, Room and trackers do, and whenever one of them
\* ends, they use the queue as OperationQueue allows; so what is proved of the
\* queue with any callers holds here.
THEOREM GuidedUsesQueue == GuidedSpec => UsesQueue
<1>1. GuidedInit => QueueInit
  BY DEF GuidedInit
<1>2. GuidedInv /\ [GuidedNext]_guidedVars => [QueueNext]_queueVars
  BY GuidedStep DEF StepOK
<1> QED BY <1>1, <1>2, GuidedInvariant, PTL DEF GuidedSpec, QueueSpec, UsesQueue

\* Only a completed discussion makes a guided operation succeed: what a
\* tracker saw is still so when its completion is accepted.
THEOREM SuccessNeedsCompletion == GuidedSpec => []SucceededMeansCompleted
<1>1. GuidedInv => SucceededMeansCompleted
  BY DEF GuidedInv, AllGood, Good, SucceededMeansCompleted
<1> QED BY <1>1, GuidedInvariant, PTL

\* An operation that ended because its attempt timed out or because its worker
\* was lost, its cancellation included, has left no discussion open.
THEOREM LostWorkStops == GuidedSpec => []LostWorkStopsTalk
<1>1. GuidedInv => LostWorkStopsTalk
  <2>1. {"timeout", "worker_lost", "cancelled_after_worker_loss"} \subseteq LostOutcomes
    BY DEF Outcomes, LostOutcomes, LeftToOperator
  <2> QED BY <2>1 DEF GuidedInv, AllGood, Good, LostWorkStopsTalk
<1> QED BY <1>1, GuidedInvariant, PTL

\* A start that ran to its end leaves no discussion open under an operation
\* that is over, unless a human has it: whether the operation was bound by the
\* starter, by recovery or not at all, and whoever ended it.
THEOREM NoOrphans == GuidedSpec => []NoOrphanTalk
<1>1. GuidedInv => NoOrphanTalk
  <2> SUFFICES ASSUME GuidedInv, NEW o \in Guided, starter[o] = "over",
                      talk[o].status \in OpenTalk, op[o].status \in Terminal
               PROVE  op[o].outcome \in LeftToOperator
    BY DEF NoOrphanTalk
  <2>1. Good(op[o], talk[o]) /\ StartKnows(o)
    BY DEF GuidedInv, AllGood
  <2>2. op[o].bound /\ op[o].outcome # "none"
    BY <2>1 DEF StartKnows, Good
  <2>3. op[o].outcome \in Outcomes
    BY QueueAssumption DEF GuidedInv, QueueInv, OperationRow
  <2> QED BY <2>1, <2>2, <2>3 DEF Good, LostOutcomes
<1> QED BY <1>1, GuidedInvariant, PTL

=============================================================================
