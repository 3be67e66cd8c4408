----------------------------- MODULE GuidedRoom -----------------------------
(***************************************************************************)
(* A guided Room workflow: an operation of the durable queue that stands   *)
(* for one discussion of a Room.  Four kinds of process share the queue    *)
(* and the discussion, and none of them waits for another:                 *)
(*   - the starter, a worker thread of the operator's desktop (monitor.py, *)
(*     start_guided_room_workflow): enqueue, post the task, bind;          *)
(*   - the threads of RoomDiscussionTracker, one for each claim;           *)
(*   - the operator, who controls the discussion and cancels operations    *)
(*     from the chat page or from the operations page;                     *)
(*   - the Room, where the discussion proceeds by itself (Discussion.tla). *)
(* Every call of theirs is one transaction.  A process may end between any *)
(* two of them.                                                            *)
(***************************************************************************)
EXTENDS OperationQueue

VARIABLES
  starter,    (* starter[o]: the next call of the thread that starts o      *)
  operator,   (* operator[o]: "cancel" between the two calls of a stop      *)
  drift,      (* drift[o]: the room no longer matches the plan of o         *)
  tracker     (* tracker[w]: what a tracker thread remembers                *)

guidedVars == <<op, talk, schedule, starter, operator, drift, tracker>>

\* What a look at the discussion makes the tracker do next.
Goals == {"none", "acknowledge", "complete", "human-attention", "discussion-stopped",
          "timeout", "source-drift", "heartbeat"}

Idle == [at |-> "idle", for |-> "none", token |-> 0, goal |-> "none"]

GuidedInit ==
  /\ QueueInit
  /\ starter  = [o \in Guided |-> "idle"]
  /\ operator = [o \in Guided |-> "none"]
  /\ drift    = [o \in Guided |-> FALSE]
  /\ tracker  = [w \in Workers |-> Idle]

Others(x) == CASE x = "starter"  -> UNCHANGED <<operator, drift, tracker>>
               [] x = "operator" -> UNCHANGED <<starter, drift, tracker>>
               [] x = "tracker"  -> UNCHANGED <<starter, operator, drift>>

NoCall == UNCHANGED queueVars

-----------------------------------------------------------------------------
(***************************************************************************)
(* The starter.  An exception after the enqueue leads to the stop of the   *)
(* discussion, if the post was answered, and to the cancellation of the    *)
(* operation; both swallow what they raise.                                *)
(***************************************************************************)
StarterGoes(o, from, to) ==
  /\ starter[o] = from
  /\ starter' = [starter EXCEPT ![o] = to]
  /\ Others("starter")

StartWorkflow(o) == StarterGoes(o, "idle", "post") /\ Enqueue(o)

\* set_room_automation and post_room_message.  The members may have changed
\* since the plan was made: then the prompts are not those of the plan.
PostTask(o) ==
  /\ StarterGoes(o, "post", "bind")
  /\ \E exact \in BOOLEAN : StartTalk(o, exact)

PostFails(o) == StarterGoes(o, "post", "cancel") /\ NoCall

\* validate_guided_room_start raises.
ValidationFails(o) ==
  /\ drift[o] \/ ~talk[o].exact
  /\ StarterGoes(o, "bind", "stop")
  /\ NoCall

\* bind_guided_discussion answers: now bound, or bound before by a recovery.
BindAnswers(o) ==
  /\ StarterGoes(o, "bind", "over")
  /\ Bind(o) \/ (op[o].bound /\ NoCall)

BindRaises(o) ==
  /\ StarterGoes(o, "bind", "stop")
  /\ BindMismatch(o) \/ (~op[o].bound /\ ~Bindable(o) /\ NoCall)

\* Mutant: the failed start leaves the discussion to the tracker.
StarterForgetsTalk(o) == StarterGoes(o, "stop", "cancel") /\ NoCall

StarterStopsTalk(o) ==
  /\ StarterGoes(o, "stop", "cancel")
  /\ MoveTalk(o, OpenTalk, "stopped") \/ (talk[o].status \notin OpenTalk /\ NoCall)

StarterCancels(o) ==
  /\ StarterGoes(o, "cancel", "over")
  /\ RequestCancel(o) \/ (op[o].status \in Terminal /\ NoCall)

StarterCrashes(o) ==
  /\ starter[o] \in {"post", "bind", "stop", "cancel"}
  /\ starter' = [starter EXCEPT ![o] = "gone"]
  /\ Others("starter") /\ NoCall

StarterStep(o) ==
  PostTask(o) \/ PostFails(o) \/ ValidationFails(o) \/ BindAnswers(o) \/ BindRaises(o)
    \/ StarterStopsTalk(o) \/ StarterCancels(o)

-----------------------------------------------------------------------------
(***************************************************************************)
(* The operator and the Room.                                              *)
(***************************************************************************)
\* control_discussion "stop" on the chat page, then cancel_operation.
OperatorStops(o) ==
  /\ operator[o] = "none"
  /\ MoveTalk(o, OpenTalk, "stopped")
  /\ operator' = [operator EXCEPT ![o] = "cancel"]
  /\ Others("operator")

OperatorStopsOperation(o) ==
  /\ operator[o] = "cancel"
  /\ RequestCancel(o) \/ (op[o].status \in Terminal /\ NoCall)
  /\ operator' = [operator EXCEPT ![o] = "done"]
  /\ Others("operator")

\* cancel_operation on the operations page.
OperatorCancels(o) == RequestCancel(o) /\ UNCHANGED <<starter, operator, drift, tracker>>

OperatorPauses(o)  == /\ MoveTalk(o, {"active"}, "paused")
                      /\ UNCHANGED <<starter, operator, drift, tracker>>

OperatorResumes(o) == /\ MoveTalk(o, {"paused"}, "active")
                      /\ UNCHANGED <<starter, operator, drift, tracker>>

\* continue may also raise the limits of the discussion, which the tracker
\* compares with those of the plan.
OperatorContinues(o) ==
  /\ MoveTalk(o, {"paused", "waiting_human"}, "active")
  /\ \E limits \in BOOLEAN : drift' = [drift EXCEPT ![o] = @ \/ limits]
  /\ UNCHANGED <<starter, operator, tracker>>

\* Members, roles or routes of the room change for good.
RoomChanges(o) ==
  /\ op[o].status # "absent" /\ ~drift[o]
  /\ drift' = [drift EXCEPT ![o] = TRUE]
  /\ UNCHANGED <<starter, operator, tracker>> /\ NoCall

RoomDecides(o) ==
  /\ \E to \in {"completed", "waiting_human"} : MoveTalk(o, {"active"}, to)
  /\ UNCHANGED <<starter, operator, drift, tracker>>

-----------------------------------------------------------------------------
(***************************************************************************)
(* The tracker.  Its main loop reconciles and claims; each claim gets a    *)
(* thread that looks at the discussion, stops it when it must, and then    *)
(* makes one call on its operation.                                        *)
(***************************************************************************)
TrackerGoes(w, new) == tracker' = [tracker EXCEPT ![w] = new] /\ Others("tracker")

TrackerReconciles == Reconcile(0) /\ UNCHANGED <<starter, operator, drift, tracker>>

TrackerClaims(w, o) ==
  /\ tracker[w].at = "idle"
  /\ \E age \in Ages : Claim(w, o, Guided, age)
  /\ TrackerGoes(w, [at |-> "look", for |-> o, token |-> op'[o].attempt, goal |-> "none"])

TrackerFindsNothing ==
  /\ \E age \in Ages : ClaimNothing(Guided, age)
  /\ UNCHANGED <<starter, operator, drift, tracker>>

\* Mutant: a discussion that waits for a human counts as completed.
LookGoalLenient(o) ==
  IF drift[o] THEN "source-drift"
  ELSE IF op[o].cancel THEN "acknowledge"
  ELSE IF talk[o].status \in {"completed", "waiting_human"} THEN "complete"
  ELSE IF talk[o].status = "stopped" THEN "discussion-stopped"
  ELSE IF op[o].status \in Active /\ Past(op[o].deadline, 0) THEN "timeout"
  ELSE "heartbeat"

\* The order of the checks of _track_claim.
LookGoal(o) ==
  IF drift[o] THEN "source-drift"
  ELSE IF op[o].cancel THEN "acknowledge"
  ELSE IF talk[o].status = "completed" THEN "complete"
  ELSE IF talk[o].status = "waiting_human" THEN "human-attention"
  ELSE IF talk[o].status = "stopped" THEN "discussion-stopped"
  ELSE IF op[o].status \in Active /\ Past(op[o].deadline, 0) THEN "timeout"
  ELSE "heartbeat"

\* get_operation, _discussion_snapshot and the clock.  The flag is read before
\* the snapshot; a cancellation between the two is one after both.
TrackerLooks(w) ==
  LET goal == LookGoal(tracker[w].for) IN
  /\ tracker[w].at = "look"
  /\ TrackerGoes(w, [tracker[w] EXCEPT
       !.goal = goal,
       !.at = IF goal \in {"source-drift", "acknowledge", "timeout"} THEN "stop" ELSE "call"])
  /\ NoCall

\* _stop_bound_discussion, under the operator's identity.
TrackerStopsTalk(w) ==
  /\ tracker[w].at = "stop"
  /\ TrackerGoes(w, [tracker[w] EXCEPT !.at = "call"])
  /\ LET o == tracker[w].for IN
     MoveTalk(o, OpenTalk, "stopped") \/ (talk[o].status \notin OpenTalk /\ NoCall)

\* A call whose failure is left to _track_wrapper.
Tries(w, call, refused, next) ==
  \/ call /\ TrackerGoes(w, next)
  \/ refused /\ NoCall /\ TrackerGoes(w, [tracker[w] EXCEPT !.at = "unwind"])

TrackerBeats(w, age) ==
  LET o == tracker[w].for  k == tracker[w].token IN
  /\ tracker[w].at = "call" /\ tracker[w].goal = "heartbeat"
  /\ Tries(w, Heartbeat(w, o, k, age), ~LiveWorker(w, o, k, age),
           [tracker[w] EXCEPT !.at = "look", !.goal = "none"])

TrackerCompletes(w, age) ==
  LET o == tracker[w].for  k == tracker[w].token IN
  /\ tracker[w].at = "call" /\ tracker[w].goal = "complete"
  /\ Tries(w, Complete(w, o, k, age), ~LiveWorker(w, o, k, age) \/ op[o].cancel, Idle)

TrackerAcknowledges(w, age) ==
  LET o == tracker[w].for  k == tracker[w].token IN
  /\ tracker[w].at = "call" /\ tracker[w].goal = "acknowledge"
  /\ Tries(w, AcknowledgeCancel(w, o, k, age), ~LiveWorker(w, o, k, age) \/ ~op[o].cancel, Idle)

\* _snapshot failed: the discussion is stopped, the exception goes on.
TrackerRaises(w) ==
  /\ tracker[w].at = "call" /\ tracker[w].goal = "source-drift"
  /\ TrackerGoes(w, [tracker[w] EXCEPT !.at = "unwind"])
  /\ NoCall

\* _fail_claim: where the queue refuses the failure, reconcile decides.
FailClaim(w, class, allowRetry, age) ==
  LET o == tracker[w].for  k == tracker[w].token IN
  /\ IF LiveWorker(w, o, k, age)
     THEN Fail(w, o, k, class, 0, allowRetry, age)
     ELSE Reconcile(age)
  /\ TrackerGoes(w, Idle)

TrackerFails(w, age) ==
  /\ tracker[w].at = "call"
  /\ tracker[w].goal \in {"human-attention", "discussion-stopped"}
  /\ FailClaim(w, tracker[w].goal, TRUE, age)

\* The reading presented is the last one before the deadline of the attempt.
TrackerTimesOut(w) ==
  LET o == tracker[w].for IN
  /\ tracker[w].at = "call" /\ tracker[w].goal = "timeout"
  /\ FailClaim(w, "timeout", FALSE,
               IF op[o].status \in Active /\ Past(op[o].deadline, 0) THEN 1 - op[o].deadline ELSE 1)

TrackerUnwinds(w) == tracker[w].at = "unwind" /\ FailClaim(w, "source-binding", TRUE, 0)

\* The process ends, or closes: the thread leaves its claim to the lease.
TrackerCrashes(w) ==
  /\ tracker[w].at # "idle"
  /\ TrackerGoes(w, Idle)
  /\ NoCall

TrackerStep(w) ==
  \/ TrackerLooks(w) \/ TrackerStopsTalk(w) \/ TrackerRaises(w)
  \/ TrackerTimesOut(w) \/ TrackerUnwinds(w)
  \/ \E age \in Ages : \/ TrackerBeats(w, age) \/ TrackerCompletes(w, age)
                       \/ TrackerAcknowledges(w, age) \/ TrackerFails(w, age)

Tick == TickQueue /\ UNCHANGED <<starter, operator, drift, tracker>>

-----------------------------------------------------------------------------
GuidedNext ==
  \/ \E o \in Guided :
       \/ StartWorkflow(o) \/ PostTask(o) \/ PostFails(o) \/ ValidationFails(o)
       \/ BindAnswers(o) \/ BindRaises(o) \/ StarterStopsTalk(o) \/ StarterCancels(o)
       \/ StarterCrashes(o)
       \/ OperatorStops(o) \/ OperatorStopsOperation(o) \/ OperatorCancels(o)
       \/ OperatorPauses(o) \/ OperatorResumes(o) \/ OperatorContinues(o)
       \/ RoomChanges(o) \/ RoomDecides(o)
  \/ \E w \in Workers :
       \/ \E o \in Guided : TrackerClaims(w, o)
       \/ TrackerLooks(w) \/ TrackerStopsTalk(w) \/ TrackerRaises(w)
       \/ TrackerTimesOut(w) \/ TrackerUnwinds(w) \/ TrackerCrashes(w)
       \/ \E age \in Ages : \/ TrackerBeats(w, age) \/ TrackerCompletes(w, age)
                            \/ TrackerAcknowledges(w, age) \/ TrackerFails(w, age)
  \/ TrackerReconciles \/ TrackerFindsNothing
  \/ Tick

GuidedSpec == GuidedInit /\ [][GuidedNext]_guidedVars

\* The starter's thread and the tracker's threads run on until they end, the
\* tracker's main loop polls, and time passes.
FairGuidedSpec ==
  /\ GuidedSpec
  /\ \A o \in Guided : WF_guidedVars(StarterStep(o))
  /\ \A w \in Workers : /\ WF_guidedVars(TrackerStep(w))
                        /\ WF_guidedVars(\E o \in Guided : TrackerClaims(w, o))
  /\ WF_guidedVars(TrackerReconciles)
  /\ WF_guidedVars(Tick)

GuidedTypeOK ==
  /\ QueueTypeOK
  /\ starter \in [Guided -> {"idle", "post", "bind", "stop", "cancel", "over", "gone"}]
  /\ operator \in [Guided -> {"none", "cancel", "done"}]
  /\ drift \in [Guided -> BOOLEAN]
  /\ \A w \in Workers :
       /\ tracker[w].at \in {"idle", "look", "stop", "call", "unwind"}
       /\ tracker[w].for \in Guided \cup {"none"}
       /\ tracker[w].token \in Nat
       /\ tracker[w].goal \in Goals

-----------------------------------------------------------------------------
\* Only a completed discussion makes a guided operation succeed, whatever the
\* Room and the operator did since the tracker looked at it.
SucceededMeansCompleted ==
  \A o \in Guided : op[o].status = "succeeded" => talk[o].status = "completed"

\* Outcomes that leave the discussion to the operator on purpose, or that the
\* operator chose without stopping it.
LeftToOperator == {"human-attention", "cancelled", "cancelled_before_start"}

\* A starter that was not killed leaves no discussion open without an
\* operation, also when it is slower than the grace period of the queue.
NoOrphanTalk ==
  \A o \in Guided :
    (starter[o] = "over" /\ talk[o].status \in OpenTalk /\ op[o].status \in Terminal)
      => op[o].outcome \in LeftToOperator

\* CHANGELOG.md: the discussion of a guided workflow is stopped on cancellation.
CancellationStopsTalk ==
  \A o \in Guided :
    (op[o].status = "cancelled" /\ op[o].bound) => talk[o].status \notin OpenTalk

\* Every guided operation ends: whoever crashed, it is bound by recovery or
\* fails after the grace period, and a lost attempt is retried or settled.
GuidedSettles ==
  \A o \in Guided : (op[o].status # "absent") ~> (op[o].status \in Terminal)

\* The calls of these processes are calls on the queue of OperationQueue.
UsesQueue == QueueSpec

=============================================================================
