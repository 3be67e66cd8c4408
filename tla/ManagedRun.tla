----------------------------- MODULE ManagedRun -----------------------------
(***************************************************************************)
(* Managed workflows: the runners of managed_workflows.py, one thread in   *)
(* each Control Room process, that claim operations of the durable queue   *)
(* and carry them out with agent processes (managed_agents.py), and for    *)
(* Implement + Review with an isolated worktree (execution_governance.py). *)
(*                                                                         *)
(* An agent process may finish, fail, hang or refuse to die; the worktree  *)
(* may change at any time; a runner's process may end between any two of   *)
(* its calls, and its agent processes may outlive it.                      *)
(***************************************************************************)
EXTENDS OperationQueue

CONSTANTS
  Writes,      (* operations of the template implement-review               *)
  Gates,       (* operations of the template release-gate                   *)
  Crew,        (* Crew[o]: how many observe sessions the template of o has  *)
  Mortal,      (* runners whose process may end                             *)
  Contents,    (* what HEAD and the diff of a worktree hash to              *)
  Base,        (* the content a worktree is made with                       *)
  MaxEdits,    (* bound: changes of a worktree                              *)
  Asked        (* bound: the sets of operations one behaviour asks for      *)

ASSUME ManagedAssumption ==
  /\ Guided = {}
  /\ Writes \subseteq Operations \ AutoRetry
  /\ Gates \subseteq Automatic \ Writes
  /\ Crew \in [Operations -> Nat \ {0}]
  /\ Mortal \subseteq Workers
  /\ Base \in Contents
  /\ MaxEdits \in Nat
  /\ Asked \subseteq SUBSET Operations

VARIABLES
  runner,     (* runner[w]: where the thread of w stands                    *)
  halted,     (* halted[w]: the stop event of w is set                      *)
  session,    (* session[x]: the agent process with session id x            *)
  tree        (* tree[o]: the worktree of o and its execution binding       *)

ownVars == <<runner, halted, session, tree>>
managedVars == <<op, talk, schedule, runner, halted, session, tree>>

PhasesOf(o) == IF o \in Writes THEN {"write", "review"} ELSE {"observe"}

CrewOf(o, phase) == IF phase = "observe" THEN 1..Crew[o] ELSE {1}

\* _session_id: the id names operation, attempt, phase and index.
Group(o, k, phase) == {<<o, k, phase, i>> : i \in CrewOf(o, phase)}
SessionIds == UNION {UNION {Group(o, k, phase) : k \in 1..MaxAttempts[o], phase \in PhasesOf(o)}
                       : o \in Operations}

\* by: its runner.  done: the provider reported a completed turn.  saw, since:
\* content and number of changes of the worktree when the process was started.
Session == [state : {"none", "running", "stopping", "completed", "failed", "stopped"},
            by : Workers \cup {NoWorker}, done : BOOLEAN,
            verdict : {"none", "approve", "reject"}, saw : Contents, since : 0..MaxEdits]

\* final: what was sealed.  edits counts the changes, and restored is the last
\* one that brought back final; no step of the code knows of these two.
Tree == [state : {"none", "active", "sealed"}, content : Contents, final : Contents,
         edits : 0..MaxEdits, restored : 0..MaxEdits]

Idle == [at |-> "idle", for |-> "none", token |-> 0, phase |-> "none", next |-> "none", saw |-> Base]

NoSession == [state |-> "none", by |-> NoWorker, done |-> FALSE, verdict |-> "none",
              saw |-> Base, since |-> 0]

NoTree == [state |-> "none", content |-> Base, final |-> Base, edits |-> 0, restored |-> 0]

\* What has been asked for, and what it has been prepared for.
AskedFor == {o \in Operations : op[o].status # "absent"}
              \cup {o \in Writes : tree[o].state # "none"}
              \cup {<<s, 1>> : s \in {x \in Schedules : schedule[x].status # "absent"}}

ManagedInit ==
  /\ QueueInit
  /\ runner  = [w \in Workers |-> Idle]
  /\ halted  = [w \in Workers |-> FALSE]
  /\ session = [x \in SessionIds |-> NoSession]
  /\ tree    = [o \in Writes |-> NoTree]
  /\ \E A \in Asked : AskedFor \subseteq A

NoCall == UNCHANGED queueVars

Alive(x) == session[x].state \in {"running", "stopping"}

\* The sessions the thread of w has started for its present phase.
Mine(w) == {x \in SessionIds : /\ session[x].by = w
                               /\ x[3] = runner[w].phase /\ x[2] = runner[w].token
                               /\ x[1] = runner[w].for}

Goes(w, at, next) == runner' = [runner EXCEPT ![w].at = at, ![w].next = next]

-----------------------------------------------------------------------------
(***************************************************************************)
(* The operator, the control room and the verification engine.             *)
(***************************************************************************)
WithinAsked == \E A \in Asked : AskedFor' \subseteq A

\* create_isolated_worktree.
CreateWorktree(o) ==
  /\ tree[o].state = "none"
  /\ tree' = [tree EXCEPT ![o].state = "active"]
  /\ UNCHANGED <<runner, halted, session>> /\ NoCall
  /\ WithinAsked

\* Whoever works in the worktree; a change may be taken back.
WorktreeChanges(o) ==
  /\ tree[o].state # "none" /\ tree[o].edits < MaxEdits
  /\ \E c \in Contents \ {tree[o].content} :
       tree' = [tree EXCEPT ![o].content = c, ![o].edits = @ + 1,
                            ![o].restored = IF c = tree[o].final THEN tree[o].edits + 1 ELSE @]
  /\ UNCHANGED <<runner, halted, session>> /\ NoCall

\* The stop button of a session in the cockpit.
OperatorStopsSession(x) ==
  /\ session[x].state = "running"
  /\ session' = [session EXCEPT ![x].state = "stopping"]
  /\ UNCHANGED <<runner, halted, tree>> /\ NoCall

OperatorCalls ==
  /\ \/ \E o \in Operations : Enqueue(o) \/ Ensure(o) \/ RequestCancel(o)
     \/ \E s \in Schedules : \/ \E wait \in FirstRuns : SaveSchedule(s, wait, TRUE)
                             \/ \E on \in BOOLEAN : SetScheduleEnabled(s, on)
  /\ UNCHANGED ownVars
  /\ WithinAsked

-----------------------------------------------------------------------------
(***************************************************************************)
(* An agent process.                                                       *)
(***************************************************************************)
\* The thread that started x has not gone on to something else.
Watched(x) == x \in Mine(session[x].by)

\* _watch: a process that was told to stop is stopped, whatever its exit code.
\* A process that nobody watches any more just ends.
SessionExits(x) ==
  /\ session[x].state = "running"
  /\ IF ~Watched(x) THEN session' = [session EXCEPT ![x] = NoSession]
     ELSE \/ session' = [session EXCEPT ![x].state = "failed"]
          \/ session' = [session EXCEPT ![x].state = "completed"]
          \/ \E verdict \in IF x[1] \in Gates THEN {"none", "approve", "reject"} ELSE {"none"} :
               session' = [session EXCEPT ![x].state = "completed", ![x].done = TRUE,
                                          ![x].verdict = verdict]
  /\ UNCHANGED <<runner, halted, tree>> /\ NoCall

SessionDies(x) ==
  /\ session[x].state = "stopping"
  /\ session' = [session EXCEPT ![x] = IF Watched(x) THEN [@ EXCEPT !.state = "stopped"]
                                                     ELSE NoSession]
  /\ UNCHANGED <<runner, halted, tree>> /\ NoCall

-----------------------------------------------------------------------------
(***************************************************************************)
(* The loop of a runner.                                                   *)
(***************************************************************************)
RunnerMaterializes(w) ==
  /\ runner[w].at = "idle" /\ ~halted[w]
  /\ \E age \in Ages : Materialize(age)
  /\ UNCHANGED ownVars
  /\ WithinAsked

RunnerReconciles(w) ==
  /\ runner[w].at = "idle" /\ ~halted[w]
  /\ \E age \in Ages : Reconcile(age)
  /\ UNCHANGED ownVars

RunnerClaims(w, o) ==
  /\ runner[w].at = "idle" /\ ~halted[w]
  /\ \E age \in Ages : Claim(w, o, Operations \ Guided, age)
  /\ runner' = [runner EXCEPT ![w] = [Idle EXCEPT !.at = "launch", !.for = o,
                                                  !.token = op'[o].attempt,
                                                  !.phase = IF o \in Writes THEN "write" ELSE "observe"]]
  /\ UNCHANGED <<halted, session, tree>>

Started(w, x) ==
  [state |-> "running", by |-> w, done |-> FALSE, verdict |-> "none",
   saw   |-> IF x[1] \in Writes THEN tree[x[1]].content ELSE Base,
   since |-> IF x[1] \in Writes THEN tree[x[1]].edits ELSE 0]

\* HEAD and the hash of the diff are compared, no history.
Stale(o) == tree[o].content # IF tree[o].state = "sealed" THEN tree[o].final ELSE Base

\* _binding_for_implement, before the writer is launched.
Launchable(w) ==
  runner[w].phase = "write" =>
    tree[runner[w].for].state = "active" /\ ~Stale(runner[w].for)

\* _launch_group and the start of _wait_group.
Launches(w) ==
  /\ runner[w].at = "launch"
  /\ Launchable(w)
  /\ session' = [x \in SessionIds |->
                   IF x \in Group(runner[w].for, runner[w].token, runner[w].phase)
                   THEN Started(w, x) ELSE session[x]]
  /\ Goes(w, "wait", "none")
  /\ UNCHANGED <<halted, tree>> /\ NoCall

\* A refused binding, or a process that cannot be started: those of the group
\* that were started before it are stopped.
LaunchFails(w) ==
  /\ runner[w].at = "launch"
  /\ \E i \in CrewOf(runner[w].for, runner[w].phase) :
       /\ ~Launchable(w) => i = 1
       /\ session' = [x \in SessionIds |->
                        IF x \in Group(runner[w].for, runner[w].token, runner[w].phase) /\ x[4] < i
                        THEN [Started(w, x) EXCEPT !.state = "stopping"] ELSE session[x]]
  /\ Goes(w, "stop", "configuration")
  /\ UNCHANGED <<halted, tree>> /\ NoCall

\* _stop_sessions: everything of the group that still runs is told to stop.
StopsGroup(w, next) ==
  /\ session' = [x \in SessionIds |->
                   IF x \in Mine(w) /\ session[x].state = "running"
                   THEN [session[x] EXCEPT !.state = "stopping"] ELSE session[x]]
  /\ Goes(w, "stop", next)

\* The checks of _wait_group, in their order.
WaitIsOver(w) ==
  /\ runner[w].at = "wait"
  /\ IF halted[w] THEN StopsGroup(w, "transient")
     ELSE IF op[runner[w].for].cancel THEN StopsGroup(w, "acknowledge")
     ELSE IF \E x \in Mine(w) : session[x].state \in {"failed", "stopped"}
          THEN StopsGroup(w, "provider")
     ELSE /\ \A x \in Mine(w) : session[x].state = "completed"
          /\ UNCHANGED session
          /\ IF \E x \in Mine(w) : ~session[x].done THEN Goes(w, "fail", "provider")
             ELSE CASE runner[w].phase = "write"   -> Goes(w, "renew", "seal")
                    [] runner[w].phase = "review"  -> Goes(w, "verify", "complete")
                    [] runner[w].phase = "observe" -> Goes(w, "judge", "complete")
  /\ UNCHANGED <<halted, tree>> /\ NoCall

\* Mutant: a refused heartbeat is not looked at.
WaitBeatsUndeterred(w) ==
  LET o == runner[w].for  k == runner[w].token IN
  /\ runner[w].at = "wait" /\ ~halted[w]
  /\ \E age \in Ages : Heartbeat(w, o, k, age)
  /\ UNCHANGED ownVars

\* The heartbeat of the wait, which the clock may let go before the checks.
WaitBeats(w) ==
  LET o == runner[w].for  k == runner[w].token IN
  /\ runner[w].at = "wait" /\ ~halted[w]
  /\ \E age \in Ages :
       \/ /\ Heartbeat(w, o, k, age)
          /\ UNCHANGED ownVars
       \/ /\ ~LiveWorker(w, o, k, age) /\ NoCall
          /\ StopsGroup(w, "lost")
          /\ UNCHANGED <<halted, tree>>

\* Mutant: the runner goes on dispatching beside a process it cannot stop.
StopGivesUpQuietly(w) ==
  /\ runner[w].at = "stop"
  /\ \E x \in Mine(w) : Alive(x)
  /\ Goes(w, "fail", "configuration")
  /\ UNCHANGED <<halted, session, tree>> /\ NoCall

\* A process tree that did not stop: ManagedWorkflowError, and no dispatch any
\* more.
StopGivesUp(w) ==
  /\ runner[w].at = "stop"
  /\ \E x \in Mine(w) : Alive(x)
  /\ halted' = [halted EXCEPT ![w] = TRUE]
  /\ Goes(w, "fail", "configuration")
  /\ UNCHANGED <<session, tree>> /\ NoCall

StopSucceeds(w) ==
  /\ runner[w].at = "stop"
  /\ \A x \in Mine(w) : ~Alive(x)
  /\ Goes(w, IF runner[w].next \in {"acknowledge", "lost"} THEN runner[w].next ELSE "fail",
          runner[w].next)
  /\ UNCHANGED <<halted, session, tree>> /\ NoCall

\* _run_claim returns.  A session that is over and did not lead to success is
\* nothing to anybody any more, and its id is not used again.
Ends(w) ==
  /\ runner' = [runner EXCEPT ![w] = Idle]
  /\ session' = [x \in SessionIds |->
                   IF x[1] = runner[w].for /\ x[2] = runner[w].token /\ ~Alive(x)
                   THEN NoSession ELSE session[x]]
  /\ UNCHANGED <<halted, tree>>

Acknowledges(w, age) ==
  LET o == runner[w].for  k == runner[w].token IN
  /\ runner[w].at = "acknowledge"
  /\ \/ AcknowledgeCancel(w, o, k, age)
     \/ ~(LiveWorker(w, o, k, age) /\ op[o].cancel) /\ Reconcile(age)
  /\ Ends(w)

GivesUpLease(w, age) == runner[w].at = "lost" /\ Reconcile(age) /\ Ends(w)

\* _fail_claim: where the queue refuses the failure, reconcile decides.
FailsClaim(w, age) ==
  LET o == runner[w].for  k == runner[w].token  class == runner[w].next IN
  /\ runner[w].at = "fail"
  /\ IF LiveWorker(w, o, k, age)
     THEN Fail(w, o, k, class, IF class = "provider" THEN RetryDelay ELSE 0, TRUE, age)
     ELSE Reconcile(age)
  /\ Ends(w)

-----------------------------------------------------------------------------
(***************************************************************************)
(* Between the phases.                                                     *)
(***************************************************************************)
\* _renew_claim; the review is a launch of its own.
Renews(w, age) ==
  LET o == runner[w].for  k == runner[w].token IN
  /\ runner[w].at = "renew"
  /\ \/ /\ Heartbeat(w, o, k, age)
        /\ runner' = [runner EXCEPT ![w].at = runner[w].next, ![w].next = "none",
                        ![w].phase = IF runner[w].next = "launch" THEN "review" ELSE @]
     \/ ~LiveWorker(w, o, k, age) /\ NoCall /\ Goes(w, "fail", "queue-state")
  /\ UNCHANGED <<halted, session, tree>>

\* seal_execution: the worktree is read, then the binding is written.
ReadsTree(w) ==
  /\ runner[w].at = "seal"
  /\ runner' = [runner EXCEPT ![w].at = "sealing", ![w].saw = tree[runner[w].for].content]
  /\ UNCHANGED <<halted, session, tree>> /\ NoCall

Seals(w) ==
  LET o == runner[w].for IN
  /\ runner[w].at = "sealing"
  /\ tree[o].state = "active"
  /\ tree' = [tree EXCEPT ![o].state = "sealed", ![o].final = runner[w].saw]
  /\ Goes(w, "verify", "launch")
  /\ UNCHANGED <<halted, session>> /\ NoCall

\* Mutant: what the reviewer saw is not compared with what was sealed.
VerifiesOnce(w) ==
  /\ runner[w].at = "verify"
  /\ IF Stale(runner[w].for) /\ runner[w].next = "launch" THEN Goes(w, "fail", "source-drift")
     ELSE Goes(w, "renew", runner[w].next)
  /\ UNCHANGED <<halted, session, tree>> /\ NoCall

\* verify_execution_source, after the seal and after the review.
Verifies(w) ==
  /\ runner[w].at = "verify"
  /\ IF Stale(runner[w].for) THEN Goes(w, "fail", "source-drift")
     ELSE Goes(w, "renew", runner[w].next)
  /\ UNCHANGED <<halted, session, tree>> /\ NoCall

\* Git or the file system refuses to answer.
GovernanceFails(w) ==
  /\ runner[w].at \in {"seal", "sealing", "verify"}
  /\ Goes(w, "fail", "configuration")
  /\ UNCHANGED <<halted, session, tree>> /\ NoCall

\* _release_review_verdict of each reviewer; other workflows go on at once.
Judges(w) ==
  LET verdicts == {session[x].verdict : x \in Mine(w)} IN
  /\ runner[w].at = "judge"
  /\ IF runner[w].for \notin Gates \/ verdicts = {"approve"} THEN Goes(w, "renew", "complete")
     ELSE IF "none" \in verdicts THEN Goes(w, "fail", "configuration")
     ELSE Goes(w, "fail", "review-blocked")
  /\ UNCHANGED <<halted, session, tree>> /\ NoCall

Completes(w, age) ==
  LET o == runner[w].for  k == runner[w].token IN
  /\ runner[w].at = "complete"
  /\ \/ /\ Complete(w, o, k, age)
        /\ runner' = [runner EXCEPT ![w] = Idle]
        /\ UNCHANGED <<halted, session, tree>>
     \/ /\ ~LiveWorker(w, o, k, age) \/ op[o].cancel
        /\ Goes(w, "fail", "queue-state")
        /\ UNCHANGED <<halted, session, tree>> /\ NoCall

\* The loop while it has no operation: claim reconciles, also when there is
\* nothing to claim.
RunnerPolls(w) ==
  /\ runner[w].at = "idle" /\ ~halted[w]
  /\ \E age \in Ages : ClaimNothing(Operations \ Guided, age)
  /\ UNCHANGED ownVars

RunnerStep(w) ==
  \/ Launches(w) \/ LaunchFails(w) \/ WaitIsOver(w) \/ WaitBeats(w)
  \/ StopGivesUp(w) \/ StopSucceeds(w)
  \/ ReadsTree(w) \/ Seals(w) \/ Verifies(w) \/ GovernanceFails(w) \/ Judges(w)
  \/ \E age \in Ages : \/ Acknowledges(w, age) \/ GivesUpLease(w, age) \/ FailsClaim(w, age)
                       \/ Renews(w, age) \/ Completes(w, age)

\* close: the Control Room is closed; its sessions are told to stop while the
\* thread goes on.
Closes(w) ==
  /\ w \in Mortal /\ ~halted[w]
  /\ halted' = [halted EXCEPT ![w] = TRUE]
  /\ session' = [x \in SessionIds |->
                   IF x \in Mine(w) /\ session[x].state = "running"
                   THEN [session[x] EXCEPT !.state = "stopping"] ELSE session[x]]
  /\ UNCHANGED <<runner, tree>> /\ NoCall

\* The process ends; its agent processes may go on.
RunnerDies(w) ==
  /\ w \in Mortal /\ runner[w].at # "gone"
  /\ runner' = [runner EXCEPT ![w] = [Idle EXCEPT !.at = "gone"]]
  /\ session' = [x \in SessionIds |-> IF x \in Mine(w) /\ ~Alive(x) THEN NoSession ELSE session[x]]
  /\ UNCHANGED <<halted, tree>> /\ NoCall

Tick == TickQueue /\ UNCHANGED ownVars

-----------------------------------------------------------------------------
ManagedNext ==
  \/ OperatorCalls
  \/ \E o \in Writes : CreateWorktree(o) \/ WorktreeChanges(o)
  \/ \E x \in SessionIds : OperatorStopsSession(x) \/ SessionExits(x) \/ SessionDies(x)
  \/ \E w \in Workers :
       \/ RunnerMaterializes(w) \/ RunnerReconciles(w) \/ RunnerPolls(w)
       \/ \E o \in Operations : RunnerClaims(w, o)
       \/ RunnerStep(w) \/ Closes(w) \/ RunnerDies(w)
  \/ Tick

ManagedSpec == ManagedInit /\ [][ManagedNext]_managedVars

\* The thread of a runner goes on until its process ends, and polls; time
\* passes.  An agent process that is told to stop may still refuse.
FairManagedSpec ==
  /\ ManagedSpec
  /\ \A w \in Workers : WF_managedVars(RunnerStep(w) \/ RunnerPolls(w)
                                         \/ \E o \in Operations : RunnerClaims(w, o))
  /\ WF_managedVars(Tick)

ManagedTypeOK ==
  /\ QueueTypeOK
  /\ \A w \in Workers : runner[w].token \in Nat /\ runner[w].saw \in Contents
  /\ halted \in [Workers -> BOOLEAN]
  /\ session \in [SessionIds -> Session]
  /\ tree \in [Writes -> Tree]

-----------------------------------------------------------------------------
\* A process was launched on what is sealed in t, or t was put back to that
\* after its launch.
GivenSealed(process, t) == process.saw = t.final \/ t.restored > process.since

\* Success of an operation is success of the sessions of its last attempt: all
\* finished and were reported finished; a release gate was approved by every
\* reviewer; and an implementation was reviewed by a process that was launched
\* on exactly what was sealed, or else the worktree was put back to it while the
\* review went on.  The code compares the worktree before the launch and after
\* the review, so it cannot tell the latter from a worktree nobody touched.
SuccessIsEarned ==
  \A o \in Operations : op[o].status = "succeeded" =>
    /\ \A phase \in PhasesOf(o) : \A x \in Group(o, op[o].attempt, phase) :
         /\ session[x].state = "completed" /\ session[x].done
         /\ o \in Gates => session[x].verdict = "approve"
         /\ phase = "review" => tree[o].state = "sealed" /\ GivenSealed(session[x], tree[o])

\* What a "same-source reviewer" would be: the reviewer of a successful
\* implementation was launched on what was sealed.  A change that is taken back
\* between the two comparisons breaks it.
ReviewedIsSealed ==
  \A o \in Writes : op[o].status = "succeeded" =>
    \A x \in Group(o, op[o].attempt, "review") : session[x].saw = tree[o].final

\* A runner that still dispatches has no other process running than those of
\* the phase it is in: it has stopped what it started before it goes on.
NothingLeftRunning ==
  \A x \in SessionIds : Alive(x) =>
    LET w == session[x].by IN
    halted[w] \/ runner[w].at = "gone" \/ x \in Mine(w)

\* An operation ends as long as a runner is there that dispatches, and no
\* agent process of it is left running whose runner is there: one that hangs is
\* told to stop when the operation has used up its time.
ManagedSettles ==
  \A o \in Operations :
    (op[o].status # "absent") ~>
      /\ op[o].status \in Terminal \/ \A w \in Workers : halted[w] \/ runner[w].at = "gone"
      /\ \A x \in SessionIds :
           (x[1] = o /\ session[x].state = "running") => runner[session[x].by].at = "gone"

=============================================================================
