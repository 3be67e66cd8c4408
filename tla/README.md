# PeerBridge in TLA+

PeerBridge (`src/peerbridge_mcp/`) lets several coding agents work on one project: each
agent starts a small stdio server, and all servers of a project share one SQLite file. The
file holds a task board with writer leases, a mailbox with per-agent dispatch leases, rooms
in which a coordinator runs discussions between agents, a hash chain of audit events and
more. There is no server process that owns the data. What makes the system correct is that
each operation of `bridge.py` is written as a transaction that checks everything it relies
on again, and that a few multi-step operations survive whatever happens between their steps.

This directory models that core. Line numbers below are those of the modelled commit;
`bridge.py` stands for `src/peerbridge_mcp/bridge.py`, and so on.

1. [Inventory](#1-inventory): components, state, operations, interactions, hazards
2. [Modules](#2-modules): which module models what, and how it corresponds to the code
3. [Runs](#3-runs): what is model-checked, with which bounds
4. [Fairness](#4-fairness)
5. [Proofs](#5-proofs)
6. [Where code and documents disagree](#6-where-code-and-documents-disagree)
7. [What is not modelled](#7-what-is-not-modelled)
8. [Plan](#8-plan)

To repeat a run: `tlc -config MCTaskLease.cfg MCTaskLease`; to repeat the proofs: `tlapm` on each of
the modules whose name ends in `Proofs`. Besides the runs listed in `PROJECT.json` there are a few
`.cfg` files for questions a reader may want to ask; section 3 names them.

## 1. Inventory

### The components, their state and their operations

| Component | Source | State it keeps | Operations that change it |
| --- | --- | --- | --- |
| Task board: leases | `bridge.py` | rows of `tasks` with `task_paths` and `task_required_peers`: status, holder session, token hash, expiry, revision, plan | `claim_task`, `renew_task`, `release_task`, `complete_task`, the sweep `_expire_leases`; `announce_work` (section 7) |
| Task board: proofs, reviews, presence | `bridge.py` | `integration_records`, `peer_calls`, `peer_reviews`, `agent_presence` | `record_proof`, `request_review`, `submit_review`, `complete_task`, `touch_presence`, `clear_presence` |
| Mailbox and dispatch | `bridge.py` | `messages`, `message_receipts`, `consumer_cursors`, `message_dispatches` with retry schedules, `trusted_inference_receipts` | `send_message`, `ack_message`, `claim_`, `renew_`, `fail_`, `complete_message_dispatch`, `record_trusted_inference_receipt`, `reconcile_message_dispatches` |
| Room automation, discussions | `bridge.py` | `room_automation_policies`, `room_discussions` | `set_room_automation`, `post_room_message`, `advance_discussions`, `control_discussion` |
| Rooms and memberships | `bridge.py` | `rooms`, `room_memberships` | `create_room`, `join_room`, `leave_room`, `set_room_member_role`, archiving |
| Route profiles, provider connections | `bridge.py` | immutable `route_profiles`, the connection catalogue | `upsert_route_profile`, connection updates |
| MCP stdio server | `server.py` | the request loop, the heartbeat thread | `serve`: one call at a time |
| Mailbox supervisor | `mailbox_supervisor.py` | runners, worker pool, renewal threads, backoff | `run_cycle`: pending requests, reconcile, claim, work, advance |
| Durable operation queue | `operation_queue.py` | `governance_operations` with worker leases and deadlines, `workflow_schedules` | `enqueue`, `ensure`, `claim`, `heartbeat`, `complete`, `fail`, `request_cancel`, `acknowledge_cancel`, `reconcile`, `bind_guided_discussion`, schedules |
| Guided room workflows | `guided_room_workflows.py`, `room_discussion_tracker.py`, the starter in `monitor.py` | a tracker thread per claim; the rest is in the queue and the room | enqueue, post and bind of a start; look, stop and report of a tracker |
| Managed workflows | `managed_workflows.py`, with `managed_agents.py` and `execution_governance.py` | the runner thread, its agent processes, worktree bindings | claim, launch, wait, stop, seal, verify, judge, report |
| Approval broker | `approval_broker.py` | pending approvals with an event each | `request`, `resolve`, `cancel_all` |
| Official agent sessions | `official_agent_runtime.py` | the process and its generation, `state`, `_busy`, the pipes to the process; a reader and a watcher thread per process, a thread per Claude request | `start`, `submit`, `interrupt`, `resume`, `fork`, `stop`, and what the readers and watchers do |
| Audit chain, storage quota | `bridge.py`, `server.py` | `events` with previous hash, `mcp_mutation_receipts`, `scope_storage_usage` | every mutating operation |
| Memory ledger | `bridge.py` | `memories`, `decision_conflict_findings` | `record_memory`, `revoke_memory`, `record_decision_conflict` |
| Execution governance, managed agents, authorized sessions | several | grants, bindings, session state and sequence numbers | see `PROJECT.json` |
| Provider runners, user interface, receipts, remote access, import, build | many | none that others rely on | see `PROJECT.json` |

### How they interact

* Every server process opens its own connection for every operation
  (`Bridge._connect`, busy timeout 10 s) and writes under `BEGIN IMMEDIATE`. Two writers are
  therefore never inside their transactions at once, and a transaction that raises leaves
  nothing behind. All interleaving is between transactions, and between the parts of the
  few operations that use more than one.
* A process knows itself by a `session_id` that is new at each start. Leases name it, so a
  process that restarts cannot use the leases of its predecessor.
* `server.py` handles one call at a time; the only thing that runs beside it is the
  thread `_heartbeat` that renews presence.
* The mailbox supervisor is one more process with a bridge per seat. It claims prompts,
  runs providers in a pool, completes or fails the dispatches, and calls
  `advance_discussions`, which writes new prompts into the same mailbox.
* A discussion's status fences the mailbox: claims need an active discussion, completions
  an active or paused one, and stopping a discussion fails the dispatches it left open.
* Control Room processes share the operation queue, which is one more table in the file.
  Each has one workflow runner and one tracker; both claim operations and hold them with
  heartbeats. The queue binds a guided operation to its discussion and stops the one with the
  other.
* An agent process of a session asks through a pipe for leave to use a tool; a thread waits for
  the operator in the approval broker and writes the answer back. The HTTP server of the
  workbench runs each button in a thread of its own, and no lock spans a whole method of a
  session.

### What is hard

* **Clock and lock.** `claim_task` (8168) and `claim_message_dispatch` (6061) read the clock
  before they wait for the write lock. Their idea of *now* can be as old as the busy timeout.
* **Expiry is lazy and partial.** An expired lease stays in its row until somebody of the
  same scope sweeps, while the path conflict query looks at all scopes.
* **Late calls.** A holder renews, completes or fails after its lease ran out or after
  somebody else claimed the row.
* **Check, work, check again.** `record_proof` and `complete_task` hash files without a lock.
* **Rounds.** Answers, failures, lost leases, pauses, continues, supersessions, policy
  changes and membership changes arrive in any order while the coordinator counts prompts.
* **One thing, several transactions.** A guided workflow is enqueued, posted and bound in three
  transactions by a thread that may die between them, while trackers claim and reconcile.
* **Processes that do not obey.** A provider call may ignore its cancellation, an agent process
  may hang or refuse to die; each keeps a slot or a resource that others wait for.
* **Successors.** A session that is resumed gets a new process while threads of the old one still
  read its pipe, watch its end or wait for a decision on one of its requests.
* **Cycles that raise.** The supervisor claims several messages before it starts on any, and
  any of these calls may raise.
* **Progress.** Offline seats, dead workers and used-up attempts must not keep a discussion
  open for ever, nor a dead peer a presence-aware task, nor a dead writer its paths.

`PROJECT.json` lists each hazard at its line, with the properties that would catch it.

### What makes each component correct

* Leases: writers never conflict; a lease lives without a gap; a revision number names one
  plan; a dead process does not keep its paths.
* Proofs and reviews: what is recorded is true when it is recorded; a task is closed only
  over live files and standing approvals; dead peers do not hold a gate shut.
* Mailbox: one live claim per message and agent, one outcome, one reply with the receipt of
  its own attempt; cursors skip nothing; every routed message ends.
* Discussions: one open at a time; rounds do not overlap or repeat; counts and budgets are
  exact; nothing enters after the end; a discussion in rounds does not stay active for ever.
* Supervisor: no slot and no claim is held by nobody; a call that may have reached its provider
  is not simply made again; all mail settles.
* Queue: one active operation per resource; outcomes are final; an accepted cancellation wins;
  an attempt that is lost takes its discussion with it; every operation ends.
* Managed workflows: success is earned by the last attempt, and each reviewer was launched on what
  was sealed, or on a worktree that was put back to it while it reviewed; a runner does not start
  anything beside a process it could not stop.
* Sessions: an answer goes to the process that asked and says what was decided about its request;
  turns do not overlap; a process is left behind only by a launch that another one has overtaken;
  every request ends.

## 2. Modules

| Module | Extends | Role |
| --- | --- | --- |
| `WriterLock` | | abstract: what a table of writer leases promises |
| `TaskLease` | | the task table; refines `WriterLock` |
| `TaskBoard` | `TaskLease` | files, proofs, reviews, presence and the completion gate around it |
| `TaskBoardProofs` | `TaskBoard`, `TLAPS` | theorems about the task table and the whole board |
| `Dispatch` | | messages, receipts, cursors, dispatch rows, seats |
| `DispatchProofs` | `Dispatch`, `TLAPS` | theorems about the mailbox |
| `Discussion` | `Dispatch` | policy, discussions and coordinator over that mailbox |
| `DiscussionProofs` | `Discussion`, `DispatchProofs` | theorems about discussions |
| `MailboxSupervisor` | `Dispatch` | the supervisor's cycle and its workers over that mailbox |
| `SupervisorProofs` | `MailboxSupervisor`, `DispatchProofs` | theorems about the supervisor |
| `JobBoard` | | abstract: what the operation queue promises |
| `OperationQueue` | | the queue with any callers; refines `JobBoard` |
| `OperationQueueProofs` | `OperationQueue`, `TLAPS` | theorems about the queue |
| `GuidedRoom` | `OperationQueue` | starter, tracker, operator and Room over the queue |
| `GuidedRoomProofs` | `GuidedRoom`, `OperationQueueProofs` | theorems about guided workflows |
| `ManagedRun` | `OperationQueue` | runners, agent processes and worktrees over the queue |
| `ManagedRunProofs` | `ManagedRun`, `OperationQueueProofs` | theorems about managed workflows |
| `ApprovalBroker` | | requests for approval, one thread each |
| `OfficialSession` | `ApprovalBroker` | what the sessions of both agents share |
| `ClaudeSession`, `CodexSession` | `OfficialSession` | what each of them does its own way |
| `AgentSession` | `ClaudeSession`, `CodexSession` | the whole system and its properties |
| `AgentSessionProofs` | `AgentSession`, `TLAPS` | theorems about the sessions of agents |
| `MC...` | the module of that name | values of the constants for the `.cfg` files |

The task board, the mailbox and the operation queue share nothing but the database file and the
event chain (the queue knows of a discussion only whether it matches and whether it is open),
and the approval broker lives in the memory of one process, so they are four families of
modules; within each the larger module extends the smaller one and composes its actions.

### Conventions

* **One transaction, one step.** An operation whose reads and writes lie in one
  `BEGIN IMMEDIATE` transaction is one action. A call that raises is rolled back and has no
  action: the guards are the conjunction of its checks. Where a check fails and something
  *is* written or forgotten (the end of a multi-step call) the action says so.
* **Time** is the number of ticks a lease, a delay or a presence has left; `Tick` takes one
  off each. Leases may go below zero, down to `-LockWait`: a caller whose clock reading is `d`
  ticks old sees `left + d`. A larger age makes no difference to any guard.
* **Tokens** are random and only their hash is stored. In `TaskLease` a token is the number of
  the claim that issued it. In `Dispatch` it is the attempt number, since each claim of a row
  has another one. Callers try every token, not only their own.
* **Crash** is a step of a session at any point. In `TaskLease` a crashed session acts no
  more. In `Dispatch` its rows forget their holder and the session may act again as the
  process that replaces it.
* **Hashes** are equalities. `task_sha256` is the plan, a file's SHA-256 is its content.
* **Mutants.** Some operators are preceded by altered forms of themselves, marked `Mutant:`.
  They are used nowhere. Each stands for a plausible mistake at that place, and putting it in
  the place of the original makes the property named with it in `PROJECT.json` fail.

### `WriterLock` and `TaskLease`

`WriterLock` has two variables, what each task has been granted and which tasks are
finished, and three steps: `Grant` to a conflict-free plan, `Lapse` of any set of grants,
`Finish` of a granted task. It mentions no time, session or row.

| Action of `TaskLease` | Code |
| --- | --- |
| `ClaimTask` | `claim_task`, 8118: sweep, status check, conflict query, row and revision |
| `RenewTask`, `ReleaseTask`, `CloseTask` | `renew_task`, `release_task`, last transaction of `complete_task`, each behind `HoldsLease` (`_require_lease`, 2241) |
| `Workboard` | `workboard`, the other operation that sweeps |
| `Swept`, `Aged`/`Tick`, `Crash` | `_expire_leases` (2219), passing time, end of a process |

A plan is what `claim_task` stores of a task: the path prefixes it reads and writes and, for
`TaskBoard`, the approval policy. `PlansConflict` is `_path_overlaps` (1996) applied as in the
conflict query. The sweep covers the caller's scope, the conflict query all scopes.

### `TaskBoard`

`record_proof` and `complete_task` are split at every point where another process can act:

```
record_proof    BeginProof -> HashFile* -> RecordProof
complete_task   BeginComplete -> HashFile* -> ReadReviews -> PassGate -> CloseCall
```

`call[s]` holds what the handler has in local variables. `HashFile` hashes one file at a time;
`_hash_file_streaming` compares size and `mtime_ns` before and after reading, so a hash
belongs to one *stamp*. The closing transactions compare stamps again (`Undisturbed`), the
review gate is not evaluated again. `review_summary` reads reviews and presence on two
connections (8704 and 8748), hence `ReadReviews` and `PassGate`. `GateReady` is
`ready_for_completion` for the four approval modes.

`EditFile` changes any file at any time, lease or no lease: PeerBridge does not control the
editors. It always changes the stamp. That is the model's one assumption about files: no two
contents of a file have both the same size and the same `mtime_ns`.

`TouchPresence` may happen inside another call (heartbeat thread); all else waits for
`call[s] = Idle`, as `serve` does. `requests[i].live` is not in the database: it records the
file contents when a review was requested, for `ReviewBindsContent` only.

### `Dispatch`

| Action | Code |
| --- | --- |
| `SendMessage` | `send_message` |
| `AckMessage` | `ack_message` with the cursor update (5909) |
| `ClaimDispatch` | `claim_message_dispatch` (6041): `Offered` is its query, `Free` the lease test |
| `RecordReceipt` | `record_trusted_inference_receipt` |
| `CompleteDispatch` | `complete_message_dispatch`: reply, receipt, cursor and row in one transaction, behind lease, fence, seat, route and the receipt of this attempt |
| `RenewDispatch`, `FailDispatch` | `renew_message_dispatch`, `fail_message_dispatch` |
| `Reconcile` | `reconcile_message_dispatches` (7742): `Unsettled` is its query, `Hopeless` its three reasons |
| `JoinRoom`, `LeaveRoom`, `Crash`, `Tick` | membership changes, end of a process, time |

A message is its sequence number in `msgs`; `parent` is `reply_to`. A dispatch row exists
once it has been claimed or reconciled (`DOMAIN dispatches`). `seats[a]` is the route profile
of the active membership, or `Away`. Calls that repeat an earlier one (the same receipt, the
same completed dispatch) return what is stored and change nothing, so they are no steps.

### `Discussion`

| Action | Code |
| --- | --- |
| `PostRoomMessage` | `post_room_message` (5305) in all modes, superseding open discussions |
| `AdvanceRound` | `advance_discussions` for a discussion in rounds (7352) |
| `AdvanceFree` | `_advance_free_discussion_locked` (7072): one event per call |
| `Pause`, `Resume`, `Stop`, `Continue` | `control_discussion` (7597) |
| `SetRoomAutomation` | `set_room_automation` (2924) |

Prompts are ordinary messages, answered through `Dispatch`. What a reply says is a member of
`Texts` with a signal (`CONTINUE`, `CONSENSUS`, `BLOCKED`, or none that can be parsed) and
possibly long, so that two of them exceed the context limit. The digest of a round is the
set of who said what. Limits of 0 mean no limit, which is what goal mode sets, so goal mode is
covered by free mode. `advance_discussions` walks over all active discussions in one
transaction; a room has one of them (`OneOpenDiscussion`), so a step advances one.

### `MailboxSupervisor`

`run_cycle` is one thread, `_execute_claimed` one thread per claimed message, and each step is
one call on the bridge or one event of a provider:

```
run_cycle          Looks -> Reconciles -> Plans -> (ClaimsDenied -> FailsDenied)* -> Claims* -> StartsWorkers -> Collects*
_execute_claimed   Renews* -> CallEnds | GivesUp -> Confirms -> Receipts -> Completes | Reports
```

`cycle` holds what `run_cycle` has read, `work[m]` the job of a message. Every call is the
action of `Dispatch` with the supervisor's own session, or the refusal of it when its guard is
false; where the code lets the exception leave `run_cycle` the action says so (`CycleRaises`).
`admitted` is the set of slots of `provider_runtime_admission`; `strays` are the calls whose
runner ignored its cancellation, to which the slot was transferred. `safe` and `dropped` are
history variables of the two properties that speak of them. `_failure_policy` decides which
failures may be retried; which one a provider raises is arbitrary.

### `OperationQueue` and `JobBoard`

Each method of `DurableOperationQueue` is an action of that name. A row keeps status,
attempt, cancellation, binding and outcome, and the ticks that are left until its
`not_before`, lease and deadline. Every method reads the clock before its transaction, so each
action takes the age of its reading. `Recovered` is `_recover_unbound_guided_locked`, `Settled`
is `_reconcile_locked`, both on one row; `claim` and `reconcile` run them on all rows first.
`talk[o]` is what the queue reads of the discussion under the task of a guided operation: its
status, and whether its prompts are those the operation names.

`QueueSpec` lets any worker present any token with any clock reading. `JobBoard` knows stages
only: waiting, running, told to stop, succeeded, ended.

### `GuidedRoom`

| Process | Actions |
| --- | --- |
| starter (`start_guided_room_workflow`, a worker thread of the desktop) | `StartWorkflow`, `PostTask`/`PostFails`, `ValidationFails`, `BindAnswers`/`BindRaises`, `StarterStopsTalk`, `StarterCancels`, `StarterCrashes` |
| tracker (`RoomDiscussionTracker`) | `TrackerReconciles`, `TrackerClaims`, `TrackerLooks`, `TrackerStopsTalk` and the call that follows from what it saw; `TrackerUnwinds` is `_track_wrapper` |
| operator | `OperatorStops` with `OperatorStopsOperation` (chat page), `OperatorCancels` (operations page), pause, resume, continue |
| Room | `RoomDecides`, `RoomChanges` |

`drift[o]` says that members, roles, routes or limits no longer match the plan of `o`. The
discussion itself is `Discussion`'s subject; here it completes or waits for a human at any time.

### `ManagedRun`

A runner is idle, or in `launch`, `wait`, `stop`, `seal`, `verify`, `judge`, `renew`, or about to
report, as the code of `_run_claim` and what it calls. A session is one agent process; its id names
operation, attempt, phase and index, so two attempts never share one. `tree[o]` is the worktree of
an Implement + Review. Its `content` is what the code compares, HEAD and the hash of the diff: one
of `Contents`, and anybody may change it to any other and back. `Base` is the commit it starts from,
`final` what was sealed. `edits`, the number of changes, `restored`, the last one that brought the
sealed content back, and `since`, the change after which a process was launched, are history for
`SuccessIsEarned`; no step of the code looks at them. Sealing is two steps, reading the tree and
writing the binding. Sessions that are over and led to nothing are reset, since nobody looks at them
again.

### `ApprovalBroker` and the agent sessions

```
request            Register -> Ready | TimesOut -> Expires
_launch            Start | Resume | Forks -> LaunchFails | ClaudeLaunches | CodexLaunches
stop               Stop -> CancelsOne* -> Marks -> Kills
Claude             ClaudeReadsAsk -> ClaudeEnters -> ClaudeAnswers, ClaudeReadsWithdrawal
Codex              CodexReadsAsk -> CodexEnters -> CodexAnswers, CodexSubmits | CodexInterrupts -> Sends -> Succeeds | Fails
process            AsksFor, Withdraws, Finishes, Serves, Dies
```

An ask is a generation and a number, since the numbers start again with each process. `record` is
what the broker holds of it, `thread` where the thread that waits for it stands, `told` what the
process has been told. The wait ends under no lock: an operator who decides between `TimesOut`
and `Expires` finds the record pending, and `Expires` then finds nothing to expire and raises
(`KeyError`, `approval_broker.py:216`). For Claude each ask has a thread; for Codex it is the
reader, which reads nothing else meanwhile.

`agent[g]` is a process: its fate, the turns it has open, and `inbox`, what it has written and
its reader has not read. `control[i]` is the entry of the control map that a withdrawal looks
up. `call[c]` is the method a thread of the workbench is in, with the generation it found when it
began: `start`, `resume` and `fork` check the session under its lock and launch without it, so
another launch may come in between. A completed and a failed session
are both `"ended"`. A dead process has nothing unread: what it left is read before
its end is seen or not at all.

## 3. Runs

Nine runs pass and three end in a violation on purpose (section 6). The numbers are distinct
states.

| Run | Instance | Shows |
| --- | --- | --- |
| `lease` (171 k) | three sessions of two agents, two scopes, three tasks; plans that write a directory, write a file in it and read the directory; three claims, lease of 2 ticks, clock up to 1 tick old | `WriterExclusion`, `LeaseContinuity`, `RevisionNamesOnePlan`, refinement of `WriterLock`, and `OrphanedLeaseEnds` under fair time |
| `board` (1.95 M) | three agents, one task, one file; two plans, a quorum of two whose write scope holds the file and a named peer whose scope does not; two contents, one edit, one proof, two requests, two claims, leases of 1 tick | `CompletionReviewed`, `CompletionProofLive`, `ProofHonest` |
| `dispatch` (351 k) | an operator and one model agent served by two processes with different identities; two messages, routed or to everyone; two attempts, retries, clock up to 1 tick old, the agent leaves and joins | `CursorContiguous`, `CompletedIsAnswered`, `SettledForGood`, `LiveLeaseKept` |
| `rounds` (40 k) | a person and two agents; rounds with limits of 2 rounds and 6 messages, or free mode with 3 events and 6 messages; human continues up to 7, one attempt per prompt, fairness | `MessageCountExact`, `BudgetKept`, `EarlierRoundsOver`, `OnePromptPerSeat`, `AgreementStands`, `OneFollowUpEach`, `TalkGoesOn` |
| `room` (1.15 M) | a person and one agent; all four modes and changes between them, replies that agree, are unreadable or are too long, pause, stop, continue, two discussions, the agent leaves and joins | `OneOpenDiscussion`, `NothingAfterClose` |
| `supervisor` (402 k) | a person who writes to two model agents, one of which also reads its own mail; two attempts, leases of 1 tick, two slots, one death of the supervisor, fairness | `NothingHeldIdly`, `NoReplay`, `MailSettles` |
| `guided` (274 k) | one guided operation with two attempts, two trackers, clock up to 1 tick old, a deadline of 3 ticks, leases of 2 and a grace period of 1, crashes of starter and trackers, fairness | `LostWorkStopsTalk`, `SucceededMeansCompleted`, `NoOrphanTalk`, `GuidedSettles` |
| `managed` (111 k) | two runners, of which one may close or die; an Implement + Review, a release gate with two reviewers, an audit with two attempts, a scheduled audit and a retry of an earlier version, one at a time; two contents, three edits, fairness | `SuccessIsEarned`, `NothingLeftRunning`, `ManagedSettles`, refinement of `JobBoard` |
| `sessions` (321 k) | a Claude session that asks for everything, or a Codex session that may do routine things itself; two launches, two turns, one request per process, a broker with one place and one thread, a thread that starts, resumes and submits beside one that forks, interrupts and stops, withdrawals, fairness | `AnswersGoHome`, `TurnsDoNotOverlap`, `OrphansNeedRace`, `SessionSettles` |
| `review_content`, `free_stuck`, `guided_cancel` | small instances of `TaskBoard`, `Discussion` and `GuidedRoom` | three sentences of the documentation that the code does not keep |

The runs also check `DiscussionTypeOK`, `SupervisorTypeOK` (which includes that no more slots are
in use than the machine admits) and `SessionTypeOK` (which includes the limits of the broker). These
are theorems as well; `TaskLease`, `TaskBoard`, `Dispatch`, `OperationQueue`, `GuidedRoom` and
`ManagedRun` have their types from the proofs alone.

Further configurations, which are not part of the list:

* `MCTaskBoardPresence.cfg` (with `MCTaskBoard`): `DeadPeersReleaseGate` holds.
* `MCManagedPair.cfg` (with `MCManagedRun`): two operations that compete for one resource,
  `OneActivePerKey` and the refinement of `JobBoard` hold (529 k states).
* `MCModeStuck.cfg` (with `MCDiscussion`), `MCReviewReverted.cfg` (with `MCManagedRun`, property
  `ReviewedIsSealed`), `MCCodexAnswer.cfg`, `MCLostDecision.cfg` and `MCTwoLaunches.cfg` (with
  `MCAgentSession`): things that can go wrong, each with its counterexample; section 6 describes
  them.

### Bounds

All of them are constants, or conjuncts that compare with a constant: `MaxClaims`,
`MaxEdits`, `MaxProofs`, `MaxRequests`, `MaxAttempts` (a real parameter of the code),
`MaxMessages`, `MaxDiscussions`, `MaxDeaths`, `MaxRuns`, `Floor`, `Asked`, and the sets `Sends`,
`Movers`, `Readers` and `Commands` of what the environment does.

* *Three claims on three tasks* let two scopes hold leases while a third claim conflicts, and
  let one task be claimed, lost and claimed again while another is held. The proofs show that
  larger numbers change nothing.
* *A lease longer than the stale clock, by one tick* keeps all orders of expiry, stale
  reading and sweep. The code's ratio is larger (at least 30 s to 10 s); the assumption
  `LeaseAssumption` asks only for "longer".
* *One file and one edit in `board`* put an edit before, between or after the hashes of a call. A
  hash, a stamp and the comparison of stamps concern one file each, so a second file adds no case of
  another kind. The file may be absent at first, appear and vanish. The two contents are exchanged
  by symmetry, which is sound here since the run checks properties of steps and no liveness. An edit
  back to the same content has another stamp, and needs a second edit: it is left to the theorems of
  `TaskBoardProofs`, which hold for any number.
* *One proof and two claims* let the task change hands in the middle of either call, and change its
  scope: a proof recorded under the plan that covers the file must not count under the other one.
  A second record cannot come between the list and the close of a completion, since nobody else
  holds the lease.
* *Two requests* are one to each peer of the quorum, or two to one of them, or one for each of two
  revisions, with any verdicts. Presence plays no part in the two plans of this run;
  `MCTaskBoardPresence.cfg` has a plan in which it does.
* *Two messages with two attempts* let an answer overtake an older message, be retried
  after a failure or a crash, and run out of attempts. A reply takes a row, so the broadcast
  and the routed message are also checked with an answer to the first.
* *Eight messages in `rounds`* hold the prompts to two agents, their answers, and a second
  round with its answers, two more than the budget of six: the point where the round limit and
  the message budget meet. A human continue needs room for a round below the absolute limit of
  seven, so it follows a round that not everybody answered; later ones are left to the theorems of
  `DiscussionProofs`, which hold for every limit.
* *Seats at rest in `rounds`* (`Movers = {}`): nobody leaves or joins, since what the run checks of
  rounds is not kept when a seat leaves and comes back (section 6). `room` has seats that move.
* *One attempt per prompt in the discussion runs.* Retries are `dispatch`'s question; a
  discussion only sees whether a prompt is completed, failed or neither.
* *Three messages and two discussions in `room`* are a post, a superseding post and an answer
  that comes too late. Two seats are not needed to see it.
* In free mode, the number of contributions an agreement needs
  (`FREE_DISCUSSION_MIN_CONTRIBUTIONS`) is 1 rather than 3, so that an agreement fits into the
  message bound; the absolute limits shrink in the same way.
* *One message to each of two agents in `supervisor`* let a claim raise after another has
  succeeded, and let a stray runner hold one slot while the other message needs one. Two attempts
  and one death let the last attempt be the one that is lost. Clock readings are fresh there:
  `dispatch` has the old ones.
* *Two attempts and two trackers in `guided`* let a late tracker meet the next attempt. The grace
  period is shorter than the lease, and the deadline longer, as in the code; a clock that is 1
  tick old can see a lease live that another process has given up.
* *One operation at a time in `managed`* (`Asked`): what a runner does for one operation does
  not depend on the others except through the resource, and that is the queue's theorem
  `QueueExclusive`; the two runners already compete for every attempt. `MCManagedPair.cfg` has
  two operations at once. Clock readings are fresh (`Ages = {0}`); `guided` has old ones.
* *Three edits and two contents in `managed`* are the work of the writer, a change after the seal,
  and its undoing. With two contents every second change puts the worktree back.
* *Two launches by two threads in `sessions`* let one launch overtake the other: a start that did
  not come off or was stopped, then a resume beside a fork. With Codex this takes a third launch,
  which is left to the theorem `LateLaunches`.
* *Two launches and two turns in `sessions`* also leave a reader, a watcher and a request of the
  first process beside the second one, and let either process ask. One request per process is enough
  for two of them to bear the same number, since numbers start again. `Fickle` is the request that
  may be withdrawn, `Routine` the one that a delegating mode grants by itself, `Uses` what each
  thread of the workbench does. The limits of the broker (`MaxPending`, `Slots`) are 1, so the
  second request meets them.
* `Floor` stops counting times that are past for every reader; a time further back is
  past as well. `QueueAssumption` does not ask for a large one.

Deadlock is not checked: every bounded system stops when its budgets are used up, and a task
board on which everything is complete has nothing left to do.

## 4. Fairness

* `FairSpec` (task table) and `FairBoard` (board) assume only that time passes. No session
  has to do anything, since a process may be killed or left idle. `OrphanedLeaseEnds` and
  `DeadPeersReleaseGate` therefore rest on expiry alone.
* `FairTalk` (discussions) assumes a running supervisor: weak fairness of time, of
  reconciliation without runtime observations, of advancing each discussion, of claiming some
  message and of ending some claimed one with an answer or a failure.
  `MailboxSupervisor.run_cycle` does the first four in every poll. A worker ends because
  `_run_with_hard_deadline` ends its runner, and then completes or fails the dispatch. A
  worker whose process dies or whose lease runs out is excused: its step is disabled. Fairness
  is weak, so a step that others keep disabling is owed to nobody. It is never assumed of the
  people in a room or of its manager.

* `FairSupervisor` replaces the supervisor's part of that by threads: the thread of the cycle
  and the worker threads are scheduled, `_run_with_hard_deadline` ends every wait for a
  provider, a runner that has ignored its cancellation ends at last (a provider request has a
  timeout), a supervisor that has died is started again, and time passes. Which failure
  happens, and whether a lease is renewed in time, is never owed to anybody.
* `FairGuidedSpec`: the starter's and the trackers' threads go on until they end or crash,
  the tracker's loop polls, and time passes. The operator and the Room owe nothing, so
  `GuidedSettles` rests on deadlines.
* `FairManagedSpec`: a runner goes on until its process ends, and time passes. An agent process owes
  nothing, not even to die when told to: hence the exception for halted runners in
  `ManagedSettles`.

* `FairSession`: each thread of the workbench goes on with the method it is in, and of the readers
  and watchers, and of the threads that wait for approval, some that can go on does. The process,
  the operator and the callers owe nothing: a request that nobody decides ends by its timeout.

`TalkGoesOn` is checked in a room whose mode nobody changes; `MCModeStuck.cfg` shows what a
change does. Of a discussion in rounds it says that it does not wait for ever, of a free one only
that it moves on once all its prompts are completed or failed. What is missing for free mode,
`ActiveEnds`, is refuted by `free_stuck` under the same `FairTalk`: a running supervisor does not
help.

## 5. Proofs

Eight modules of proofs, each about the module it is named for, and `TaskBoardProofs` about
`TaskLease` as well. Every theorem holds for all
values of the constants that satisfy the named assumptions of the modules, which TLC evaluates
in the runs. Liveness under fairness, and whatever needs `ENABLED`, is left to TLC.

### `TaskBoardProofs` (1570 obligations)

Its first part proves of the task table, for any sets of sessions, agents, scopes,
tasks and plans, any lease lengths and any bound on claims:

| Theorem | Statement |
| --- | --- |
| `TypeCorrect` | `Spec => []TypeOK` |
| `Exclusion` | `Spec => []WriterExclusion` |
| `Continuity` | `Spec => LeaseContinuity` |
| `RevisionNames` | `Spec => RevisionNamesOnePlan` |
| `Implements` | `Spec => ImplementsWriterLock` |

They rest on the two named assumptions of `TaskLease`. `SessionAssumption` types the constant
functions and keeps the null values apart from the rest. `LeaseAssumption` says that every
lease is longer than the wait for the write lock: without it a claim could store a lease that
is over before it is written. In the code a lease lasts at least 30 s (`bridge.py:8123`)
and the wait at most 10 s (`bridge.py:466`).

**The invariant.** `WriterExclusion` is inductive only together with `TypeOK`, which makes the
arithmetic of expiry meaningful, and `ClaimedHasPlan`, which says that a claimed row carries a
declared plan, so that `NoPlan` in the refinement mapping means "nothing granted". `IInv` is
the conjunction. The heart of the step is `ClaimEffect`: the conflict query looks at leases
as of a clock reading `d` ticks old, so it sees at least those that are live now (`left > 0`
implies `left + d > 0`), and the sweep, which uses the new clock, cannot have removed one of
them (`SweepKeepsLive`). The stale reading thus errs on the side of refusing a claim.
`ConflictSymmetric` is why checking the new plan against the old ones is enough.

**The refinement.** A task is granted its plan while its lease is live and finished while its
status is `complete`. A claim is a `Grant`, the completion a `Finish`, the passing of time
and a release a `Lapse`; renewals, sweeps and crashes change nothing that the lock shows.

Its second part proves of the board:

| Theorem | Statement |
| --- | --- |
| `BoardInvariant`, `BoardTypes` | `BoardSpec => []BoardInv`, `BoardSpec => []BoardTypeOK` |
| `BoardUsesLeases` | `BoardSpec => Spec`, the specification of `TaskLease` |
| `BoardExclusion`, `BoardImplementsLock` | `WriterExclusion` and the refinement of `WriterLock`, carried over |
| `CompletionsLive` | `BoardSpec => CompletionProofLive` |
| `ProofsHonest` | `BoardSpec => ProofHonest` |
| `CompletionsReviewed` | `BoardSpec => CompletionReviewed` |

for any files, contents, agents and plans, from `BoardAssumption` and `PlanAssumption`, which type
the constants (a plan names finitely many peers). `CallOK` says what a call may rely on at the place
it has reached. A hash belongs to the stamp it was taken under (`Dated`), so a stamp that has not
changed vouches for the content although the file was read several steps ago; that is all the
closing transaction checks. The review gate is not evaluated again, and need not be: a token is the
number of a claim and is never issued twice, so a caller whose token is still the row's has had the
row all along, with the plan and the revision for which the approvals were given (`SameClaim`); and
reviews are never withdrawn. That is why `Backed` lasts from the gate to the close. Under
`presence_aware` nothing of the kind holds, since presence may change in between.

### `DispatchProofs` (697 obligations)

| Theorem | Statement |
| --- | --- |
| `MailInvariant`, `MailTypes` | `Spec => []MailInv`, `Spec => []MailTypeOK` |
| `CursorsContiguous` | `Spec => []CursorContiguous` |
| `CompletionsAnswered` | `Spec => []CompletedIsAnswered` |
| `OutcomesFinal` | `Spec => SettledForGood` |
| `LiveLeases` | `Spec => LiveLeaseKept` |

`Answered` says of a completed row that its reply is the message `complete_message_dispatch` makes
of this message and this agent. A reply is thereby the reply of one row, and that no two dispatches
share one (`CompletedIsAnswered`) follows from all rows together, without a statement about pairs
in the invariant. `LiveLeases` is the argument of `ClaimEffect` again: a stale clock sees a lease
as longer than it is. The lemmas go through the module table by table, so that the two users of the
mailbox cite `MailStep` and not its actions.

### `DiscussionProofs` (3262 obligations)

| Theorem | Statement | Under `Steady` |
| --- | --- | --- |
| `TalkInvariant`, `DiscussionTypes` | `TalkSpec => []TalkInv`, `TalkSpec => []DiscussionTypeOK` | |
| `OneDiscussionOpen`, `OneFollowUp` | `TalkSpec => []OneOpenDiscussion`, `TalkSpec => []OneFollowUpEach` | |
| `ClosedTakesNothing` | `TalkSpec => NothingAfterClose` | |
| `RoomKeepsMailbox`, `RoomKeepsOutcomes` | the mailbox's invariants and `SettledForGood` in a room | |
| `MessagesCounted`, `BudgetsKept` | `TalkSpec => []MessageCountExact`, `TalkSpec => []BudgetKept` | yes |
| `RoundsOver`, `SeatsAskedOnce` | `TalkSpec => []EarlierRoundsOver`, `TalkSpec => []OnePromptPerSeat` | yes |
| `AgreementsStand` | `TalkSpec => []AgreementStands` | yes |

`TalkInv` holds in every mode and under every change of policy and membership: a response is the
reply of the row it completed, a prompt follows up a response of its own discussion, and one
discussion is open at most. `RoundsInv` adds, for every discussion, what is known of its rounds:
their numbers, whom each has asked (`RoundSeats`), that rounds that are over are settled
(`RoundsSettled`), and what has been counted and may still come (`RoundsCounted`), which is why a
round that is opened within the budget cannot exceed it with its answers.

`Steady` is a hypothesis of the last five and not an assumption of the module. It excludes two
things that leave rounds in disorder in the code as well. Where an operator may switch a room
between free and bounded mode, a discussion without rounds becomes one of rounds and has none
(`bridge.py:2975`). Where a seat may leave and return and a human may then continue, the prompts
nobody had claimed stay beside those of the next round (`bridge.py:5094`). `TalkInv`'s theorems
cover these cases.

### `SupervisorProofs` (1728 obligations)

| Theorem | Statement |
| --- | --- |
| `SupervisorInvariant`, `SupervisorTypes` | `SupervisorSpec => []SupInv`, `SupervisorSpec => []SupervisorTypeOK` |
| `NothingIdle` | `SupervisorSpec => []NothingHeldIdly` |
| `NothingReplayed` | `SupervisorSpec => NoReplay` |
| `SupervisorKeepsMailbox` | `CursorContiguous` and `CompletedIsAnswered`, with the supervisor in charge |
| `SupervisorKeepsOutcomes` | `SettledForGood` and `LiveLeaseKept`, with the supervisor in charge |

for any agents, routes, messages, attempts and number of slots. `SupInv` is `BoxInv`, what holds of
the mailbox, and `ThreadInv`. Every step is a step of the mailbox, of which `BoxStep` tells all that
the threads rely on, and a step of the cycle or of one worker. `NothingHeldIdly` is inductive with:

* `admitted = strays \cup Held`: a slot belongs to a job whose call may run or to a runner that was
  left behind.
* `StrayOK`: a stray is of an attempt that has been claimed. A fresh claim has a larger number, so
  it never finds its slot taken by a stray of its own (`JobOK`).
* `Served`: a live claim has its worker, unless the supervisor has let go of it. `Phases` says where
  the jobs are while the cycle is at each place, which is what `StartsWorkers` and a cycle that
  raises rely on.
* `RetrySafe`: a row waits to be retried only if the attempt that failed may be repeated.

### `OperationQueueProofs` (1140 obligations)

| Theorem | Statement |
| --- | --- |
| `QueueInvariant` | `QueueSpec => []QueueInv` |
| `QueueTypes` | `QueueSpec => []QueueTypeOK` |
| `QueueExclusive` | `QueueSpec => []OneActivePerKey` |
| `QueueImplementsJobBoard` | `QueueSpec => ImplementsJobBoard` |

for any operations, resources, workers, schedules and clock ages, from `QueueAssumption`, which
types the constants and says what the templates of the code have in common: only operations
that may be retried without asking are guided, and each has at least one attempt.

**The invariant.** `QueueInv` says of each row (`RowOK`) that its cancel flag is set exactly while
it is cancelling and that a row that waits to be claimed has an attempt left; of the schedules
(`Fresh`) that the occurrences to come have no row yet; and `OneActivePerKey`. Most transactions
rewrite the table row by row, so the lemmas first show for each way of writing a row that it
keeps `RowOK` and moves the row as the job board allows (`Steps`), and then put the rows
together. A claim, which reconciles first, may take a row from running to running in one
transaction: it ends the lost attempt and starts the next one, which the board sees as a stutter.

### `GuidedRoomProofs` (1804 obligations)

| Theorem | Statement |
| --- | --- |
| `GuidedInvariant` | `GuidedSpec => []GuidedInv` |
| `GuidedTypes` | `GuidedSpec => []GuidedTypeOK` |
| `GuidedUsesQueue` | `GuidedSpec => UsesQueue` |
| `SuccessNeedsCompletion` | `GuidedSpec => []SucceededMeansCompleted` |
| `LostWorkStops` | `GuidedSpec => []LostWorkStopsTalk` |
| `NoOrphans` | `GuidedSpec => []NoOrphanTalk` |

`GuidedUsesQueue` says that the starter, the trackers, the operator and the Room take only steps
of `QueueSpec`, so exclusion and the job board carry over. The invariant adds `Good`, which
relates each row to its discussion (an active row is bound, a bound one has a discussion, a lost
outcome has no open one, a success a completed one), and `Knows`: what a tracker has seen of a
discussion that was over is still so when it reports, because nothing reopens one (`Onward`).

`NoOrphans` needs two more. A tracker whose call was refused unwinds by failing the operation, and
this must not end an operation whose discussion is open. `GivesUp` says why it does not: the call was
refused because the claim had lapsed, so the failure is refused too, or the discussion is over. That
a lapsed claim stays lapsed is a fact about all other processes, each of which takes a claim of
somebody else at most further down (`Lapses`). `StartKnows` says what the starter has brought about
at each of its steps: a start that ran to its end has bound its operation or left no discussion open.

### `ManagedRunProofs` (2539 obligations)

| Theorem | Statement |
| --- | --- |
| `ManagedInvariant` | `ManagedSpec => []ManagedInv` |
| `ManagedTypes` | `ManagedSpec => []ManagedTypeOK` |
| `ManagedImplementsJobBoard` | `ManagedSpec => ImplementsJobBoard` |
| `SuccessEarned` | `ManagedSpec => []SuccessIsEarned` |
| `NothingLeft` | `ManagedSpec => []NothingLeftRunning` |

for any number of runners, operations, reviewers and edits, from `ManagedAssumption` (managed
operations are not guided, an Implement + Review is never retried by itself, a release gate is
made by the verification engine). Each claim makes a new attempt number, so no two
threads hold one attempt (`Alone`) and a session id belongs to one thread; `Works` says what
that thread may rely on at each place of the code, and `Rewarded` carries it over to the row that
has succeeded. `ReviewOK` says of a reviewer that, whenever the worktree is as it was sealed, the
reviewer was launched on just that, or the worktree was put back to it after the launch
(`GivenSealed`); a change of the worktree either leaves the sealed content or brings it back, and is
then the newest change of all. The last verification finds the sealed content, so at that point
`GivenSealed` holds, and it stays. That no change goes unnoticed (`ReviewedIsSealed`) is not
provable, since the code compares hashes: section 6. `Looked` and
`Stopped` say that a process which runs is waited for, or that its runner has halted. The step
lemmas are one for each kind of step: of others, of the holder, of a thread that goes on, that
launches, that leaves.

### `AgentSessionProofs` (2860 obligations)

| Theorem | Statement |
| --- | --- |
| `SessionInvariant`, `SessionTypes` | `SessionSpec => []SessionInv`, `SessionSpec => []SessionTypeOK` |
| `Home` | `SessionSpec => []AnswersGoHome` |
| `TurnsApart` | `SessionSpec => []TurnsDoNotOverlap` |
| `LateLaunches` | `SessionSpec => OrphansNeedRace` |

for any requests, callers, launches and turns, from `BrokerAssumption`, `SlotsAssumption` and
`SessionAssumption`, which type the constants. What a process has written and nobody has read is
part of the state, and it is there that the invariant has to look:

* `Asked`: a request stands in a pipe once, and before its thread begins. So the reader never
  starts a second thread for it, and what a thread holds is the decision on its own request
  (`ThreadOK`, which relates thread, record and what the process was told at each step).
* `TurnOK`: the end of a turn that is still to be read keeps the session busy, and there is one at
  most. So nothing is submitted before it has been read, and reading it cannot clear the busy flag
  of a later turn. What an earlier process left in its pipe is kept apart by its generation.
* `EndsAreReal` and `Launches`, for `OrphansNeedRace`: as long as only the process of the session
  is alive, a session that shows an end has no living process; a caller has seen no later generation
  than the current one, and a caller that is about to launch and has seen the current one finds its
  process dead. Each step keeps these two together with `OneProcess` (`StaysLone`), except a launch
  that another one has overtaken.

There is no hypothesis on who launches: the code releases its lock between the check and the launch,
any number of threads may be there at once, and the theorem says that nothing else than this leaves a
process behind. `OneProcess` itself is not kept, and `MCTwoLaunches.cfg` shows how. `AnswersGoHome`
and `TurnsDoNotOverlap` speak of Claude; the former does not hold of Codex (`MCCodexAnswer.cfg`).

### Only model-checked

Every liveness property (`OrphanedLeaseEnds`, `TalkGoesOn`, `MailSettles`, `GuidedSettles`,
`ManagedSettles`, `SessionSettles`, `DeadPeersReleaseGate`), which these provers do not treat. The
properties of rounds where `Steady` does not hold, `OneProcess`, `ReviewedIsSealed` and
`AllowedIsNotLost` are neither proved nor checked by a run that passes: the code does not keep them.

## 6. Where code and documents disagree

Three runs end in a counterexample to a sentence of the documentation.

* `review_content`: a review request stores its artifact paths and no hash of what they hold
  (`bridge.py:8484`), and an approval counts as long as revision and plan are the same. So a
  quorum can approve one content and the task be closed over another.
  `docs/architecture.md:176`: "Review requests bind project-relative artifact paths and their
  live hashes."
* `guided_cancel`: a guided operation that waits to be claimed, or to be tried again, is ended
  by `request_cancel` at once (`operation_queue.py:1454`), which does not stop the discussion it
  is bound to; no tracker will claim it any more. `CHANGELOG.md:225`: guided operations "stop
  that exact discussion on cancellation, source drift, or timeout."

* `free_stuck`: reconciliation looks at messages without `reply_to` only (`bridge.py:7818`), and the
  follow-up prompts of free mode have one. If the worker of such a prompt dies in its last attempt,
  nobody may claim the prompt and nothing ends it; the coordinator waits for it and the discussion
  stays active for ever. `docs/alpha-troubleshooting.md:34`: an offline seat "must not keep a
  discussion open forever."

Further observations; those that name a `.cfg` file have a counterexample there:

* `two_party_required` without a `required_peer` accepts an approval from anybody
  (`bridge.py:8765`), also from an agent that has become the holder since.
* `presence_aware`: a peer that comes online between `PassGate` and `CloseCall` is not asked.
  Without reachable required peers the gate counts any online agents; it is a
  solo fallback only when nobody at all is online.
* A seat that leaves and rejoins during a round leaves unclaimed prompts of the old round
  beside the new one after a human continue, as those have no dispatch row that could be
  cancelled.
* A human continue in free mode after a stop on the limits reacts to the same response
  again and counts it again, and the last answers of a free discussion may exceed its
  message budget.
* Switching a room from free to bounded leaves its free discussion active with a processed round
  equal to the current one, and the coordinator of rounds never selects it (`bridge.py:2975`,
  `MCModeStuck.cfg`).
* Mailbox: the claim query looks at the first 500 unacknowledged candidates, and rows that have
  failed are never acknowledged (`bridge.py:6113`).
* Supervisor: a claim that raises ends its cycle before the jobs claimed earlier in it are
  started (`mailbox_supervisor.py:1151`); their leases have to run out. An unrunnable follow-up
  prompt makes each cycle raise (960). A call whose lease is lost, or whose supervisor dies, is
  made again by the next attempt although it may have reached its provider;
  `docs/provider-routing.md:125` says of ambiguous mutations that they "MUST NOT be replayed
  automatically". `NoReplay` states what is kept: no attempt that was reported is
  followed by another unless its failure allows it.
* Guided rooms: a failure reported while a cancellation is pending ends the operation as
  cancelled and leaves a discussion that waits for a human open. "Continue" on a guided
  discussion raises its limits, which the tracker takes for drift and stops. An operation that is
  ended because no discussion was bound to it in time leaves one open if its starter posts only then
  and crashes before it stops it; `LostWorkStopsTalk` speaks of attempts that timed out or lost their
  worker.
* Managed workflows: a release gate has one operation id per fingerprint, so one that failed or was
  cancelled is not made again for the same source. One request that cannot be made ends the whole
  scan (`verification_engine.scan_once`), and the scan looks at the latest 20 requests. The worktree
  is compared by HEAD and a hash of its diff (`execution_governance.py:418`, `1247`) after the seal
  (`managed_workflows.py:522`) and after the review (543). A change that is undone between the two
  goes unnoticed, also when the reviewer was launched on it: what was reviewed is then not what was
  sealed, although `docs/ALPHA_5_2_REQUIREMENTS.md:232` says that they "bind the same exact source
  state" (`MCReviewReverted.cfg`). If a process cannot be stopped only this runner halts: the
  resource is free for another Control Room once the lease is over.
* Approval: an operator who allows a request between the end of its wait and its expiry is shown
  success, while `request` raises a `KeyError` (`approval_broker.py:216`) and the process is
  told nothing; with Codex the reader thread ends with it (`MCLostDecision.cfg`).
* Codex sessions write an answer to whatever process is current
  (`official_agent_runtime.py:1099`). An answer to a request of the previous process reaches its
  successor, where the same number may be another request (`MCCodexAnswer.cfg`);
  `docs/technical-showcase.md:34` says that decisions bind one session and request. Claude
  sessions check the generation, and for them `AnswersGoHome` holds.
* `start`, `resume` and `fork` check the session under its lock and launch without it
  (`official_agent_runtime.py:1340`, `1970`), and each button of the workbench has a thread. A launch
  that another one overtakes leaves that one's process running with nobody who looks after it, and a
  stop between check and launch is lost (`MCTwoLaunches.cfg`).
  `docs/ALPHA_5_2_REQUIREMENTS.md:228` wants no "orphaned process trees".
* A withdrawal that Claude sends before its request has a record finds nothing to cancel, and the
  request waits for the operator or its timeout. While Codex waits for an approval its reader
  reads nothing, so an interrupt is not answered before the approval is. The late failure of an
  earlier submit clears the busy flag of the present turn.

## 7. What is not modelled

* Text, JSON, validation of identifiers, secrets and sizes, error wording, the content of the
  event chain. A check that only looks at the form of an argument is assumed to have passed.
* Roles that decide who may manage a room: `Manage`, `JoinRoom` and `LeaveRoom` are steps of the
  environment. Archived rooms and the Lobby's implicit membership are left out.
* Several rooms at once. They share the message sequence and nothing else that the
  properties speak of.
* The `LIMIT` clauses of the mailbox queries (500 and 1000 rows).
* `verify_task`, `review_summary`, `poll_messages` and the other readers: they change nothing.
  What `complete_task` reads through `review_summary` is modelled there.
* `announce_work` (`bridge.py:8391`): under a live lease it adds a row to `work_updates`, which
  only boards display, and writes the summary and the time of change of its task, which no
  check reads.
* Trusted inference receipts are known by message, agent and attempt; their contents and
  the usage ledger are not.
* Guided rooms: how plan and drift are compared. A tracker learns whether the Room still matches.
* Managed workflows: how launches are built and streams parsed, the approvals of managed agents,
  the checks of a claim against its handoff.
* Supervisor: its bridges' presence, and the discussions it advances (they are `Discussion`'s
  subject, with a fairness assumption in place of the cycle); a provider's status line.
* Agent sessions: the named ACP sessions of Grok and Kimi; fork, compact and review of Codex;
  attachments, usage, the capacity of the manager; permission modes in which a session
  answers without asking the broker.
* The hazards without a property in `PROJECT.json` say why each has none.
* Components marked `not_modelled` in `PROJECT.json`, each with its reason.

## 8. Plan

The modules of the task board, the mailbox, the discussions, the supervisor, the operation queue
with its two users, and the approval broker are written. What is left, in this order:

1. `AcpSession`: the named ACP sessions over `OfficialSession`, and the runtime manager with its
   capacity.
2. `AuditChain`: events, mutation receipts and quota as one transaction per call; a repeated
   call changes nothing and gets the first answer; the chain is linear.
3. Memory ledger, grants of the execution governance and the session registry, as far as their
   state machines are more than one row that is inserted once.

Theorems to come: what remains true of rounds where `Steady` does not hold (an operator who switches
modes, a seat that comes back), `LiveLeaseKept` of a room in which discussions are closed, and the
safety part of each module above as it is written.

A run per question stays the rule.
