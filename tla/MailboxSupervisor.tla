------------------------- MODULE MailboxSupervisor -------------------------
(***************************************************************************)
(* The mailbox supervisor of mailbox_supervisor.py: the process that       *)
(* answers the routed messages of a scope.  A cycle looks for pending      *)
(* messages, discovers the runtimes that could serve them, has the bridge  *)
(* settle the hopeless ones, claims at most one message per runtime, calls *)
(* the providers of all claimed messages at once and waits for every one.  *)
(*                                                                         *)
(* The mailbox is the one of Dispatch; each of its operations is called    *)
(* here in the order and under the conditions of the code, and anything    *)
(* may happen between two calls: the lease runs out, the agent             *)
(* acknowledges the message itself, the process ends.                      *)
(*                                                                         *)
(* There are no discussions here: advance_discussions, which a cycle also  *)
(* calls, is the subject of Discussion.                                    *)
(***************************************************************************)
EXTENDS Dispatch

CONSTANTS
  Bridge,       (* Bridge[r]: the session the supervisor has for route r    *)
  LeaseTime,    (* lease_seconds                                            *)
  Parallel,     (* max_parallel_dispatches                                  *)
  Slots,        (* provider runtimes the machine admits at once             *)
  Outside,      (* sessions that are not the supervisor's                   *)
  MaxDeaths     (* bound: times the supervisor's process ends               *)

ASSUME SupervisorAssumption ==
  /\ Bridge \in [Routes -> Sessions] /\ LeaseTime \in LeaseLengths
  /\ \A r \in Routes : RouteOf[Bridge[r]] = r /\ AgentOf[Bridge[r]] = RouteAgent[r]
  /\ Outside \subseteq Sessions \ {Bridge[r] : r \in Routes}
  /\ Parallel \in Nat \ {0} /\ Slots \in Nat \ {0} /\ MaxDeaths \in Nat

VARIABLES
  cycle,      (* where the thread of run_cycle is and what it has read      *)
  work,       (* work[m]: the claimed dispatch of m in this cycle           *)
  strays,     (* provider calls whose runner ignored its cancellation       *)
  admitted,   (* provider calls, or claims, that hold a runtime slot        *)
  deaths,
  safe,       (* history: messages whose last attempt may safely be retried *)
  dropped     (* history: messages whose last claim has been let go of      *)

supVars == <<cycle, work, strays, admitted, deaths, safe, dropped>>
vars == <<mailVars, supVars>>

\* found: the runtimes discovered; unserved: the messages without one; plan and
\* denied: what is still to be claimed, the latter without a credential.
Cycle == [at : {"down", "idle", "seen", "reconciled", "claiming", "working"},
          found : SUBSET Routes, unserved : SUBSET Messages,
          plan : SUBSET Messages, denied : SUBSET Messages]

Job == [at : {"none", "denied", "claimed", "calling", "answered", "confirmed",
              "receipted", "failing", "done"},
        attempt : 0..MaxAttempts, retry : BOOLEAN]

Idle == [at |-> "idle", found |-> {}, unserved |-> {}, plan |-> {}, denied |-> {}]
NoJob == [at |-> "none", attempt |-> 0, retry |-> FALSE]

SupervisorInit ==
  /\ Init
  /\ cycle = Idle
  /\ work = [m \in Messages |-> NoJob]
  /\ strays = {} /\ admitted = {} /\ safe = {} /\ dropped = {}
  /\ deaths = 0

Bridged(m) == Bridge[msgs[m].route]
Attempt(m) == Row(m, msgs[m].to).attempt
Jobs == {m \in Messages : work[m].at # "none"}
Slot(m) == <<m, work[m].attempt>>

\* _pending_route_requests.  LIMIT 500 is not reached.
Pending ==
  {m \in DOMAIN msgs :
     LET row == Row(m, msgs[m].to) IN
     /\ msgs[m].to \notin {Everyone, msgs[m].sender}
     /\ msgs[m].route # NoRoute
     /\ msgs[m].parent = 0 \/ msgs[m].role = "prompt"
     /\ <<m, msgs[m].to>> \notin receipts
     /\ ~Terminal(row)
     /\ row.attempt < MaxAttempts
     /\ row.status = "retryable" => row.left <= 0
     /\ msgs[m].disc # 0 => discussions[msgs[m].disc].status = "active"}

(***************************************************************************)
(* The thread of run_cycle.                                                *)
(***************************************************************************)
\* The pending requests, and discover_runnable_routes if there are any.
Looks(found) ==
  /\ cycle.at = "idle"
  /\ Pending = {} => found = {}
  /\ cycle' = [Idle EXCEPT !.at = "seen", !.found = found,
                           !.unserved = {m \in Pending : msgs[m].route \notin found}]
  /\ UNCHANGED <<mailVars, work, strays, admitted, deaths, safe, dropped>>

\* reconcile_message_dispatches, which refuses an observation about a message
\* that has been settled since it was looked at: the cycle raises.
Reconciles ==
  /\ cycle.at = "seen"
  /\ \/ /\ Reconcile(cycle.unserved, 0)
        /\ cycle' = [cycle EXCEPT !.at = "reconciled", !.unserved = {}]
     \/ /\ cycle.unserved \subseteq Unsettled
        /\ ~\E m \in Unsettled : Hopeless(m, cycle.unserved, 0)
        /\ cycle' = [cycle EXCEPT !.at = "reconciled", !.unserved = {}]
        /\ UNCHANGED mailVars
     \/ /\ ~(cycle.unserved \subseteq Unsettled)
        /\ cycle' = Idle
        /\ UNCHANGED mailVars
  /\ UNCHANGED <<work, strays, admitted, deaths, safe, dropped>>

\* _plan_route_requests: the first pending message of each runtime; then
\* _credential_available for each.
Plans ==
  LET served == {m \in Pending : msgs[m].route \in cycle.found}
      plan == {m \in served : \A n \in served : msgs[n].route = msgs[m].route => m <= n}
  IN  /\ cycle.at = "reconciled"
      /\ \E denied \in SUBSET plan :
           cycle' = [Idle EXCEPT !.at = "claiming", !.plan = plan \ denied, !.denied = denied]
      /\ UNCHANGED <<mailVars, work, strays, admitted, deaths, safe, dropped>>

\* claim_message_dispatch of one message raises when no row is listed for it.
Listed(m) ==
  /\ <<m, msgs[m].to>> \notin receipts
  /\ msgs[m].disc # 0 => discussions[msgs[m].disc].status = "active"

Claimable(m) ==
  Member(msgs[m].to) /\ Free(Row(m, msgs[m].to), 0) /\ Attempt(m) < MaxAttempts

\* The exception leaves run_cycle.  What was claimed before is let go of; the
\* slots are given back with the stack frame.
CycleRaises ==
  /\ cycle' = Idle
  /\ work' = [m \in Messages |-> NoJob]
  /\ admitted' = admitted \ {Slot(m) : m \in Jobs}
  /\ dropped' = dropped \cup Jobs

\* _claim_for_route of m, whose job then stands at `at'.
ClaimFor(m, at) ==
  /\ ClaimDispatch(Bridged(m), m, LeaseTime, 0)
  /\ work' = [work EXCEPT ![m] = [NoJob EXCEPT !.at = at, !.attempt = Attempt(m) + 1]]
  /\ safe' = safe \ {m} /\ dropped' = dropped \ {m}

\* The loop over unavailable_routes: claim, then report credential_unavailable.
\* A report that is refused leaves run_cycle too.
ClaimsDenied ==
  /\ cycle.at = "claiming"
  /\ Jobs = {} /\ cycle.denied # {}
  /\ LET m == Min(cycle.denied) IN
     \/ /\ Listed(m) /\ Claimable(m)
        /\ ClaimFor(m, "denied")
        /\ UNCHANGED <<cycle, admitted>>
     \/ /\ Listed(m) /\ ~Claimable(m)
        /\ cycle' = [cycle EXCEPT !.denied = @ \ {m}]
        /\ UNCHANGED <<mailVars, work, admitted, safe, dropped>>
     \/ /\ ~Listed(m)
        /\ CycleRaises /\ UNCHANGED <<mailVars, safe>>
  /\ UNCHANGED <<strays, deaths>>

FailsDenied ==
  \E m \in cycle.denied :
    /\ work[m].at = "denied"
    /\ \/ /\ FailDispatch(Bridged(m), m, work[m].attempt, "failed", 0)
          /\ work' = [work EXCEPT ![m] = NoJob]
          /\ cycle' = [cycle EXCEPT !.denied = @ \ {m}]
          /\ UNCHANGED <<admitted, dropped>>
       \/ /\ ~HoldsDispatch(Bridged(m), m, work[m].attempt)
          /\ CycleRaises /\ UNCHANGED mailVars
    /\ UNCHANGED <<strays, deaths, safe>>

\* Mutant: a slot is not asked for.
FullIgnoringSlots == Cardinality(Jobs) >= Parallel

\* The parallel limit or provider_runtime_admission ends the loop early.
Full == Cardinality(Jobs) >= Parallel \/ Cardinality(admitted) >= Slots

\* The loop over routes, in the order of the messages.
Claims ==
  /\ cycle.at = "claiming"
  /\ cycle.denied = {} /\ cycle.plan # {} /\ ~Full
  /\ LET m == Min(cycle.plan) IN
     \/ /\ Listed(m) /\ Claimable(m)
        /\ ClaimFor(m, "claimed")
        /\ admitted' = admitted \cup {<<m, work'[m].attempt>>}
        /\ cycle' = [cycle EXCEPT !.plan = @ \ {m}]
     \/ /\ Listed(m) /\ ~Claimable(m)
        /\ cycle' = [cycle EXCEPT !.plan = @ \ {m}]
        /\ UNCHANGED <<mailVars, work, admitted, safe, dropped>>
     \/ /\ ~Listed(m)
        /\ CycleRaises /\ UNCHANGED <<mailVars, safe>>
  /\ UNCHANGED <<strays, deaths>>

\* The thread pool: every claimed message has its worker.
StartsWorkers ==
  /\ cycle.at = "claiming" /\ cycle.denied = {}
  /\ cycle.plan = {} \/ Full
  /\ cycle' = IF Jobs = {} THEN Idle ELSE [Idle EXCEPT !.at = "working"]
  /\ work' = [m \in Messages |-> IF m \in Jobs THEN [work[m] EXCEPT !.at = "calling"] ELSE NoJob]
  /\ UNCHANGED <<mailVars, strays, admitted, deaths, safe, dropped>>

\* A future has its result: its slot is given back unless it was transferred to
\* a runner that is still there.  The cycle ends with the last one.
Collects(m) ==
  /\ work[m].at = "done"
  /\ work' = [work EXCEPT ![m] = NoJob]
  /\ admitted' = IF Slot(m) \in strays THEN admitted ELSE admitted \ {Slot(m)}
  /\ cycle' = IF Jobs = {m} THEN Idle ELSE cycle
  /\ UNCHANGED <<mailVars, strays, deaths, safe, dropped>>

(***************************************************************************)
(* _execute_claimed, one thread per claimed message.                       *)
(***************************************************************************)
At(m, from) == cycle.at = "working" /\ work[m].at = from

Becomes(m, to, retry) ==
  /\ work' = [work EXCEPT ![m].at = to, ![m].retry = retry]
  /\ UNCHANGED <<cycle, deaths>>

CallsUnchanged == UNCHANGED <<strays, admitted, safe, dropped>>

\* renew_lease, in a thread of its own until the provider has answered.
Renews(m) ==
  /\ At(m, "calling")
  /\ RenewDispatch(Bridged(m), m, work[m].attempt, LeaseTime)
  /\ UNCHANGED supVars

\* The provider answers in time, or the runner raises: _failure_policy.
CallEnds(m) ==
  /\ At(m, "calling")
  /\ \/ Becomes(m, "answered", FALSE) /\ UNCHANGED safe
     \/ Becomes(m, "failing", FALSE) /\ UNCHANGED safe
     \/ Becomes(m, "failing", TRUE) /\ safe' = safe \cup {m}
  /\ UNCHANGED <<mailVars, strays, admitted, dropped>>

\* The hard deadline passes or the lease could not be renewed in time: the
\* runner is cancelled, and may not return within its grace period.
GivesUp(m) ==
  /\ At(m, "calling")
  /\ Becomes(m, "failing", FALSE)
  /\ strays' \in {strays, strays \cup {Slot(m)}}
  /\ UNCHANGED <<mailVars, admitted, safe, dropped>>

\* Mutant: an answer that could not be confirmed may be asked for again.
ConfirmsOrRetries(m) ==
  /\ At(m, "answered")
  /\ \/ RenewDispatch(Bridged(m), m, work[m].attempt, LeaseTime) /\ Becomes(m, "confirmed", FALSE)
     \/ Becomes(m, "failing", TRUE) /\ UNCHANGED mailVars
  /\ CallsUnchanged

\* The last renewal, tried three times: the lease may be lost, or the database
\* may not answer.
Confirms(m) ==
  /\ At(m, "answered")
  /\ \/ RenewDispatch(Bridged(m), m, work[m].attempt, LeaseTime) /\ Becomes(m, "confirmed", FALSE)
     \/ Becomes(m, "failing", FALSE) /\ UNCHANGED mailVars
  /\ CallsUnchanged

\* record_trusted_inference_receipt, and complete_message_dispatch.  A call the
\* bridge refuses is an unexpected_runtime_failure.
Receipts(m) ==
  /\ At(m, "confirmed")
  /\ \/ /\ RecordReceipt(Bridged(m), m, work[m].attempt)
        /\ Becomes(m, "receipted", FALSE)
     \/ /\ ~(HoldsDispatch(Bridged(m), m, work[m].attempt) /\ Member(msgs[m].to))
        /\ Becomes(m, "failing", FALSE) /\ UNCHANGED mailVars
  /\ CallsUnchanged

Completes(m) ==
  /\ At(m, "receipted")
  /\ \/ /\ \E text \in Texts : CompleteDispatch(Bridged(m), m, work[m].attempt, text)
        /\ Becomes(m, "done", FALSE)
     \/ /\ ~(/\ HoldsDispatch(Bridged(m), m, work[m].attempt)
             /\ FenceOpen(m) /\ Member(msgs[m].to))
        /\ Becomes(m, "failing", FALSE) /\ UNCHANGED mailVars
  /\ CallsUnchanged

\* Mutant: a worker that is given up keeps the row it holds.
ReportsNothing(m) ==
  /\ At(m, "failing")
  /\ Becomes(m, "done", FALSE)
  /\ UNCHANGED <<mailVars, strays, admitted, safe, dropped>>

\* _fail_claimed.  A report that is refused, because the lease is lost or the
\* database does not answer, is swallowed.
Reports(m) ==
  LET again == work[m].retry /\ work[m].attempt < MaxAttempts
  IN  /\ At(m, "failing")
      /\ \/ /\ \E wait \in RetryDelays \cup {0} :
                 FailDispatch(Bridged(m), m, work[m].attempt,
                              IF again THEN "retryable" ELSE "failed", wait)
            /\ UNCHANGED dropped
         \/ /\ dropped' = dropped \cup {m}
            /\ UNCHANGED mailVars
      /\ Becomes(m, "done", FALSE)
      /\ UNCHANGED <<strays, admitted, safe>>

\* Mutant: the slot that was transferred to the runner is forgotten.
StrayExitsUnnoticed(call) ==
  /\ call \in strays
  /\ strays' = strays \ {call}
  /\ UNCHANGED <<mailVars, cycle, work, admitted, deaths, safe, dropped>>

\* release_after_runner_exit.
StrayExits(call) ==
  /\ call \in strays
  /\ strays' = strays \ {call}
  /\ admitted' = IF Slot(call[1]) = call THEN admitted ELSE admitted \ {call}
  /\ UNCHANGED <<mailVars, cycle, work, deaths, safe, dropped>>

WorkerStep(m) == CallEnds(m) \/ GivesUp(m) \/ Confirms(m) \/ Receipts(m) \/ Completes(m) \/ Reports(m)

CycleStep ==
  \/ \E found \in SUBSET Routes : Looks(found)
  \/ Reconciles \/ Plans \/ ClaimsDenied \/ FailsDenied \/ Claims \/ StartsWorkers
  \/ \E m \in Jobs : Collects(m)

(***************************************************************************)
(* The process ends, with its threads and its slots, and another one takes *)
(* the scope's process lock.                                               *)
(***************************************************************************)
Dies ==
  /\ cycle.at # "down" /\ deaths < MaxDeaths
  /\ deaths' = deaths + 1
  /\ cycle' = [Idle EXCEPT !.at = "down"]
  /\ work' = [m \in Messages |-> NoJob]
  /\ strays' = {} /\ admitted' = {}
  /\ dispatches' = [key \in DOMAIN dispatches |->
       IF dispatches[key].holder \in {Bridge[r] : r \in Routes}
       THEN [dispatches[key] EXCEPT !.holder = NoSession] ELSE dispatches[key]]
  /\ UNCHANGED <<msgs, receipts, cursor, trusted, seats, discussions, safe, dropped>>

Starts ==
  /\ cycle.at = "down"
  /\ cycle' = Idle
  /\ UNCHANGED <<mailVars, work, strays, admitted, deaths, safe, dropped>>

\* Everybody else: each of Sends is sent once, agents acknowledge on their own
\* and time passes.  Changes of seats are left to Dispatch.
Others ==
  /\ \/ \E s \in Outside, send \in Sends :
          /\ send[1] = AgentOf[s]
          /\ ~\E m \in DOMAIN msgs : msgs[m].parent = 0 /\ send[2] = msgs[m].to
          /\ SendMessage(s, send[2], send[3], 0)
     \/ \E s \in Outside, m \in DOMAIN msgs : AgentOf[s] \in Readers /\ AckMessage(s, m)
     \/ Tick
  /\ UNCHANGED supVars

SupervisorNext ==
  \/ CycleStep
  \/ \E m \in Jobs : Renews(m) \/ WorkerStep(m)
  \/ \E call \in strays : StrayExits(call)
  \/ Dies \/ Starts
  \/ Others

SupervisorSpec == SupervisorInit /\ [][SupervisorNext]_vars

\* The threads are scheduled and time passes; the hard deadline ends every
\* wait for a provider, a provider request has a timeout and so ends too, and
\* a supervisor that has died is started again.
FairSupervisor ==
  /\ SupervisorSpec
  /\ WF_vars(CycleStep) /\ WF_vars(\E m \in Jobs : WorkerStep(m))
  /\ WF_vars(\E call \in strays : StrayExits(call))
  /\ WF_vars(Starts) /\ WF_vars(Tick /\ UNCHANGED supVars)

(***************************************************************************)
(* Properties.                                                             *)
(***************************************************************************)

\* The types of the supervisor's state; the slots in use never exceed what
\* the machine admits.
SupervisorTypeOK ==
  /\ MailTypeOK
  /\ cycle \in Cycle
  /\ work \in [Messages -> Job]
  /\ strays \subseteq admitted /\ safe \cup dropped \subseteq Messages
  /\ admitted \subseteq Messages \X (1..MaxAttempts) /\ Cardinality(admitted) <= Slots

\* Whatever raises, is given up or is lost: a slot is held by a call that is
\* still there and by nothing else, and a live claim has its worker, unless
\* the supervisor has let go of it and waits for its lease.
NothingHeldIdly ==
  /\ admitted = strays \cup {Slot(m) : m \in {n \in Jobs : work[n].at # "denied"}}
  /\ \A key \in DOMAIN dispatches :
       LET row == dispatches[key]
           m   == key[1]
       IN  row.status = "claimed" /\ row.left > 0 /\ row.holder # NoSession
             => \/ work[m].at \notin {"none", "done"} /\ work[m].attempt = row.attempt
                \/ m \in dropped

\* A provider that may have been reached is not asked again: another attempt
\* follows one that failed in a way that may be retried, or whose lease has
\* run out without a word from its worker.
NoReplay ==
  [][\A key \in DOMAIN dispatches :
       LET row == dispatches[key] IN
       dispatches'[key].attempt # row.attempt
         => \/ key[1] \in safe
            \/ row.status = "claimed" /\ row.left <= 0]_vars

\* The supervisor always catches up: in spite of cycles that raise, reports
\* that are lost, runners that ignore their cancellation and its own death,
\* the routed messages all end answered, acknowledged or failed.
MailSettles == []<>(Unsettled = {})
=============================================================================
