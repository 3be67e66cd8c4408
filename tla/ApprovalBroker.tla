--------------------------- MODULE ApprovalBroker ---------------------------
(***************************************************************************)
(* ApprovalBroker (approval_broker.py): a request of an agent process      *)
(* pauses one thread until the operator decides, its time is up or the     *)
(* request is cancelled.  The records are guarded by one lock; the waiting *)
(* is not, so a decision, a timeout and a cancellation may race.           *)
(*                                                                         *)
(* An ask is one call of request, known by its provider_request_id.        *)
(***************************************************************************)
EXTENDS Naturals, FiniteSets

CONSTANTS
  Asks,
  Available,    (* Available[a]: the decisions the adapter offers            *)
  Routine,      (* asks of routine risk for which "allow-once" is offered    *)
  MaxPending    (* MAX_PENDING_APPROVALS                                     *)

Decisions == {"allow-once", "allow-session", "deny"}
Modes == {"approval-required", "agent-delegated", "full-access"}

ASSUME BrokerAssumption ==
  /\ Available \in [Asks -> SUBSET Decisions]
  /\ Routine \subseteq Asks
  /\ MaxPending \in Nat \ {0}

VARIABLES
  mode,         (* the broker's mode, for good                               *)
  record,       (* record[a]: none, pending, or the decision of its record;  *)
                (* "deny" is also that of an expired or cancelled request    *)
  thread        (* thread[a]: where the thread of request stands             *)

brokerVars == <<mode, record, thread>>

\* "begun" is before request, "late" after its wait has timed out, "answer"
\* after it has returned without a decision of the operator, "raised" after
\* it has raised.
Stages == {"none", "begun", "waiting", "late", "answer", "done", "raised"}

AtWork == {a \in Asks : thread[a] \in {"begun", "waiting", "late", "answer"}}

BrokerTypeOK ==
  /\ mode \in Modes
  /\ record \in [Asks -> {"none", "pending"} \cup Decisions]
  /\ thread \in [Asks -> Stages]

BrokerInit ==
  /\ record = [a \in Asks |-> "none"]
  /\ thread = [a \in Asks |-> "none"]

Pending == {a \in Asks : record[a] = "pending"}

\* What request returns.
Said(a) == IF record[a] = "none" THEN "allow-once" ELSE record[a]

\* _finalize under the lock: whoever comes first decides.
Undecided(a) == a \in Pending

Finalize(a, decision) ==
  /\ Undecided(a)
  /\ decision \in Available[a] \cup {"deny"}
  /\ record' = [record EXCEPT ![a] = decision]

Full == Cardinality(Pending) >= MaxPending

\* The mode answers in the operator's place, and no record is made.
Delegated(a) ==
  \/ mode = "full-access"
  \/ mode = "agent-delegated" /\ a \in Routine /\ ~Full

\* request up to its wait.
Register(a) ==
  /\ thread[a] = "begun"
  /\ \/ /\ Delegated(a)
        /\ thread' = [thread EXCEPT ![a] = "answer"]
        /\ UNCHANGED record
     \/ /\ ~Delegated(a) /\ Full
        /\ thread' = [thread EXCEPT ![a] = "raised"]
        /\ UNCHANGED record
     \/ /\ ~Delegated(a) /\ ~Full
        /\ record' = [record EXCEPT ![a] = "pending"]
        /\ thread' = [thread EXCEPT ![a] = "waiting"]
  /\ UNCHANGED mode

\* The wait is over with a decision, or there was none to wait for.
Ready(a) == thread[a] = "answer" \/ (thread[a] = "waiting" /\ a \notin Pending)

TimesOut(a) ==
  /\ thread[a] = "waiting"
  /\ a \in Pending
  /\ thread' = [thread EXCEPT ![a] = "late"]
  /\ UNCHANGED <<mode, record>>

\* Mutant: a timeout raises and leaves the record to the operator.
ExpiresAlone(a) ==
  /\ thread[a] = "late"
  /\ thread' = [thread EXCEPT ![a] = "raised"]
  /\ UNCHANGED <<mode, record>>

\* After a timeout: expired, or KeyError since somebody has decided meanwhile.
Expires(a) ==
  /\ thread[a] = "late"
  /\ \/ /\ Finalize(a, "deny")
        /\ thread' = [thread EXCEPT ![a] = "answer"]
     \/ /\ ~Undecided(a)
        /\ thread' = [thread EXCEPT ![a] = "raised"]
        /\ UNCHANGED record
  /\ UNCHANGED mode

Resolve(a, decision) ==
  /\ Finalize(a, decision)
  /\ UNCHANGED <<mode, thread>>

\* cancel_provider_request, and one step of cancel_all, which works through
\* the ids that were pending when it began.
CancelAsk(a) ==
  /\ \/ Finalize(a, "deny")
     \/ ~Undecided(a) /\ UNCHANGED record
  /\ UNCHANGED <<mode, thread>>
=============================================================================
