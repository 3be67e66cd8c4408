------------------------------ MODULE Dispatch ------------------------------
(***************************************************************************)
(* The mailbox of bridge.py: messages of one room, their per-agent         *)
(* receipts and cursors, and the dispatch table through which one worker   *)
(* at a time answers a message on behalf of its recipient.                 *)
(*                                                                         *)
(* Each operation is one BEGIN IMMEDIATE transaction of one session and so *)
(* one step; a transaction that raises is rolled back and is no step.  A   *)
(* message is its sequence number.  A lease token is the attempt_count of  *)
(* the claim that issued it, which is different for every claim of a row.  *)
(* A discussion is known here only by its status, which fences claims and  *)
(* completions; Discussion.tla adds the operations that change it.         *)
(*                                                                         *)
(* Time is the number of ticks a lease or a retry delay has left.          *)
(***************************************************************************)
EXTENDS Integers, Sequences, FiniteSets, FiniteSetsExt

CONSTANTS
  Sessions,       (* server processes, each with a session_id                 *)
  Agents,         (* agent ids that send or receive in the room               *)
  AgentOf,        (* AgentOf[s]: the agent id session s runs as               *)
  Orchestrator,   (* the sender of later prompts, which nobody runs as        *)
  Everyone,       (* the recipient "*"                                        *)
  Routes,         (* route profiles: immutable rows, each for one agent       *)
  RouteAgent,     (* RouteAgent[r]: the agent r belongs to                    *)
  NoRoute,        (* NULL in the route columns                                *)
  RouteOf,        (* RouteOf[s]: the profile whose identity session s has     *)
  Away,           (* the seat of an agent that is not an active member        *)
  Texts,          (* what a reply can say                                     *)
  NoText,         (* the text of a message that is not a reply of a model     *)
  LeaseLengths,   (* values of lease_seconds, in ticks                        *)
  RetryDelays,    (* values of retry_after_seconds, in ticks                  *)
  LockWait,       (* longest wait for the SQLite write lock, in ticks         *)
  MaxAttempts,    (* max_attempts of every caller                             *)
  MaxMessages,    (* bound: rows of the messages table                        *)
  Sends,          (* bound: <<sender, recipient, route>> of messages sent     *)
  FirstSeats,     (* the memberships at the start                             *)
  Movers,         (* bound: agents that join and leave                        *)
  Readers,        (* bound: agents that acknowledge without answering         *)
  NoSession       (* NULL in claimed_session_id                               *)

Messages == 1..MaxMessages

ASSUME MailboxAssumption ==
  /\ AgentOf \in [Sessions -> Agents]
  /\ RouteAgent \in [Routes -> Agents]
  /\ RouteOf \in [Sessions -> Routes \cup {NoRoute}]
  /\ Orchestrator \notin Agents /\ Everyone \notin Agents \cup {Orchestrator} /\ NoRoute \notin Routes
  /\ Away \notin Routes \cup {NoRoute} /\ NoSession \notin Sessions
  /\ MaxMessages \in Nat /\ MaxAttempts \in Nat \ {0} /\ LockWait \in Nat
  /\ Sends \subseteq Agents \X (Agents \cup {Everyone}) \X (Routes \cup {NoRoute})
  /\ FirstSeats \in [Agents -> Routes \cup {NoRoute}]
  /\ Movers \subseteq Agents /\ Readers \subseteq Agents
  /\ RetryDelays \subseteq Nat /\ LeaseLengths \subseteq Nat
  /\ \A n \in LeaseLengths : n > LockWait

VARIABLES
  msgs,         (* the messages table, in sequence order                      *)
  receipts,     (* message_receipts: <<message, agent>> acknowledged          *)
  cursor,       (* cursor[a]: the stored position of a's consumer cursor      *)
  dispatches,   (* dispatches[<<m, a>>]: the row of message m and agent a, if *)
                (* there is one                                               *)
  trusted,      (* trusted_inference_receipts: <<message, agent, attempt>>    *)
  seats,        (* seats[a]: the route of a's active membership, or Away      *)
  discussions   (* the discussions of the room, each with its status          *)

mailVars == <<msgs, receipts, cursor, dispatches, trusted, seats, discussions>>

\* parent is reply_to and disc the discussion_id, 0 standing for NULL.
Message == [sender : Agents \cup {Orchestrator},
            to : Agents \cup {Everyone, Orchestrator}, route : Routes \cup {NoRoute},
            parent : Nat, disc : Nat, round : Nat,
            role : {"none", "prompt", "response"}, text : Texts \cup {NoText}]

\* left counts down to the lease expiry of a claimed row and to the
\* not_before of a retryable one; reply is reply_message_id, 0 for NULL.
DispatchRow == [status : {"claimed", "retryable", "failed", "completed"},
                holder : Sessions \cup {NoSession}, attempt : 0..MaxAttempts,
                left : Int, reply : Nat]

NoDispatch == [status |-> "none", holder |-> NoSession, attempt |-> 0,
               left |-> 0, reply |-> 0]

Row(m, a) == IF <<m, a>> \in DOMAIN dispatches THEN dispatches[<<m, a>>] ELSE NoDispatch

Terminal(row) == row.status \in {"completed", "failed"}

\* _require_room_member and _active_room_member of a custom room.
Member(a) == seats[a] # Away

AddressedTo(log, m, a) == log[m].to \in {a, Everyone}

\* _evaluate_route is not a mismatch.
RouteFits(s, m) == msgs[m].route \in {NoRoute, RouteOf[s]}

\* The row after fail_message_dispatch, reconcile_message_dispatches or the
\* end of a discussion has taken it from its holder.
Taken(row, status, wait) ==
  [status |-> status, holder |-> NoSession, attempt |-> row.attempt,
   left |-> wait, reply |-> 0]

\* Mutant: the cursor jumps to the newest acknowledged message.
AdvancedToNewest(log, acked, a, position) ==
  LET passed == {i \in DOMAIN log : i > position /\ AddressedTo(log, i, a) /\ <<i, a>> \in acked}
  IN  IF passed = {} THEN position ELSE Max(passed)

\* The position after an acknowledgement: the last message addressed to a
\* before the first one that a has not acknowledged.
Advanced(log, acked, a, position) ==
  LET eligible == {i \in DOMAIN log : i > position /\ AddressedTo(log, i, a)}
      passed   == {i \in eligible : \A j \in eligible : j <= i => <<j, a>> \in acked}
  IN  IF passed = {} THEN position ELSE Max(passed)

Init ==
  /\ msgs        = <<>>
  /\ receipts    = {}
  /\ cursor      = [a \in Agents |-> 0]
  /\ dispatches  = <<>>
  /\ trusted     = {}
  /\ seats       = FirstSeats
  /\ discussions = <<>>

\* send_message: parent is 0 or a message of the room, and a routed message
\* names an agent's own profile.
SendMessage(s, to, r, parent) ==
  /\ Len(msgs) < MaxMessages
  /\ Member(AgentOf[s])
  /\ to # Everyone => Member(to)
  /\ r # NoRoute => RouteAgent[r] = to
  /\ parent \in 0..Len(msgs)
  /\ msgs' = Append(msgs, [sender |-> AgentOf[s], to |-> to, route |-> r,
                           parent |-> parent, disc |-> 0, round |-> 0,
                           role |-> "none", text |-> NoText])
  /\ UNCHANGED <<receipts, cursor, dispatches, trusted, seats, discussions>>

\* ack_message, which looks at no dispatch row.
AckMessage(s, m) ==
  LET a == AgentOf[s]
  IN  /\ m \in DOMAIN msgs
      /\ AddressedTo(msgs, m, a)
      /\ Member(a)
      /\ RouteFits(s, m)
      /\ receipts' = receipts \cup {<<m, a>>}
      /\ cursor' = [cursor EXCEPT ![a] = Advanced(msgs, receipts', a, @)]
      /\ UNCHANGED <<msgs, dispatches, trusted, seats, discussions>>

\* The rows claim_message_dispatch selects from, before it looks at the
\* dispatch table.
Offered(s, m) ==
  LET a == AgentOf[s]
  IN  /\ AddressedTo(msgs, m, a)
      /\ msgs[m].sender # a
      /\ msgs[m].parent = 0 \/ msgs[m].role = "prompt"
      /\ <<m, a>> \notin receipts
      /\ msgs[m].disc # 0 => discussions[msgs[m].disc].status = "active"
      /\ Member(a)
      /\ RouteFits(s, m)

\* Mutants: every row without a live lease is free; the age of the clock
\* reading is taken off the wrong way.
FreeIfNotLive(row, d) == row.status # "claimed" \/ row.left + d <= 0

FreeByLateClock(row, d) ==
  \/ row.status = "none"
  \/ row.status \in {"claimed", "retryable"} /\ row.left - d <= 0

\* The row is open to a claim whose clock reading is d ticks old.
Free(row, d) ==
  \/ row.status = "none"
  \/ row.status \in {"claimed", "retryable"} /\ row.left + d <= 0

\* claim_message_dispatch of m.  Without a message_id the handler takes the
\* first claimable one of the messages it lists, which is one of these steps.
ClaimDispatch(s, m, secs, d) ==
  LET key == <<m, AgentOf[s]>>
      row == Row(m, AgentOf[s])
  IN  /\ m \in DOMAIN msgs
      /\ Offered(s, m)
      /\ Free(row, d)
      /\ row.attempt < MaxAttempts
      /\ dispatches' = [k \in DOMAIN dispatches \cup {key} |->
           IF k # key THEN dispatches[k]
           ELSE [status |-> "claimed", holder |-> s, attempt |-> row.attempt + 1,
                 left |-> secs - d, reply |-> 0]]
      /\ UNCHANGED <<msgs, receipts, cursor, trusted, seats, discussions>>

\* _require_dispatch_lease for a row that is not completed.
HoldsDispatch(s, m, k) ==
  LET row == Row(m, AgentOf[s])
  IN  /\ row.status = "claimed"
      /\ row.holder = s
      /\ row.attempt = k
      /\ row.left > 0

\* record_trusted_inference_receipt for the attempt k.  A second call with
\* the same receipt returns the stored one and changes nothing.
RecordReceipt(s, m, k) ==
  LET a == AgentOf[s]
  IN  /\ HoldsDispatch(s, m, k)
      /\ Member(a)
      /\ RouteFits(s, m)
      /\ trusted' = trusted \cup {<<m, a, k>>}
      /\ UNCHANGED <<msgs, receipts, cursor, dispatches, seats, discussions>>

\* Mutants: any receipt for the message will do; the status of the discussion
\* is not looked at.
ReceiptedEver(m, a, k) == \E j \in 1..k : <<m, a, j>> \in trusted

Receipted(m, a, k) == <<m, a, k>> \in trusted

FenceIgnored(m) == TRUE

\* A reply to a discussion is accepted while it is active or paused.
FenceOpen(m) ==
  msgs[m].disc # 0 => discussions[msgs[m].disc].status \in {"active", "paused"}

\* The reply complete_message_dispatch inserts.
Reply(m, a, text) ==
  [sender |-> a, to |-> msgs[m].sender, route |-> NoRoute, parent |-> m,
   disc |-> msgs[m].disc, round |-> msgs[m].round,
   role |-> IF msgs[m].disc # 0 THEN "response" ELSE "none", text |-> text]

\* complete_message_dispatch.  For a row that this session and token have
\* completed already the handler returns the stored reply and changes nothing.
CompleteDispatch(s, m, k, text) ==
  LET a == AgentOf[s]
  IN  /\ HoldsDispatch(s, m, k)
      /\ FenceOpen(m)
      /\ Member(a)
      /\ RouteFits(s, m)
      /\ Receipted(m, a, k)
      /\ Len(msgs) < MaxMessages
      /\ msgs' = Append(msgs, Reply(m, a, text))
      /\ receipts' = receipts \cup {<<m, a>>}
      /\ cursor' = [cursor EXCEPT ![a] = Advanced(msgs', receipts', a, @)]
      /\ dispatches' = [dispatches EXCEPT ![<<m, a>>] =
           [status |-> "completed", holder |-> s, attempt |-> k,
            left |-> 0, reply |-> Len(msgs')]]
      /\ UNCHANGED <<trusted, seats, discussions>>

\* renew_message_dispatch.
RenewDispatch(s, m, k, secs) ==
  /\ HoldsDispatch(s, m, k)
  /\ dispatches' = [dispatches EXCEPT ![<<m, AgentOf[s]>>].left = secs]
  /\ UNCHANGED <<msgs, receipts, cursor, trusted, seats, discussions>>

\* fail_message_dispatch: terminally, or to be retried after wait ticks.
FailDispatch(s, m, k, status, wait) ==
  /\ HoldsDispatch(s, m, k)
  /\ \/ status = "failed" /\ wait = 0
     \/ status = "retryable" /\ wait \in RetryDelays
  /\ dispatches' = [dispatches EXCEPT ![<<m, AgentOf[s]>>] = Taken(@, status, wait)]
  /\ UNCHANGED <<msgs, receipts, cursor, trusted, seats, discussions>>

\* The rows reconcile_message_dispatches looks at: routed root messages that
\* are neither acknowledged nor answered.  LIMIT 1000 is not reached.
Unsettled ==
  {m \in DOMAIN msgs :
     /\ msgs[m].to \notin {Everyone, msgs[m].sender}
     /\ msgs[m].parent = 0
     /\ msgs[m].route # NoRoute
     /\ <<m, msgs[m].to>> \notin receipts
     /\ msgs[m].disc # 0 => discussions[msgs[m].disc].status = "active"
     /\ ~Terminal(Row(m, msgs[m].to))}

\* Mutant: exhausted attempts are left alone.
HopelessWithoutBudget(m, unserved, d) == seats[msgs[m].to] # msgs[m].route

\* Message m cannot be dispatched any more: its seat is gone or has another
\* route, its attempts are used up, or no runtime serves its route.
Hopeless(m, unserved, d) ==
  LET row == Row(m, msgs[m].to)
  IN  \/ seats[msgs[m].to] # msgs[m].route
      \/ /\ row.attempt >= MaxAttempts \/ m \in unserved
         /\ ~(row.status = "claimed" /\ row.left + d > 0)

\* reconcile_message_dispatches, called by the mailbox-supervisor only.
\* unserved are its observations, which must all be of unsettled messages.
Reconcile(unserved, d) ==
  LET settled == {m \in Unsettled : Hopeless(m, unserved, d)}
  IN  /\ unserved \subseteq Unsettled
      /\ settled # {}
      /\ dispatches' =
           [key \in DOMAIN dispatches \cup {<<m, msgs[m].to>> : m \in settled} |->
              IF key[1] \in settled /\ key[2] = msgs[key[1]].to
              THEN Taken(Row(key[1], key[2]), "failed", 0) ELSE dispatches[key]]
      /\ UNCHANGED <<msgs, receipts, cursor, trusted, seats, discussions>>

\* join_room and leave_room, by the room's manager or the agent itself.
JoinRoom(a, r) ==
  /\ r # NoRoute => RouteAgent[r] = a
  /\ seats' = [seats EXCEPT ![a] = r]
  /\ UNCHANGED <<msgs, receipts, cursor, dispatches, trusted, discussions>>

LeaveRoom(a) ==
  /\ Member(a)
  /\ seats' = [seats EXCEPT ![a] = Away]
  /\ UNCHANGED <<msgs, receipts, cursor, dispatches, trusted, discussions>>

\* A process ends, whatever it was doing.  Its session_id never comes back, so
\* no later call matches the rows it holds; the process that replaces it
\* starts with none.
Crash(s) ==
  /\ \E key \in DOMAIN dispatches : dispatches[key].holder = s
  /\ dispatches' = [key \in DOMAIN dispatches |->
       IF dispatches[key].holder = s
       THEN [dispatches[key] EXCEPT !.holder = NoSession] ELSE dispatches[key]]
  /\ UNCHANGED <<msgs, receipts, cursor, trusted, seats, discussions>>

\* Nothing distinguishes a lease or a delay that ended LockWait ticks ago from
\* one that ended earlier.
Timed(row) == row.status \in {"claimed", "retryable"} /\ row.left > -LockWait

Tick ==
  /\ \E key \in DOMAIN dispatches : Timed(dispatches[key])
  /\ dispatches' = [key \in DOMAIN dispatches |->
       IF Timed(dispatches[key])
       THEN [dispatches[key] EXCEPT !.left = @ - 1] ELSE dispatches[key]]
  /\ UNCHANGED <<msgs, receipts, cursor, trusted, seats, discussions>>

\* The calls of one session.  Those about a dispatch row fail on a message to
\* somebody else, which has no row of the caller.
DispatchCall(s, m) ==
  /\ AddressedTo(msgs, m, AgentOf[s])
  /\ \/ \E secs \in LeaseLengths, d \in 0..LockWait : ClaimDispatch(s, m, secs, d)
     \/ \E k \in 1..MaxAttempts :
          \/ RecordReceipt(s, m, k)
          \/ \E text \in Texts : CompleteDispatch(s, m, k, text)
          \/ \E secs \in LeaseLengths : RenewDispatch(s, m, k, secs)
          \/ \E status \in {"failed", "retryable"}, wait \in RetryDelays \cup {0} :
               FailDispatch(s, m, k, status, wait)

SessionStep(s) ==
  \/ \E send \in Sends, parent \in 0..Len(msgs) :
       send[1] = AgentOf[s] /\ SendMessage(s, send[2], send[3], parent)
  \/ \E m \in DOMAIN msgs :
       \/ AgentOf[s] \in Readers /\ AckMessage(s, m)
       \/ DispatchCall(s, m)

Next ==
  \/ \E s \in Sessions : SessionStep(s) \/ Crash(s)
  \/ \E unserved \in SUBSET Unsettled, d \in 0..LockWait : Reconcile(unserved, d)
  \/ \E a \in Movers, r \in Routes \cup {NoRoute} : JoinRoom(a, r) \/ LeaveRoom(a)
  \/ Tick

Spec == Init /\ [][Next]_mailVars

(***************************************************************************)
(* Properties.                                                             *)
(***************************************************************************)

\* The types of the tables.
MailTypeOK ==
  /\ msgs \in Seq(Message) /\ Len(msgs) <= MaxMessages
  /\ receipts \subseteq Messages \X Agents
  /\ cursor \in [Agents -> 0..MaxMessages]
  /\ DOMAIN dispatches \subseteq Messages \X Agents
  /\ \A key \in DOMAIN dispatches : dispatches[key] \in DispatchRow
  /\ trusted \subseteq Messages \X Agents \X (1..MaxAttempts)
  /\ seats \in [Agents -> Routes \cup {NoRoute, Away}]

\* The durable cursor of ack_message and complete_message_dispatch never
\* passes a message its consumer has not acknowledged, whatever the order in
\* which messages arrive, are acknowledged and are answered.
CursorContiguous ==
  \A a \in Agents : \A i \in 1..cursor[a] :
    i \in DOMAIN msgs /\ (AddressedTo(msgs, i, a) => <<i, a>> \in receipts)

\* A completed dispatch has its reply: one message of the recipient to the
\* sender, which no other row claims, backed by the receipt of the very
\* attempt that completed it, the source acknowledged.
CompletedIsAnswered ==
  \A key \in DOMAIN dispatches : dispatches[key].status = "completed" =>
    LET row == dispatches[key]
        m   == key[1]
        a   == key[2]
    IN  /\ row.reply \in DOMAIN msgs
        /\ msgs[row.reply].parent = m
        /\ msgs[row.reply].sender = a
        /\ msgs[row.reply].to = msgs[m].sender
        /\ <<m, a, row.attempt>> \in trusted
        /\ <<m, a>> \in receipts
        /\ \A other \in DOMAIN dispatches \ {key} : dispatches[other].reply # row.reply

\* Once a dispatch is completed or failed no claim, completion, failure,
\* reconciliation or crash, in any order, gives it another outcome.
SettledForGood ==
  [][\A key \in DOMAIN dispatches : Terminal(dispatches[key]) =>
       /\ key \in DOMAIN dispatches'
       /\ dispatches'[key].status = dispatches[key].status
       /\ dispatches'[key].attempt = dispatches[key].attempt
       /\ dispatches'[key].reply = dispatches[key].reply]_mailVars

\* While a lease is live no other claim gets the message, although claims read
\* the clock before they wait for the write lock.
LiveLeaseKept ==
  [][\A key \in DOMAIN dispatches :
       dispatches[key].status = "claimed" /\ dispatches[key].left > 0
         => dispatches'[key].attempt = dispatches[key].attempt]_mailVars
=============================================================================
