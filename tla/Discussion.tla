----------------------------- MODULE Discussion -----------------------------
(***************************************************************************)
(* Room automation of bridge.py: the policy of a room, the discussions its *)
(* posts open, the prompts each discussion puts in the mailbox, and the    *)
(* coordinator that opens one round (or, in free mode, one event) after    *)
(* another until a stop condition.                                         *)
(*                                                                         *)
(* The prompts are messages of Dispatch and are answered through its       *)
(* dispatch rows.  One room is modelled: rooms share no discussion, policy *)
(* or seat.  Goal mode is free mode with limits 0, which means no limit.   *)
(***************************************************************************)
EXTENDS Dispatch, SequencesExt

CONSTANTS
  Human,              (* the human-operator                                   *)
  SignalOf,           (* SignalOf[t]: the PEERBRIDGE_SIGNAL line of text t    *)
  Policies,           (* the policies an operator may set                     *)
  FreeContributions,  (* FREE_DISCUSSION_MIN_CONTRIBUTIONS                    *)
  AbsoluteRounds,     (* MAX_DISCUSSION_ROUNDS                                *)
  AbsoluteMessages,   (* MAX_DISCUSSION_MESSAGES                              *)
  ExtraRounds,        (* values of extra_rounds of a human continue           *)
  NoDigest,           (* NULL in last_round_digest                            *)
  LongTexts,          (* texts two of which exceed MAX_DISCUSSION_CONTEXT_CHARS *)
  MaxDiscussions,     (* bound: rows of room_discussions                      *)
  Commands            (* bound: what the room's manager does                  *)

VARIABLE policy       (* the row of room_automation_policies                  *)

talkVars == <<mailVars, policy>>

Policy == [mode : {"off", "once", "discussion", "free"},
           rounds : Nat, messages : Nat, patience : Nat]

DiscussionRow ==
  [status : {"active", "paused", "waiting_human", "completed", "stopped"},
   current : Nat, processed : Nat, rounds : Nat, messages : Nat, patience : Nat,
   count : Nat, stale : Nat, digest : (SUBSET (Agents \X Texts)) \cup {NoDigest}]

ASSUME TalkAssumption ==
  /\ Human \in Agents
  /\ SignalOf \in [Texts -> {"CONTINUE", "CONSENSUS", "BLOCKED", "INVALID"}]
  /\ Policies \subseteq Policy
  /\ LongTexts \subseteq Texts
  /\ IsFiniteSet(Agents)
  /\ FreeContributions \in Nat /\ AbsoluteRounds \in Nat /\ AbsoluteMessages \in Nat
  /\ ExtraRounds \subseteq Nat \ {0} /\ MaxDiscussions \in Nat

\* Mutant: a discussion that waits for its operator is not open.
OpenUnlessWaiting(i) == discussions[i].status \in {"active", "paused"}

Open(i) == discussions[i].status \in {"active", "paused", "waiting_human"}

\* A row the operator has set; a room without one is in discussion mode.
TalkInit == Init /\ policy \in Policies

PromptsOf(i) == {m \in DOMAIN msgs : msgs[m].disc = i /\ msgs[m].role = "prompt"}

PromptsIn(i, round) == {m \in PromptsOf(i) : msgs[m].round = round}

ResponsesOf(i) == {m \in DOMAIN msgs : msgs[m].disc = i /\ msgs[m].role = "response"}

RowOf(m) == Row(m, msgs[m].to)

\* The context made of these responses is too long for a prompt.
Oversized(responses) == Cardinality({r \in responses : msgs[r].text \in LongTexts}) > 1

\* _routed_room_seats, when none of them lacks a route.
SeatsBut(a) == {b \in Agents \ {a, Human} : Member(b)}

Prompt(from, to, route, i, round, parent) ==
  [sender |-> from, to |-> to, route |-> route, parent |-> parent, disc |-> i,
   round |-> round, role |-> IF i = 0 THEN "none" ELSE "prompt", text |-> NoText]

\* One message for each of the agents, on the routes they sit on.
Fanout(from, to, route, i, round, parent) ==
  LET order == SetToSeq(to)
  IN  [n \in DOMAIN order |-> Prompt(from, order[n], route[order[n]], i, round, parent)]

\* _cancel_discussion_dispatches: only prompts that have an unfinished row.
Cancelled(ids) ==
  [key \in DOMAIN dispatches |->
     IF /\ key[1] \in UNION {PromptsOf(i) : i \in ids}
        /\ dispatches[key].status \in {"claimed", "retryable"}
     THEN Taken(dispatches[key], "failed", 0) ELSE dispatches[key]]

\* Mutant: a status nobody knows.
StoppedAsSuperseded(ids) ==
  [i \in DOMAIN discussions |->
     IF i \in ids THEN [discussions[i] EXCEPT !.status = "superseded"] ELSE discussions[i]]

Stopped(ids) ==
  [i \in DOMAIN discussions |->
     IF i \in ids THEN [discussions[i] EXCEPT !.status = "stopped"] ELSE discussions[i]]

NewDiscussion(n) ==
  [status |-> "active", current |-> 1, processed |-> 0, rounds |-> policy.rounds,
   messages |-> policy.messages, patience |-> policy.patience, count |-> n,
   stale |-> 0, digest |-> NoDigest]

\* post_room_message: history only, one fanout, or a new discussion that
\* supersedes the open ones.
PostRoomMessage(s) ==
  LET a       == AgentOf[s]
      to      == SeatsBut(a)
      opened  == {i \in DOMAIN discussions : Open(i)}
      newest  == Len(discussions) + 1
  IN  /\ Member(a)
      /\ policy.mode # "off" => to # {} /\ \A b \in to : seats[b] # NoRoute
      /\ \/ /\ policy.mode = "off"
            /\ msgs' = Append(msgs, Prompt(a, a, NoRoute, 0, 0, 0))
            /\ UNCHANGED <<dispatches, discussions>>
         \/ /\ policy.mode = "once"
            /\ msgs' = msgs \o Fanout(a, to, seats, 0, 0, 0)
            /\ UNCHANGED <<dispatches, discussions>>
         \/ /\ policy.mode \in {"discussion", "free"}
            /\ newest <= MaxDiscussions
            /\ policy.messages # 0 => policy.messages >= 2 * Cardinality(to)
            /\ msgs' = msgs \o Fanout(a, to, seats, newest, 1, 0)
            /\ dispatches' = Cancelled(opened)
            /\ discussions' = Append(Stopped(opened), NewDiscussion(Cardinality(to)))
      /\ Len(msgs') <= MaxMessages
      /\ UNCHANGED <<receipts, cursor, trusted, seats, policy>>

\* _discussion_participants: the agents of round one, provided that each is
\* still a member on the same route.
Participants(i) == {msgs[m].to : m \in PromptsIn(i, 1)}

ParticipantsPresent(i) == \A m \in PromptsIn(i, 1) : seats[msgs[m].to] = msgs[m].route

LosingRow(i, processed, answers) ==
  [discussions[i] EXCEPT !.status = "waiting_human", !.processed = processed,
                         !.count = @ + answers]

\* The coordinator gives up on a discussion whose seats have changed.
LoseParticipants(i, processed, answers) ==
  /\ dispatches' = Cancelled({i})
  /\ discussions' = [discussions EXCEPT ![i] = LosingRow(i, processed, answers)]
  /\ UNCHANGED msgs

\* How many rounds in a row have said the same as the one before.
Staleness(i, digest) == IF discussions[i].digest = digest THEN discussions[i].stale + 1 ELSE 0

\* Mutants: the answers still to come are not budgeted for.
OverBudgetForPrompts(i, count, n) ==
  discussions[i].messages # 0 /\ count + n > discussions[i].messages

OverBudget(i, count, n) ==
  discussions[i].messages # 0 /\ count + 2 * n > discussions[i].messages

\* Mutant: one failed dispatch is enough to close the round.
RoundOverEarly(prompts, answered, failed) == answered = prompts \/ failed # {}

\* Mutant: the round waits for its answers, failed prompts or not.
RoundOverWhenAnswered(prompts, answered, failed) == answered = prompts

\* Every prompt of the round is completed or failed.
RoundOver(prompts, answered, failed) == answered \cup failed = prompts

\* Mutant: the next round has the number of this one.
SameRound(i) == discussions[i].current

NextRound(i) == discussions[i].current + 1

\* Mutant: the round is not recorded as processed.
ProcessedLate(i) == discussions[i].processed

Processed(i) == discussions[i].current

\* What a finished round leads to.
RoundVerdict(i, replies, failed, count, stale) ==
  LET signals == {SignalOf[msgs[r].text] : r \in replies}
      d       == discussions[i]
  IN  CASE failed # {}                                   -> "waiting_human"
        [] failed = {} /\ "INVALID" \in signals          -> "waiting_human"
        [] failed = {} /\ signals = {"CONSENSUS"}        -> "completed"
        [] failed = {} /\ signals = {"BLOCKED"}          -> "waiting_human"
        [] OTHER -> IF \/ d.rounds # 0 /\ d.current >= d.rounds
                       \/ OverBudget(i, count, Cardinality(Participants(i)))
                       \/ stale >= d.patience
                       \/ Oversized(replies)
                    THEN "waiting_human" ELSE "active"

\* advance_discussions for a discussion in rounds.
AdvanceRound(i) ==
  LET d        == discussions[i]
      prompts  == PromptsIn(i, d.current)
      answered == {m \in prompts : RowOf(m).status = "completed"}
      failed   == {m \in prompts : RowOf(m).status = "failed"}
      replies  == {RowOf(m).reply : m \in answered}
      said     == {<<msgs[r].sender, msgs[r].text>> : r \in replies}
      count    == d.count + Cardinality(answered)
      stale    == Staleness(i, said)
      verdict  == RoundVerdict(i, replies, failed, count, stale)
      next     == IF verdict = "active" THEN Participants(i) ELSE {}
      route    == [a \in next |-> seats[a]]
  IN  /\ policy.mode # "free"
      /\ d.status = "active"
      /\ d.processed < d.current
      /\ prompts # {}
      /\ \/ /\ ~ParticipantsPresent(i)
            /\ LoseParticipants(i, d.current, Cardinality(answered))
         \/ /\ ParticipantsPresent(i)
            /\ Cardinality(prompts) = Cardinality(Participants(i))
            /\ RoundOver(prompts, answered, failed)
            /\ msgs' = msgs \o Fanout(Orchestrator, next, route, i, NextRound(i), 0)
            /\ Len(msgs') <= MaxMessages
            /\ discussions' = [discussions EXCEPT ![i] =
                 [d EXCEPT !.status = verdict, !.processed = Processed(i),
                           !.current = IF verdict = "active" THEN NextRound(i) ELSE @,
                           !.count = count + Cardinality(next),
                           !.stale = stale, !.digest = said]]
            /\ UNCHANGED dispatches
      /\ UNCHANGED <<receipts, cursor, trusted, seats, policy>>

\* Mutant: only the failure of everything counts.
FailedAll(i) == \A m \in PromptsOf(i) : RowOf(m).status = "failed"

\* The last prompt of some participant has failed.
FailedLatest(i) ==
  \E m \in PromptsOf(i) :
    /\ RowOf(m).status = "failed"
    /\ \A later \in PromptsOf(i) : msgs[later].to = msgs[m].to => later <= m

\* The last eight responses.
Recent(i) ==
  {r \in ResponsesOf(i) : Cardinality({later \in ResponsesOf(i) : later > r}) < 8}

\* What a free event that reacts to the response m leads to.
EventVerdict(i, m, count, stale) ==
  LET d         == discussions[i]
      people    == Participants(i)
      by(a)     == {r \in ResponsesOf(i) : msgs[r].sender = a}
      everyone  == \A a \in people : by(a) # {}
      latest(a) == SignalOf[msgs[Max(by(a))].text]
      all(sig)  == everyone /\ \A a \in people : latest(a) = sig
      targets   == Cardinality(people \ {msgs[m].sender})
  IN  IF SignalOf[msgs[m].text] = "INVALID" THEN "waiting_human"
      ELSE IF all("CONSENSUS") /\ \A a \in people : Cardinality(by(a)) >= FreeContributions
      THEN "completed"
      ELSE IF \/ all("BLOCKED")
              \/ d.rounds # 0 /\ d.current + 1 > d.rounds
              \/ d.messages # 0 /\ count + targets > d.messages
              \/ stale >= d.patience
      THEN "waiting_human"
      ELSE IF targets = 0 THEN "completed"
      ELSE IF Oversized(Recent(i)) THEN "waiting_human" ELSE "active"

\* Mutant: a follow-up counts once it is answered.
FreshUntilAnswered(i) ==
  {m \in ResponsesOf(i) :
     \A p \in PromptsOf(i) : msgs[p].parent = m => RowOf(p).status # "completed"}

\* The responses that no follow-up prompt replies to.
Fresh(i) == {m \in ResponsesOf(i) : \A p \in PromptsOf(i) : msgs[p].parent # m}

\* _advance_free_discussion_locked: lost seats, a failed prompt once no other
\* one is in flight, or else the first response that has no follow-up yet.
AdvanceFree(i) ==
  LET d        == discussions[i]
      inFlight == {m \in PromptsOf(i) : RowOf(m).status = "claimed" /\ RowOf(m).left > 0}
      fresh    == Fresh(i)
      first    == Min(fresh)
      said     == {<<msgs[first].sender, msgs[first].text>>}
      stale    == Staleness(i, said)
      verdict  == EventVerdict(i, first, d.count + 1, stale)
      next     == IF verdict = "active" THEN Participants(i) \ {msgs[first].sender} ELSE {}
      route    == [a \in next |-> seats[a]]
  IN  /\ policy.mode = "free"
      /\ d.status = "active"
      /\ \/ /\ ~ParticipantsPresent(i)
            /\ LoseParticipants(i, d.processed, 0)
         \/ /\ ParticipantsPresent(i)
            /\ FailedLatest(i)
            /\ inFlight = {}
            /\ discussions' = [discussions EXCEPT ![i].status = "waiting_human"]
            /\ UNCHANGED <<msgs, dispatches>>
         \/ /\ ParticipantsPresent(i)
            /\ ~FailedLatest(i)
            /\ fresh # {}
            /\ msgs' = msgs \o Fanout(Orchestrator, next, route, i, d.current + 1, first)
            /\ Len(msgs') <= MaxMessages
            /\ discussions' = [discussions EXCEPT ![i] =
                 [d EXCEPT !.status = verdict, !.current = @ + 1, !.processed = d.current + 1,
                           !.count = @ + 1 + Cardinality(next),
                           !.stale = stale, !.digest = said]]
            /\ UNCHANGED dispatches
      /\ UNCHANGED <<receipts, cursor, trusted, seats, policy>>

\* control_discussion: pause, resume and stop.
Pause(i) ==
  /\ discussions[i].status = "active"
  /\ discussions' = [discussions EXCEPT ![i].status = "paused"]
  /\ UNCHANGED <<msgs, receipts, cursor, dispatches, trusted, seats, policy>>

Resume(i) ==
  /\ discussions[i].status = "paused"
  /\ discussions' = [discussions EXCEPT ![i].status = "active"]
  /\ UNCHANGED <<msgs, receipts, cursor, dispatches, trusted, seats, policy>>

Stop(i) ==
  /\ Open(i)
  /\ dispatches' = Cancelled({i})
  /\ discussions' = Stopped({i})
  /\ UNCHANGED <<msgs, receipts, cursor, trusted, seats, policy>>

\* The round limit and the message budget after a human continue.
RaisedRounds(i, extra) ==
  LET d == discussions[i]
  IN  IF d.rounds = 0 THEN 0
      ELSE Min({AbsoluteRounds, Max({d.rounds, d.current + extra})})

RaisedMessages(i, n, extra) ==
  LET d == discussions[i]
  IN  IF d.messages = 0 THEN 0
      ELSE Min({AbsoluteMessages, Max({d.messages, d.count + 2 * n * extra})})

\* control_discussion: continue.  An unprocessed round already has its prompts;
\* a processed one is followed by a round the human asked for.
Continue(i, extra) ==
  LET d     == discussions[i]
      next  == Participants(i)
      route == [a \in next |-> seats[a]]
      n     == Cardinality(next)
  IN  /\ d.status \in {"waiting_human", "paused"}
      /\ \/ /\ d.processed < d.current
            /\ discussions' = [discussions EXCEPT ![i] =
                 [d EXCEPT !.status = "active", !.rounds = RaisedRounds(i, extra)]]
            /\ UNCHANGED msgs
         \/ /\ d.processed >= d.current
            /\ d.rounds # 0 => d.current < AbsoluteRounds
            /\ ParticipantsPresent(i)
            /\ d.messages # 0 => d.count + 2 * n <= AbsoluteMessages
            /\ ~Oversized({r \in ResponsesOf(i) : msgs[r].round = d.current})
            /\ msgs' = msgs \o Fanout(Orchestrator, next, route, i, NextRound(i), 0)
            /\ Len(msgs') <= MaxMessages
            /\ discussions' = [discussions EXCEPT ![i] =
                 [d EXCEPT !.status = "active", !.current = NextRound(i), !.count = @ + n,
                           !.rounds = RaisedRounds(i, extra),
                           !.messages = RaisedMessages(i, n, extra)]]
      /\ UNCHANGED <<receipts, cursor, dispatches, trusted, seats, policy>>

\* set_room_automation.  Leaving the discussion modes stops the open
\* discussions but leaves their dispatch rows as they are.
SetRoomAutomation(p) ==
  /\ p # policy
  /\ policy' = p
  /\ discussions' = IF p.mode \in {"discussion", "free"} THEN discussions
                    ELSE Stopped({i \in DOMAIN discussions : Open(i)})
  /\ UNCHANGED <<msgs, receipts, cursor, dispatches, trusted, seats>>

\* What the coordinator does with discussion i.
Advance(i) == AdvanceRound(i) \/ AdvanceFree(i)

\* What the room's manager does.
Manage ==
  \/ "mode" \in Commands /\ \E p \in Policies : SetRoomAutomation(p)
  \/ \E i \in DOMAIN discussions :
       \/ "pause" \in Commands /\ (Pause(i) \/ Resume(i))
       \/ "stop" \in Commands /\ Stop(i)
       \/ "continue" \in Commands /\ \E extra \in ExtraRounds : Continue(i, extra)

TalkNext ==
  \/ Next /\ UNCHANGED policy
  \/ \E s \in Sessions : PostRoomMessage(s)
  \/ \E i \in DOMAIN discussions : Advance(i)
  \/ Manage

TalkSpec == TalkInit /\ [][TalkNext]_talkVars

(***************************************************************************)
(* Properties.                                                             *)
(***************************************************************************)

\* The types of the discussion and policy tables.
DiscussionTypeOK ==
  /\ discussions \in Seq(DiscussionRow) /\ Len(discussions) <= MaxDiscussions
  /\ policy \in Policies

\* However posts, supersessions, commands and policy changes interleave, a
\* room has at most one open discussion, so one set of prompts at a time.
OneOpenDiscussion ==
  \A i, j \in DOMAIN discussions : Open(i) /\ Open(j) => i = j

MessagesOf(i) == {m \in DOMAIN msgs : msgs[m].disc = i}

\* A discussion that was completed, stopped or superseded takes in nothing:
\* an answer that a worker was still computing is refused, although the
\* policy change leaves its lease alive.
NothingAfterClose ==
  [][\A i \in DOMAIN discussions :
       ~Open(i) => discussions'[i] = discussions[i] /\ MessagesOf(i)' = MessagesOf(i)]_talkVars

\* The next five are kept while the room is steady: it is not switched between
\* free mode and rounds, and where a human may continue a discussion no seat
\* leaves and returns.  A seat that does leaves prompts of its round behind that
\* nobody has claimed (bridge.py:5094), and a continue opens the next round
\* beside them.  The first four are about a room that discusses in rounds.
InRounds == policy.mode = "discussion"

\* message_count is the number of prompts of the discussion and of the
\* responses of its processed rounds: with its seats at rest, no pause,
\* continue, failure or repeated advance counts a round twice or forgets one.
MessageCountExact ==
  InRounds => \A i \in DOMAIN discussions :
    discussions[i].count = Cardinality(
      PromptsOf(i) \cup {m \in ResponsesOf(i) : msgs[m].round <= discussions[i].processed})

\* The prompts and the responses of a discussion in rounds, with its seats at
\* rest, stay within its max_messages, which is checked before the responses
\* are there.
BudgetKept ==
  InRounds => \A i \in DOMAIN discussions :
    discussions[i].messages # 0 => Cardinality(MessagesOf(i)) <= discussions[i].messages

\* With the seats at rest the prompts of earlier rounds are all completed or
\* failed: no answer to an earlier round is still being worked on when the next
\* one is open.  A seat that leaves, and is back when a human continues, breaks
\* it: ending a discussion fences only the prompts with a claimed or a retryable
\* row (bridge.py:5094).
EarlierRoundsOver ==
  InRounds => \A i \in DOMAIN discussions : \A m \in PromptsOf(i) :
    Open(i) /\ msgs[m].round < discussions[i].current => Terminal(RowOf(m))

\* Repeated advances and human continues ask every seat once in a round, with
\* the seats at rest.
OnePromptPerSeat ==
  InRounds => \A i \in DOMAIN discussions : \A m \in PromptsOf(i) :
    \A n \in PromptsIn(i, msgs[m].round) : msgs[m].to = msgs[n].to => m = n

\* A discussion of two or more that ended in agreement: the last word of
\* every participant is CONSENSUS and stays so, whatever answers were under
\* way when it ended, in a room that is steady.
AgreementStands ==
  \A i \in DOMAIN discussions :
    discussions[i].status = "completed" /\ Cardinality(Participants(i)) > 1 =>
      \A a \in Participants(i) :
        LET words == {r \in ResponsesOf(i) : msgs[r].sender = a}
        IN  words # {} /\ SignalOf[msgs[Max(words)].text] = "CONSENSUS"

\* In free mode the others are asked about a response at most once each.
OneFollowUpEach ==
  \A m, n \in DOMAIN msgs :
    /\ msgs[m].role = "prompt" /\ msgs[n].role = "prompt"
    /\ msgs[m].parent # 0 /\ msgs[m].parent = msgs[n].parent /\ msgs[m].to = msgs[n].to
    => m = n

\* The rows that a worker holds.
Held ==
  {key \in DOMAIN dispatches :
     dispatches[key].status = "claimed" /\ dispatches[key].holder \in Sessions}

\* The worker that holds a row answers, or reports a failure.
WorkerEnds(key) ==
  LET row == dispatches[key]
  IN  /\ \/ \E text \in Texts : CompleteDispatch(row.holder, key[1], row.attempt, text)
         \/ \E status \in {"failed", "retryable"}, wait \in RetryDelays \cup {0} :
              FailDispatch(row.holder, key[1], row.attempt, status, wait)
      /\ UNCHANGED policy

\* The supervisor polls: it goes on claiming while there is something to
\* claim, its workers end with an answer or a failure (the runner has a hard
\* deadline), it reconciles and calls advance_discussions in every cycle, and
\* time passes.  The room's manager and the people in it owe nothing.
FairTalk ==
  /\ TalkSpec
  /\ WF_talkVars(Tick /\ UNCHANGED policy)
  /\ WF_talkVars(Reconcile({}, 0) /\ UNCHANGED policy)
  /\ \A i \in 1..MaxDiscussions : WF_talkVars(i \in DOMAIN discussions /\ Advance(i))
  /\ WF_talkVars(\E s \in Sessions, m \in DOMAIN msgs, secs \in LeaseLengths :
                   ClaimDispatch(s, m, secs, 0) /\ UNCHANGED policy)
  /\ WF_talkVars(\E key \in Held : WorkerEnds(key))

Active(i) == i \in DOMAIN discussions /\ discussions[i].status = "active"

\* The coordinator owes the next step of discussion i: in rounds always, for
\* prompts that nobody answers are failed at last; in free mode once every
\* prompt is completed or failed.
Waits(i) ==
  /\ Active(i)
  /\ InRounds \/ \A m \in PromptsOf(i) : Terminal(RowOf(m))

\* A discussion in rounds does not wait for ever: seats that do not answer,
\* crashes and used up attempts end in waiting_human at the latest.  In free
\* mode only this much is kept: once every prompt is completed or failed, the
\* discussion goes on or ends.  A free discussion with a prompt that is neither
\* may stay as it is (ActiveEnds).
TalkGoesOn == \A i \in 1..MaxDiscussions : Waits(i) ~> ~Waits(i)

\* docs/alpha-troubleshooting.md:34: an offline seat must not keep a discussion
\* open forever.  In free mode it does: reconcile_room_dispatches fails the
\* prompts that nobody answers, but not those with a reply_to
\* (bridge.py:7818), which the prompts of free mode have after the first
\* round.
ActiveEnds ==
  \A i \in 1..MaxDiscussions : Active(i) ~> ~Active(i)
=============================================================================
