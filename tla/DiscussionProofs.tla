-------------------------- MODULE DiscussionProofs --------------------------
(***************************************************************************)
(* Proofs about Discussion.tla: for every set of agents, processes and     *)
(* policies and every limit, a room has one open discussion, a closed      *)
(* discussion takes in nothing and nobody is asked twice about a response; *)
(* and, where rounds stay rounds and a continued discussion keeps its      *)
(* seats, rounds follow each other, every message is counted and every     *)
(* budget is kept.                                                         *)
(***************************************************************************)
EXTENDS Discussion, DispatchProofs

(***************************************************************************)
(* The inductive invariant of a room in any mode.                          *)
(***************************************************************************)
\* A message of a discussion is a prompt to an agent or a response; a prompt
\* follows up a response of its own discussion, and a response is the reply of
\* the row it completed.
TalkMessage(m) ==
  LET message == msgs[m]
      key     == <<message.parent, message.sender>>
  IN  /\ message.disc \in 0..Len(discussions)
      /\ message.role = "none" <=> message.disc = 0
      /\ message.role = "prompt" =>
           /\ message.to \in Agents
           /\ message.parent # 0 =>
                message.parent \in DOMAIN msgs /\ msgs[message.parent].disc = message.disc
      /\ message.role = "response" =>
           /\ key \in DOMAIN dispatches
           /\ dispatches[key].status = "completed"
           /\ dispatches[key].reply = m

\* In a discussion only prompts are dispatched, to the agent they are for.
PromptRow(key) ==
  msgs[key[1]].disc # 0 => msgs[key[1]].role = "prompt" /\ msgs[key[1]].to = key[2]

TalkInv ==
  /\ MailInv
  /\ DiscussionTypeOK
  /\ OneOpenDiscussion
  /\ OneFollowUpEach
  /\ \A m \in DOMAIN msgs : TalkMessage(m)
  /\ \A key \in DOMAIN dispatches : PromptRow(key)
  /\ \A i \in DOMAIN discussions : discussions[i].current >= 1

(***************************************************************************)
(* The inductive invariant of rounds.  It is about rooms in which rounds   *)
(* stay rounds and a discussion that may be continued keeps its seats.     *)
(* Without the first, a free discussion that becomes one of rounds brings  *)
(* no rounds with it; without the second, a seat that leaves and returns   *)
(* leaves prompts of its round behind that nobody has claimed              *)
(* (bridge.py:5094), and a continue opens the next round beside them.      *)
(***************************************************************************)
Steady ==
  /\ "mode" \in Commands => \A p \in Policies : p.mode # "free"
  /\ "continue" \in Commands => Movers = {}

\* The rounds that are over: those before the current one and, if a continue
\* may follow, the one that has been processed.
Past(i, round) ==
  \/ round < discussions[i].current
  \/ "continue" \in Commands /\ round <= discussions[i].processed

Counted(i) ==
  PromptsOf(i) \cup {m \in ResponsesOf(i) : msgs[m].round <= discussions[i].processed}

\* The current round is the one to be processed, or the last one that was.
RoundNumbers(i) ==
  LET d == discussions[i]
  IN  /\ d.processed \in {d.current - 1, d.current}
      /\ d.status \in {"active", "paused"} => d.processed < d.current
      /\ \A m \in MessagesOf(i) : msgs[m].round \in 1..d.current

\* Every round asks the same seats, each of them once.
RoundSeats(i) ==
  /\ \A round \in 1..discussions[i].current :
       {msgs[m].to : m \in PromptsIn(i, round)} = Participants(i)
  /\ \A m, n \in PromptsOf(i) :
       msgs[m].round = msgs[n].round /\ msgs[m].to = msgs[n].to => m = n
  /\ "continue" \in Commands => \A m \in PromptsOf(i) : msgs[m].route = seats[msgs[m].to]

\* Rounds that are over are settled, and what was said in a round was said
\* before the next one asked.
RoundsSettled(i) ==
  /\ Open(i) => \A m \in PromptsOf(i) : Past(i, msgs[m].round) => Terminal(RowOf(m))
  /\ \A r \in ResponsesOf(i), p \in PromptsOf(i) : msgs[r].round < msgs[p].round => r < p

\* What has been counted, and what the answers to come may add.
RoundsCounted(i) ==
  LET d == discussions[i]
  IN  /\ d.count = Cardinality(Counted(i))
      /\ d.messages # 0 =>
           d.count + (IF d.processed < d.current THEN Cardinality(Participants(i)) ELSE 0) <= d.messages

RoundsOK(i) == RoundNumbers(i) /\ RoundSeats(i) /\ RoundsSettled(i) /\ RoundsCounted(i)

RoundsInv ==
  /\ TalkInv
  /\ policy.mode # "free" => \A i \in DOMAIN discussions : RoundsOK(i)
  /\ AgreementStands

(***************************************************************************)
(* Prompts.                                                                *)
(***************************************************************************)
\* SetToSeq enumerates a finite set without repetition.
LEMMA Enumeration ==
  ASSUME NEW S, IsFiniteSet(S)
  PROVE  /\ SetToSeq(S) \in [1..Cardinality(S) -> S]
         /\ \A n, k \in 1..Cardinality(S) : SetToSeq(S)[n] = SetToSeq(S)[k] => n = k
         /\ \A x \in S : \E n \in 1..Cardinality(S) : SetToSeq(S)[n] = x
<1> DEFINE C == 1..Cardinality(S)
<1>1. ExistsBijection(C, S) /\ Cardinality(S) \in Nat
  BY FS_CardinalityType
<1>2. PICK f \in Bijection(C, S) : TRUE
  BY <1>1 DEF ExistsBijection
<1>3. f \in [C -> S] /\ IsInjective(f)
  BY <1>2 DEF Bijection, Injection
<1>4. SetToSeq(S) \in [C -> S] /\ IsInjective(SetToSeq(S))
  BY <1>3 DEF SetToSeq
<1>5. IsFiniteSet(C) /\ Cardinality(C) = Cardinality(S)
  BY <1>1, FS_Interval
<1>6. SetToSeq(S) \in Injection(C, S)
  BY <1>4 DEF Injection
<1>7. SetToSeq(S) \in Surjection(C, S)
  BY <1>5, <1>6, FS_Injection
<1> QED BY <1>4, <1>7 DEF IsInjective, Surjection

\* A prompt, or a message of a room without discussions.
LEMMA PromptTyped ==
  ASSUME NEW from \in Agents \cup {Orchestrator}, NEW to \in Agents,
         NEW route \in Routes \cup {NoRoute}, NEW i \in Nat, NEW round \in Nat, NEW parent \in Nat
  PROVE  /\ Prompt(from, to, route, i, round, parent) \in Message
         /\ RoutedOK(Prompt(from, to, route, i, round, parent))
<1>1. (IF i = 0 THEN "none" ELSE "prompt") \in {"none", "prompt", "response"}
  OBVIOUS
<1> QED BY <1>1 DEF Prompt, Message, RoutedOK

\* The sequence new has one prompt for each of the agents.
OneEach(new, from, to, route, i, round, parent) ==
  /\ new \in Seq(Message) /\ Len(new) = Cardinality(to) /\ Cardinality(to) \in Nat
  /\ \A n \in 1..Cardinality(to) :
       /\ new[n].to \in to
       /\ new[n] = Prompt(from, new[n].to, route[new[n].to], i, round, parent)
  /\ \A n, k \in 1..Cardinality(to) : new[n].to = new[k].to => n = k
  /\ \A b \in to : \E n \in 1..Cardinality(to) : new[n].to = b

\* A fanout is one message for each of its agents.
LEMMA FanoutShape ==
  ASSUME NEW from \in Agents \cup {Orchestrator}, NEW to \in SUBSET Agents, NEW route,
         NEW i \in Nat, NEW round \in Nat, NEW parent \in Nat,
         \A b \in to : route[b] \in Routes \cup {NoRoute}
  PROVE  OneEach(Fanout(from, to, route, i, round, parent), from, to, route, i, round, parent)
<1> DEFINE order == SetToSeq(to)
           C     == Cardinality(to)
           new   == Fanout(from, to, route, i, round, parent)
<1>1. IsFiniteSet(to) /\ C \in Nat
  BY TalkAssumption, FS_Subset, FS_CardinalityType
<1>2. /\ order \in [1..C -> to]
      /\ \A n, k \in 1..C : order[n] = order[k] => n = k
      /\ \A x \in to : \E n \in 1..C : order[n] = x
  BY <1>1, Enumeration
<1> HIDE DEF order, C
<1>3. new = [n \in 1..C |-> Prompt(from, order[n], route[order[n]], i, round, parent)]
  BY <1>2 DEF Fanout, order
<1>4. \A n \in 1..C : /\ new[n] = Prompt(from, order[n], route[order[n]], i, round, parent)
                      /\ new[n].to = order[n] /\ order[n] \in to
  BY <1>2, <1>3 DEF Prompt
<1>5. \A n \in 1..C : new[n] \in Message
  <2> SUFFICES ASSUME NEW n \in 1..C PROVE new[n] \in Message
    OBVIOUS
  <2>1. order[n] \in Agents /\ route[order[n]] \in Routes \cup {NoRoute}
    BY <1>4
  <2> HIDE DEF new
  <2>2. Prompt(from, order[n], route[order[n]], i, round, parent) \in Message
    BY <2>1, PromptTyped
  <2> QED BY <1>4, <2>2
<1>6. new \in Seq(Message) /\ Len(new) = C
  <2>1. new \in [1..C -> Message]
    BY <1>3, <1>5
  <2> HIDE DEF new
  <2> QED BY <1>1, <2>1, LenProperties, SeqDef
<1> HIDE DEF new
<1> QED BY <1>1, <1>2, <1>4, <1>6 DEF OneEach, new, C

\* The messages of a step.
Added == DOMAIN msgs' \ DOMAIN msgs

\* The log after a fanout.
LEMMA FanoutAppended ==
  ASSUME MailInv,
         NEW from \in Agents \cup {Orchestrator}, NEW to \in SUBSET Agents, NEW route,
         NEW i \in Nat, NEW round \in Nat, NEW parent \in Nat,
         \A b \in to : route[b] \in Routes \cup {NoRoute},
         msgs' = msgs \o Fanout(from, to, route, i, round, parent),
         Len(msgs') <= MaxMessages, UNCHANGED <<receipts, trusted>>
  PROVE  /\ Grows
         /\ \A m \in Added :
              /\ \A old \in DOMAIN msgs : old < m
              /\ msgs'[m].to \in to
              /\ msgs'[m] = Prompt(from, msgs'[m].to, route[msgs'[m].to], i, round, parent)
         /\ \A m, n \in Added : msgs'[m].to = msgs'[n].to => m = n
         /\ \A b \in to : \E m \in Added : msgs'[m].to = b
         /\ IsFiniteSet(Added) /\ Cardinality(Added) = Cardinality(to) /\ Cardinality(to) \in Nat
<1> DEFINE new == Fanout(from, to, route, i, round, parent)
           L == Len(msgs)
           C == Cardinality(to)
<1>1. /\ new \in Seq(Message) /\ Len(new) = C /\ C \in Nat
      /\ \A n \in 1..C :
           /\ new[n].to \in to
           /\ new[n] = Prompt(from, new[n].to, route[new[n].to], i, round, parent)
      /\ \A n, k \in 1..C : new[n].to = new[k].to => n = k
      /\ \A b \in to : \E n \in 1..C : new[n].to = b
  <2>1. OneEach(new, from, to, route, i, round, parent)
    BY FanoutShape
  <2> HIDE DEF new, L
  <2> QED BY <2>1 DEF OneEach
<1>2. msgs \in Seq(Message) /\ L \in Nat /\ DOMAIN msgs = 1..L
  BY LogDomain DEF MailInv, MailTypeOK
<1>3. msgs' = msgs \o new
  OBVIOUS
<1> HIDE DEF new, C, L
<1>4. /\ msgs' \in Seq(Message) /\ Len(msgs') = L + C
      /\ \A n \in 1..(L + C) : msgs'[n] = IF n <= L THEN msgs[n] ELSE new[n - L]
  <2>1. /\ msgs \o new \in Seq(Message) /\ Len(msgs \o new) = Len(msgs) + Len(new)
        /\ \A n \in 1..(Len(msgs) + Len(new)) :
             (msgs \o new)[n] = IF n <= Len(msgs) THEN msgs[n] ELSE new[n - Len(msgs)]
    <3>1. msgs \in Seq(Message) /\ new \in Seq(Message)
      BY <1>1, <1>2
    <3> QED BY ONLY <3>1, ConcatProperties
  <2> QED BY <1>1, <1>3, <2>1 DEF L
<1>5. DOMAIN msgs' = 1..(L + C)
  BY <1>4, LenProperties
<1>6. Added = (L + 1)..(L + C)
  BY <1>1, <1>2, <1>5 DEF Added
<1>7. \A m \in Added : m - L \in 1..C /\ msgs'[m] = new[m - L]
  BY <1>1, <1>2, <1>4, <1>6
<1>8. \A n \in 1..C : L + n \in Added /\ msgs'[L + n] = new[n]
  <2> TAKE n \in 1..C
  <2>1. L + n \in Added /\ (L + n) - L = n
    BY <1>1, <1>2, <1>6
  <2> QED BY <2>1, <1>7
<1>9. \A m \in Added :
        /\ \A old \in DOMAIN msgs : old < m
        /\ msgs'[m].to \in to
        /\ msgs'[m] = Prompt(from, msgs'[m].to, route[msgs'[m].to], i, round, parent)
  <2> TAKE m \in Added
  <2>1. m - L \in 1..C /\ msgs'[m] = new[m - L]
    BY <1>7
  <2>2. \A old \in DOMAIN msgs : old < m
    BY <1>1, <1>2, <1>6
  <2> QED BY <1>1, <2>1, <2>2
<1>10. \A m, n \in Added : msgs'[m].to = msgs'[n].to => m = n
  <2> TAKE m, n \in Added
  <2> HAVE msgs'[m].to = msgs'[n].to
  <2>1. /\ m - L \in 1..C /\ msgs'[m] = new[m - L]
        /\ n - L \in 1..C /\ msgs'[n] = new[n - L]
    BY <1>7
  <2>2. m - L = n - L
    BY <1>1, <2>1
  <2> QED BY <1>1, <1>2, <1>6, <2>2
<1>11. \A b \in to : \E m \in Added : msgs'[m].to = b
  <2> TAKE b \in to
  <2>1. PICK n \in 1..C : new[n].to = b
    BY <1>1
  <2>2. L + n \in Added /\ msgs'[L + n].to = b
    BY <1>8, <2>1
  <2> QED BY <2>2
<1>12. IsFiniteSet(Added) /\ Cardinality(Added) = C
  <2>1. IsFiniteSet((L + 1)..(L + C)) /\ Cardinality((L + 1)..(L + C)) = C
    BY <1>1, <1>2, FS_Interval
  <2> QED BY <1>6, <2>1
<1>13. Grows
  <2>1. \A m \in DOMAIN msgs : m \in DOMAIN msgs' /\ msgs'[m] = msgs[m]
    BY <1>1, <1>2, <1>4, <1>5
  <2>2. \A m \in DOMAIN msgs' : RoutedOK(msgs'[m])
    <3> TAKE m \in DOMAIN msgs'
    <3>1. CASE m \in DOMAIN msgs
      BY <2>1, <3>1 DEF MailInv
    <3>2. CASE m \in Added
      <4>1. /\ msgs'[m].to \in to
            /\ msgs'[m] = Prompt(from, msgs'[m].to, route[msgs'[m].to], i, round, parent)
        BY <1>9, <3>2
      <4> QED BY <4>1 DEF RoutedOK
    <3> QED BY <3>1, <3>2 DEF Added
  <2> QED BY <1>4, <2>1, <2>2 DEF Grows
<1> QED BY <1>1, <1>9, <1>10, <1>11, <1>12, <1>13 DEF C

(***************************************************************************)
(* What a step keeps of the messages that are there.                       *)
(***************************************************************************)
\* A message that is there stays what it is.
LEMMA OldMessages ==
  ASSUME TalkInv, Grows, SettledStep,
         Len(discussions) \in Nat, Len(discussions') \in Nat, Len(discussions) <= Len(discussions'),
         NEW m \in DOMAIN msgs
  PROVE  TalkMessage(m)'
<1> DEFINE key == <<msgs[m].parent, msgs[m].sender>>
<1>1. TalkMessage(m)
  BY DEF TalkInv
<1>2. msgs'[m] = msgs[m] /\ \A n \in DOMAIN msgs : n \in DOMAIN msgs' /\ msgs'[n] = msgs[n]
  BY DEF Grows
<1>3. msgs[m].role = "response" =>
        key \in DOMAIN dispatches' /\ dispatches'[key].status = "completed"
        /\ dispatches'[key].reply = m
  BY <1>1 DEF TalkMessage, SettledStep, Terminal
<1> QED BY <1>1, <1>2, <1>3 DEF TalkMessage

\* So does the message of a row.
LEMMA OldRows ==
  ASSUME TalkInv, Grows, NEW key \in DOMAIN dispatches
  PROVE  PromptRow(key)'
<1>1. RowOK(key) /\ PromptRow(key)
  BY DEF TalkInv, MailInv
<1> QED BY <1>1 DEF Grows, RowOK, PromptRow

\* Nobody is asked twice by a step that follows up nothing.
LEMMA NoFollowUp ==
  ASSUME TalkInv, Grows,
         \A m \in Added : msgs'[m].role = "prompt" => msgs'[m].parent = 0
  PROVE  OneFollowUpEach'
<1>1. SUFFICES ASSUME NEW m \in DOMAIN msgs', NEW n \in DOMAIN msgs',
                      msgs'[m].role = "prompt", msgs'[n].role = "prompt",
                      msgs'[m].parent # 0, msgs'[m].parent = msgs'[n].parent,
                      msgs'[m].to = msgs'[n].to
               PROVE  m = n
  BY DEF OneFollowUpEach
<1>2. m \in DOMAIN msgs /\ n \in DOMAIN msgs
  BY <1>1 DEF Added
<1>3. msgs'[m] = msgs[m] /\ msgs'[n] = msgs[n]
  BY <1>2 DEF Grows
<1> QED BY <1>1, <1>2, <1>3 DEF TalkInv, OneFollowUpEach

(***************************************************************************)
(* The mailbox, as a discussion sees it.                                   *)
(***************************************************************************)
\* The reply to a prompt p that its agent held, while the fence was open.
Answers(p, a, text) ==
  /\ p \in DOMAIN msgs /\ a \in Agents /\ text \in Texts
  /\ msgs' = Append(msgs, Reply(p, a, text))
  /\ <<p, a>> \in DOMAIN dispatches /\ dispatches[<<p, a>>].status = "claimed"
  /\ FenceOpen(p)
  /\ <<p, a>> \in DOMAIN dispatches'
  /\ dispatches'[<<p, a>>].status = "completed"
  /\ dispatches'[<<p, a>>].reply = Len(msgs')

\* A step of the mailbox adds nothing, a message that is none of a
\* discussion's, or an answer.
MailMove ==
  /\ MailStep
  /\ UNCHANGED discussions
  /\ \A key \in DOMAIN dispatches' : PromptRow(key)'
  /\ \/ UNCHANGED msgs
     \/ \E new \in Message : msgs' = Append(msgs, new) /\ new.disc = 0 /\ new.role = "none"
     \/ \E p \in DOMAIN msgs, a \in Agents, text \in Texts : Answers(p, a, text)

\* claim_message_dispatch gives rows to prompts only.
LEMMA ClaimMove ==
  ASSUME TalkInv, NEW s \in Sessions, NEW m, NEW secs \in LeaseLengths, NEW d \in 0..LockWait,
         ClaimDispatch(s, m, secs, d)
  PROVE  MailMove
<1> DEFINE a == AgentOf[s]
           key == <<m, a>>
<1>1. MailStep
  BY ClaimStep DEF TalkInv
<1>2. m \in DOMAIN msgs /\ a \in Agents /\ Offered(s, m)
  BY MailboxAssumption DEF ClaimDispatch
<1>3. PromptRow(key)
  <2>1. SUFFICES ASSUME msgs[m].disc # 0
                 PROVE  msgs[m].role = "prompt" /\ msgs[m].to = a
    BY DEF PromptRow
  <2>2. msgs[m] \in Message /\ TalkMessage(m)
    BY <1>2, LogDomain DEF TalkInv, MailInv
  <2>3. msgs[m].role # "response"
    <3>1. SUFFICES ASSUME msgs[m].role = "response" PROVE msgs[m].parent # 0
      BY <1>2, <2>1 DEF Offered
    <3>2. <<msgs[m].parent, msgs[m].sender>> \in Messages \X Agents
      BY <2>2, <3>1 DEF TalkMessage, TalkInv, MailInv, MailTypeOK
    <3> QED BY <3>2, MailboxAssumption DEF Messages
  <2>4. msgs[m].role = "prompt"
    BY <2>1, <2>2, <2>3 DEF TalkMessage, Message
  <2>5. msgs[m].to \in Agents /\ msgs[m].to \in {a, Everyone}
    BY <1>2, <2>2, <2>4 DEF TalkMessage, Offered, AddressedTo
  <2> QED BY <2>4, <2>5, MailboxAssumption
<1>4. \A k \in DOMAIN dispatches' : k \in DOMAIN dispatches \/ k = key
  BY DEF ClaimDispatch
<1>5. UNCHANGED <<msgs, discussions>>
  BY DEF ClaimDispatch
<1>6. \A k \in DOMAIN dispatches' : PromptRow(k)'
  BY <1>3, <1>4, <1>5, OldRows, <1>1 DEF MailStep, PromptRow
<1> QED BY <1>1, <1>5, <1>6 DEF MailMove

\* So does reconcile_message_dispatches.
LEMMA ReconcileMove ==
  ASSUME TalkInv, NEW unserved, NEW d \in 0..LockWait, Reconcile(unserved, d)
  PROVE  MailMove
<1>1. MailStep
  BY ReconcileStep DEF TalkInv
<1>2. \A k \in DOMAIN dispatches' :
        k \in DOMAIN dispatches \/ \E m \in Unsettled : k = <<m, msgs[m].to>>
  BY DEF Reconcile
<1>3. UNCHANGED <<msgs, discussions>>
  BY DEF Reconcile
<1>4. ASSUME NEW m \in Unsettled
      PROVE  PromptRow(<<m, msgs[m].to>>)
  <2>1. m \in DOMAIN msgs /\ msgs[m].parent = 0 /\ msgs[m] \in Message /\ TalkMessage(m)
    BY LogDomain DEF Unsettled, TalkInv, MailInv
  <2>2. msgs[m].role # "response"
    <3>1. SUFFICES ASSUME msgs[m].role = "response" PROVE msgs[m].parent # 0
      BY <2>1
    <3>2. <<msgs[m].parent, msgs[m].sender>> \in Messages \X Agents
      BY <2>1, <3>1 DEF TalkMessage, TalkInv, MailInv, MailTypeOK
    <3> QED BY <3>2, MailboxAssumption DEF Messages
  <2> QED BY <2>1, <2>2 DEF TalkMessage, PromptRow, Message
<1>5. ASSUME NEW k \in DOMAIN dispatches'
      PROVE  PromptRow(k)'
  <2>1. CASE k \in DOMAIN dispatches
    BY <2>1, <1>1, OldRows DEF MailStep
  <2>2. CASE \E m \in Unsettled : k = <<m, msgs[m].to>>
    BY <2>2, <1>3, <1>4 DEF PromptRow
  <2> QED BY <1>2, <2>1, <2>2
<1> QED BY <1>1, <1>3, <1>5 DEF MailMove

\* A step that changes no message and gives no message a new row.
LEMMA QuietMove ==
  ASSUME TalkInv, MailStep, UNCHANGED <<msgs, discussions>>,
         DOMAIN dispatches' = DOMAIN dispatches
  PROVE  MailMove
<1>1. \A key \in DOMAIN dispatches' : PromptRow(key)'
  BY OldRows DEF MailStep
<1> QED BY <1>1 DEF MailMove

\* send_message adds a message that is none of a discussion's.
LEMMA SendMove ==
  ASSUME TalkInv, NEW s \in Sessions, NEW to \in Agents \cup {Everyone},
         NEW r \in Routes \cup {NoRoute}, NEW parent, SendMessage(s, to, r, parent)
  PROVE  MailMove
<1> DEFINE new == [sender |-> AgentOf[s], to |-> to, route |-> r, parent |-> parent,
                   disc |-> 0, round |-> 0, role |-> "none", text |-> NoText]
<1>1. MailStep
  BY SendStep DEF TalkInv
<1>2. new \in Message
  <2>1. parent \in Nat
    BY LogDomain DEF SendMessage, TalkInv, MailInv
  <2> QED BY <2>1, MailboxAssumption DEF Message
<1>3. msgs' = Append(msgs, new) /\ new.disc = 0 /\ new.role = "none"
  BY DEF SendMessage
<1>4. \A key \in DOMAIN dispatches' : PromptRow(key)'
  BY <1>1, OldRows DEF MailStep, SendMessage
<1> HIDE DEF new
<1> QED BY <1>1, <1>2, <1>3, <1>4 DEF MailMove, SendMessage

\* complete_message_dispatch adds an answer.
LEMMA CompleteMove ==
  ASSUME TalkInv, NEW s \in Sessions, NEW m, NEW k, NEW text \in Texts,
         CompleteDispatch(s, m, k, text)
  PROVE  MailMove
<1> DEFINE a == AgentOf[s]
<1>1. MailStep
  BY CompleteStep DEF TalkInv
<1>2. /\ <<m, a>> \in DOMAIN dispatches /\ dispatches[<<m, a>>].status = "claimed"
      /\ m \in DOMAIN msgs /\ a \in Agents
  <2>1. HoldsDispatch(s, m, k)
    BY DEF CompleteDispatch
  <2> QED BY <2>1, HeldRow DEF TalkInv
<1>3. Answers(m, a, text)
  BY <1>2 DEF Answers, CompleteDispatch
<1>4. \A key \in DOMAIN dispatches' : PromptRow(key)'
  BY <1>1, OldRows DEF MailStep, CompleteDispatch
<1>5. UNCHANGED discussions
  BY DEF CompleteDispatch
<1> QED BY <1>1, <1>2, <1>3, <1>4, <1>5 DEF MailMove

\* Every step of the mailbox is such a step.
LEMMA TalkMail ==
  ASSUME TalkInv, Next
  PROVE  MailMove
<1>1. MailStep
  BY MailNext DEF TalkInv
<1>2. ASSUME NEW s \in Sessions, SessionStep(s)
      PROVE  MailMove
  <2>1. CASE \E send \in Sends, parent \in 0..Len(msgs) :
               send[1] = AgentOf[s] /\ SendMessage(s, send[2], send[3], parent)
    <3>1. PICK send \in Sends, parent \in 0..Len(msgs) : SendMessage(s, send[2], send[3], parent)
      BY <2>1
    <3>2. send[2] \in Agents \cup {Everyone} /\ send[3] \in Routes \cup {NoRoute}
      BY MailboxAssumption
    <3> QED BY <3>1, <3>2, SendMove
  <2>2. CASE \E m \in DOMAIN msgs : AckMessage(s, m)
    BY <1>1, <2>2, QuietMove DEF AckMessage
  <2>3. ASSUME NEW m \in DOMAIN msgs, DispatchCall(s, m)
        PROVE  MailMove
    <3>1. CASE \E secs \in LeaseLengths, d \in 0..LockWait : ClaimDispatch(s, m, secs, d)
      BY <3>1, ClaimMove
    <3>2. ASSUME NEW k \in 1..MaxAttempts, RecordReceipt(s, m, k)
          PROVE  MailMove
      BY <1>1, <3>2, QuietMove DEF RecordReceipt
    <3>3. ASSUME NEW k \in 1..MaxAttempts, NEW text \in Texts, CompleteDispatch(s, m, k, text)
          PROVE  MailMove
      BY <3>3, CompleteMove
    <3>4. ASSUME NEW k \in 1..MaxAttempts, NEW secs \in LeaseLengths, RenewDispatch(s, m, k, secs)
          PROVE  MailMove
      BY <1>1, <3>4, QuietMove DEF RenewDispatch
    <3>5. ASSUME NEW k \in 1..MaxAttempts, NEW status, NEW wait, FailDispatch(s, m, k, status, wait)
          PROVE  MailMove
      BY <1>1, <3>5, QuietMove DEF FailDispatch
    <3> QED BY <2>3, <3>1, <3>2, <3>3, <3>4, <3>5 DEF DispatchCall
  <2> QED BY <1>2, <2>1, <2>2, <2>3 DEF SessionStep
<1>3. ASSUME NEW s \in Sessions, Crash(s)
      PROVE  MailMove
  BY <1>1, <1>3, QuietMove DEF Crash
<1>4. CASE \E unserved \in SUBSET Unsettled, d \in 0..LockWait : Reconcile(unserved, d)
  BY <1>4, ReconcileMove
<1>5. CASE \E a \in Movers, r \in Routes \cup {NoRoute} : JoinRoom(a, r) \/ LeaveRoom(a)
  BY <1>1, <1>5, QuietMove DEF JoinRoom, LeaveRoom
<1>6. CASE Tick
  BY <1>1, <1>6, QuietMove DEF Tick
<1> QED BY <1>2, <1>3, <1>4, <1>5, <1>6 DEF Next

\* What no step does: change a closed discussion or its messages.
CloseStep ==
  \A i \in DOMAIN discussions :
    ~Open(i) => discussions'[i] = discussions[i] /\ MessagesOf(i)' = MessagesOf(i)

\* A step that keeps the discussions and adds messages to open ones only.
LEMMA ClosedStays ==
  ASSUME TalkInv, Grows,
         \A i \in DOMAIN discussions : ~Open(i) => discussions'[i] = discussions[i],
         \A m \in Added : msgs'[m].disc \in DOMAIN discussions => Open(msgs'[m].disc)
  PROVE  CloseStep
<1>1. SUFFICES ASSUME NEW i \in DOMAIN discussions, ~Open(i)
               PROVE  MessagesOf(i)' = MessagesOf(i)
  BY DEF CloseStep
<1>2. \A m \in DOMAIN msgs : m \in DOMAIN msgs' /\ msgs'[m] = msgs[m]
  BY DEF Grows
<1>3. \A m \in Added : msgs'[m].disc # i
  BY <1>1
<1> QED BY <1>2, <1>3 DEF MessagesOf, Added

\* The only new message of a mailbox step.
LEMMA OneAdded ==
  ASSUME MailInv, NEW new, msgs' = Append(msgs, new)
  PROVE  /\ DOMAIN msgs' = DOMAIN msgs \cup {Len(msgs')} /\ Len(msgs') \notin DOMAIN msgs
         /\ Added = {Len(msgs')} /\ msgs'[Len(msgs')] = new
         /\ \A old \in DOMAIN msgs : old < Len(msgs')
<1>1. msgs \in Seq(Message \cup {new}) /\ Len(msgs) \in Nat /\ DOMAIN msgs = 1..Len(msgs)
  BY LogDomain, SeqMonotonic DEF MailInv, MailTypeOK
<1>2. /\ msgs' \in Seq(Message \cup {new}) /\ Len(msgs') = Len(msgs) + 1
      /\ msgs'[Len(msgs) + 1] = new
  BY <1>1, AppendProperties
<1>3. DOMAIN msgs' = 1..(Len(msgs) + 1)
  BY <1>2, LenProperties
<1> QED BY <1>1, <1>2, <1>3 DEF Added

\* The mailbox keeps the invariant of the room.
LEMMA MailMoveKeeps ==
  ASSUME TalkInv, MailMove, UNCHANGED policy
  PROVE  TalkInv' /\ CloseStep
<1>1. MailInv' /\ Grows /\ SettledStep /\ UNCHANGED discussions
  BY DEF MailMove, MailStep
<1>2. Len(discussions) \in Nat
  BY LenProperties DEF TalkInv, DiscussionTypeOK
<1>3. \A m \in DOMAIN msgs : TalkMessage(m)'
  BY <1>1, <1>2, OldMessages
<1>4. ASSUME NEW m \in Added
      PROVE  /\ TalkMessage(m)'
             /\ msgs'[m].role # "prompt"
             /\ msgs'[m].disc \in DOMAIN discussions => Open(msgs'[m].disc)
  <2>1. ~UNCHANGED msgs
    BY <1>4 DEF Added
  <2>2. CASE \E new \in Message : msgs' = Append(msgs, new) /\ new.disc = 0 /\ new.role = "none"
    <3>1. msgs'[m].disc = 0 /\ msgs'[m].role = "none"
      BY <1>4, <2>2, OneAdded DEF TalkInv
    <3>2. DOMAIN discussions = 1..Len(discussions)
      BY LenProperties DEF TalkInv, DiscussionTypeOK
    <3> QED BY <1>1, <1>2, <3>1, <3>2 DEF TalkMessage
  <2>3. ASSUME NEW p \in DOMAIN msgs, NEW a \in Agents, NEW text \in Texts, Answers(p, a, text)
        PROVE  /\ TalkMessage(m)'
               /\ msgs'[m].role # "prompt"
               /\ msgs'[m].disc \in DOMAIN discussions => Open(msgs'[m].disc)
    <3>1. m = Len(msgs') /\ msgs'[m] = Reply(p, a, text)
      BY <1>4, <2>3, OneAdded DEF TalkInv, Answers
    <3>2. TalkMessage(p) /\ PromptRow(<<p, a>>) /\ msgs[p] \in Message
      BY <2>3, LogDomain DEF Answers, TalkInv, MailInv
    <3>3. /\ msgs'[m].disc = msgs[p].disc /\ msgs'[m].parent = p /\ msgs'[m].sender = a
          /\ msgs'[m].role = IF msgs[p].disc # 0 THEN "response" ELSE "none"
      BY <3>1 DEF Reply
    <3>4. /\ <<p, a>> \in DOMAIN dispatches' /\ dispatches'[<<p, a>>].status = "completed"
          /\ dispatches'[<<p, a>>].reply = m
      BY <2>3, <3>1 DEF Answers
    <3>5. msgs[p].disc \in DOMAIN discussions => Open(msgs[p].disc)
      <4>1. DOMAIN discussions = 1..Len(discussions)
        BY LenProperties DEF TalkInv, DiscussionTypeOK
      <4> QED BY <2>3, <4>1, <1>2 DEF Answers, FenceOpen, Open
    <3>6. TalkMessage(m)'
      BY <1>1, <3>2, <3>3, <3>4 DEF TalkMessage
    <3> QED BY <3>3, <3>5, <3>6
  <2> QED BY <2>1, <2>2, <2>3 DEF MailMove
<1>5. \A m \in DOMAIN msgs' : TalkMessage(m)'
  BY <1>3, <1>4 DEF Added
<1>6. OneFollowUpEach'
  BY <1>1, <1>4, NoFollowUp
<1>7. DiscussionTypeOK' /\ OneOpenDiscussion'
  BY <1>1 DEF TalkInv, DiscussionTypeOK, OneOpenDiscussion, Open
<1>8. CloseStep
  BY <1>1, <1>4, ClosedStays
<1> QED BY <1>1, <1>5, <1>6, <1>7, <1>8 DEF TalkInv, MailMove

(***************************************************************************)
(* Prompts and their responses.                                            *)
(***************************************************************************)
\* Sets of messages are finite.
LEMMA FiniteLog ==
  ASSUME MailInv, NEW S \in SUBSET DOMAIN msgs
  PROVE  IsFiniteSet(S) /\ Cardinality(S) \in Nat
<1>1. IsFiniteSet(DOMAIN msgs)
  BY LogDomain, FS_Interval DEF MailInv
<1> QED BY <1>1, FS_Subset, FS_CardinalityType

\* The row of a prompt, if there is one, is the row of its recipient.
LEMMA PromptsRow ==
  ASSUME TalkInv, NEW m \in DOMAIN msgs, msgs[m].role = "prompt", RowOf(m).status # "none"
  PROVE  /\ <<m, msgs[m].to>> \in DOMAIN dispatches
         /\ RowOf(m) = dispatches[<<m, msgs[m].to>>]
  BY DEF RowOf, Row, NoDispatch

\* The reply to a prompt.
LEMMA AnsweredPrompt ==
  ASSUME TalkInv, NEW m \in DOMAIN msgs, msgs[m].role = "prompt",
         RowOf(m).status = "completed", NEW r, r = RowOf(m).reply
  PROVE  /\ r \in DOMAIN msgs /\ m < r
         /\ msgs[r].disc = msgs[m].disc /\ msgs[r].round = msgs[m].round
         /\ msgs[r].role = "response" /\ msgs[r].parent = m
         /\ msgs[r].sender = msgs[m].to /\ msgs[m].to \in Agents
         /\ msgs[r].text \in Texts
<1> DEFINE key == <<m, msgs[m].to>>
<1>1. key \in DOMAIN dispatches /\ RowOf(m) = dispatches[key]
  BY PromptsRow
<1>2. Answered(key)
  BY <1>1 DEF TalkInv, MailInv, RowOK
<1>3. /\ r \in DOMAIN msgs /\ m < r /\ msgs[r].text \in Texts
      /\ msgs[r] = Reply(m, msgs[m].to, msgs[r].text)
  BY <1>1, <1>2 DEF Answered
<1>4. msgs[m].disc # 0 /\ msgs[m].to \in Agents
  BY DEF TalkInv, TalkMessage
<1> QED BY <1>3, <1>4 DEF Reply

\* The prompt of a response.
LEMMA ResponsesPrompt ==
  ASSUME TalkInv, NEW r \in DOMAIN msgs, msgs[r].role = "response",
         NEW m, m = msgs[r].parent
  PROVE  /\ m \in DOMAIN msgs /\ m < r
         /\ msgs[m].role = "prompt"
         /\ msgs[m].disc = msgs[r].disc /\ msgs[m].round = msgs[r].round
         /\ msgs[m].to = msgs[r].sender
         /\ RowOf(m).status = "completed" /\ RowOf(m).reply = r
         /\ msgs[r].sender \in Agents /\ msgs[r].text \in Texts
<1> DEFINE a   == msgs[r].sender
           key == <<m, a>>
<1>1. key \in DOMAIN dispatches /\ dispatches[key].status = "completed" /\ dispatches[key].reply = r
  BY DEF TalkInv, TalkMessage
<1>2. Answered(key) /\ m \in DOMAIN msgs /\ key \in Messages \X Agents /\ PromptRow(key)
  BY <1>1 DEF TalkInv, MailInv, MailTypeOK, RowOK
<1>3. m < r /\ msgs[r].text \in Texts /\ msgs[r] = Reply(m, a, msgs[r].text)
  BY <1>1, <1>2 DEF Answered
<1>4. msgs[r].disc = msgs[m].disc /\ msgs[r].round = msgs[m].round
  BY <1>3 DEF Reply
<1>5. msgs[r].disc # 0
  BY DEF TalkInv, TalkMessage
<1>6. msgs[m].role = "prompt" /\ msgs[m].to = a
  BY <1>2, <1>4, <1>5 DEF PromptRow
<1>7. RowOf(m) = dispatches[key]
  BY <1>1, <1>6 DEF RowOf, Row
<1> QED BY <1>1, <1>2, <1>3, <1>4, <1>6, <1>7

(***************************************************************************)
(* The discussions table.                                                  *)
(***************************************************************************)
\* The domain of the table.
LEMMA TableDomain ==
  ASSUME TalkInv
  PROVE  /\ Len(discussions) \in Nat /\ DOMAIN discussions = 1..Len(discussions)
         /\ \A i \in DOMAIN discussions : discussions[i] \in DiscussionRow /\ i \in Nat
  BY LenProperties, ElementOfSeq DEF TalkInv, DiscussionTypeOK

\* _cancel_discussion_dispatches ends rows and nothing else.
LEMMA CancelledRows ==
  ASSUME MailInv, Grows, NEW ids, dispatches' = Cancelled(ids)
  PROVE  RowSteps /\ DOMAIN dispatches' = DOMAIN dispatches
<1>1. DOMAIN dispatches' = DOMAIN dispatches
  BY DEF Cancelled
<1>2. ASSUME NEW key \in DOMAIN dispatches
      PROVE  RowStep(key)
  <2>1. CASE dispatches'[key] = dispatches[key]
    BY <2>1, <1>2, RowSame
  <2>2. CASE /\ dispatches[key].status \in {"claimed", "retryable"}
             /\ dispatches'[key] = Taken(dispatches[key], "failed", 0)
    <3>1. dispatches[key] \in DispatchRow /\ key \in Messages \X Agents /\ RowOK(key)
      BY DEF MailInv, MailTypeOK
    <3>2. dispatches[key].attempt \in 0..MaxAttempts
      BY <3>1 DEF DispatchRow
    <3>3. /\ dispatches'[key] \in DispatchRow
          /\ dispatches'[key].status = "failed" /\ dispatches'[key].reply = 0
          /\ dispatches'[key].attempt = dispatches[key].attempt
      BY <2>2, <3>2, TakenTyped
    <3>4. key[1] \in DOMAIN msgs /\ ~Terminal(dispatches[key])
      BY <2>2, <3>1 DEF RowOK, Terminal
    <3> QED BY <3>1, <3>3, <3>4, RowTurned
  <2>3. \/ dispatches'[key] = dispatches[key]
        \/ /\ dispatches[key].status \in {"claimed", "retryable"}
           /\ dispatches'[key] = Taken(dispatches[key], "failed", 0)
    BY DEF Cancelled
  <2> QED BY <2>1, <2>2, <2>3
<1> QED BY <1>1, <1>2 DEF RowSteps

\* What a step of the room keeps and never does.
TalkStep == Grows /\ TalkInv' /\ SettledStep /\ CloseStep

\* A step of a person or of the coordinator: it adds messages to open
\* discussions, ends rows and changes open discussions.
LEMMA TalkMove ==
  ASSUME TalkInv, Grows, DiscussionTypeOK', OneOpenDiscussion', OneFollowUpEach',
         dispatches' = dispatches \/ \E ids : dispatches' = Cancelled(ids),
         UNCHANGED <<receipts, cursor, trusted, seats>>,
         Len(discussions) <= Len(discussions'),
         \A i \in DOMAIN discussions' : discussions'[i].current >= 1,
         \A i \in DOMAIN discussions : ~Open(i) => discussions'[i] = discussions[i],
         \A m \in Added : TalkMessage(m)',
         \A m \in Added : msgs'[m].disc \in DOMAIN discussions => Open(msgs'[m].disc)
  PROVE  TalkStep
<1>1. RowSteps /\ DOMAIN dispatches' = DOMAIN dispatches
  <2>1. MailInv
    BY DEF TalkInv
  <2>2. CASE dispatches' = dispatches
    BY <2>1, <2>2, RowsSame
  <2>3. CASE \E ids : dispatches' = Cancelled(ids)
    BY <2>1, <2>3, CancelledRows
  <2> QED BY <2>2, <2>3
<1>2. MailInv' /\ SettledStep
  <2>1. trusted' \subseteq Messages \X Agents \X (1..MaxAttempts)
        /\ seats' \in [Agents -> Routes \cup {NoRoute, Away}]
    BY DEF TalkInv, MailInv, MailTypeOK
  <2>2. MailInv
    BY DEF TalkInv
  <2> QED BY <1>1, <2>1, <2>2, NothingAcknowledged DEF MailStep
<1>3. Len(discussions) \in Nat /\ Len(discussions') \in Nat
  BY TableDomain, LenProperties DEF DiscussionTypeOK
<1>4. \A m \in DOMAIN msgs : TalkMessage(m)'
  BY <1>2, <1>3, OldMessages
<1>5. \A m \in DOMAIN msgs' : TalkMessage(m)'
  BY <1>4 DEF Added
<1>6. \A key \in DOMAIN dispatches' : PromptRow(key)'
  BY <1>1, OldRows
<1>7. CloseStep
  BY ClosedStays
<1> QED BY <1>2, <1>5, <1>6, <1>7 DEF TalkStep, TalkInv

\* One open discussion changes.
LEMMA OneChanges ==
  ASSUME TalkInv, NEW i \in DOMAIN discussions, Open(i), NEW new \in DiscussionRow,
         new.current >= 1, discussions' = [discussions EXCEPT ![i] = new], UNCHANGED policy
  PROVE  /\ DiscussionTypeOK' /\ OneOpenDiscussion'
         /\ DOMAIN discussions' = DOMAIN discussions /\ Len(discussions') = Len(discussions)
         /\ Len(discussions) \in Nat
         /\ discussions'[i] = new
         /\ \A j \in DOMAIN discussions : j # i => discussions'[j] = discussions[j]
         /\ \A j \in DOMAIN discussions : ~Open(j) => discussions'[j] = discussions[j]
         /\ \A j \in DOMAIN discussions' : discussions'[j].current >= 1
<1>1. /\ discussions \in Seq(DiscussionRow) /\ Len(discussions) <= MaxDiscussions
      /\ DOMAIN discussions = 1..Len(discussions) /\ Len(discussions) \in Nat
  BY TableDomain DEF TalkInv, DiscussionTypeOK
<1>2. discussions' \in Seq(DiscussionRow) /\ Len(discussions') = Len(discussions)
  BY <1>1, ExceptSeq
<1>3. /\ DOMAIN discussions' = DOMAIN discussions /\ discussions'[i] = new
      /\ \A j \in DOMAIN discussions : j # i => discussions'[j] = discussions[j]
  BY <1>1
<1>4. \A j \in DOMAIN discussions : ~Open(j) => discussions'[j] = discussions[j]
  BY <1>3
<1>5. \A j \in DOMAIN discussions : Open(j) => j = i
  BY DEF TalkInv, OneOpenDiscussion
<1>6. OneOpenDiscussion'
  BY <1>3, <1>5 DEF OneOpenDiscussion, Open
<1>7. \A j \in DOMAIN discussions' : discussions'[j].current >= 1
  BY <1>3 DEF TalkInv
<1> QED BY <1>1, <1>2, <1>3, <1>4, <1>6, <1>7 DEF DiscussionTypeOK, TalkInv

\* Discussions that are stopped or superseded.
LEMMA StoppedTable ==
  ASSUME TalkInv, NEW ids
  PROVE  /\ Stopped(ids) \in Seq(DiscussionRow) /\ Len(Stopped(ids)) = Len(discussions)
         /\ DOMAIN Stopped(ids) = DOMAIN discussions
         /\ \A i \in DOMAIN discussions :
              /\ i \in ids => Stopped(ids)[i] = [discussions[i] EXCEPT !.status = "stopped"]
              /\ i \notin ids => Stopped(ids)[i] = discussions[i]
<1>1. /\ discussions \in Seq(DiscussionRow)
      /\ DOMAIN discussions = 1..Len(discussions) /\ Len(discussions) \in Nat
      /\ \A i \in DOMAIN discussions : discussions[i] \in DiscussionRow
  BY TableDomain DEF TalkInv, DiscussionTypeOK
<1>2. \A i \in DOMAIN discussions : [discussions[i] EXCEPT !.status = "stopped"] \in DiscussionRow
  BY <1>1 DEF DiscussionRow
<1>3. /\ DOMAIN Stopped(ids) = DOMAIN discussions
      /\ \A i \in DOMAIN discussions :
           /\ i \in ids => Stopped(ids)[i] = [discussions[i] EXCEPT !.status = "stopped"]
           /\ i \notin ids => Stopped(ids)[i] = discussions[i]
  BY DEF Stopped
<1>4. Stopped(ids) \in [1..Len(discussions) -> DiscussionRow]
  BY <1>1, <1>2, <1>3 DEF Stopped
<1> QED BY <1>1, <1>3, <1>4, SeqDef, LenProperties

\* A step that adds no message.
LEMMA NoMessages ==
  ASSUME TalkInv, UNCHANGED <<msgs, receipts, trusted>>
  PROVE  Grows /\ Added = {} /\ OneFollowUpEach'
<1>1. Grows
  BY LogSame DEF TalkInv
<1> QED BY <1>1, NoFollowUp DEF Added

\* A step that adds no message and changes one open discussion.
LEMMA OnlyOneChanges ==
  ASSUME TalkInv, NEW i \in DOMAIN discussions, Open(i), NEW new \in DiscussionRow,
         new.current >= 1, discussions' = [discussions EXCEPT ![i] = new],
         dispatches' = dispatches \/ \E ids : dispatches' = Cancelled(ids),
         UNCHANGED <<msgs, receipts, cursor, trusted, seats, policy>>
  PROVE  TalkStep
<1>1. Grows /\ Added = {} /\ OneFollowUpEach'
  BY NoMessages
<1>2. /\ DiscussionTypeOK' /\ OneOpenDiscussion'
      /\ Len(discussions') = Len(discussions) /\ Len(discussions) \in Nat
      /\ \A j \in DOMAIN discussions : ~Open(j) => discussions'[j] = discussions[j]
      /\ \A j \in DOMAIN discussions' : discussions'[j].current >= 1
  BY OneChanges
<1>3. Len(discussions) <= Len(discussions')
  BY <1>2
<1> QED BY <1>1, <1>2, <1>3, TalkMove

(***************************************************************************)
(* The commands of the room's manager.                                     *)
(***************************************************************************)
\* pause and resume.
LEMMA PauseStep ==
  ASSUME TalkInv, NEW i \in DOMAIN discussions, Pause(i) \/ Resume(i)
  PROVE  TalkStep
<1>1. PICK status \in {"active", "paused"} :
        discussions' = [discussions EXCEPT ![i] = [discussions[i] EXCEPT !.status = status]]
  BY DEF Pause, Resume
<1> DEFINE new == [discussions[i] EXCEPT !.status = status]
<1>2. Open(i)
  BY DEF Pause, Resume, Open
<1>3. discussions[i] \in DiscussionRow /\ discussions[i].current >= 1
  BY TableDomain DEF TalkInv
<1>4. new \in DiscussionRow /\ new.current >= 1
  BY <1>3 DEF DiscussionRow
<1>5. UNCHANGED <<msgs, receipts, cursor, dispatches, trusted, seats, policy>>
  BY DEF Pause, Resume
<1> HIDE DEF new
<1>6. discussions' = [discussions EXCEPT ![i] = new]
  BY <1>1 DEF new
<1> QED BY <1>2, <1>4, <1>5, <1>6, OnlyOneChanges

\* stop.
LEMMA StopStep ==
  ASSUME TalkInv, NEW i \in DOMAIN discussions, Stop(i)
  PROVE  TalkStep
<1> DEFINE new == [discussions[i] EXCEPT !.status = "stopped"]
<1>1. discussions[i] \in DiscussionRow /\ discussions[i].current >= 1
  BY TableDomain DEF TalkInv
<1>2. new \in DiscussionRow /\ new.current >= 1
  BY <1>1 DEF DiscussionRow
<1>3. discussions' = [discussions EXCEPT ![i] = new]
  BY DEF Stop, Stopped
<1>4. Open(i) /\ UNCHANGED <<msgs, receipts, cursor, trusted, seats, policy>>
      /\ dispatches' = Cancelled({i})
  BY DEF Stop
<1> HIDE DEF new
<1> QED BY <1>2, <1>3, <1>4, OnlyOneChanges

\* set_room_automation.
LEMMA PolicyStep ==
  ASSUME TalkInv, NEW p \in Policies, SetRoomAutomation(p)
  PROVE  TalkStep
<1> DEFINE ids == {i \in DOMAIN discussions : Open(i)}
<1>1. UNCHANGED <<msgs, receipts, cursor, dispatches, trusted, seats>> /\ policy' = p
  BY DEF SetRoomAutomation
<1>2. CASE discussions' = discussions
  <2>1. DiscussionTypeOK' /\ OneOpenDiscussion'
    BY <1>1, <1>2 DEF TalkInv, DiscussionTypeOK, OneOpenDiscussion, Open
  <2>2. Len(discussions) \in Nat /\ \A i \in DOMAIN discussions' : discussions'[i].current >= 1
    BY <1>2, TableDomain DEF TalkInv
  <2> QED BY <1>1, <1>2, <2>1, <2>2, NoMessages, TalkMove
<1>3. CASE discussions' = Stopped(ids)
  <2> HIDE DEF ids
  <2>1. /\ discussions' \in Seq(DiscussionRow) /\ Len(discussions') = Len(discussions)
        /\ DOMAIN discussions' = DOMAIN discussions
        /\ \A i \in DOMAIN discussions :
             /\ i \in ids => discussions'[i] = [discussions[i] EXCEPT !.status = "stopped"]
             /\ i \notin ids => discussions'[i] = discussions[i]
    BY <1>3, StoppedTable
  <2>2. \A i \in DOMAIN discussions : discussions[i] \in DiscussionRow /\ discussions[i].current >= 1
    BY TableDomain DEF TalkInv
  <2>3. DiscussionTypeOK' /\ Len(discussions) \in Nat
    BY <1>1, <2>1, TableDomain DEF DiscussionTypeOK, TalkInv
  <2>4. \A i \in DOMAIN discussions' : discussions'[i].status \notin {"active", "paused", "waiting_human"}
    BY <2>1, <2>2 DEF ids, Open, DiscussionRow
  <2>5. OneOpenDiscussion'
    BY <2>4 DEF OneOpenDiscussion, Open
  <2>6. \A i \in DOMAIN discussions' : discussions'[i].current >= 1
    <3>1. \A i \in DOMAIN discussions :
            [discussions[i] EXCEPT !.status = "stopped"].current = discussions[i].current
      BY <2>2 DEF DiscussionRow
    <3> QED BY <2>1, <2>2, <3>1
  <2>7. \A i \in DOMAIN discussions : ~Open(i) => discussions'[i] = discussions[i]
    BY <2>1 DEF ids
  <2> QED BY <1>1, <2>1, <2>3, <2>5, <2>6, <2>7, NoMessages, TalkMove
<1> QED BY <1>2, <1>3 DEF SetRoomAutomation

(***************************************************************************)
(* New prompts.                                                            *)
(***************************************************************************)
\* The agents of a discussion, and their seats while none of them has changed.
LEMMA ParticipantsTyped ==
  ASSUME TalkInv, NEW i
  PROVE  /\ Participants(i) \in SUBSET Agents
         /\ IsFiniteSet(Participants(i)) /\ Cardinality(Participants(i)) \in Nat
         /\ ParticipantsPresent(i) =>
              \A b \in Participants(i) : seats[b] \in Routes \cup {NoRoute}
<1>1. Participants(i) \in SUBSET Agents
  BY DEF Participants, PromptsIn, PromptsOf, TalkInv, TalkMessage
<1>2. IsFiniteSet(Participants(i)) /\ Cardinality(Participants(i)) \in Nat
  BY <1>1, TalkAssumption, FS_Subset, FS_CardinalityType
<1>3. ASSUME ParticipantsPresent(i), NEW b \in Participants(i)
      PROVE  seats[b] \in Routes \cup {NoRoute}
  <2>1. PICK m \in PromptsIn(i, 1) : b = msgs[m].to
    BY <1>3 DEF Participants
  <2>2. msgs[m] \in Message /\ seats[b] = msgs[m].route
    BY <1>3, <2>1, LogDomain DEF ParticipantsPresent, PromptsIn, PromptsOf, TalkInv, MailInv
  <2> QED BY <2>2 DEF Message
<1> QED BY <1>1, <1>2, <1>3

\* A step puts one message to each of the agents in the log.
Asked(to, route, i, round, parent) ==
  /\ Grows
  /\ \A m \in Added :
       /\ TalkMessage(m)'
       /\ msgs'[m].disc = i /\ msgs'[m].to \in to
       /\ msgs'[m].role = IF i = 0 THEN "none" ELSE "prompt"
       /\ msgs'[m].parent = parent /\ msgs'[m].round = round
       /\ msgs'[m].route = route[msgs'[m].to]
       /\ \A old \in DOMAIN msgs : old < m
  /\ \A m, n \in Added : msgs'[m].to = msgs'[n].to => m = n
  /\ \A b \in to : \E m \in Added : msgs'[m].to = b
  /\ IsFiniteSet(Added) /\ Cardinality(Added) = Cardinality(to) /\ Cardinality(to) \in Nat

\* The prompts of discussion i, or the messages of a room without one.
LEMMA PromptsAdded ==
  ASSUME TalkInv, Len(discussions') \in Nat,
         NEW from \in Agents \cup {Orchestrator}, NEW to \in SUBSET Agents, NEW route,
         NEW i \in 0..Len(discussions'), NEW round \in Nat, NEW parent \in Nat,
         \A b \in to : route[b] \in Routes \cup {NoRoute},
         parent # 0 => parent \in DOMAIN msgs /\ msgs[parent].disc = i,
         msgs' = msgs \o Fanout(from, to, route, i, round, parent),
         Len(msgs') <= MaxMessages, UNCHANGED <<receipts, trusted>>
  PROVE  Asked(to, route, i, round, parent)
<1>1. i \in Nat
  OBVIOUS
<1>2. /\ Grows
      /\ \A m \in Added :
           /\ \A old \in DOMAIN msgs : old < m
           /\ msgs'[m].to \in to
           /\ msgs'[m] = Prompt(from, msgs'[m].to, route[msgs'[m].to], i, round, parent)
      /\ \A m, n \in Added : msgs'[m].to = msgs'[n].to => m = n
      /\ \A b \in to : \E m \in Added : msgs'[m].to = b
      /\ IsFiniteSet(Added) /\ Cardinality(Added) = Cardinality(to) /\ Cardinality(to) \in Nat
  BY <1>1, FanoutAppended DEF TalkInv
<1>3. ASSUME NEW m \in Added
      PROVE  /\ msgs'[m].disc = i /\ msgs'[m].to \in to
             /\ msgs'[m].role = IF i = 0 THEN "none" ELSE "prompt"
             /\ msgs'[m].parent = parent /\ msgs'[m].round = round
             /\ msgs'[m].route = route[msgs'[m].to]
  <2>1. PICK b \in to : msgs'[m] = Prompt(from, b, route[b], i, round, parent)
    BY <1>2
  <2>2. /\ msgs'[m].disc = i /\ msgs'[m].to = b
        /\ msgs'[m].role = IF i = 0 THEN "none" ELSE "prompt"
        /\ msgs'[m].parent = parent /\ msgs'[m].round = round
        /\ msgs'[m].route = route[b]
    BY <2>1 DEF Prompt
  <2> QED BY <2>2
<1>4. ASSUME NEW m \in Added
      PROVE  TalkMessage(m)'
  <2>1. parent # 0 => parent \in DOMAIN msgs' /\ msgs'[parent].disc = i
    BY <1>2 DEF Grows
  <2> QED BY <1>3, <2>1 DEF TalkMessage
<1> QED BY <1>2, <1>3, <1>4 DEF Asked

\* A step that asks about no response and changes one open discussion.
LEMMA PromptsStep ==
  ASSUME TalkInv, NEW i \in DOMAIN discussions, Open(i), NEW new \in DiscussionRow,
         new.current >= 1, discussions' = [discussions EXCEPT ![i] = new],
         NEW to \in SUBSET Agents, NEW route, NEW round \in Nat, NEW parent \in Nat,
         \A b \in to : route[b] \in Routes \cup {NoRoute},
         parent # 0 => parent \in Fresh(i),
         msgs' = msgs \o Fanout(Orchestrator, to, route, i, round, parent),
         Len(msgs') <= MaxMessages,
         UNCHANGED <<receipts, cursor, dispatches, trusted, seats, policy>>
  PROVE  TalkStep
<1>1. /\ DiscussionTypeOK' /\ OneOpenDiscussion'
      /\ Len(discussions') = Len(discussions) /\ Len(discussions) \in Nat
      /\ \A j \in DOMAIN discussions : ~Open(j) => discussions'[j] = discussions[j]
      /\ \A j \in DOMAIN discussions' : discussions'[j].current >= 1
  BY OneChanges
<1>2. i \in 0..Len(discussions') /\ i # 0
  BY <1>1, TableDomain
<1>3. parent # 0 => parent \in DOMAIN msgs /\ msgs[parent].disc = i
  BY DEF Fresh, ResponsesOf
<1>4. /\ Grows
      /\ \A m \in Added :
           /\ TalkMessage(m)'
           /\ msgs'[m].disc = i /\ msgs'[m].parent = parent
      /\ \A m, n \in Added : msgs'[m].to = msgs'[n].to => m = n
  <2>1. Asked(to, route, i, round, parent)
    BY <1>1, <1>2, <1>3, PromptsAdded
  <2> QED BY <2>1 DEF Asked
<1>5. OneFollowUpEach'
  <2>1. SUFFICES ASSUME NEW m \in DOMAIN msgs', NEW n \in DOMAIN msgs',
                        msgs'[m].role = "prompt", msgs'[n].role = "prompt",
                        msgs'[m].parent # 0, msgs'[m].parent = msgs'[n].parent,
                        msgs'[m].to = msgs'[n].to
                 PROVE  m = n
    BY DEF OneFollowUpEach
  <2>2. \A k \in DOMAIN msgs : k \in DOMAIN msgs' /\ msgs'[k] = msgs[k]
    BY <1>4 DEF Grows
  <2>3. CASE m \in DOMAIN msgs /\ n \in DOMAIN msgs
    BY <2>1, <2>2, <2>3 DEF TalkInv, OneFollowUpEach
  <2>4. CASE m \in Added /\ n \in Added
    BY <1>4, <2>1, <2>4
  <2>5. ASSUME NEW old \in DOMAIN msgs, msgs[old].role = "prompt", msgs[old].parent = parent,
               parent # 0
        PROVE  FALSE
    <3>1. msgs[old].disc = i
      BY <1>3, <2>5 DEF TalkInv, TalkMessage
    <3> QED BY <2>5, <3>1 DEF Fresh, PromptsOf
  <2>6. CASE m \in DOMAIN msgs /\ n \in Added
    BY <1>4, <2>1, <2>2, <2>5, <2>6
  <2>7. CASE m \in Added /\ n \in DOMAIN msgs
    BY <1>4, <2>1, <2>2, <2>5, <2>7
  <2> QED BY <2>3, <2>4, <2>6, <2>7 DEF Added
<1>6. Len(discussions) <= Len(discussions')
  BY <1>1
<1> QED BY <1>1, <1>4, <1>5, <1>6, TalkMove

(***************************************************************************)
(* The coordinator.                                                        *)
(***************************************************************************)
\* What a response says, as a digest records it.
LEMMA SaidTyped ==
  ASSUME TalkInv, NEW R, \A r \in R : r \in DOMAIN msgs /\ msgs[r].role = "response"
  PROVE  {<<msgs[r].sender, msgs[r].text>> : r \in R} \in SUBSET (Agents \X Texts)
  BY ResponsesPrompt

\* Staleness counts.
LEMMA StaleTyped ==
  ASSUME TalkInv, NEW i \in DOMAIN discussions, NEW digest
  PROVE  Staleness(i, digest) \in Nat
<1>1. discussions[i].stale \in Nat
  BY TableDomain DEF DiscussionRow
<1> QED BY <1>1 DEF Staleness

\* A discussion whose seats have changed.
LEMMA LoseStep ==
  ASSUME TalkInv, NEW i \in DOMAIN discussions, Open(i), NEW processed \in Nat, NEW answers \in Nat,
         LoseParticipants(i, processed, answers),
         UNCHANGED <<receipts, cursor, trusted, seats, policy>>
  PROVE  TalkStep
<1> DEFINE new == LosingRow(i, processed, answers)
<1>1. discussions[i] \in DiscussionRow /\ discussions[i].current >= 1
  BY TableDomain DEF TalkInv
<1>2. new \in DiscussionRow /\ new.current >= 1
  <2> DEFINE d   == discussions[i]
             cnt == d.count + answers
  <2>1. d.count \in Nat
    BY <1>1 DEF DiscussionRow
  <2>2. cnt \in Nat
    <3> HIDE DEF d
    <3> QED BY <2>1
  <2>3. new = [d EXCEPT !.status = "waiting_human", !.processed = processed, !.count = cnt]
    BY DEF LosingRow
  <2> HIDE DEF d, cnt, new
  <2>4. d \in DiscussionRow /\ d.current >= 1
    BY <1>1 DEF d
  <2> QED BY <2>2, <2>3, <2>4 DEF DiscussionRow
<1>3. discussions' = [discussions EXCEPT ![i] = new] /\ dispatches' = Cancelled({i}) /\ UNCHANGED msgs
  BY DEF LoseParticipants
<1> HIDE DEF new
<1> QED BY <1>2, <1>3, OnlyOneChanges

\* The replies to prompts.
Replies(M) == {RowOf(m).reply : m \in M}

\* The replies to answered prompts are responses.
LEMMA RoundReplies ==
  ASSUME TalkInv, NEW M, \A m \in M : m \in DOMAIN msgs /\ msgs[m].role = "prompt"
                                     /\ RowOf(m).status = "completed"
  PROVE  \A r \in Replies(M) : r \in DOMAIN msgs /\ msgs[r].role = "response"
  BY AnsweredPrompt DEF Replies

\* What a round or an event may lead to.
LEMMA VerdictTyped ==
  /\ \A i, replies, failed, count, stale :
       RoundVerdict(i, replies, failed, count, stale) \in {"active", "waiting_human", "completed"}
  /\ \A i, m, count, stale :
       EventVerdict(i, m, count, stale) \in {"active", "waiting_human", "completed"}
  BY DEF RoundVerdict, EventVerdict

\* advance_discussions in rounds.
LEMMA RoundStep ==
  ASSUME TalkInv, NEW i \in DOMAIN discussions, AdvanceRound(i)
  PROVE  TalkStep
<1> DEFINE d        == discussions[i]
           prompts  == PromptsIn(i, d.current)
           answered == {m \in prompts : RowOf(m).status = "completed"}
           failed   == {m \in prompts : RowOf(m).status = "failed"}
           replies  == {RowOf(m).reply : m \in answered}
           said     == {<<msgs[r].sender, msgs[r].text>> : r \in replies}
           count    == d.count + Cardinality(answered)
           stale    == Staleness(i, said)
           verdict  == RoundVerdict(i, replies, failed, count, stale)
           next     == IF verdict = "active" THEN Participants(i) ELSE {}
           route    == [a \in next |-> seats[a]]
<1>1. /\ d \in DiscussionRow /\ d.current >= 1 /\ d.current \in Nat
      /\ Open(i) /\ i \in Nat /\ d.count \in Nat
  BY TableDomain DEF TalkInv, AdvanceRound, Open, DiscussionRow
<1>2. Cardinality(answered) \in Nat
  <2>1. answered \in SUBSET DOMAIN msgs
    BY DEF PromptsIn, PromptsOf
  <2> HIDE DEF answered
  <2> QED BY <2>1, FiniteLog DEF TalkInv
<1>3. UNCHANGED <<receipts, cursor, trusted, seats, policy>>
  BY DEF AdvanceRound
<1>4. CASE LoseParticipants(i, d.current, Cardinality(answered))
  <2> HIDE DEF d, answered
  <2> QED BY <1>1, <1>2, <1>3, <1>4, LoseStep
<1>5. CASE ~LoseParticipants(i, d.current, Cardinality(answered))
  <2> DEFINE new == [d EXCEPT !.status = verdict, !.processed = Processed(i),
                              !.current = IF verdict = "active" THEN NextRound(i) ELSE @,
                              !.count = count + Cardinality(next),
                              !.stale = stale, !.digest = said]
  <2>1. /\ ParticipantsPresent(i)
        /\ msgs' = msgs \o Fanout(Orchestrator, next, route, i, NextRound(i), 0)
        /\ Len(msgs') <= MaxMessages
        /\ discussions' = [discussions EXCEPT ![i] = new]
        /\ UNCHANGED dispatches
    BY <1>5 DEF AdvanceRound
  <2>2. said \in SUBSET (Agents \X Texts)
    <3>1. \A r \in replies : r \in DOMAIN msgs /\ msgs[r].role = "response"
      <4>1. \A m \in answered : m \in DOMAIN msgs /\ msgs[m].role = "prompt"
                                /\ RowOf(m).status = "completed"
        BY DEF PromptsIn, PromptsOf
      <4>2. replies = Replies(answered)
        BY DEF Replies
      <4> HIDE DEF answered, replies
      <4> QED BY <4>1, <4>2, RoundReplies
    <3> HIDE DEF replies
    <3> QED BY <3>1, SaidTyped
  <2>3. stale \in Nat
    <3> HIDE DEF said
    <3> QED BY StaleTyped
  <2>4. verdict \in {"active", "waiting_human", "completed"}
    <3> HIDE DEF replies, failed, count, stale
    <3> QED BY VerdictTyped
  <2>5. next \in SUBSET Agents /\ Cardinality(next) \in Nat
        /\ \A b \in next : route[b] \in Routes \cup {NoRoute}
    <3> HIDE DEF verdict
    <3> QED BY <2>1, ParticipantsTyped, FS_EmptySet
  <2>6. count + Cardinality(next) \in Nat
    <3> HIDE DEF d, answered, next
    <3> QED BY <1>1, <1>2, <2>5
  <2>7. new \in DiscussionRow /\ new.current >= 1
    <3>1. NextRound(i) \in Nat /\ NextRound(i) >= 1 /\ Processed(i) \in Nat
      BY <1>1 DEF NextRound, Processed
    <3> DEFINE cur == IF verdict = "active" THEN NextRound(i) ELSE d.current
               cnt == count + Cardinality(next)
    <3>2. new = [d EXCEPT !.status = verdict, !.processed = Processed(i), !.current = cur,
                          !.count = cnt, !.stale = stale, !.digest = said]
      OBVIOUS
    <3>3. cur \in Nat /\ cur >= 1 /\ cnt \in Nat
      BY <1>1, <2>6, <3>1
    <3> HIDE DEF d, new, verdict, stale, said, cur, cnt
    <3> QED BY <1>1, <2>2, <2>3, <2>4, <3>1, <3>2, <3>3 DEF DiscussionRow
  <2>8. NextRound(i) \in Nat
    BY <1>1 DEF NextRound
  <2> HIDE DEF new, next, route
  <2> QED BY <1>1, <1>3, <2>1, <2>5, <2>7, <2>8, PromptsStep
<1> QED BY <1>4, <1>5

\* The first of the fresh responses.
LEMMA FirstFresh ==
  ASSUME TalkInv, NEW i, Fresh(i) # {}
  PROVE  Min(Fresh(i)) \in Fresh(i)
<1>1. Fresh(i) \in SUBSET (1..Len(msgs)) /\ Len(msgs) \in Nat
  BY LogDomain DEF Fresh, ResponsesOf, TalkInv, MailInv
<1>2. \E x \in Fresh(i) : \A y \in Fresh(i) : x <= y
  BY <1>1, MinExists
<1> QED BY <1>2 DEF Min

\* _advance_free_discussion_locked.
LEMMA FreeStep ==
  ASSUME TalkInv, NEW i \in DOMAIN discussions, AdvanceFree(i)
  PROVE  TalkStep
<1> DEFINE d        == discussions[i]
           first    == Min(Fresh(i))
           said     == {<<msgs[first].sender, msgs[first].text>>}
           stale    == Staleness(i, said)
           verdict  == EventVerdict(i, first, d.count + 1, stale)
           next     == IF verdict = "active" THEN Participants(i) \ {msgs[first].sender} ELSE {}
           route    == [a \in next |-> seats[a]]
<1>1. /\ d \in DiscussionRow /\ d.current >= 1 /\ d.current \in Nat /\ d.processed \in Nat
      /\ Open(i) /\ i \in Nat /\ d.count \in Nat
  BY TableDomain DEF TalkInv, AdvanceFree, Open, DiscussionRow
<1>2. UNCHANGED <<receipts, cursor, trusted, seats, policy>>
  BY DEF AdvanceFree
<1>3. CASE LoseParticipants(i, d.processed, 0)
  <2> HIDE DEF d
  <2> QED BY <1>1, <1>2, <1>3, LoseStep
<1>4. CASE /\ discussions' = [discussions EXCEPT ![i].status = "waiting_human"]
           /\ UNCHANGED <<msgs, dispatches>>
  <2> DEFINE new == [d EXCEPT !.status = "waiting_human"]
  <2>1. new \in DiscussionRow /\ new.current >= 1
    BY <1>1 DEF DiscussionRow
  <2>2. discussions' = [discussions EXCEPT ![i] = new]
    BY <1>4
  <2> HIDE DEF new
  <2> QED BY <1>1, <1>2, <1>4, <2>1, <2>2, OnlyOneChanges
<1>5. CASE /\ ~LoseParticipants(i, d.processed, 0)
           /\ ~( /\ discussions' = [discussions EXCEPT ![i].status = "waiting_human"]
                 /\ UNCHANGED <<msgs, dispatches>>)
  <2> DEFINE cur == d.current + 1
             cnt == d.count + 1 + Cardinality(next)
             new == [d EXCEPT !.status = verdict, !.current = cur, !.processed = cur,
                              !.count = cnt, !.stale = stale, !.digest = said]
  <2>1. /\ ParticipantsPresent(i)
        /\ Fresh(i) # {}
        /\ msgs' = msgs \o Fanout(Orchestrator, next, route, i, d.current + 1, first)
        /\ Len(msgs') <= MaxMessages
        /\ discussions' = [discussions EXCEPT ![i] = new]
        /\ UNCHANGED dispatches
    BY <1>5 DEF AdvanceFree
  <2>2. first \in Fresh(i) /\ first \in DOMAIN msgs /\ msgs[first].role = "response"
    <3> HIDE DEF first
    <3>1. first \in Fresh(i)
      BY <2>1, FirstFresh DEF first
    <3> QED BY <3>1 DEF Fresh, ResponsesOf
  <2>3. first \in Nat
    BY <2>2, LogDomain DEF TalkInv, MailInv
  <2>4. said \in SUBSET (Agents \X Texts)
    <3> HIDE DEF first
    <3>1. msgs[first].sender \in Agents /\ msgs[first].text \in Texts
      BY <2>2, ResponsesPrompt
    <3> QED BY <3>1
  <2>5. stale \in Nat
    <3> HIDE DEF said
    <3> QED BY StaleTyped
  <2>6. verdict \in {"active", "waiting_human", "completed"}
    <3> HIDE DEF first, stale, d
    <3> QED BY VerdictTyped
  <2>7. next \in SUBSET Agents /\ Cardinality(next) \in Nat
        /\ \A b \in next : route[b] \in Routes \cup {NoRoute}
    <3> HIDE DEF verdict, first
    <3>1. Participants(i) \in SUBSET Agents /\ IsFiniteSet(Participants(i))
          /\ \A b \in Participants(i) : seats[b] \in Routes \cup {NoRoute}
      BY <2>1, ParticipantsTyped
    <3>2. next \in SUBSET Participants(i)
      OBVIOUS
    <3> HIDE DEF next
    <3>3. Cardinality(next) \in Nat
      BY <3>1, <3>2, FS_Subset, FS_CardinalityType
    <3> QED BY <3>1, <3>2, <3>3
  <2>8. cnt \in Nat /\ cur \in Nat /\ cur >= 1
    <3> HIDE DEF d, next
    <3> QED BY <1>1, <2>7
  <2>9. new \in DiscussionRow /\ new.current >= 1
    <3>1. new = [d EXCEPT !.status = verdict, !.current = cur, !.processed = cur,
                          !.count = cnt, !.stale = stale, !.digest = said]
      OBVIOUS
    <3> HIDE DEF d, new, verdict, stale, said, cur, cnt
    <3> QED BY <1>1, <2>4, <2>5, <2>6, <2>8, <3>1 DEF DiscussionRow
  <2>10. msgs' = msgs \o Fanout(Orchestrator, next, route, i, cur, first)
    BY <2>1
  <2> HIDE DEF new, next, route, first, cur
  <2> QED BY <1>1, <1>2, <2>1, <2>2, <2>3, <2>7, <2>8, <2>9, <2>10, PromptsStep
<1> QED BY <1>3, <1>4, <1>5

\* The least and the greatest of two.
LEMMA OfTwo ==
  ASSUME NEW a \in Nat, NEW b \in Nat
  PROVE  /\ Max({a, b}) = (IF a >= b THEN a ELSE b)
         /\ Min({a, b}) = (IF a <= b THEN a ELSE b)
<1>1. \E x \in {a, b} : \A y \in {a, b} : x >= y
  OBVIOUS
<1>2. Max({a, b}) \in {a, b} /\ \A y \in {a, b} : Max({a, b}) >= y
  BY <1>1 DEF Max
<1>3. \E x \in {a, b} : \A y \in {a, b} : x <= y
  OBVIOUS
<1>4. Min({a, b}) \in {a, b} /\ \A y \in {a, b} : Min({a, b}) <= y
  BY <1>3 DEF Min
<1> QED BY <1>2, <1>4

\* What a human continue allows.
LEMMA Raised ==
  ASSUME TalkInv, NEW i \in DOMAIN discussions, NEW extra \in ExtraRounds, NEW n \in Nat
  PROVE  /\ RaisedRounds(i, extra) \in Nat
         /\ RaisedMessages(i, n, extra) \in Nat
         /\ discussions[i].messages = 0 => RaisedMessages(i, n, extra) = 0
         /\ discussions[i].messages # 0
            /\ discussions[i].count + 2 * n <= AbsoluteMessages
            => discussions[i].count + 2 * n <= RaisedMessages(i, n, extra)
<1> DEFINE d == discussions[i]
<1>1. d.rounds \in Nat /\ d.messages \in Nat /\ d.current \in Nat /\ d.count \in Nat
  BY TableDomain DEF DiscussionRow
<1>2. extra \in Nat /\ extra >= 1 /\ AbsoluteRounds \in Nat /\ AbsoluteMessages \in Nat
  BY TalkAssumption
<1> DEFINE r == d.current + extra
           k == d.count + 2 * n * extra
           mr == IF d.rounds >= r THEN d.rounds ELSE r
           mk == IF d.messages >= k THEN d.messages ELSE k
<1>3. 2 * n * extra \in Nat /\ 2 * n * extra >= 2 * n
  BY <1>2
<1>4. r \in Nat /\ k \in Nat /\ d.count + 2 * n <= k
  <2> HIDE DEF d
  <2> DEFINE x == 2 * n * extra
  <2>1. x \in Nat /\ x >= 2 * n
    BY <1>3
  <2> HIDE DEF x
  <2>2. r \in Nat /\ d.count + x \in Nat /\ d.count + 2 * n <= d.count + x
    BY <1>1, <1>2, <2>1
  <2> QED BY <2>2 DEF x
<1> HIDE DEF d, r, k
<1>5. mr \in Nat /\ mk \in Nat
  BY <1>1, <1>4
<1>6. Max({d.rounds, r}) = mr /\ Max({d.messages, k}) = mk
  BY <1>1, <1>4, OfTwo
<1> HIDE DEF mr, mk
<1>7. /\ Min({AbsoluteRounds, mr}) = (IF AbsoluteRounds <= mr THEN AbsoluteRounds ELSE mr)
      /\ Min({AbsoluteMessages, mk}) = (IF AbsoluteMessages <= mk THEN AbsoluteMessages ELSE mk)
  BY <1>2, <1>5, OfTwo
<1>8. RaisedRounds(i, extra) = (IF d.rounds = 0 THEN 0 ELSE Min({AbsoluteRounds, mr}))
  BY <1>6 DEF RaisedRounds, d, r
<1>9. RaisedMessages(i, n, extra) = (IF d.messages = 0 THEN 0 ELSE Min({AbsoluteMessages, mk}))
  BY <1>6 DEF RaisedMessages, d, k
<1>10. d.count + 2 * n <= mk
  BY <1>1, <1>4 DEF mk
<1>11. RaisedRounds(i, extra) \in Nat /\ RaisedMessages(i, n, extra) \in Nat
  BY <1>2, <1>5, <1>7, <1>8, <1>9
<1>12. d.messages # 0 /\ d.count + 2 * n <= AbsoluteMessages
       => d.count + 2 * n <= RaisedMessages(i, n, extra)
  BY <1>2, <1>5, <1>7, <1>9, <1>10
<1> QED BY <1>9, <1>11, <1>12 DEF d

\* control_discussion: continue.
LEMMA ContinueStep ==
  ASSUME TalkInv, NEW i \in DOMAIN discussions, NEW extra \in ExtraRounds, Continue(i, extra)
  PROVE  TalkStep
<1> DEFINE d     == discussions[i]
           next  == Participants(i)
           route == [a \in next |-> seats[a]]
           n     == Cardinality(next)
           rounds == RaisedRounds(i, extra)
<1>1. /\ d \in DiscussionRow /\ d.current >= 1 /\ d.current \in Nat
      /\ Open(i) /\ i \in Nat /\ d.count \in Nat
  BY TableDomain DEF TalkInv, Continue, Open, DiscussionRow
<1>2. UNCHANGED <<receipts, cursor, dispatches, trusted, seats, policy>>
  BY DEF Continue
<1>3. next \in SUBSET Agents /\ n \in Nat
      /\ (ParticipantsPresent(i) => \A b \in next : seats[b] \in Routes \cup {NoRoute})
  BY ParticipantsTyped
<1>4. rounds \in Nat /\ RaisedMessages(i, n, extra) \in Nat
  BY <1>3, Raised
<1>5. CASE /\ discussions' = [discussions EXCEPT ![i] = [d EXCEPT !.status = "active", !.rounds = rounds]]
           /\ UNCHANGED msgs
  <2> DEFINE new == [d EXCEPT !.status = "active", !.rounds = rounds]
  <2>1. new \in DiscussionRow /\ new.current >= 1
    BY <1>1, <1>4 DEF DiscussionRow
  <2> HIDE DEF new
  <2>2. discussions' = [discussions EXCEPT ![i] = new]
    BY <1>5 DEF new
  <2> QED BY <1>1, <1>2, <1>5, <2>1, <2>2, OnlyOneChanges
<1>6. CASE ~ /\ discussions' = [discussions EXCEPT ![i] = [d EXCEPT !.status = "active", !.rounds = rounds]]
             /\ UNCHANGED msgs
  <2> DEFINE cur    == NextRound(i)
             budget == RaisedMessages(i, n, extra)
             cnt    == d.count + n
             new    == [d EXCEPT !.status = "active", !.current = cur, !.count = cnt,
                                 !.rounds = rounds, !.messages = budget]
  <2>1. /\ ParticipantsPresent(i)
        /\ msgs' = msgs \o Fanout(Orchestrator, next, route, i, cur, 0)
        /\ Len(msgs') <= MaxMessages
        /\ discussions' = [discussions EXCEPT ![i] = new]
    BY <1>6 DEF Continue
  <2>2. cur \in Nat /\ cur >= 1
    BY <1>1 DEF NextRound
  <2>3. cnt \in Nat
    <3> HIDE DEF d, n
    <3> QED BY <1>1, <1>3
  <2>4. new \in DiscussionRow /\ new.current >= 1
    <3>1. new = [d EXCEPT !.status = "active", !.current = cur, !.count = cnt,
                          !.rounds = rounds, !.messages = budget]
      OBVIOUS
    <3> HIDE DEF d, new, rounds, budget, cur, cnt
    <3>2. budget \in Nat
      BY <1>4 DEF budget
    <3> QED BY <1>1, <1>4, <2>2, <2>3, <3>1, <3>2 DEF DiscussionRow
  <2>5. \A b \in next : route[b] \in Routes \cup {NoRoute}
    BY <1>3, <2>1
  <2> HIDE DEF new, next, route, cur
  <2> QED BY <1>1, <1>2, <1>3, <2>1, <2>2, <2>4, <2>5, PromptsStep
<1> QED BY <1>5, <1>6

(***************************************************************************)
(* The operator's posts.                                                   *)
(***************************************************************************)
\* The seats a post goes to.
LEMMA SeatsTyped ==
  ASSUME TalkInv, NEW a
  PROVE  /\ SeatsBut(a) \in SUBSET Agents
         /\ \A b \in SeatsBut(a) : seats[b] \in Routes \cup {NoRoute}
         /\ IsFiniteSet(SeatsBut(a)) /\ Cardinality(SeatsBut(a)) \in Nat
<1>1. SeatsBut(a) \in SUBSET Agents
  BY DEF SeatsBut
<1>2. \A b \in SeatsBut(a) : seats[b] \in Routes \cup {NoRoute}
  BY DEF SeatsBut, Member, TalkInv, MailInv, MailTypeOK
<1>3. IsFiniteSet(SeatsBut(a)) /\ Cardinality(SeatsBut(a)) \in Nat
  BY <1>1, TalkAssumption, FS_Subset, FS_CardinalityType
<1> QED BY <1>1, <1>2, <1>3

\* The table with a new discussion that supersedes the open ones.
LEMMA NewTable ==
  ASSUME TalkInv, NEW n \in Nat,
         NEW opened, opened = {i \in DOMAIN discussions : Open(i)},
         Len(discussions) + 1 <= MaxDiscussions, UNCHANGED policy,
         discussions' = Append(Stopped(opened), NewDiscussion(n))
  PROVE  /\ DiscussionTypeOK' /\ OneOpenDiscussion'
         /\ Len(discussions) \in Nat /\ Len(discussions') = Len(discussions) + 1
         /\ DOMAIN discussions' = DOMAIN discussions \cup {Len(discussions')}
         /\ Len(discussions') \notin DOMAIN discussions
         /\ discussions'[Len(discussions')] = NewDiscussion(n)
         /\ \A i \in DOMAIN discussions :
              /\ Open(i) => discussions'[i] = [discussions[i] EXCEPT !.status = "stopped"]
              /\ ~Open(i) => discussions'[i] = discussions[i]
         /\ \A i \in DOMAIN discussions' : discussions'[i].current >= 1
<1> DEFINE old == Stopped(opened)
           row == NewDiscussion(n)
<1>1. /\ old \in Seq(DiscussionRow) /\ Len(old) = Len(discussions)
      /\ DOMAIN old = DOMAIN discussions
      /\ \A i \in DOMAIN discussions :
           /\ i \in opened => old[i] = [discussions[i] EXCEPT !.status = "stopped"]
           /\ i \notin opened => old[i] = discussions[i]
  BY StoppedTable
<1>2. row \in DiscussionRow /\ row.current = 1 /\ policy \in Policies
  <2>1. policy \in Policy /\ policy \in Policies
    BY TalkAssumption DEF TalkInv, DiscussionTypeOK
  <2>2. policy.rounds \in Nat /\ policy.messages \in Nat /\ policy.patience \in Nat
    BY <2>1 DEF Policy
  <2> QED BY <2>1, <2>2 DEF NewDiscussion, DiscussionRow
<1>3. Len(discussions) \in Nat /\ DOMAIN discussions = 1..Len(discussions)
      /\ \A i \in DOMAIN discussions : discussions[i] \in DiscussionRow /\ discussions[i].current >= 1
  BY TableDomain DEF TalkInv
<1> HIDE DEF old, row
<1>4. discussions' = Append(old, row)
  BY DEF old, row
<1>5. /\ discussions' \in Seq(DiscussionRow) /\ Len(discussions') = Len(old) + 1
      /\ \A i \in 1..Len(old) : discussions'[i] = old[i]
      /\ discussions'[Len(old) + 1] = row
  <2>1. old \in Seq(DiscussionRow) /\ row \in DiscussionRow
    BY <1>1, <1>2
  <2>2. /\ Append(old, row) \in Seq(DiscussionRow) /\ Len(Append(old, row)) = Len(old) + 1
        /\ \A i \in 1..Len(old) : Append(old, row)[i] = old[i]
        /\ Append(old, row)[Len(old) + 1] = row
    BY ONLY <2>1, AppendProperties
  <2> QED BY <1>4, <2>2
<1>6. DOMAIN discussions' = 1..(Len(discussions) + 1)
  BY <1>1, <1>5, LenProperties
<1>7. /\ DOMAIN discussions' = DOMAIN discussions \cup {Len(discussions')}
      /\ Len(discussions') \notin DOMAIN discussions
      /\ Len(discussions') = Len(discussions) + 1
  <2>1. Len(discussions') = Len(discussions) + 1
    BY <1>1, <1>5
  <2>2. \A k \in Nat : 1..(k + 1) = 1..k \cup {k + 1} /\ k + 1 \notin 1..k
    OBVIOUS
  <2>3. /\ 1..(Len(discussions) + 1) = 1..Len(discussions) \cup {Len(discussions) + 1}
        /\ Len(discussions) + 1 \notin 1..Len(discussions)
    BY <1>3, <2>2
  <2> QED BY <1>3, <1>6, <2>1, <2>3
<1>8. \A i \in DOMAIN discussions :
        /\ Open(i) => discussions'[i] = [discussions[i] EXCEPT !.status = "stopped"]
        /\ ~Open(i) => discussions'[i] = discussions[i]
  BY <1>1, <1>3, <1>5
<1>9. discussions'[Len(discussions')] = row
  BY <1>1, <1>5, <1>7
<1>10. \A i \in DOMAIN discussions :
         discussions'[i].status \notin {"active", "paused", "waiting_human"}
         /\ discussions'[i].current >= 1
  BY <1>3, <1>8 DEF Open, DiscussionRow
<1>11. OneOpenDiscussion'
  BY <1>7, <1>10 DEF OneOpenDiscussion, Open
<1>12. \A i \in DOMAIN discussions' : discussions'[i].current >= 1
  BY <1>2, <1>7, <1>9, <1>10
<1>13. DiscussionTypeOK'
  BY <1>2, <1>5, <1>7 DEF DiscussionTypeOK
<1> QED BY <1>3, <1>7, <1>8, <1>9, <1>11, <1>12, <1>13 DEF row

\* post_room_message.
LEMMA PostStep ==
  ASSUME TalkInv, NEW s \in Sessions, PostRoomMessage(s)
  PROVE  TalkStep
<1> DEFINE a      == AgentOf[s]
           to     == SeatsBut(a)
           opened == {i \in DOMAIN discussions : Open(i)}
           newest == Len(discussions) + 1
<1>1. UNCHANGED <<receipts, cursor, trusted, seats, policy>> /\ Len(msgs') <= MaxMessages
  BY DEF PostRoomMessage
<1>2. a \in Agents
  BY MailboxAssumption
<1>3. /\ to \in SUBSET Agents /\ IsFiniteSet(to) /\ Cardinality(to) \in Nat
      /\ \A b \in to : seats[b] \in Routes \cup {NoRoute}
  BY SeatsTyped
<1>4. Len(discussions) \in Nat /\ DOMAIN discussions = 1..Len(discussions)
  BY TableDomain
<1>5. ASSUME UNCHANGED <<dispatches, discussions>>, Grows,
             \A m \in Added : TalkMessage(m)' /\ msgs'[m].disc = 0 /\ msgs'[m].role = "none"
      PROVE  TalkStep
  <2>1. OneFollowUpEach'
    BY <1>5, NoFollowUp
  <2>2. DiscussionTypeOK' /\ OneOpenDiscussion'
    BY <1>1, <1>5 DEF TalkInv, DiscussionTypeOK, OneOpenDiscussion, Open
  <2>3. \A i \in DOMAIN discussions' : discussions'[i].current >= 1
    BY <1>5 DEF TalkInv
  <2>4. \A m \in Added : TalkMessage(m)' /\ msgs'[m].disc \notin DOMAIN discussions
    BY <1>4, <1>5
  <2> QED BY <1>1, <1>4, <1>5, <2>1, <2>2, <2>3, <2>4, TalkMove
<1>6. CASE policy.mode = "off"
  <2> DEFINE new == Prompt(a, a, NoRoute, 0, 0, 0)
  <2>1. msgs' = Append(msgs, new) /\ UNCHANGED <<dispatches, discussions>>
    BY <1>6 DEF PostRoomMessage
  <2>2. new \in Message /\ RoutedOK(new)
    BY <1>2, PromptTyped
  <2>3. new.disc = 0 /\ new.role = "none"
    BY DEF Prompt
  <2> HIDE DEF new
  <2>4. Added = {Len(msgs')} /\ msgs'[Len(msgs')] = new
    BY <2>1, OneAdded DEF TalkInv
  <2>5. Len(msgs) < MaxMessages
    <3>1. msgs \in Seq(Message) /\ Len(msgs) \in Nat
      BY LogDomain DEF TalkInv, MailInv, MailTypeOK
    <3>2. Len(msgs') = Len(msgs) + 1
      BY <2>1, <2>2, <3>1, AppendProperties
    <3> QED BY <1>1, <3>1, <3>2, MailboxAssumption
  <2>6. Grows
    BY <1>1, <2>1, <2>2, <2>5, LogAppended DEF TalkInv
  <2>7. \A m \in Added : TalkMessage(m)' /\ msgs'[m].disc = 0 /\ msgs'[m].role = "none"
    BY <1>4, <2>1, <2>3, <2>4 DEF TalkMessage
  <2> QED BY <1>5, <2>1, <2>6, <2>7
<1>7. CASE policy.mode = "once"
  <2>1. msgs' = msgs \o Fanout(a, to, seats, 0, 0, 0) /\ UNCHANGED <<dispatches, discussions>>
    BY <1>7 DEF PostRoomMessage
  <2> HIDE DEF to
  <2>2. Asked(to, seats, 0, 0, 0)
    <3>1. Len(discussions') \in Nat /\ 0 \in 0..Len(discussions') /\ 0 \in Nat
      BY <1>4, <2>1
    <3> HIDE DEF a
    <3> QED BY <1>1, <1>2, <1>3, <2>1, <3>1, PromptsAdded
  <2>3. Grows /\ \A m \in Added : TalkMessage(m)' /\ msgs'[m].disc = 0 /\ msgs'[m].role = "none"
    BY <2>2 DEF Asked
  <2> QED BY <1>5, <2>1, <2>3
<1>8. CASE policy.mode \in {"discussion", "free"}
  <2>1. /\ newest <= MaxDiscussions
        /\ msgs' = msgs \o Fanout(a, to, seats, newest, 1, 0)
        /\ dispatches' = Cancelled(opened)
        /\ discussions' = Append(Stopped(opened), NewDiscussion(Cardinality(to)))
    BY <1>8 DEF PostRoomMessage
  <2> HIDE DEF to, opened
  <2>2. /\ DiscussionTypeOK' /\ OneOpenDiscussion'
        /\ Len(discussions') = Len(discussions) + 1
        /\ Len(discussions') \notin DOMAIN discussions
        /\ \A i \in DOMAIN discussions : ~Open(i) => discussions'[i] = discussions[i]
        /\ \A i \in DOMAIN discussions' : discussions'[i].current >= 1
    BY <1>1, <1>3, <2>1, NewTable DEF opened
  <2>3. newest \in 0..Len(discussions') /\ Len(discussions') \in Nat
        /\ Len(discussions) <= Len(discussions') /\ newest \notin DOMAIN discussions
    BY <1>4, <2>2
  <2>4. Asked(to, seats, newest, 1, 0)
    <3> HIDE DEF newest
    <3> QED BY <1>1, <1>2, <1>3, <2>1, <2>3, PromptsAdded
  <2>5. /\ Grows
        /\ \A m \in Added : TalkMessage(m)' /\ msgs'[m].disc = newest /\ msgs'[m].parent = 0
    BY <2>4 DEF Asked
  <2>6. OneFollowUpEach'
    BY <2>5, NoFollowUp
  <2>7. \A m \in Added : msgs'[m].disc \notin DOMAIN discussions
    BY <2>3, <2>5
  <2> QED BY <1>1, <2>1, <2>2, <2>3, <2>5, <2>6, <2>7, TalkMove
<1> QED BY <1>6, <1>7, <1>8 DEF PostRoomMessage

(***************************************************************************)
(* The room.                                                               *)
(***************************************************************************)
\* A room starts without messages.
LEMMA TalkStart ==
  ASSUME TalkInit
  PROVE  TalkInv
<1>1. MailInv
  BY MailStart DEF TalkInit
<1>2. msgs = <<>> /\ dispatches = <<>> /\ discussions = <<>> /\ policy \in Policies
  BY DEF TalkInit, Init
<1>3. DOMAIN msgs = {} /\ DOMAIN dispatches = {} /\ DOMAIN discussions = {}
      /\ Len(discussions) = 0 /\ discussions \in Seq(DiscussionRow)
  BY <1>2
<1>4. DiscussionTypeOK
  BY <1>2, <1>3, TalkAssumption DEF DiscussionTypeOK
<1> QED BY <1>1, <1>3, <1>4 DEF TalkInv, OneOpenDiscussion, OneFollowUpEach

\* A command of the room's manager.
LEMMA ManageStep ==
  ASSUME TalkInv, Manage
  PROVE  TalkStep
<1>1. ASSUME NEW p \in Policies, SetRoomAutomation(p)
      PROVE  TalkStep
  BY <1>1, PolicyStep
<1>2. ASSUME NEW i \in DOMAIN discussions, Pause(i) \/ Resume(i)
      PROVE  TalkStep
  BY <1>2, PauseStep
<1>3. ASSUME NEW i \in DOMAIN discussions, Stop(i)
      PROVE  TalkStep
  BY <1>3, StopStep
<1>4. ASSUME NEW i \in DOMAIN discussions, NEW extra \in ExtraRounds, Continue(i, extra)
      PROVE  TalkStep
  BY <1>4, ContinueStep
<1> QED BY <1>1, <1>2, <1>3, <1>4 DEF Manage

\* Every step of the room.
LEMMA TalkNextStep ==
  ASSUME TalkInv, TalkNext
  PROVE  TalkStep
<1>1. CASE Next /\ UNCHANGED policy
  <2>1. MailMove
    BY <1>1, TalkMail
  <2>2. TalkInv' /\ CloseStep
    BY <1>1, <2>1, MailMoveKeeps
  <2>3. Grows /\ SettledStep
    BY <2>1 DEF MailMove, MailStep
  <2> QED BY <2>2, <2>3 DEF TalkStep
<1>2. ASSUME NEW s \in Sessions, PostRoomMessage(s)
      PROVE  TalkStep
  BY <1>2, PostStep
<1>3. ASSUME NEW i \in DOMAIN discussions, Advance(i)
      PROVE  TalkStep
  BY <1>3, RoundStep, FreeStep DEF Advance
<1>4. CASE Manage
  BY <1>4, ManageStep
<1> QED BY <1>1, <1>2, <1>3, <1>4 DEF TalkNext

\* Nothing happens.
LEMMA TalkStutter ==
  ASSUME TalkInv, UNCHANGED talkVars
  PROVE  TalkStep
<1>1. Grows /\ Added = {} /\ OneFollowUpEach'
  BY NoMessages DEF talkVars, mailVars
<1>2. DiscussionTypeOK' /\ OneOpenDiscussion'
  BY DEF TalkInv, DiscussionTypeOK, OneOpenDiscussion, Open, talkVars, mailVars
<1>3. \A i \in DOMAIN discussions' : discussions'[i].current >= 1
  BY DEF TalkInv, talkVars, mailVars
<1>4. Len(discussions) <= Len(discussions')
  BY TableDomain DEF talkVars, mailVars
<1> QED BY <1>1, <1>2, <1>3, <1>4, TalkMove DEF talkVars, mailVars

\* The inductive invariant of the room, in rounds and in free mode, whatever
\* the commands, the members and the policies of the room.
THEOREM TalkInvariant == TalkSpec => []TalkInv
<1>1. TalkInit => TalkInv
  BY TalkStart
<1>2. TalkInv /\ [TalkNext]_talkVars => TalkInv'
  BY TalkNextStep, TalkStutter DEF TalkStep
<1> QED BY <1>1, <1>2, PTL DEF TalkSpec

\* The discussions and the policy keep their types.
THEOREM DiscussionTypes == TalkSpec => []DiscussionTypeOK
<1>1. TalkInv => DiscussionTypeOK
  BY DEF TalkInv
<1> QED BY <1>1, TalkInvariant, PTL

\* Posts, supersessions, commands and policy changes leave at most one
\* discussion of the room open.
THEOREM OneDiscussionOpen == TalkSpec => []OneOpenDiscussion
<1>1. TalkInv => OneOpenDiscussion
  BY DEF TalkInv
<1> QED BY <1>1, TalkInvariant, PTL

\* However often the coordinator comes back to a response, before or after it
\* has been followed up, nobody is asked about it twice.
THEOREM OneFollowUp == TalkSpec => []OneFollowUpEach
<1>1. TalkInv => OneFollowUpEach
  BY DEF TalkInv
<1> QED BY <1>1, TalkInvariant, PTL

\* A closed discussion takes in no answer and no prompt and changes no more.
THEOREM ClosedTakesNothing == TalkSpec => NothingAfterClose
<1>1. TalkInv /\ [TalkNext]_talkVars =>
        [\A i \in DOMAIN discussions :
           ~Open(i) => discussions'[i] = discussions[i] /\ MessagesOf(i)' = MessagesOf(i)]_talkVars
  BY TalkNextStep DEF TalkStep, CloseStep
<1> QED BY <1>1, TalkInvariant, PTL DEF TalkSpec, NothingAfterClose

\* What the mailbox promises of cursors and answers holds with rooms too, whose
\* commands and coordinator write rows and messages of their own.
THEOREM RoomKeepsMailbox == TalkSpec => [](CursorContiguous /\ CompletedIsAnswered)
<1>1. TalkInv => CursorContiguous /\ CompletedIsAnswered
  BY AnswersAreOwn DEF TalkInv, MailInv
<1> QED BY <1>1, TalkInvariant, PTL

\* So does what it promises of outcomes: cancelling the prompts of a discussion
\* never touches one that is settled.
THEOREM RoomKeepsOutcomes == TalkSpec => SettledForGood
<1>1. TalkInv /\ [TalkNext]_talkVars =>
        [\A key \in DOMAIN dispatches : Terminal(dispatches[key]) =>
           /\ key \in DOMAIN dispatches'
           /\ dispatches'[key].status = dispatches[key].status
           /\ dispatches'[key].attempt = dispatches[key].attempt
           /\ dispatches'[key].reply = dispatches[key].reply]_mailVars
  BY TalkNextStep DEF TalkStep, SettledStep, talkVars, mailVars
<1> QED BY <1>1, TalkInvariant, PTL DEF TalkSpec, SettledForGood

(***************************************************************************)
(* Rounds: what a step keeps.                                              *)
(***************************************************************************)
\* A settled prompt stays settled.
LEMMA PromptSettled ==
  ASSUME Grows, SettledStep, NEW m \in DOMAIN msgs, Terminal(RowOf(m))
  PROVE  Terminal(RowOf(m))'
<1> DEFINE key == <<m, msgs[m].to>>
<1>1. key \in DOMAIN dispatches /\ Terminal(dispatches[key])
  BY DEF RowOf, Row, NoDispatch, Terminal
<1>2. key \in DOMAIN dispatches' /\ dispatches'[key].status = dispatches[key].status
  BY <1>1 DEF SettledStep
<1>3. msgs'[m] = msgs[m]
  BY DEF Grows
<1> QED BY <1>1, <1>2, <1>3 DEF RowOf, Row, Terminal

\* The messages of a discussion are its prompts and its responses.
LEMMA PromptsAndResponses ==
  ASSUME TalkInv, NEW i \in DOMAIN discussions
  PROVE  /\ MessagesOf(i) = PromptsOf(i) \cup ResponsesOf(i)
         /\ PromptsOf(i) \cap ResponsesOf(i) = {}
         /\ MessagesOf(i) \in SUBSET DOMAIN msgs
<1>1. i # 0
  BY TableDomain
<1>2. \A m \in MessagesOf(i) : msgs[m].role \in {"prompt", "response"}
  <2> SUFFICES ASSUME NEW m \in MessagesOf(i) PROVE msgs[m].role \in {"prompt", "response"}
    OBVIOUS
  <2>1. m \in DOMAIN msgs /\ msgs[m].disc # 0 /\ msgs[m] \in Message
    BY <1>1, LogDomain DEF MessagesOf, TalkInv, MailInv
  <2>2. TalkMessage(m)
    BY <2>1 DEF TalkInv
  <2> QED BY <2>1, <2>2 DEF TalkMessage, Message
<1> QED BY <1>2 DEF MessagesOf, PromptsOf, ResponsesOf

\* The prompts and responses of i are those there were.
TalkKept(i) ==
  /\ PromptsOf(i)' = PromptsOf(i) /\ ResponsesOf(i)' = ResponsesOf(i)
  /\ MessagesOf(i)' = MessagesOf(i)
  /\ \A round : PromptsIn(i, round)' = PromptsIn(i, round)
  /\ Participants(i)' = Participants(i)
  /\ \A m \in MessagesOf(i) : m \in DOMAIN msgs /\ msgs'[m] = msgs[m]
  /\ PromptsOf(i) \subseteq MessagesOf(i) /\ ResponsesOf(i) \subseteq MessagesOf(i)
  /\ \A m \in PromptsOf(i) : Terminal(RowOf(m)) => Terminal(RowOf(m))'

\* A step that adds no message of i.
LEMMA SameTalk ==
  ASSUME Grows, SettledStep, NEW i, \A m \in Added : msgs'[m].disc # i
  PROVE  TalkKept(i)
<1>1. \A m \in DOMAIN msgs : m \in DOMAIN msgs' /\ msgs'[m] = msgs[m]
  BY DEF Grows
<1>2. PromptsOf(i)' = PromptsOf(i) /\ ResponsesOf(i)' = ResponsesOf(i)
      /\ MessagesOf(i)' = MessagesOf(i)
  BY <1>1 DEF PromptsOf, ResponsesOf, MessagesOf, Added
<1>3. \A m \in MessagesOf(i) : m \in DOMAIN msgs /\ msgs'[m] = msgs[m]
  BY <1>1 DEF MessagesOf
<1>4. PromptsOf(i) \subseteq MessagesOf(i) /\ ResponsesOf(i) \subseteq MessagesOf(i)
  BY DEF PromptsOf, ResponsesOf, MessagesOf
<1>5. \A round : PromptsIn(i, round)' = PromptsIn(i, round)
  BY <1>2, <1>3, <1>4 DEF PromptsIn
<1>6. Participants(i)' = Participants(i)
  <2>1. PromptsIn(i, 1)' = PromptsIn(i, 1)
    BY <1>5
  <2>2. \A m \in PromptsIn(i, 1) : msgs'[m] = msgs[m]
    BY <1>3, <1>4 DEF PromptsIn
  <2> QED BY <2>1, <2>2 DEF Participants
<1>7. \A m \in PromptsOf(i) : Terminal(RowOf(m)) => Terminal(RowOf(m))'
  BY <1>3, <1>4, PromptSettled
<1> QED BY <1>2, <1>3, <1>4, <1>5, <1>6, <1>7 DEF TalkKept

\* The seats of the rounds, when the current round stays the current one.
LEMMA SeatsKept ==
  ASSUME NEW i \in DOMAIN discussions, TalkKept(i), RoundSeats(i),
         discussions'[i].current = discussions[i].current,
         "continue" \in Commands => seats' = seats
  PROVE  RoundSeats(i)'
<1> DEFINE d == discussions[i]
<1>1. /\ PromptsOf(i)' = PromptsOf(i) /\ Participants(i)' = Participants(i)
      /\ \A round : PromptsIn(i, round)' = PromptsIn(i, round)
      /\ \A m \in PromptsOf(i) : msgs'[m] = msgs[m]
  BY DEF TalkKept
<1>2. ASSUME NEW round \in 1..d.current
      PROVE  {msgs'[m].to : m \in PromptsIn(i, round)'} = Participants(i)'
  <2>1. \A m \in PromptsIn(i, round) : msgs'[m] = msgs[m]
    BY <1>1 DEF PromptsIn
  <2>2. {msgs[m].to : m \in PromptsIn(i, round)} = Participants(i)
    BY DEF RoundSeats
  <2>3. PromptsIn(i, round)' = PromptsIn(i, round)
    BY <1>1
  <2> QED BY <1>1, <2>1, <2>2, <2>3
<1>3. \A m, n \in PromptsOf(i)' :
        msgs'[m].round = msgs'[n].round /\ msgs'[m].to = msgs'[n].to => m = n
  BY <1>1 DEF RoundSeats
<1>4. "continue" \in Commands => \A m \in PromptsOf(i)' : msgs'[m].route = seats'[msgs'[m].to]
  BY <1>1 DEF RoundSeats
<1> QED BY <1>2, <1>3, <1>4 DEF RoundSeats

\* Rounds that a step leaves alone, except that it may close the discussion.
LEMMA RoundsUntouched ==
  ASSUME NEW i \in DOMAIN discussions, TalkKept(i), RoundsOK(i),
         discussions'[i].current = discussions[i].current,
         discussions'[i].processed = discussions[i].processed,
         discussions'[i].count = discussions[i].count,
         discussions'[i].messages = discussions[i].messages,
         Open(i)' => Open(i),
         discussions'[i].status \in {"active", "paused"} =>
           discussions[i].processed < discussions[i].current,
         "continue" \in Commands => seats' = seats
  PROVE  RoundsOK(i)'
<1> DEFINE d == discussions[i]
<1>1. /\ PromptsOf(i)' = PromptsOf(i) /\ ResponsesOf(i)' = ResponsesOf(i)
      /\ MessagesOf(i)' = MessagesOf(i) /\ Participants(i)' = Participants(i)
      /\ \A round : PromptsIn(i, round)' = PromptsIn(i, round)
      /\ \A m \in MessagesOf(i) : msgs'[m] = msgs[m]
      /\ \A m \in PromptsOf(i) : m \in MessagesOf(i) /\ msgs'[m] = msgs[m]
      /\ \A m \in ResponsesOf(i) : msgs'[m] = msgs[m]
      /\ \A m \in PromptsOf(i) : Terminal(RowOf(m)) => Terminal(RowOf(m))'
  BY DEF TalkKept
<1>2. RoundNumbers(i)'
  <2>1. RoundNumbers(i)
    BY DEF RoundsOK
  <2> QED BY <1>1, <2>1 DEF RoundNumbers
<1>3. RoundSeats(i)'
  <2>1. RoundSeats(i)
    BY DEF RoundsOK
  <2> QED BY <2>1, SeatsKept
<1>4. RoundsSettled(i)'
  <2>1. RoundsSettled(i)
    BY DEF RoundsOK
  <2>2. \A m \in PromptsOf(i) : Past(i, msgs[m].round)' => Past(i, msgs[m].round)
    BY <1>1 DEF Past
  <2>3. ASSUME Open(i)', NEW m \in PromptsOf(i), Past(i, msgs[m].round)'
        PROVE  Terminal(RowOf(m))'
    BY <1>1, <2>1, <2>2, <2>3 DEF RoundsSettled
  <2>4. \A r \in ResponsesOf(i)', p \in PromptsOf(i)' : msgs'[r].round < msgs'[p].round => r < p
    BY <1>1, <2>1 DEF RoundsSettled
  <2> QED BY <1>1, <2>3, <2>4 DEF RoundsSettled
<1>5. RoundsCounted(i)'
  <2>1. Counted(i)' = Counted(i)
    BY <1>1 DEF Counted
  <2>2. RoundsCounted(i)
    BY DEF RoundsOK
  <2> QED BY <1>1, <2>1, <2>2 DEF RoundsCounted
<1> QED BY <1>2, <1>3, <1>4, <1>5 DEF RoundsOK

(***************************************************************************)
(* Rounds: what has been counted.                                          *)
(***************************************************************************)
\* Two finite sets whose members correspond have the same size.
LEMMA SameSize ==
  ASSUME NEW S, IsFiniteSet(S), NEW T, NEW f \in [S -> T],
         \A x, y \in S : f[x] = f[y] => x = y,
         \A z \in T : \E x \in S : f[x] = z
  PROVE  IsFiniteSet(T) /\ Cardinality(T) = Cardinality(S)
<1>1. f \in Bijection(S, T)
  BY DEF Bijection, Injection, IsInjective, Surjection
<1>2. ExistsBijection(S, T)
  BY <1>1 DEF ExistsBijection
<1> QED BY <1>2, FS_Bijection

\* A round has one prompt for each seat.
LEMMA PromptsOfRound ==
  ASSUME TalkInv, NEW i \in DOMAIN discussions, RoundSeats(i),
         NEW round \in 1..discussions[i].current
  PROVE  /\ IsFiniteSet(PromptsIn(i, round))
         /\ Cardinality(PromptsIn(i, round)) = Cardinality(Participants(i))
<1> DEFINE S == PromptsIn(i, round)
           f == [m \in S |-> msgs[m].to]
<1>1. S \in SUBSET DOMAIN msgs
  BY DEF PromptsIn, PromptsOf
<1>2. IsFiniteSet(S)
  BY <1>1, FiniteLog DEF TalkInv
<1>3. {msgs[m].to : m \in S} = Participants(i)
  BY DEF RoundSeats
<1>4. f \in [S -> Participants(i)]
  BY <1>3
<1>5. \A x, y \in S : f[x] = f[y] => x = y
  BY DEF RoundSeats, PromptsIn
<1>6. \A z \in Participants(i) : \E x \in S : f[x] = z
  BY <1>3
<1> HIDE DEF S, f
<1>7. Cardinality(Participants(i)) = Cardinality(S)
  BY <1>2, <1>4, <1>5, <1>6, SameSize
<1> QED BY <1>2, <1>7 DEF S

\* The prompts of a round that have been answered, and the answers.
AnsweredIn(i, round) == {m \in PromptsIn(i, round) : RowOf(m).status = "completed"}

ResponsesIn(i, round) == {r \in ResponsesOf(i) : msgs[r].round = round}

\* The responses of a round are the replies to its answered prompts.
LEMMA ResponsesOfRound ==
  ASSUME TalkInv, NEW i, NEW round
  PROVE  /\ IsFiniteSet(ResponsesIn(i, round)) /\ IsFiniteSet(AnsweredIn(i, round))
         /\ Cardinality(ResponsesIn(i, round)) = Cardinality(AnsweredIn(i, round))
         /\ Replies(AnsweredIn(i, round)) = ResponsesIn(i, round)
<1> DEFINE S == AnsweredIn(i, round)
           T == ResponsesIn(i, round)
           f == [m \in S |-> RowOf(m).reply]
<1>1. S \in SUBSET DOMAIN msgs /\ T \in SUBSET DOMAIN msgs
  BY DEF AnsweredIn, ResponsesIn, ResponsesOf, PromptsIn, PromptsOf
<1>2. IsFiniteSet(S) /\ IsFiniteSet(T)
  BY <1>1, FiniteLog DEF TalkInv
<1>3. ASSUME NEW m \in S
      PROVE  f[m] \in T /\ msgs[f[m]].parent = m /\ f[m] = RowOf(m).reply
  <2>1. /\ m \in DOMAIN msgs /\ msgs[m].role = "prompt" /\ msgs[m].disc = i
        /\ msgs[m].round = round /\ RowOf(m).status = "completed" /\ f[m] = RowOf(m).reply
    BY DEF AnsweredIn, PromptsIn, PromptsOf
  <2> HIDE DEF f, S
  <2>2. /\ f[m] \in DOMAIN msgs /\ msgs[f[m]].disc = i /\ msgs[f[m]].round = round
        /\ msgs[f[m]].role = "response" /\ msgs[f[m]].parent = m
    BY <2>1, AnsweredPrompt
  <2> QED BY <2>1, <2>2 DEF ResponsesIn, ResponsesOf
<1>4. ASSUME NEW r \in T
      PROVE  \E m \in S : f[m] = r
  <2>1. r \in DOMAIN msgs /\ msgs[r].role = "response" /\ msgs[r].disc = i /\ msgs[r].round = round
    BY DEF ResponsesIn, ResponsesOf
  <2>2. PICK m : m = msgs[r].parent
    OBVIOUS
  <2>3. /\ m \in DOMAIN msgs /\ msgs[m].role = "prompt" /\ msgs[m].disc = i
        /\ msgs[m].round = round /\ RowOf(m).status = "completed" /\ RowOf(m).reply = r
    BY <2>1, <2>2, ResponsesPrompt
  <2>4. m \in S
    BY <2>3 DEF AnsweredIn, PromptsIn, PromptsOf
  <2> QED BY <2>3, <2>4
<1>5. f \in [S -> T]
  BY <1>3
<1>6. \A x, y \in S : f[x] = f[y] => x = y
  BY <1>3
<1>7. Replies(S) = T
  BY <1>3, <1>4 DEF Replies
<1> HIDE DEF S, T, f
<1>8. Cardinality(T) = Cardinality(S)
  BY <1>2, <1>4, <1>5, <1>6, SameSize
<1> QED BY <1>2, <1>7, <1>8 DEF S, T

\* A round that has not been processed: the answers to it are not counted yet,
\* and there are no more of them than seats.
LEMMA RoundUncounted ==
  ASSUME TalkInv, NEW i \in DOMAIN discussions, RoundsOK(i),
         discussions[i].processed < discussions[i].current,
         NEW n, n = Cardinality(AnsweredIn(i, discussions[i].current))
  PROVE  /\ n \in Nat /\ n <= Cardinality(Participants(i))
         /\ Cardinality(MessagesOf(i)) = discussions[i].count + n
<1> DEFINE d == discussions[i]
           R == ResponsesIn(i, d.current)
           A == AnsweredIn(i, d.current)
           P == PromptsIn(i, d.current)
<1>1. d.current \in Nat /\ d.current >= 1 /\ d.processed \in Nat /\ d.processed = d.current - 1
  <2>1. d \in DiscussionRow /\ d.current >= 1
    BY TableDomain DEF TalkInv
  <2>2. d.processed \in {d.current - 1, d.current}
    BY DEF RoundsOK, RoundNumbers
  <2> QED BY <2>1, <2>2 DEF DiscussionRow
<1>2. IsFiniteSet(R) /\ IsFiniteSet(A) /\ Cardinality(R) = Cardinality(A)
  <2> HIDE DEF d
  <2> QED BY ResponsesOfRound
<1>3. IsFiniteSet(P) /\ Cardinality(P) = Cardinality(Participants(i))
  BY <1>1, PromptsOfRound DEF RoundsOK
<1>4. A \in SUBSET P
  BY DEF AnsweredIn
<1>5. n \in Nat /\ n <= Cardinality(Participants(i))
  <2> HIDE DEF A, P
  <2>1. n = Cardinality(A)
    BY DEF A
  <2> QED BY <1>2, <1>3, <1>4, <2>1, FS_Subset, FS_CardinalityType
<1>6. MessagesOf(i) = Counted(i) \cup R /\ Counted(i) \cap R = {}
  <2>1. /\ MessagesOf(i) = PromptsOf(i) \cup ResponsesOf(i)
        /\ PromptsOf(i) \cap ResponsesOf(i) = {}
    BY PromptsAndResponses
  <2>2. \A m \in MessagesOf(i) : msgs[m].round \in 1..d.current
    BY DEF RoundsOK, RoundNumbers
  <2>3. \A m \in MessagesOf(i) : msgs[m].round <= d.processed \/ msgs[m].round = d.current
    <3> HIDE DEF d
    <3> QED BY <1>1, <2>2
  <2>4. \A m \in R : ~(msgs[m].round <= d.processed)
    BY <1>1 DEF ResponsesIn
  <2> QED BY <2>1, <2>3, <2>4 DEF Counted, ResponsesIn
<1>7. IsFiniteSet(Counted(i)) /\ Cardinality(Counted(i)) \in Nat
  <2>1. Counted(i) \in SUBSET DOMAIN msgs
    BY DEF Counted, PromptsOf, ResponsesOf
  <2> QED BY <2>1, FiniteLog DEF TalkInv
<1>8. d.count = Cardinality(Counted(i))
  BY DEF RoundsOK, RoundsCounted
<1> HIDE DEF R, A, P
<1>9. Cardinality(MessagesOf(i)) = Cardinality(Counted(i)) + Cardinality(R)
  <2>1. Cardinality(R) \in Nat /\ Cardinality(Counted(i) \cap R) = 0
    BY <1>2, <1>6, FS_CardinalityType, FS_EmptySet
  <2>2. Cardinality(Counted(i) \cup R)
          = Cardinality(Counted(i)) + Cardinality(R) - Cardinality(Counted(i) \cap R)
    BY <1>2, <1>7, FS_Union
  <2>3. MessagesOf(i) = Counted(i) \cup R
    BY <1>6
  <2> QED BY <1>7, <2>1, <2>2, <2>3
<1>10. n = Cardinality(R)
  BY <1>2 DEF A
<1> QED BY <1>5, <1>8, <1>9, <1>10

\* After a round has been processed everything is counted.
LEMMA RoundCounted ==
  ASSUME TalkInv, NEW i \in DOMAIN discussions, RoundsOK(i),
         discussions[i].processed >= discussions[i].current
  PROVE  /\ discussions[i].processed = discussions[i].current
         /\ Counted(i) = MessagesOf(i)
         /\ Cardinality(MessagesOf(i)) = discussions[i].count
<1>1. discussions[i] \in DiscussionRow /\ discussions[i].current \in Nat
  BY TableDomain DEF DiscussionRow
<1>2. discussions[i].processed = discussions[i].current
  BY <1>1 DEF RoundsOK, RoundNumbers
<1>3. \A m \in MessagesOf(i) : msgs[m].round <= discussions[i].processed
  BY <1>1, <1>2 DEF RoundsOK, RoundNumbers
<1>4. Counted(i) = MessagesOf(i)
  BY <1>3, PromptsAndResponses DEF Counted
<1> QED BY <1>2, <1>4 DEF RoundsOK, RoundsCounted

(***************************************************************************)
(* Rounds: the next one, and the end of one.                               *)
(***************************************************************************)
\* A round that has been processed and is not followed by another one.
LEMMA RoundEnded ==
  ASSUME TalkInv, NEW i \in DOMAIN discussions, TalkKept(i), RoundsOK(i), Open(i),
         discussions[i].processed < discussions[i].current,
         discussions'[i].current = discussions[i].current,
         discussions'[i].processed = discussions[i].current,
         discussions'[i].count = Cardinality(MessagesOf(i)),
         discussions'[i].messages = discussions[i].messages,
         discussions'[i].status \notin {"active", "paused"},
         "continue" \in Commands =>
           seats' = seats /\ \A m \in PromptsOf(i) : Terminal(RowOf(m))
  PROVE  RoundsOK(i)'
<1> DEFINE d == discussions[i]
           n == Cardinality(AnsweredIn(i, d.current))
<1>1. /\ PromptsOf(i)' = PromptsOf(i) /\ ResponsesOf(i)' = ResponsesOf(i)
      /\ MessagesOf(i)' = MessagesOf(i) /\ Participants(i)' = Participants(i)
      /\ \A m \in MessagesOf(i) : msgs'[m] = msgs[m]
      /\ \A m \in PromptsOf(i) : m \in MessagesOf(i) /\ msgs'[m] = msgs[m]
      /\ \A m \in ResponsesOf(i) : m \in MessagesOf(i) /\ msgs'[m] = msgs[m]
      /\ \A m \in PromptsOf(i) : Terminal(RowOf(m)) => Terminal(RowOf(m))'
  BY DEF TalkKept
<1>2. RoundNumbers(i) /\ RoundSeats(i) /\ RoundsSettled(i) /\ RoundsCounted(i)
  BY DEF RoundsOK
<1>3. /\ d.current \in Nat /\ d.count \in Nat /\ d.messages \in Nat
      /\ \A m \in MessagesOf(i) : msgs[m].round \in 1..d.current
  <2>1. d \in DiscussionRow
    BY TableDomain
  <2> QED BY <1>2, <2>1 DEF DiscussionRow, RoundNumbers
<1>4. RoundNumbers(i)'
  BY <1>1, <1>3 DEF RoundNumbers
<1>5. RoundSeats(i)'
  BY <1>2, SeatsKept
<1>6. RoundsSettled(i)'
  <2>1. ASSUME NEW m \in PromptsOf(i), Past(i, msgs[m].round)'
        PROVE  Terminal(RowOf(m))'
    <3>1. CASE "continue" \in Commands
      BY <1>1, <3>1
    <3>2. CASE "continue" \notin Commands
      <4>1. Past(i, msgs[m].round)
        BY <1>1, <2>1, <3>2 DEF Past
      <4> QED BY <1>1, <1>2, <4>1 DEF RoundsSettled
    <3> QED BY <3>1, <3>2
  <2>2. \A r \in ResponsesOf(i)', p \in PromptsOf(i)' : msgs'[r].round < msgs'[p].round => r < p
    BY <1>1, <1>2 DEF RoundsSettled
  <2> QED BY <1>1, <2>1, <2>2 DEF RoundsSettled
<1>7. RoundsCounted(i)'
  <2>1. Counted(i)' = MessagesOf(i)
    <3>1. MessagesOf(i) = PromptsOf(i) \cup ResponsesOf(i)
      BY PromptsAndResponses
    <3> QED BY <1>1, <1>3, <3>1 DEF Counted
  <2>2. n \in Nat /\ n <= Cardinality(Participants(i)) /\ Cardinality(MessagesOf(i)) = d.count + n
    BY RoundUncounted
  <2>3. d.messages # 0 => d.count + Cardinality(Participants(i)) <= d.messages
    BY <1>2 DEF RoundsCounted
  <2>4. Cardinality(Participants(i)) \in Nat
    BY ParticipantsTyped
  <2> HIDE DEF n
  <2>5. discussions'[i].messages # 0 => discussions'[i].count + 0 <= discussions'[i].messages
    <3> HIDE DEF d
    <3>1. discussions'[i].messages = d.messages /\ discussions'[i].count = d.count + n
      BY <2>2 DEF d
    <3> QED BY <1>3, <2>2, <2>3, <2>4, <3>1
  <2>6. ~(discussions'[i].processed < discussions'[i].current)
    BY <1>3
  <2> QED BY <2>1, <2>5, <2>6 DEF RoundsCounted
<1> QED BY <1>4, <1>5, <1>6, <1>7 DEF RoundsOK

\* The messages of a discussion after a round has been asked.
AskedKept(to, i, round) ==
  /\ PromptsOf(i)' = PromptsOf(i) \cup Added
  /\ ResponsesOf(i)' = ResponsesOf(i)
  /\ MessagesOf(i)' = MessagesOf(i) \cup Added
  /\ MessagesOf(i) \cap Added = {}
  /\ PromptsIn(i, round)' = PromptsIn(i, round) \cup Added
  /\ \A other : other # round => PromptsIn(i, other)' = PromptsIn(i, other)
  /\ {msgs'[m].to : m \in Added} = to
  /\ \A m \in MessagesOf(i) : m \in DOMAIN msgs /\ msgs'[m] = msgs[m]
  /\ PromptsOf(i) \subseteq MessagesOf(i) /\ ResponsesOf(i) \subseteq MessagesOf(i)
  /\ \A m \in PromptsOf(i) : Terminal(RowOf(m)) => Terminal(RowOf(m))'

\* A round keeps what was there.
LEMMA AskedTalk ==
  ASSUME TalkInv, SettledStep, NEW to, NEW route, NEW i, i # 0, NEW round, NEW parent,
         Asked(to, route, i, round, parent)
  PROVE  AskedKept(to, i, round) /\ \A j : j # i => TalkKept(j)
<1>1. /\ Grows
      /\ \A m \in Added : /\ msgs'[m].disc = i /\ msgs'[m].role = "prompt" /\ msgs'[m].to \in to
                          /\ msgs'[m].round = round
      /\ \A b \in to : \E m \in Added : msgs'[m].to = b
  BY DEF Asked
<1>2. /\ \A m \in DOMAIN msgs : m \in DOMAIN msgs' /\ msgs'[m] = msgs[m]
      /\ DOMAIN msgs' = DOMAIN msgs \cup Added /\ DOMAIN msgs \cap Added = {}
  BY <1>1 DEF Grows, Added
<1>3. \A m \in MessagesOf(i) : m \in DOMAIN msgs /\ msgs'[m] = msgs[m]
  BY <1>2 DEF MessagesOf
<1>4. PromptsOf(i) \subseteq MessagesOf(i) /\ ResponsesOf(i) \subseteq MessagesOf(i)
  BY DEF MessagesOf, PromptsOf, ResponsesOf
<1>5. PromptsOf(i)' = PromptsOf(i) \cup Added
  BY <1>1, <1>2 DEF PromptsOf
<1>6. ResponsesOf(i)' = ResponsesOf(i)
  BY <1>1, <1>2 DEF ResponsesOf
<1>7. MessagesOf(i)' = MessagesOf(i) \cup Added /\ MessagesOf(i) \cap Added = {}
  BY <1>1, <1>2 DEF MessagesOf
<1>8. PromptsIn(i, round)' = PromptsIn(i, round) \cup Added
  BY <1>1, <1>3, <1>4, <1>5 DEF PromptsIn
<1>9. \A other : other # round => PromptsIn(i, other)' = PromptsIn(i, other)
  BY <1>1, <1>3, <1>4, <1>5 DEF PromptsIn
<1>10. {msgs'[m].to : m \in Added} = to
  BY <1>1
<1>11. \A m \in PromptsOf(i) : Terminal(RowOf(m)) => Terminal(RowOf(m))'
  BY <1>1, <1>3, <1>4, PromptSettled
<1>12. ASSUME NEW j, j # i
       PROVE  TalkKept(j)
  BY <1>1, <1>12, SameTalk
<1> QED BY <1>3, <1>4, <1>5, <1>6, <1>7, <1>8, <1>9, <1>10, <1>11, <1>12 DEF AskedKept

\* The next round, after everything before it has been settled.
LEMMA NextRoundAsked ==
  ASSUME TalkInv, SettledStep, NEW i \in DOMAIN discussions, RoundsOK(i),
         NEW route, \A b \in Participants(i) : route[b] = seats[b],
         Asked(Participants(i), route, i, discussions[i].current + 1, 0),
         \A m \in PromptsOf(i) : Terminal(RowOf(m)), UNCHANGED seats,
         discussions'[i].status = "active",
         discussions'[i].current = discussions[i].current + 1,
         discussions'[i].processed = discussions[i].current,
         discussions'[i].count = Cardinality(MessagesOf(i)) + Cardinality(Participants(i)),
         discussions'[i].messages # 0 =>
           Cardinality(MessagesOf(i)) + 2 * Cardinality(Participants(i)) <= discussions'[i].messages
  PROVE  RoundsOK(i)'
<1> DEFINE n == Cardinality(Participants(i))
<1>0. PICK cur : cur = discussions[i].current
  OBVIOUS
<1>1. i # 0 /\ cur \in Nat /\ cur >= 1
  <2>1. discussions[i] \in DiscussionRow /\ discussions[i].current >= 1 /\ i # 0
    BY TableDomain DEF TalkInv
  <2> QED BY <1>0, <2>1 DEF DiscussionRow
<1>2. /\ PromptsOf(i)' = PromptsOf(i) \cup Added
      /\ ResponsesOf(i)' = ResponsesOf(i)
      /\ MessagesOf(i)' = MessagesOf(i) \cup Added
      /\ MessagesOf(i) \cap Added = {}
      /\ PromptsIn(i, cur + 1)' = PromptsIn(i, cur + 1) \cup Added
      /\ \A other : other # cur + 1 => PromptsIn(i, other)' = PromptsIn(i, other)
      /\ {msgs'[m].to : m \in Added} = Participants(i)
      /\ \A m \in MessagesOf(i) : m \in DOMAIN msgs /\ msgs'[m] = msgs[m]
      /\ PromptsOf(i) \subseteq MessagesOf(i) /\ ResponsesOf(i) \subseteq MessagesOf(i)
      /\ \A m \in PromptsOf(i) : Terminal(RowOf(m)) => Terminal(RowOf(m))'
  <2>1. Asked(Participants(i), route, i, cur + 1, 0)
    BY <1>0
  <2>2. PICK round : round = cur + 1
    OBVIOUS
  <2>3. PICK to : to = Participants(i)
    OBVIOUS
  <2>4. Asked(to, route, i, round, 0)
    BY <2>1, <2>2, <2>3
  <2>5. AskedKept(to, i, round)
    BY <1>1, <2>4, AskedTalk
  <2> QED BY <2>2, <2>3, <2>5 DEF AskedKept
<1>3. /\ \A m \in Added : /\ msgs'[m].to \in Participants(i) /\ msgs'[m].round = cur + 1
                          /\ msgs'[m].route = route[msgs'[m].to]
                          /\ \A old \in DOMAIN msgs : old < m
      /\ \A m, k \in Added : msgs'[m].to = msgs'[k].to => m = k
      /\ IsFiniteSet(Added) /\ Cardinality(Added) = n /\ n \in Nat
  BY <1>0 DEF Asked
<1>4. RoundNumbers(i) /\ RoundSeats(i) /\ RoundsSettled(i) /\ RoundsCounted(i)
  BY DEF RoundsOK
<1>5. \A m \in MessagesOf(i) : msgs[m].round \in 1..cur
  BY <1>0, <1>4 DEF RoundNumbers
<1>6. PromptsIn(i, cur + 1) = {}
  <2>1. \A m \in PromptsOf(i) : msgs[m].round # cur + 1
    BY <1>1, <1>2, <1>5
  <2> QED BY <2>1 DEF PromptsIn
<1>7. Participants(i)' = Participants(i)
  <2>1. PromptsIn(i, 1)' = PromptsIn(i, 1)
    BY <1>1, <1>2
  <2>2. \A m \in PromptsIn(i, 1) : msgs'[m] = msgs[m]
    BY <1>2 DEF PromptsIn
  <2> QED BY <2>1, <2>2 DEF Participants
<1>8. RoundNumbers(i)'
  <2>1. \A m \in MessagesOf(i)' : msgs'[m].round \in 1..(cur + 1)
    <3>1. \A m \in Added : msgs'[m].round \in 1..(cur + 1)
      BY <1>1, <1>3
    <3>2. \A m \in MessagesOf(i) : msgs'[m].round \in 1..(cur + 1)
      BY <1>1, <1>2, <1>5
    <3> QED BY <1>2, <3>1, <3>2
  <2> QED BY <1>0, <1>1, <2>1 DEF RoundNumbers
<1>9. RoundSeats(i)'
  <2>1. ASSUME NEW round \in 1..(cur + 1)
        PROVE  {msgs'[m].to : m \in PromptsIn(i, round)'} = Participants(i)'
    <3>1. CASE round = cur + 1
      <4>1. PromptsIn(i, round)' = Added
        BY <1>2, <1>6, <3>1
      <4> QED BY <1>2, <1>7, <4>1
    <3>2. CASE round # cur + 1
      <4>1. PromptsIn(i, round)' = PromptsIn(i, round) /\ round \in 1..cur
        BY <1>1, <1>2, <3>2
      <4>2. \A m \in PromptsIn(i, round) : msgs'[m] = msgs[m]
        BY <1>2 DEF PromptsIn
      <4>3. {msgs[m].to : m \in PromptsIn(i, round)} = Participants(i)
        BY <1>0, <1>4, <4>1 DEF RoundSeats
      <4> QED BY <1>7, <4>1, <4>2, <4>3
    <3> QED BY <3>1, <3>2
  <2>2. ASSUME NEW m \in PromptsOf(i)', NEW k \in PromptsOf(i)',
               msgs'[m].round = msgs'[k].round, msgs'[m].to = msgs'[k].to
        PROVE  m = k
    <3>1. CASE m \in PromptsOf(i) /\ k \in PromptsOf(i)
      BY <1>2, <1>4, <2>2, <3>1 DEF RoundSeats
    <3>2. CASE m \in Added /\ k \in Added
      BY <1>3, <2>2, <3>2
    <3>3. \A old \in PromptsOf(i) : msgs'[old].round # cur + 1
      BY <1>1, <1>2, <1>5
    <3> QED BY <1>2, <1>3, <2>2, <3>1, <3>2, <3>3
  <2>3. ASSUME "continue" \in Commands, NEW m \in PromptsOf(i)'
        PROVE  msgs'[m].route = seats'[msgs'[m].to]
    <3>1. CASE m \in PromptsOf(i)
      BY <1>2, <1>4, <2>3, <3>1 DEF RoundSeats
    <3>2. CASE m \in Added
      BY <1>3, <3>2
    <3> QED BY <1>2, <3>1, <3>2
  <2> QED BY <1>0, <2>1, <2>2, <2>3 DEF RoundSeats
<1>10. RoundsSettled(i)'
  <2>1. ASSUME NEW m \in PromptsOf(i)', Past(i, msgs[m].round)'
        PROVE  Terminal(RowOf(m))'
    <3>1. \A k \in Added : ~Past(i, msgs[k].round)'
      BY <1>0, <1>1, <1>3 DEF Past
    <3> QED BY <1>2, <2>1, <3>1
  <2>2. ASSUME NEW r \in ResponsesOf(i)', NEW p \in PromptsOf(i)', msgs'[r].round < msgs'[p].round
        PROVE  r < p
    <3>1. CASE p \in Added
      BY <1>2, <1>3, <3>1
    <3>2. CASE p \in PromptsOf(i)
      BY <1>2, <1>4, <2>2, <3>2 DEF RoundsSettled
    <3> QED BY <1>2, <3>1, <3>2
  <2> QED BY <2>1, <2>2 DEF RoundsSettled
<1>11. RoundsCounted(i)'
  <2>1. MessagesOf(i) = PromptsOf(i) \cup ResponsesOf(i) /\ MessagesOf(i) \in SUBSET DOMAIN msgs
    BY PromptsAndResponses
  <2>2. Counted(i)' = MessagesOf(i) \cup Added
    <3>1. \A r \in ResponsesOf(i) : msgs'[r].round <= cur
      BY <1>1, <1>2, <1>5
    <3> QED BY <1>0, <1>2, <2>1, <3>1 DEF Counted
  <2>3. IsFiniteSet(MessagesOf(i)) /\ Cardinality(MessagesOf(i)) \in Nat
    BY <2>1, FiniteLog DEF TalkInv
  <2>4. Cardinality(MessagesOf(i) \cup Added) = Cardinality(MessagesOf(i)) + n
    <3>1. Cardinality(MessagesOf(i) \cap Added) = 0
      BY <1>2, FS_EmptySet
    <3>2. Cardinality(MessagesOf(i) \cup Added)
            = Cardinality(MessagesOf(i)) + Cardinality(Added) - Cardinality(MessagesOf(i) \cap Added)
      BY <1>3, <2>3, FS_Union
    <3> QED BY <1>3, <2>3, <3>1, <3>2
  <2>5. discussions'[i].count = Cardinality(Counted(i)')
    BY <2>2, <2>4
  <2>6. discussions'[i].messages # 0 => discussions'[i].count + n <= discussions'[i].messages
    <3> DEFINE k == Cardinality(MessagesOf(i))
    <3> HIDE DEF k, n
    <3>1. k \in Nat /\ n \in Nat /\ discussions'[i].count = k + n
          /\ (discussions'[i].messages # 0 => k + 2 * n <= discussions'[i].messages)
      BY <1>3, <2>3 DEF k, n
    <3>2. (k + n) + n = k + 2 * n
      BY <3>1
    <3> QED BY <3>1, <3>2
  <2>7. discussions'[i].processed < discussions'[i].current
    BY <1>0, <1>1
  <2> QED BY <1>7, <2>5, <2>6, <2>7 DEF RoundsCounted
<1> QED BY <1>8, <1>9, <1>10, <1>11 DEF RoundsOK

\* The first round of a new discussion.
LEMMA FirstRoundAsked ==
  ASSUME TalkInv, SettledStep, NEW i \in Nat, i # 0, i \notin DOMAIN discussions,
         NEW to, Asked(to, seats, i, 1, 0), UNCHANGED seats,
         discussions'[i] = NewDiscussion(Cardinality(to)),
         policy.messages \in Nat, policy.messages # 0 => policy.messages >= 2 * Cardinality(to)
  PROVE  RoundsOK(i)'
<1> DEFINE n == Cardinality(to)
           d == discussions'[i]
<1>1. AskedKept(to, i, 1)
  BY AskedTalk
<1>2. /\ \A m \in Added : /\ msgs'[m].to \in to /\ msgs'[m].round = 1
                          /\ msgs'[m].route = seats[msgs'[m].to]
      /\ \A m, k \in Added : msgs'[m].to = msgs'[k].to => m = k
      /\ IsFiniteSet(Added) /\ Cardinality(Added) = n /\ n \in Nat
  BY DEF Asked
<1>3. MessagesOf(i) = {}
  <2>1. DOMAIN discussions = 1..Len(discussions) /\ Len(discussions) \in Nat
    BY TableDomain
  <2>2. \A m \in DOMAIN msgs : msgs[m].disc \in 0..Len(discussions)
    BY DEF TalkInv, TalkMessage
  <2> QED BY <2>1, <2>2 DEF MessagesOf
<1>4. /\ MessagesOf(i)' = Added /\ PromptsOf(i)' = Added /\ ResponsesOf(i)' = {}
      /\ PromptsIn(i, 1)' = Added /\ {msgs'[m].to : m \in Added} = to
  BY <1>1, <1>3 DEF AskedKept, PromptsIn
<1>5. Participants(i)' = to
  BY <1>4 DEF Participants
<1>6. /\ d.current = 1 /\ d.processed = 0 /\ d.status = "active" /\ d.count = n
      /\ d.messages = policy.messages
  BY DEF NewDiscussion
<1> HIDE DEF d
<1>7. RoundNumbers(i)'
  BY <1>2, <1>4, <1>6 DEF RoundNumbers, d
<1>8. RoundSeats(i)'
  <2>1. ASSUME NEW round \in 1..1
        PROVE  {msgs'[m].to : m \in PromptsIn(i, round)'} = Participants(i)'
    <3>1. round = 1
      OBVIOUS
    <3> QED BY <1>4, <1>5, <3>1
  <2> QED BY <1>2, <1>4, <1>6, <2>1 DEF RoundSeats, d
<1>9. RoundsSettled(i)'
  <2>1. \A m \in PromptsOf(i)' : ~Past(i, msgs[m].round)'
    BY <1>2, <1>4, <1>6 DEF Past, d
  <2> QED BY <1>4, <2>1 DEF RoundsSettled
<1>10. RoundsCounted(i)'
  <2>1. Counted(i)' = Added
    BY <1>4 DEF Counted
  <2>2. d.messages # 0 => d.count + n <= d.messages
    <3> HIDE DEF n
    <3> QED BY <1>2, <1>6 DEF n
  <2> QED BY <1>2, <1>5, <1>6, <2>1, <2>2 DEF RoundsCounted, d
<1> QED BY <1>7, <1>8, <1>9, <1>10 DEF RoundsOK

\* An answer to the current round is not counted until the round is processed.
LEMMA AnswerKeepsRounds ==
  ASSUME TalkInv, Grows, SettledStep, NEW p \in DOMAIN msgs, NEW a \in Agents, NEW text \in Texts,
         Answers(p, a, text), NEW i \in DOMAIN discussions, i = msgs[p].disc, RoundsOK(i),
         UNCHANGED discussions, "continue" \in Commands => seats' = seats
  PROVE  RoundsOK(i)'
<1> DEFINE d == discussions[i]
<1>1. PICK r : r = Len(msgs')
  OBVIOUS
<1>2. /\ Added = {r} /\ DOMAIN msgs' = DOMAIN msgs \cup {r} /\ r \notin DOMAIN msgs
      /\ msgs'[r] = Reply(p, a, text)
  BY <1>1, OneAdded DEF TalkInv, Answers
<1>3. /\ i # 0 /\ d.current \in Nat /\ d.processed \in Nat
  BY TableDomain DEF DiscussionRow
<1>4. Open(i) /\ d.processed < d.current
  <2>1. d.status \in {"active", "paused"}
    BY <1>3 DEF Answers, FenceOpen
  <2> QED BY <2>1 DEF Open, RoundsOK, RoundNumbers
<1>5. p \in PromptsOf(i) /\ ~Terminal(RowOf(p))
  <2>1. msgs[p].role = "prompt" /\ msgs[p].to = a
    BY <1>3 DEF Answers, TalkInv, PromptRow
  <2>2. RowOf(p) = dispatches[<<p, a>>]
    BY <2>1 DEF Answers, RowOf, Row
  <2> QED BY <2>1, <2>2 DEF Answers, Terminal, PromptsOf
<1>6. msgs[p].round = d.current
  <2>1. ~Past(i, msgs[p].round)
    BY <1>4, <1>5 DEF RoundsOK, RoundsSettled
  <2>2. p \in MessagesOf(i)
    BY <1>5 DEF PromptsOf, MessagesOf
  <2>3. msgs[p].round \in 1..d.current
    BY <2>2 DEF RoundsOK, RoundNumbers
  <2> QED BY <1>3, <2>1, <2>3 DEF Past
<1>7. msgs'[r].disc = i /\ msgs'[r].round = d.current /\ msgs'[r].role = "response"
  BY <1>2, <1>3, <1>6 DEF Reply
<1>8. \A m \in DOMAIN msgs : msgs'[m] = msgs[m]
  BY DEF Grows
<1>9. /\ MessagesOf(i)' = MessagesOf(i) \cup {r} /\ PromptsOf(i)' = PromptsOf(i)
      /\ ResponsesOf(i)' = ResponsesOf(i) \cup {r}
  BY <1>2, <1>7, <1>8 DEF MessagesOf, PromptsOf, ResponsesOf
<1>10. /\ PromptsOf(i) \subseteq DOMAIN msgs /\ ResponsesOf(i) \subseteq DOMAIN msgs
       /\ MessagesOf(i) \subseteq DOMAIN msgs /\ PromptsOf(i) \subseteq MessagesOf(i)
  BY DEF MessagesOf, PromptsOf, ResponsesOf
<1>11. \A round : PromptsIn(i, round)' = PromptsIn(i, round)
  BY <1>8, <1>9, <1>10 DEF PromptsIn
<1>12. Participants(i)' = Participants(i)
  <2>1. PromptsIn(i, 1)' = PromptsIn(i, 1) /\ PromptsIn(i, 1) \subseteq DOMAIN msgs
    BY <1>10, <1>11 DEF PromptsIn
  <2> QED BY <1>8, <2>1 DEF Participants
<1>13. RoundNumbers(i) /\ RoundSeats(i) /\ RoundsSettled(i) /\ RoundsCounted(i)
  BY DEF RoundsOK
<1>14. RoundNumbers(i)'
  <2>1. \A m \in MessagesOf(i) : msgs'[m].round \in 1..d.current
    BY <1>8, <1>10, <1>13 DEF RoundNumbers
  <2>2. msgs'[r].round \in 1..d.current
    BY <1>3, <1>4, <1>7
  <2> QED BY <1>9, <1>13, <2>1, <2>2 DEF RoundNumbers
<1>15. RoundSeats(i)'
  <2>1. ASSUME NEW round \in 1..d.current
        PROVE  {msgs'[m].to : m \in PromptsIn(i, round)'} = Participants(i)'
    <3>1. PromptsIn(i, round)' = PromptsIn(i, round) /\ PromptsIn(i, round) \subseteq DOMAIN msgs
      BY <1>10, <1>11 DEF PromptsIn
    <3>2. {msgs[m].to : m \in PromptsIn(i, round)} = Participants(i)
      BY <1>13 DEF RoundSeats
    <3> QED BY <1>8, <1>12, <3>1, <3>2
  <2>2. \A m, n \in PromptsOf(i)' :
          msgs'[m].round = msgs'[n].round /\ msgs'[m].to = msgs'[n].to => m = n
    BY <1>8, <1>9, <1>10, <1>13 DEF RoundSeats
  <2>3. "continue" \in Commands => \A m \in PromptsOf(i)' : msgs'[m].route = seats'[msgs'[m].to]
    BY <1>8, <1>9, <1>10, <1>13 DEF RoundSeats
  <2> QED BY <2>1, <2>2, <2>3 DEF RoundSeats
<1>16. RoundsSettled(i)'
  <2>1. ASSUME NEW m \in PromptsOf(i), Past(i, msgs[m].round)'
        PROVE  Terminal(RowOf(m))'
    <3>1. Past(i, msgs[m].round)
      BY <1>8, <1>10, <2>1 DEF Past
    <3>2. Terminal(RowOf(m)) /\ m \in DOMAIN msgs
      BY <1>4, <1>10, <1>13, <3>1 DEF RoundsSettled
    <3> QED BY <3>2, PromptSettled
  <2>2. ASSUME NEW q \in ResponsesOf(i)', NEW k \in PromptsOf(i), msgs'[q].round < msgs'[k].round
        PROVE  q < k
    <3>1. CASE q = r
      <4>1. msgs'[k].round \in 1..d.current
        BY <1>8, <1>10, <1>13 DEF RoundNumbers
      <4> QED BY <1>3, <1>7, <2>2, <3>1, <4>1
    <3>2. CASE q \in ResponsesOf(i)
      BY <1>8, <1>10, <1>13, <2>2, <3>2 DEF RoundsSettled
    <3> QED BY <1>9, <3>1, <3>2
  <2> QED BY <1>9, <2>1, <2>2 DEF RoundsSettled
<1>17. RoundsCounted(i)'
  <2>1. Counted(i)' = Counted(i)
    <3>1. \A q \in ResponsesOf(i) : msgs'[q].round = msgs[q].round
      BY <1>8, <1>10
    <3>2. ~(msgs'[r].round <= d.processed)
      BY <1>3, <1>4, <1>7
    <3> QED BY <1>9, <3>1, <3>2 DEF Counted
  <2> QED BY <1>12, <1>13, <2>1 DEF RoundsCounted
<1> QED BY <1>14, <1>15, <1>16, <1>17 DEF RoundsOK

(***************************************************************************)
(* Rounds: the steps of the room.                                          *)
(***************************************************************************)
\* A discussion that a step has nothing to do with.
LEMMA RoundsSame ==
  ASSUME NEW i \in DOMAIN discussions, TalkKept(i), RoundsOK(i),
         discussions'[i] = discussions[i], "continue" \in Commands => seats' = seats
  PROVE  RoundsOK(i)'
<1>1. Open(i)' => Open(i)
  BY DEF Open
<1>2. discussions'[i].status \in {"active", "paused"} =>
        discussions[i].processed < discussions[i].current
  BY DEF RoundsOK, RoundNumbers
<1> QED BY <1>1, <1>2, RoundsUntouched

\* Nobody comes or goes in a room whose members stay.
LEMMA SeatsStay ==
  ASSUME Next, Movers = {}
  PROVE  seats' = seats
<1>1. ASSUME NEW s \in Sessions, NEW m \in DOMAIN msgs, DispatchCall(s, m)
      PROVE  seats' = seats
  BY <1>1 DEF DispatchCall, ClaimDispatch, RecordReceipt, CompleteDispatch, RenewDispatch, FailDispatch
<1>2. ASSUME NEW s \in Sessions, SessionStep(s)
      PROVE  seats' = seats
  BY <1>1, <1>2 DEF SessionStep, SendMessage, AckMessage
<1>3. ASSUME NEW s \in Sessions, Crash(s)
      PROVE  seats' = seats
  BY <1>3 DEF Crash
<1>4. CASE \E unserved \in SUBSET Unsettled, d \in 0..LockWait : Reconcile(unserved, d)
  BY <1>4 DEF Reconcile
<1>5. CASE Tick
  BY <1>5 DEF Tick
<1> QED BY <1>2, <1>3, <1>4, <1>5 DEF Next

\* A message outside the discussions is in none of them.
LEMMA OutsideTalk ==
  ASSUME TalkInv, Grows, SettledStep, NEW i \in DOMAIN discussions,
         \A m \in Added : msgs'[m].disc = 0
  PROVE  TalkKept(i)
  BY TableDomain, SameTalk

\* The mailbox.
LEMMA RoundsMail ==
  ASSUME Steady, TalkInv, Next, \A i \in DOMAIN discussions : RoundsOK(i)
  PROVE  \A i \in DOMAIN discussions' : RoundsOK(i)'
<1>1. MailMove
  BY TalkMail
<1>2. Grows /\ SettledStep /\ UNCHANGED discussions
  BY <1>1 DEF MailMove, MailStep
<1>3. "continue" \in Commands => seats' = seats
  BY SeatsStay DEF Steady
<1>4. SUFFICES ASSUME NEW i \in DOMAIN discussions PROVE RoundsOK(i)'
  BY <1>2
<1>5. ASSUME \A m \in Added : msgs'[m].disc # i
      PROVE  RoundsOK(i)'
  BY <1>2, <1>3, <1>5, SameTalk, RoundsSame
<1>6. CASE UNCHANGED msgs
  BY <1>5, <1>6 DEF Added
<1>7. CASE \E new \in Message : msgs' = Append(msgs, new) /\ new.disc = 0 /\ new.role = "none"
  <2>1. \A m \in Added : msgs'[m].disc = 0
    BY <1>7, OneAdded DEF TalkInv
  <2> QED BY <1>5, <2>1, TableDomain
<1>8. ASSUME NEW p \in DOMAIN msgs, NEW a \in Agents, NEW text \in Texts, Answers(p, a, text)
      PROVE  RoundsOK(i)'
  <2>1. CASE i = msgs[p].disc
    BY <1>2, <1>3, <1>8, <2>1, AnswerKeepsRounds
  <2>2. CASE i # msgs[p].disc
    <3>1. \A m \in Added : msgs'[m] = Reply(p, a, text)
      BY <1>8, OneAdded DEF TalkInv, Answers
    <3>2. \A m \in Added : msgs'[m].disc # i
      BY <2>2, <3>1 DEF Reply
    <3> QED BY <1>5, <3>2
  <2> QED BY <2>1, <2>2
<1> QED BY <1>1, <1>6, <1>7, <1>8 DEF MailMove

\* The operator's posts.
LEMMA RoundsPost ==
  ASSUME TalkInv, NEW s \in Sessions, PostRoomMessage(s), policy.mode # "free",
         \A i \in DOMAIN discussions : RoundsOK(i)
  PROVE  \A i \in DOMAIN discussions' : RoundsOK(i)'
<1> DEFINE a      == AgentOf[s]
           to     == SeatsBut(a)
           opened == {i \in DOMAIN discussions : Open(i)}
<1>1. UNCHANGED <<receipts, cursor, trusted, seats, policy>> /\ Len(msgs') <= MaxMessages
  BY DEF PostRoomMessage
<1>2. Grows /\ SettledStep
  BY PostStep DEF TalkStep
<1>3. a \in Agents
  BY MailboxAssumption
<1>4. /\ to \in SUBSET Agents /\ IsFiniteSet(to) /\ Cardinality(to) \in Nat
      /\ \A b \in to : seats[b] \in Routes \cup {NoRoute}
  BY SeatsTyped
<1>5. Len(discussions) \in Nat /\ DOMAIN discussions = 1..Len(discussions)
  BY TableDomain
<1>6. ASSUME UNCHANGED discussions, \A m \in Added : msgs'[m].disc = 0
      PROVE  \A i \in DOMAIN discussions' : RoundsOK(i)'
  BY <1>1, <1>2, <1>6, OutsideTalk, RoundsSame
<1>7. CASE policy.mode = "off"
  <2> DEFINE new == Prompt(a, a, NoRoute, 0, 0, 0)
  <2>1. msgs' = Append(msgs, new) /\ UNCHANGED discussions
    BY <1>7 DEF PostRoomMessage
  <2>2. new.disc = 0
    BY DEF Prompt
  <2> HIDE DEF new
  <2>3. \A m \in Added : msgs'[m].disc = 0
    BY <2>1, <2>2, OneAdded DEF TalkInv
  <2> QED BY <1>6, <2>1, <2>3
<1>8. CASE policy.mode = "once"
  <2>1. msgs' = msgs \o Fanout(a, to, seats, 0, 0, 0) /\ UNCHANGED discussions
    BY <1>8 DEF PostRoomMessage
  <2> HIDE DEF to, a
  <2>2. Len(discussions') \in Nat /\ 0 \in 0..Len(discussions') /\ 0 \in Nat
    BY <1>5, <2>1
  <2>3. Asked(to, seats, 0, 0, 0)
    BY <1>1, <1>3, <1>4, <2>1, <2>2, PromptsAdded
  <2>4. \A m \in Added : msgs'[m].disc = 0
    BY <2>3 DEF Asked
  <2> QED BY <1>6, <2>1, <2>4
<1>9. CASE policy.mode \in {"discussion", "free"}
  <2>1. /\ Len(discussions) + 1 <= MaxDiscussions
        /\ msgs' = msgs \o Fanout(a, to, seats, Len(discussions) + 1, 1, 0)
        /\ discussions' = Append(Stopped(opened), NewDiscussion(Cardinality(to)))
        /\ policy.messages # 0 => policy.messages >= 2 * Cardinality(to)
    BY <1>9 DEF PostRoomMessage
  <2> HIDE DEF to, opened, a
  <2>2. PICK newest : newest = Len(discussions) + 1
    OBVIOUS
  <2>3. /\ Len(discussions') = Len(discussions) + 1
        /\ DOMAIN discussions' = DOMAIN discussions \cup {Len(discussions')}
        /\ Len(discussions') \notin DOMAIN discussions
        /\ discussions'[Len(discussions')] = NewDiscussion(Cardinality(to))
        /\ \A i \in DOMAIN discussions :
             /\ Open(i) => discussions'[i] = [discussions[i] EXCEPT !.status = "stopped"]
             /\ ~Open(i) => discussions'[i] = discussions[i]
    BY <1>1, <1>4, <2>1, NewTable DEF opened
  <2>4. /\ newest \in Nat /\ newest # 0 /\ newest \notin DOMAIN discussions
        /\ newest \in 0..Len(discussions') /\ Len(discussions') \in Nat
        /\ DOMAIN discussions' = DOMAIN discussions \cup {newest}
        /\ discussions'[newest] = NewDiscussion(Cardinality(to))
    BY <1>5, <2>2, <2>3
  <2>5. Asked(to, seats, newest, 1, 0)
    BY <1>1, <1>3, <1>4, <2>1, <2>2, <2>4, PromptsAdded
  <2>6. RoundsOK(newest)'
    <3>1. policy.messages \in Nat
      BY TalkAssumption DEF TalkInv, DiscussionTypeOK, Policy
    <3> QED BY <1>1, <1>2, <2>1, <2>4, <2>5, <3>1, FirstRoundAsked
  <2>7. ASSUME NEW i \in DOMAIN discussions
        PROVE  RoundsOK(i)'
    <3>1. TalkKept(i)
      BY <1>2, <2>4, <2>5, AskedTalk
    <3>2. discussions[i] \in DiscussionRow
      BY TableDomain
    <3>3. CASE Open(i)
      <4>1. /\ discussions'[i].status = "stopped"
            /\ discussions'[i].current = discussions[i].current
            /\ discussions'[i].processed = discussions[i].processed
            /\ discussions'[i].count = discussions[i].count
            /\ discussions'[i].messages = discussions[i].messages
        BY <2>3, <3>2, <3>3 DEF DiscussionRow
      <4> QED BY <1>1, <3>1, <3>3, <4>1, RoundsUntouched
    <3>4. CASE ~Open(i)
      BY <1>1, <2>3, <3>1, <3>4, RoundsSame
    <3> QED BY <3>3, <3>4
  <2> QED BY <2>4, <2>6, <2>7
<1> QED BY <1>7, <1>8, <1>9 DEF PostRoomMessage

\* A step that changes one discussion and puts nothing to anybody.
LEMMA RoundsOneChanges ==
  ASSUME TalkInv, SettledStep, UNCHANGED <<msgs, receipts, trusted, seats>>,
         NEW i \in DOMAIN discussions, NEW new, discussions' = [discussions EXCEPT ![i] = new],
         \A j \in DOMAIN discussions : RoundsOK(j)
  PROVE  /\ TalkKept(i) /\ discussions'[i] = new /\ DOMAIN discussions' = DOMAIN discussions
         /\ \A j \in DOMAIN discussions' : j # i => RoundsOK(j)'
<1>1. Grows /\ Added = {}
  BY NoMessages
<1>2. \A j : TalkKept(j)
  BY <1>1, SameTalk
<1>3. \A j \in DOMAIN discussions : j # i => discussions'[j] = discussions[j]
  OBVIOUS
<1> QED BY <1>2, <1>3, RoundsSame

\* A round whose prompts are all completed or failed settles the discussion.
LEMMA RoundAllSettled ==
  ASSUME TalkInv, NEW i \in DOMAIN discussions, RoundsOK(i), Open(i),
         \A m \in PromptsIn(i, discussions[i].current) : Terminal(RowOf(m))
  PROVE  \A m \in PromptsOf(i) : Terminal(RowOf(m))
<1>1. SUFFICES ASSUME NEW m \in PromptsOf(i) PROVE Terminal(RowOf(m))
  OBVIOUS
<1>2. m \in MessagesOf(i)
  BY DEF MessagesOf, PromptsOf
<1>3. discussions[i].current \in Nat
  BY TableDomain DEF DiscussionRow
<1>4. msgs[m].round \in 1..discussions[i].current
  BY <1>2 DEF RoundsOK, RoundNumbers
<1>5. CASE msgs[m].round = discussions[i].current
  BY <1>5 DEF PromptsIn
<1>6. CASE msgs[m].round < discussions[i].current
  BY <1>6 DEF RoundsOK, RoundsSettled, Past
<1> QED BY <1>3, <1>4, <1>5, <1>6

\* What RoundVerdict says when the next round is asked, and when all agree.
LEMMA VerdictSays ==
  ASSUME NEW i, NEW replies, NEW failed, NEW count, NEW stale
  PROVE  /\ RoundVerdict(i, replies, failed, count, stale) = "active" =>
              ~OverBudget(i, count, Cardinality(Participants(i)))
         /\ RoundVerdict(i, replies, failed, count, stale) = "completed" =>
              failed = {} /\ \A r \in replies : SignalOf[msgs[r].text] = "CONSENSUS"
<1> DEFINE signals == {SignalOf[msgs[r].text] : r \in replies}
           d == discussions[i]
           over == \/ d.rounds # 0 /\ d.current >= d.rounds
                   \/ OverBudget(i, count, Cardinality(Participants(i)))
                   \/ stale >= d.patience
                   \/ Oversized(replies)
<1>1. RoundVerdict(i, replies, failed, count, stale) =
        CASE failed # {}                                   -> "waiting_human"
          [] failed = {} /\ "INVALID" \in signals          -> "waiting_human"
          [] failed = {} /\ signals = {"CONSENSUS"}        -> "completed"
          [] failed = {} /\ signals = {"BLOCKED"}          -> "waiting_human"
          [] OTHER -> IF over THEN "waiting_human" ELSE "active"
  BY DEF RoundVerdict
<1>2. signals = {"CONSENSUS"} => \A r \in replies : SignalOf[msgs[r].text] = "CONSENSUS"
  OBVIOUS
<1>3. OverBudget(i, count, Cardinality(Participants(i))) => over
  OBVIOUS
<1> HIDE DEF signals, over
<1> QED BY <1>1, <1>2, <1>3

\* advance_discussions: the answers of the round are counted, and the next
\* round is within the budget.
LEMMA RoundsAdvance ==
  ASSUME Steady, TalkInv, NEW i \in DOMAIN discussions, AdvanceRound(i),
         \A j \in DOMAIN discussions : RoundsOK(j)
  PROVE  \A j \in DOMAIN discussions' : RoundsOK(j)'
<1> DEFINE d        == discussions[i]
           prompts  == PromptsIn(i, d.current)
           answered == {m \in prompts : RowOf(m).status = "completed"}
           failed   == {m \in prompts : RowOf(m).status = "failed"}
           replies  == {RowOf(m).reply : m \in answered}
           said     == {<<msgs[r].sender, msgs[r].text>> : r \in replies}
           count    == d.count + Cardinality(answered)
           stale    == Staleness(i, said)
           verdict  == RoundVerdict(i, replies, failed, count, stale)
           next     == IF verdict = "active" THEN Participants(i) ELSE {}
           route    == [a \in next |-> seats[a]]
<1>1. /\ d \in DiscussionRow /\ d.current >= 1 /\ d.current \in Nat /\ d.messages \in Nat
      /\ d.count \in Nat /\ Open(i) /\ i # 0 /\ d.processed < d.current
  BY TableDomain DEF TalkInv, AdvanceRound, Open, DiscussionRow
<1>2. Grows /\ SettledStep /\ TalkInv'
  BY RoundStep DEF TalkStep
<1>3. UNCHANGED <<receipts, cursor, trusted, seats, policy>>
  BY DEF AdvanceRound
<1>4. answered = AnsweredIn(i, d.current)
  BY DEF AnsweredIn
<1>5. /\ count \in Nat /\ Cardinality(MessagesOf(i)) = count
      /\ Cardinality(answered) \in Nat
      /\ Cardinality(answered) <= Cardinality(Participants(i))
  <2>1. PICK n : n = Cardinality(answered)
    OBVIOUS
  <2>2. /\ n \in Nat /\ n <= Cardinality(Participants(i))
        /\ Cardinality(MessagesOf(i)) = d.count + n
    <3> HIDE DEF answered
    <3> QED BY <1>1, <1>4, <2>1, RoundUncounted
  <2> HIDE DEF answered, d
  <2> QED BY <1>1, <2>1, <2>2
<1>6. CASE LoseParticipants(i, d.current, Cardinality(answered)) /\ ~ParticipantsPresent(i)
  <2> DEFINE new == LosingRow(i, d.current, Cardinality(answered))
  <2>1. discussions' = [discussions EXCEPT ![i] = new] /\ UNCHANGED msgs
    BY <1>6 DEF LoseParticipants
  <2>2. /\ new.current = d.current /\ new.processed = d.current /\ new.count = count
        /\ new.messages = d.messages /\ new.status = "waiting_human"
    <3> DEFINE k == Cardinality(answered)
    <3> HIDE DEF k
    <3>1. new = [d EXCEPT !.status = "waiting_human", !.processed = d.current, !.count = d.count + k]
      BY DEF LosingRow, k
    <3>2. d \in DiscussionRow
      BY <1>1
    <3> HIDE DEF d, new
    <3>3. /\ new.current = d.current /\ new.processed = d.current /\ new.count = d.count + k
          /\ new.messages = d.messages /\ new.status = "waiting_human"
      BY <3>1, <3>2 DEF DiscussionRow
    <3> QED BY <3>3 DEF k
  <2> HIDE DEF new, d, answered
  <2>3. /\ TalkKept(i) /\ discussions'[i] = new /\ DOMAIN discussions' = DOMAIN discussions
        /\ \A j \in DOMAIN discussions' : j # i => RoundsOK(j)'
    BY <1>2, <1>3, <2>1, RoundsOneChanges
  <2>4. "continue" \notin Commands
    <3>1. SUFFICES ASSUME "continue" \in Commands PROVE ParticipantsPresent(i)
      BY <1>6
    <3> QED BY <3>1 DEF ParticipantsPresent, PromptsIn, RoundsOK, RoundSeats
  <2>5. RoundsOK(i)'
    BY <1>1, <1>5, <2>2, <2>3, <2>4, RoundEnded DEF d
  <2> QED BY <2>3, <2>5
<1>7. CASE ~(LoseParticipants(i, d.current, Cardinality(answered)) /\ ~ParticipantsPresent(i))
  <2> DEFINE new == [d EXCEPT !.status = verdict, !.processed = Processed(i),
                              !.current = IF verdict = "active" THEN NextRound(i) ELSE @,
                              !.count = count + Cardinality(next),
                              !.stale = stale, !.digest = said]
  <2>1. /\ ParticipantsPresent(i)
        /\ RoundOver(prompts, answered, failed)
        /\ msgs' = msgs \o Fanout(Orchestrator, next, route, i, NextRound(i), 0)
        /\ Len(msgs') <= MaxMessages
        /\ discussions' = [discussions EXCEPT ![i] = new]
        /\ UNCHANGED dispatches
    BY <1>7 DEF AdvanceRound
  <2>2. \A m \in PromptsOf(i) : Terminal(RowOf(m))
    <3>1. \A m \in prompts : Terminal(RowOf(m))
      BY <2>1 DEF RoundOver, Terminal
    <3> QED BY <1>1, <3>1, RoundAllSettled
  <2>3. verdict \in {"active", "waiting_human", "completed"}
    <3> HIDE DEF replies, failed, count, stale
    <3> QED BY VerdictTyped
  <2>4. Participants(i) \in SUBSET Agents /\ Cardinality(Participants(i)) \in Nat
        /\ \A b \in Participants(i) : seats[b] \in Routes \cup {NoRoute}
    BY <2>1, ParticipantsTyped
  <2>5. /\ new.status = verdict /\ new.processed = d.current
        /\ new.current = (IF verdict = "active" THEN d.current + 1 ELSE d.current)
        /\ new.count = count + Cardinality(next)
        /\ new.messages = d.messages
    <3> DEFINE cur == IF verdict = "active" THEN d.current + 1 ELSE d.current
               cnt == count + Cardinality(next)
    <3>1. new = [d EXCEPT !.status = verdict, !.processed = d.current, !.current = cur,
                          !.count = cnt, !.stale = stale, !.digest = said]
      BY DEF Processed, NextRound
    <3> HIDE DEF d, new, verdict, stale, said, cur, cnt
    <3>2. /\ new.status = verdict /\ new.processed = d.current /\ new.current = cur
          /\ new.count = cnt /\ new.messages = d.messages
      BY <1>1, <3>1 DEF DiscussionRow
    <3> QED BY <3>2 DEF cur, cnt
  <2>6. /\ DOMAIN discussions' = DOMAIN discussions /\ discussions'[i] = new
        /\ \A j \in DOMAIN discussions : j # i => discussions'[j] = discussions[j]
    <3> HIDE DEF new
    <3> QED BY <2>1
  <2>7. next \in SUBSET Agents /\ \A b \in next : route[b] \in Routes \cup {NoRoute}
    <3> HIDE DEF verdict
    <3> QED BY <2>4
  <2>8. Asked(next, route, i, NextRound(i), 0)
    <3>1. i \in 0..Len(discussions') /\ Len(discussions') \in Nat
      <4>1. discussions' \in Seq(DiscussionRow)
        BY <1>2 DEF TalkInv, DiscussionTypeOK
      <4>2. DOMAIN discussions' = 1..Len(discussions') /\ Len(discussions') \in Nat
        BY <4>1, LenProperties
      <4> QED BY <2>6, <4>2
    <3>2. NextRound(i) \in Nat
      BY <1>1 DEF NextRound
    <3> HIDE DEF next, route, new
    <3> QED BY <1>3, <2>1, <2>7, <3>1, <3>2, PromptsAdded
  <2>9. ASSUME NEW j \in DOMAIN discussions', j # i
        PROVE  RoundsOK(j)'
    <3>1. TalkKept(j)
      <4> HIDE DEF next, route
      <4> QED BY <1>1, <1>2, <2>8, <2>9, AskedTalk
    <3> QED BY <1>3, <2>6, <2>9, <3>1, RoundsSame
  <2>10. CASE verdict = "active"
    <3>1. next = Participants(i)
      BY <2>10
    <3>2. \A b \in Participants(i) : route[b] = seats[b]
      BY <3>1
    <3>3. ~OverBudget(i, count, Cardinality(Participants(i)))
      <4> HIDE DEF replies, failed, count, stale
      <4> QED BY <2>10, VerdictSays
    <3>4. d.messages # 0 => count + 2 * Cardinality(Participants(i)) <= d.messages
      <4> DEFINE n == Cardinality(Participants(i))
      <4>1. n \in Nat
        BY <2>4
      <4>2. ~(d.messages # 0 /\ count + 2 * n > d.messages)
        BY <3>3 DEF OverBudget
      <4> HIDE DEF count, n, d
      <4>3. count + 2 * n \in Nat
        BY <1>5, <4>1
      <4>4. d.messages # 0 => count + 2 * n <= d.messages
        BY <1>1, <4>2, <4>3
      <4> QED BY <4>4 DEF n
    <3>5. Asked(Participants(i), route, i, d.current + 1, 0)
      <4> HIDE DEF next, route
      <4> QED BY <2>8, <3>1 DEF NextRound
    <3>6. /\ new.status = "active" /\ new.processed = d.current /\ new.current = d.current + 1
          /\ new.count = count + Cardinality(Participants(i)) /\ new.messages = d.messages
      <4> HIDE DEF new, verdict, count, d
      <4> QED BY <2>5, <2>10, <3>1
    <3> HIDE DEF new, verdict, count, next, route
    <3>7. RoundsOK(i)'
      BY <1>2, <1>3, <1>5, <2>2, <2>6, <3>2, <3>4, <3>5, <3>6, NextRoundAsked
    <3> QED BY <2>9, <3>7
  <2>11. CASE verdict # "active"
    <3>1. next = {}
      BY <2>11
    <3>2. TalkKept(i)
      <4>1. Added = {}
        <5>1. \A m \in Added : msgs'[m].to \in next
          <6> HIDE DEF next, route
          <6> QED BY <2>8 DEF Asked
        <5> QED BY <3>1, <5>1
      <4> QED BY <1>2, <4>1, SameTalk
    <3>3. /\ new.status \notin {"active", "paused"} /\ new.processed = d.current
          /\ new.current = d.current /\ new.count = count /\ new.messages = d.messages
      <4>1. Cardinality(next) = 0
        BY <3>1, FS_EmptySet
      <4> HIDE DEF new, verdict, count, d, next
      <4> QED BY <1>5, <2>3, <2>5, <2>11, <4>1
    <3> HIDE DEF new, verdict, count, next, route
    <3>4. RoundsOK(i)'
      BY <1>1, <1>3, <1>5, <2>2, <2>6, <3>2, <3>3, RoundEnded
    <3> QED BY <2>9, <3>4
  <2> QED BY <2>10, <2>11
<1> QED BY <1>6, <1>7

\* continue: an unprocessed round goes on, a processed one is followed by
\* another one within the raised budget.
LEMMA RoundsContinue ==
  ASSUME Steady, "continue" \in Commands, TalkInv, NEW i \in DOMAIN discussions,
         NEW extra \in ExtraRounds, Continue(i, extra),
         \A j \in DOMAIN discussions : RoundsOK(j)
  PROVE  \A j \in DOMAIN discussions' : RoundsOK(j)'
<1> DEFINE d      == discussions[i]
           next   == Participants(i)
           route  == [a \in next |-> seats[a]]
           n      == Cardinality(next)
           rounds == RaisedRounds(i, extra)
           budget == RaisedMessages(i, n, extra)
<1>1. /\ d \in DiscussionRow /\ d.current >= 1 /\ d.current \in Nat /\ d.messages \in Nat
      /\ d.count \in Nat /\ Open(i) /\ i # 0 /\ d.processed \in Nat
  BY TableDomain DEF TalkInv, Continue, Open, DiscussionRow
<1>2. Grows /\ SettledStep /\ TalkInv'
  BY ContinueStep DEF TalkStep
<1>3. UNCHANGED <<receipts, cursor, dispatches, trusted, seats, policy>>
  BY DEF Continue
<1>4. CASE /\ d.processed < d.current
           /\ discussions' = [discussions EXCEPT ![i] = [d EXCEPT !.status = "active", !.rounds = rounds]]
           /\ UNCHANGED msgs
  <2> DEFINE new == [d EXCEPT !.status = "active", !.rounds = rounds]
  <2>1. /\ new.current = d.current /\ new.processed = d.processed /\ new.count = d.count
        /\ new.messages = d.messages
    <3> HIDE DEF rounds
    <3> QED BY <1>1 DEF DiscussionRow
  <2> HIDE DEF new
  <2>2. discussions' = [discussions EXCEPT ![i] = new]
    BY <1>4 DEF new
  <2>3. /\ TalkKept(i) /\ discussions'[i] = new /\ DOMAIN discussions' = DOMAIN discussions
        /\ \A j \in DOMAIN discussions' : j # i => RoundsOK(j)'
    BY <1>2, <1>3, <1>4, <2>2, RoundsOneChanges
  <2>4. RoundsOK(i)'
    BY <1>1, <1>3, <1>4, <2>1, <2>3, RoundsUntouched
  <2> QED BY <2>3, <2>4
<1>5. CASE ~ /\ d.processed < d.current
             /\ discussions' = [discussions EXCEPT ![i] = [d EXCEPT !.status = "active", !.rounds = rounds]]
             /\ UNCHANGED msgs
  <2> DEFINE cnt == d.count + n
             new == [d EXCEPT !.status = "active", !.current = NextRound(i), !.count = cnt,
                              !.rounds = rounds, !.messages = budget]
  <2>1. /\ d.processed >= d.current
        /\ ParticipantsPresent(i)
        /\ d.messages # 0 => d.count + 2 * n <= AbsoluteMessages
        /\ msgs' = msgs \o Fanout(Orchestrator, next, route, i, NextRound(i), 0)
        /\ Len(msgs') <= MaxMessages
        /\ discussions' = [discussions EXCEPT ![i] = new]
    BY <1>5 DEF Continue
  <2>2. d.processed = d.current /\ Cardinality(MessagesOf(i)) = d.count
    BY <2>1, RoundCounted
  <2>3. \A m \in PromptsOf(i) : Terminal(RowOf(m))
    <3>1. SUFFICES ASSUME NEW m \in PromptsOf(i) PROVE Terminal(RowOf(m))
      OBVIOUS
    <3>2. msgs[m].round \in 1..d.current
      <4>1. m \in MessagesOf(i) /\ RoundNumbers(i)
        BY DEF RoundsOK, MessagesOf, PromptsOf
      <4> QED BY <4>1 DEF RoundNumbers
    <3>3. Past(i, msgs[m].round)
      BY <1>1, <2>2, <3>2 DEF Past
    <3> QED BY <1>1, <3>3 DEF RoundsOK, RoundsSettled
  <2>4. next \in SUBSET Agents /\ n \in Nat
        /\ \A b \in next : seats[b] \in Routes \cup {NoRoute}
    BY <2>1, ParticipantsTyped
  <2>5. /\ new.status = "active" /\ new.processed = d.current /\ new.current = d.current + 1
        /\ new.count = d.count + n /\ new.messages = budget
    <3> DEFINE cur == NextRound(i)
    <3>1. cur = d.current + 1
      BY DEF NextRound
    <3>2. new = [d EXCEPT !.status = "active", !.current = cur, !.count = cnt,
                          !.rounds = rounds, !.messages = budget]
      OBVIOUS
    <3> HIDE DEF d, new, rounds, budget, cur, cnt
    <3>3. /\ new.status = "active" /\ new.processed = d.processed /\ new.current = cur
          /\ new.count = cnt /\ new.messages = budget
      BY <1>1, <3>2 DEF DiscussionRow
    <3> QED BY <2>2, <3>1, <3>3 DEF cnt
  <2>6. budget # 0 => d.count + 2 * n <= budget
    <3>1. d.messages = 0 => budget = 0
      BY <2>4, Raised
    <3>2. d.messages # 0 /\ d.count + 2 * n <= AbsoluteMessages => d.count + 2 * n <= budget
      BY <2>4, Raised
    <3> HIDE DEF budget, d, n
    <3> QED BY <2>1, <3>1, <3>2
  <2>7. /\ DOMAIN discussions' = DOMAIN discussions /\ discussions'[i] = new
        /\ \A j \in DOMAIN discussions : j # i => discussions'[j] = discussions[j]
    <3> HIDE DEF new
    <3> QED BY <2>1
  <2>8. Asked(next, route, i, NextRound(i), 0)
    <3>1. i \in 0..Len(discussions') /\ Len(discussions') \in Nat
      <4>1. discussions' \in Seq(DiscussionRow)
        BY <1>2 DEF TalkInv, DiscussionTypeOK
      <4>2. DOMAIN discussions' = 1..Len(discussions') /\ Len(discussions') \in Nat
        BY <4>1, LenProperties
      <4> QED BY <2>7, <4>2
    <3>2. NextRound(i) \in Nat
      BY <1>1 DEF NextRound
    <3>3. \A b \in next : route[b] \in Routes \cup {NoRoute}
      BY <2>4
    <3> HIDE DEF next, route, new
    <3> QED BY <1>3, <2>1, <2>4, <3>1, <3>2, <3>3, PromptsAdded
  <2>9. ASSUME NEW j \in DOMAIN discussions', j # i
        PROVE  RoundsOK(j)'
    <3>1. TalkKept(j)
      <4> HIDE DEF next, route
      <4> QED BY <1>1, <1>2, <2>8, <2>9, AskedTalk
    <3> QED BY <1>3, <2>7, <2>9, <3>1, RoundsSame
  <2>10. \A b \in next : route[b] = seats[b]
    OBVIOUS
  <2>11. Asked(next, route, i, d.current + 1, 0)
    <3> HIDE DEF next, route
    <3> QED BY <2>8 DEF NextRound
  <2>12. discussions'[i].messages # 0 => Cardinality(MessagesOf(i)) + 2 * n <= discussions'[i].messages
    <3> HIDE DEF new, budget
    <3> QED BY <2>2, <2>5, <2>6, <2>7
  <2> HIDE DEF new, budget, route
  <2>13. RoundsOK(i)'
    BY <1>2, <1>3, <2>2, <2>3, <2>5, <2>7, <2>10, <2>11, <2>12, NextRoundAsked
  <2> QED BY <2>9, <2>13
<1> QED BY <1>4, <1>5

\* pause, resume and stop.
LEMMA RoundsCommand ==
  ASSUME TalkInv, NEW i \in DOMAIN discussions, Pause(i) \/ Resume(i) \/ Stop(i),
         \A j \in DOMAIN discussions : RoundsOK(j)
  PROVE  \A j \in DOMAIN discussions' : RoundsOK(j)'
<1>1. TalkStep /\ UNCHANGED <<msgs, receipts, trusted, seats>>
  BY PauseStep, StopStep DEF Pause, Resume, Stop
<1>2. PICK status \in {"active", "paused", "stopped"} :
        discussions' = [discussions EXCEPT ![i] = [discussions[i] EXCEPT !.status = status]]
  <2>1. CASE Pause(i) \/ Resume(i)
    BY <2>1 DEF Pause, Resume
  <2>2. CASE Stop(i)
    <3>1. discussions' = [discussions EXCEPT ![i] = [discussions[i] EXCEPT !.status = "stopped"]]
      BY <2>2 DEF Stop, Stopped
    <3> QED BY <3>1
  <2> QED BY <2>1, <2>2
<1> DEFINE d   == discussions[i]
           new == [d EXCEPT !.status = status]
<1>3. d \in DiscussionRow
  BY TableDomain
<1>4. /\ new.current = d.current /\ new.processed = d.processed /\ new.count = d.count
      /\ new.messages = d.messages /\ new.status = status
  BY <1>3 DEF DiscussionRow
<1>5. Open(i)
  BY DEF Pause, Resume, Stop, Open
<1>6. status \in {"active", "paused"} => d.processed < d.current
  <2>1. CASE Pause(i) \/ Resume(i)
    <3>1. d.status \in {"active", "paused"}
      BY <2>1 DEF Pause, Resume
    <3>2. RoundNumbers(i)
      BY DEF RoundsOK
    <3> QED BY <3>1, <3>2 DEF RoundNumbers
  <2>2. CASE Stop(i)
    <3>1. discussions'[i].status = "stopped"
      BY <1>3, <2>2 DEF Stop, Stopped, DiscussionRow
    <3>2. discussions'[i].status = status
      BY <1>2, <1>4
    <3> QED BY <3>1, <3>2
  <2> QED BY <2>1, <2>2
<1> HIDE DEF new
<1>7. discussions' = [discussions EXCEPT ![i] = new]
  BY <1>2 DEF new
<1>8. /\ TalkKept(i) /\ discussions'[i] = new /\ DOMAIN discussions' = DOMAIN discussions
      /\ \A j \in DOMAIN discussions' : j # i => RoundsOK(j)'
  BY <1>1, <1>7, RoundsOneChanges DEF TalkStep
<1>9. RoundsOK(i)'
  BY <1>1, <1>4, <1>5, <1>6, <1>8, RoundsUntouched
<1> QED BY <1>8, <1>9

\* set_room_automation, to and from modes in which no discussion is free.
LEMMA RoundsPolicy ==
  ASSUME TalkInv, NEW p \in Policies, SetRoomAutomation(p),
         \A j \in DOMAIN discussions : RoundsOK(j)
  PROVE  \A j \in DOMAIN discussions' : RoundsOK(j)'
<1> DEFINE ids == {i \in DOMAIN discussions : Open(i)}
<1>1. UNCHANGED <<msgs, receipts, trusted, seats>> /\ SettledStep
  BY PolicyStep DEF SetRoomAutomation, TalkStep
<1>2. \A j : TalkKept(j)
  <2>1. Grows /\ Added = {}
    BY <1>1, NoMessages
  <2> QED BY <1>1, <2>1, SameTalk
<1>3. CASE discussions' = discussions
  BY <1>1, <1>2, <1>3, RoundsSame
<1>4. CASE discussions' = Stopped(ids)
  <2> HIDE DEF ids
  <2>1. /\ DOMAIN discussions' = DOMAIN discussions
        /\ \A i \in DOMAIN discussions :
             /\ i \in ids => discussions'[i] = [discussions[i] EXCEPT !.status = "stopped"]
             /\ i \notin ids => discussions'[i] = discussions[i]
    BY <1>4, StoppedTable
  <2>2. ASSUME NEW i \in DOMAIN discussions
        PROVE  RoundsOK(i)'
    <3>1. CASE i \in ids
      <4>1. discussions[i] \in DiscussionRow /\ Open(i)
        BY <3>1, TableDomain DEF ids
      <4>2. /\ discussions'[i].status = "stopped"
            /\ discussions'[i].current = discussions[i].current
            /\ discussions'[i].processed = discussions[i].processed
            /\ discussions'[i].count = discussions[i].count
            /\ discussions'[i].messages = discussions[i].messages
        BY <2>1, <3>1, <4>1 DEF DiscussionRow
      <4> QED BY <1>1, <1>2, <4>1, <4>2, RoundsUntouched
    <3>2. CASE i \notin ids
      BY <1>1, <1>2, <2>1, <3>2, RoundsSame
    <3> QED BY <3>1, <3>2
  <2> QED BY <2>1, <2>2
<1> QED BY <1>3, <1>4 DEF SetRoomAutomation

\* Every step of a room in rounds.
LEMMA RoundsNext ==
  ASSUME Steady, TalkInv, TalkNext, policy.mode # "free",
         \A i \in DOMAIN discussions : RoundsOK(i)
  PROVE  \A i \in DOMAIN discussions' : RoundsOK(i)'
<1>1. CASE Next
  BY <1>1, RoundsMail
<1>2. ASSUME NEW s \in Sessions, PostRoomMessage(s)
      PROVE  \A i \in DOMAIN discussions' : RoundsOK(i)'
  BY <1>2, RoundsPost
<1>3. ASSUME NEW i \in DOMAIN discussions, Advance(i)
      PROVE  \A j \in DOMAIN discussions' : RoundsOK(j)'
  <2>1. AdvanceRound(i)
    BY <1>3 DEF Advance, AdvanceFree
  <2> QED BY <2>1, RoundsAdvance
<1>4. CASE Manage
  <2>1. ASSUME NEW p \in Policies, SetRoomAutomation(p)
        PROVE  \A i \in DOMAIN discussions' : RoundsOK(i)'
    BY <2>1, RoundsPolicy
  <2>2. ASSUME NEW i \in DOMAIN discussions, Pause(i) \/ Resume(i) \/ Stop(i)
        PROVE  \A j \in DOMAIN discussions' : RoundsOK(j)'
    BY <2>2, RoundsCommand
  <2>3. ASSUME "continue" \in Commands, NEW i \in DOMAIN discussions, NEW extra \in ExtraRounds,
               Continue(i, extra)
        PROVE  \A j \in DOMAIN discussions' : RoundsOK(j)'
    BY <2>3, RoundsContinue
  <2> QED BY <1>4, <2>1, <2>2, <2>3 DEF Manage
<1> QED BY <1>1, <1>2, <1>3, <1>4 DEF TalkNext

(***************************************************************************)
(* Agreement.                                                              *)
(***************************************************************************)
\* The last word of every participant of discussion i is CONSENSUS.
Agreed(i) ==
  Cardinality(Participants(i)) > 1 =>
    \A a \in Participants(i) :
      LET words == {r \in ResponsesOf(i) : msgs[r].sender = a}
      IN  words # {} /\ SignalOf[msgs[Max(words)].text] = "CONSENSUS"

\* The last of some responses.
LEMMA LastWord ==
  ASSUME TalkInv, NEW i, NEW words \in SUBSET ResponsesOf(i), words # {}
  PROVE  Max(words) \in words /\ \A r \in words : Max(words) >= r
<1>1. words \in SUBSET (1..Len(msgs)) /\ Len(msgs) \in Nat
  BY LogDomain DEF ResponsesOf, TalkInv, MailInv
<1>2. \E x \in words : \A y \in words : x >= y
  BY <1>1, MaxExists
<1> QED BY <1>2 DEF Max

\* An agreement stays while no message is added to the discussion.
LEMMA AgreedKept ==
  ASSUME TalkInv, NEW i, TalkKept(i), Agreed(i)
  PROVE  Agreed(i)'
<1>1. /\ ResponsesOf(i)' = ResponsesOf(i) /\ Participants(i)' = Participants(i)
      /\ \A m \in ResponsesOf(i) : msgs'[m] = msgs[m]
  BY DEF TalkKept
<1>2. SUFFICES ASSUME Cardinality(Participants(i)) > 1, NEW a \in Participants(i)
               PROVE  LET words == {r \in ResponsesOf(i)' : msgs'[r].sender = a}
                      IN  words # {} /\ SignalOf[msgs'[Max(words)].text] = "CONSENSUS"
  BY <1>1 DEF Agreed
<1> DEFINE words == {r \in ResponsesOf(i) : msgs[r].sender = a}
<1>3. {r \in ResponsesOf(i)' : msgs'[r].sender = a} = words
  BY <1>1
<1>4. words # {} /\ SignalOf[msgs[Max(words)].text] = "CONSENSUS"
  BY <1>2 DEF Agreed
<1>5. words \in SUBSET ResponsesOf(i)
  OBVIOUS
<1> HIDE DEF words
<1>6. msgs'[Max(words)] = msgs[Max(words)]
  BY <1>1, <1>4, <1>5, LastWord
<1> QED BY <1>3, <1>4, <1>6

\* An agreement that was there stays; one that this step reached is one.
LEMMA AgreementKept ==
  ASSUME TalkInv, TalkStep, AgreementStands,
         \A i \in DOMAIN discussions' :
           discussions'[i].status = "completed" =>
             \/ i \in DOMAIN discussions /\ discussions[i].status = "completed"
             \/ Agreed(i)'
  PROVE  AgreementStands'
<1>1. ASSUME NEW i \in DOMAIN discussions, discussions[i].status = "completed"
      PROVE  Agreed(i)'
  <2>1. ~Open(i)
    BY <1>1 DEF Open
  <2>2. Grows /\ SettledStep /\ MessagesOf(i)' = MessagesOf(i)
    BY <2>1 DEF TalkStep, CloseStep
  <2>3. \A m \in Added : msgs'[m].disc # i
    BY <2>2 DEF MessagesOf, Added
  <2>4. TalkKept(i)
    BY <2>2, <2>3, SameTalk
  <2>5. Agreed(i)
    BY <1>1 DEF AgreementStands, Agreed
  <2> QED BY <2>4, <2>5, AgreedKept
<1>2. \A i \in DOMAIN discussions' : discussions'[i].status = "completed" => Agreed(i)'
  BY <1>1
<1> QED BY <1>2 DEF AgreementStands, Agreed

\* Every seat of a round that ended in consensus said so last: what it said
\* before, it said in an earlier round.
LEMMA RoundAgreed ==
  ASSUME TalkInv, NEW i \in DOMAIN discussions, RoundsOK(i), AdvanceRound(i),
         discussions'[i].status = "completed"
  PROVE  Agreed(i)'
<1> DEFINE d        == discussions[i]
           prompts  == PromptsIn(i, d.current)
           answered == {m \in prompts : RowOf(m).status = "completed"}
           failed   == {m \in prompts : RowOf(m).status = "failed"}
           replies  == {RowOf(m).reply : m \in answered}
           said     == {<<msgs[r].sender, msgs[r].text>> : r \in replies}
           count    == d.count + Cardinality(answered)
           stale    == Staleness(i, said)
           verdict  == RoundVerdict(i, replies, failed, count, stale)
           next     == IF verdict = "active" THEN Participants(i) ELSE {}
           route    == [a \in next |-> seats[a]]
<1>1. d \in DiscussionRow /\ d.current \in Nat /\ d.current >= 1
  BY TableDomain DEF TalkInv, DiscussionRow
<1>2. Grows /\ SettledStep
  BY RoundStep DEF TalkStep
<1>3. CASE LoseParticipants(i, d.current, Cardinality(answered))
  <2> DEFINE new == LosingRow(i, d.current, Cardinality(answered))
  <2>1. discussions'[i] = new
    BY <1>3 DEF LoseParticipants
  <2>2. new.status = "waiting_human"
    <3> DEFINE cur == d.current
               k   == d.count + Cardinality(answered)
    <3>1. new = [d EXCEPT !.status = "waiting_human", !.processed = cur, !.count = k]
      BY DEF LosingRow
    <3> HIDE DEF d, k, new, cur
    <3> QED BY <1>1, <3>1 DEF DiscussionRow
  <2> HIDE DEF new
  <2> QED BY <2>1, <2>2
<1>4. CASE ~LoseParticipants(i, d.current, Cardinality(answered))
  <2> DEFINE new == [d EXCEPT !.status = verdict, !.processed = Processed(i),
                              !.current = IF verdict = "active" THEN NextRound(i) ELSE @,
                              !.count = count + Cardinality(next),
                              !.stale = stale, !.digest = said]
  <2>1. /\ RoundOver(prompts, answered, failed)
        /\ msgs' = msgs \o Fanout(Orchestrator, next, route, i, NextRound(i), 0)
        /\ discussions' = [discussions EXCEPT ![i] = new]
    BY <1>4 DEF AdvanceRound
  <2>2. verdict = "completed"
    <3> DEFINE cur == IF verdict = "active" THEN NextRound(i) ELSE d.current
               cnt == count + Cardinality(next)
               p   == Processed(i)
    <3>1. new = [d EXCEPT !.status = verdict, !.processed = p, !.current = cur,
                          !.count = cnt, !.stale = stale, !.digest = said]
      OBVIOUS
    <3> HIDE DEF d, new, verdict, stale, said, cur, cnt, p
    <3>2. new.status = verdict
      BY <1>1, <3>1 DEF DiscussionRow
    <3> QED BY <2>1, <3>2
  <2>3. failed = {} /\ \A r \in replies : SignalOf[msgs[r].text] = "CONSENSUS"
    <3> HIDE DEF replies, failed, count, stale
    <3> QED BY <2>2, VerdictSays
  <2>4. TalkKept(i)
    <3>1. next = {}
      BY <2>2
    <3>2. UNCHANGED <<receipts, trusted>> /\ Len(msgs') <= MaxMessages
      BY <1>4 DEF AdvanceRound
    <3>3. NextRound(i) \in Nat /\ i \in Nat
      BY <1>1, TableDomain DEF NextRound
    <3>4. next \in SUBSET Agents /\ \A b \in next : route[b] \in Routes \cup {NoRoute}
      BY <3>1
    <3>5. \A m \in Added : msgs'[m].to \in next
      <4> HIDE DEF next, route
      <4> QED BY <2>1, <3>2, <3>3, <3>4, FanoutAppended DEF TalkInv
    <3>6. Added = {}
      BY <3>1, <3>5
    <3> QED BY <1>2, <3>6, SameTalk
  <2>5. answered = prompts
    BY <2>1, <2>3 DEF RoundOver
  <2>6. replies = ResponsesIn(i, d.current)
    <3>1. answered = AnsweredIn(i, d.current) /\ replies = Replies(answered)
      BY DEF AnsweredIn, Replies
    <3> HIDE DEF answered, replies
    <3> QED BY <3>1, ResponsesOfRound
  <2>7. ASSUME NEW a \in Participants(i)
        PROVE  LET words == {r \in ResponsesOf(i) : msgs[r].sender = a}
               IN  words # {} /\ SignalOf[msgs[Max(words)].text] = "CONSENSUS"
    <3> DEFINE words == {r \in ResponsesOf(i) : msgs[r].sender = a}
    <3>1. {msgs[m].to : m \in prompts} = Participants(i)
      BY <1>1 DEF RoundsOK, RoundSeats
    <3>2. PICK m \in prompts : msgs[m].to = a
      BY <3>1
    <3>3. /\ m \in DOMAIN msgs /\ msgs[m].role = "prompt" /\ msgs[m].disc = i
          /\ msgs[m].round = d.current /\ RowOf(m).status = "completed" /\ m \in PromptsOf(i)
      BY <2>5 DEF PromptsIn, PromptsOf
    <3>4. PICK r : r = RowOf(m).reply
      OBVIOUS
    <3>5. /\ r \in DOMAIN msgs /\ m < r /\ msgs[r].disc = i /\ msgs[r].round = d.current
          /\ msgs[r].role = "response" /\ msgs[r].sender = a
      BY <3>2, <3>3, <3>4, AnsweredPrompt
    <3>6. r \in words
      BY <3>5 DEF ResponsesOf
    <3>7. words \in SUBSET ResponsesOf(i)
      OBVIOUS
    <3>8. Max(words) \in words /\ Max(words) >= r
      <4> HIDE DEF words
      <4> QED BY <3>6, <3>7, LastWord
    <3>9. PICK w : w = Max(words)
      OBVIOUS
    <3>10. w \in ResponsesOf(i) /\ w >= r /\ w \in Nat /\ r \in Nat /\ m \in Nat
      <4>1. w \in ResponsesOf(i) /\ w >= r
        BY <3>8, <3>9
      <4> QED BY <3>3, <3>5, <4>1, LogDomain DEF TalkInv, MailInv, ResponsesOf
    <3>11. msgs[w].round \in 1..d.current
      <4>1. w \in MessagesOf(i)
        BY <3>10 DEF ResponsesOf, MessagesOf
      <4> QED BY <4>1 DEF RoundsOK, RoundNumbers
    <3>12. ~(msgs[w].round < msgs[m].round)
      <4>1. SUFFICES ASSUME msgs[w].round < msgs[m].round PROVE FALSE
        OBVIOUS
      <4>2. w < m
        BY <3>3, <3>10, <4>1 DEF RoundsOK, RoundsSettled
      <4> QED BY <3>5, <3>10, <4>2
    <3>13. msgs[w].round = d.current
      BY <1>1, <3>3, <3>11, <3>12
    <3>14. w \in replies
      BY <2>6, <3>10, <3>13 DEF ResponsesIn
    <3> QED BY <2>3, <3>6, <3>9, <3>14
  <2>8. Agreed(i)
    BY <2>7 DEF Agreed
  <2> QED BY <2>4, <2>8, AgreedKept
<1> QED BY <1>3, <1>4

\* A free event ends a discussion of two or more when the last word of each
\* is CONSENSUS.
LEMMA EventAgreed ==
  ASSUME TalkInv, NEW i, NEW m, NEW count, NEW stale,
         EventVerdict(i, m, count, stale) = "completed"
  PROVE  Agreed(i)
<1> DEFINE people  == Participants(i)
           by(a)   == {r \in ResponsesOf(i) : msgs[r].sender = a}
           said    == /\ \A a \in people : by(a) # {}
                      /\ \A a \in people : SignalOf[msgs[Max(by(a))].text] = "CONSENSUS"
           targets == Cardinality(people \ {msgs[m].sender})
<1>1. said \/ targets = 0
  BY DEF EventVerdict
<1>2. CASE said
  BY <1>2 DEF Agreed
<1>3. CASE targets = 0
  <2>1. people \in SUBSET Agents /\ IsFiniteSet(people) /\ Cardinality(people) \in Nat
    BY ParticipantsTyped
  <2> HIDE DEF people
  <2>2. IsFiniteSet(people \ {msgs[m].sender})
    BY <2>1, FS_Subset
  <2>3. people \ {msgs[m].sender} = {}
    BY <1>3, <2>2, FS_EmptySet
  <2>4. people \in SUBSET {msgs[m].sender}
    BY <2>3
  <2>5. PICK x : people \in SUBSET {x}
    BY <2>4
  <2>7. IsFiniteSet({x}) /\ Cardinality({x}) = 1
    BY FS_Singleton
  <2>8. Cardinality(people) <= 1
    BY <2>5, <2>7, FS_Subset
  <2>6. ~(Cardinality(people) > 1)
    BY <2>1, <2>8
  <2> QED BY <2>6 DEF Agreed, people
<1> QED BY <1>1, <1>2, <1>3

\* So does the step.
LEMMA FreeAgreed ==
  ASSUME TalkInv, NEW i \in DOMAIN discussions, AdvanceFree(i),
         discussions'[i].status = "completed"
  PROVE  Agreed(i)'
<1> DEFINE d        == discussions[i]
           first    == Min(Fresh(i))
           said     == {<<msgs[first].sender, msgs[first].text>>}
           stale    == Staleness(i, said)
           verdict  == EventVerdict(i, first, d.count + 1, stale)
           next     == IF verdict = "active" THEN Participants(i) \ {msgs[first].sender} ELSE {}
           route    == [a \in next |-> seats[a]]
<1>1. d \in DiscussionRow /\ d.current \in Nat /\ i \in Nat
  BY TableDomain DEF DiscussionRow
<1>2. Grows /\ SettledStep
  BY FreeStep DEF TalkStep
<1>3. CASE LoseParticipants(i, d.processed, 0)
  <2> DEFINE new == LosingRow(i, d.processed, 0)
  <2>1. discussions'[i] = new
    BY <1>3 DEF LoseParticipants
  <2>2. new.status = "waiting_human"
    <3> DEFINE p == d.processed
               k == d.count + 0
    <3>1. new = [d EXCEPT !.status = "waiting_human", !.processed = p, !.count = k]
      BY DEF LosingRow
    <3> HIDE DEF d, k, new, p
    <3> QED BY <1>1, <3>1 DEF DiscussionRow
  <2> HIDE DEF new
  <2> QED BY <2>1, <2>2
<1>4. CASE discussions' = [discussions EXCEPT ![i].status = "waiting_human"]
  BY <1>1, <1>4 DEF DiscussionRow
<1>5. CASE /\ ~LoseParticipants(i, d.processed, 0)
           /\ discussions' # [discussions EXCEPT ![i].status = "waiting_human"]
  <2> DEFINE cur == d.current + 1
             cnt == d.count + 1 + Cardinality(next)
             new == [d EXCEPT !.status = verdict, !.current = cur, !.processed = cur,
                              !.count = cnt, !.stale = stale, !.digest = said]
  <2>1. /\ Fresh(i) # {}
        /\ msgs' = msgs \o Fanout(Orchestrator, next, route, i, d.current + 1, first)
        /\ Len(msgs') <= MaxMessages
        /\ discussions' = [discussions EXCEPT ![i] = new]
        /\ UNCHANGED <<receipts, trusted>>
    BY <1>5 DEF AdvanceFree
  <2>2. verdict = "completed"
    <3>1. new = [d EXCEPT !.status = verdict, !.current = cur, !.processed = cur,
                          !.count = cnt, !.stale = stale, !.digest = said]
      OBVIOUS
    <3> HIDE DEF d, new, verdict, stale, said, cur, cnt
    <3>2. new.status = verdict
      BY <1>1, <3>1 DEF DiscussionRow
    <3> QED BY <2>1, <3>2
  <2>3. Agreed(i)
    <3> HIDE DEF first, stale, d
    <3> QED BY <2>2, EventAgreed
  <2>4. TalkKept(i)
    <3>1. next = {}
      BY <2>2
    <3>2. first \in Nat
      <4> HIDE DEF first
      <4>1. first \in Fresh(i)
        BY <2>1, FirstFresh DEF first
      <4> QED BY <4>1, LogDomain DEF Fresh, ResponsesOf, TalkInv, MailInv
    <3>3. next \in SUBSET Agents /\ \A b \in next : route[b] \in Routes \cup {NoRoute}
      BY <3>1
    <3>4. \A m \in Added : msgs'[m].to \in next
      <4>1. cur \in Nat
        BY <1>1
      <4>2. msgs' = msgs \o Fanout(Orchestrator, next, route, i, cur, first)
        BY <2>1
      <4>3. /\ MailInv /\ Orchestrator \in Agents \cup {Orchestrator} /\ i \in Nat
            /\ Len(msgs') <= MaxMessages /\ UNCHANGED <<receipts, trusted>>
        BY <1>1, <2>1 DEF TalkInv
      <4> HIDE DEF next, route, first, cur
      <4> QED BY <3>2, <3>3, <4>1, <4>2, <4>3, FanoutAppended
    <3>5. Added = {}
      BY <3>1, <3>4
    <3> QED BY <1>2, <3>5, SameTalk
  <2> QED BY <2>3, <2>4, AgreedKept
<1> QED BY <1>3, <1>4, <1>5

\* The coordinator changes the discussion it advances and no other one.
LEMMA AdvanceOne ==
  ASSUME TalkInv, NEW i \in DOMAIN discussions, Advance(i)
  PROVE  /\ DOMAIN discussions' = DOMAIN discussions
         /\ \A j \in DOMAIN discussions : j # i => discussions'[j] = discussions[j]
<1>1. PICK new : discussions' = [discussions EXCEPT ![i] = new]
  BY DEF Advance, AdvanceRound, AdvanceFree, LoseParticipants
<1> QED BY <1>1

\* Agreements stand.
LEMMA AgreementNext ==
  ASSUME RoundsInv, TalkNext
  PROVE  AgreementStands'
<1>1. TalkInv /\ AgreementStands /\ TalkStep
  BY TalkNextStep DEF RoundsInv
<1>2. SUFFICES ASSUME NEW i \in DOMAIN discussions', discussions'[i].status = "completed",
                      ~(i \in DOMAIN discussions /\ discussions[i].status = "completed")
               PROVE  Agreed(i)'
  BY <1>1, AgreementKept
<1>3. \A j \in DOMAIN discussions : discussions[j] \in DiscussionRow
  BY <1>1, TableDomain
<1>4. CASE Next
  BY <1>1, <1>2, <1>4, TalkMail DEF MailMove
<1>5. ASSUME NEW ids, discussions' = Stopped(ids)
      PROVE  FALSE
  <2>1. /\ DOMAIN discussions' = DOMAIN discussions
        /\ i \in ids => discussions'[i] = [discussions[i] EXCEPT !.status = "stopped"]
        /\ i \notin ids => discussions'[i] = discussions[i]
    BY <1>2, <1>5 DEF Stopped
  <2> QED BY <1>2, <1>3, <2>1 DEF DiscussionRow
<1>6. ASSUME NEW s \in Sessions, PostRoomMessage(s)
      PROVE  FALSE
  <2>1. CASE UNCHANGED discussions
    BY <1>2, <2>1
  <2>2. CASE ~UNCHANGED discussions
    <3> DEFINE n      == Cardinality(SeatsBut(AgentOf[s]))
               opened == {j \in DOMAIN discussions : Open(j)}
    <3>1. /\ Len(discussions) + 1 <= MaxDiscussions /\ UNCHANGED policy
          /\ discussions' = Append(Stopped(opened), NewDiscussion(n))
      BY <1>6, <2>2 DEF PostRoomMessage
    <3>2. n \in Nat
      BY <1>1, SeatsTyped
    <3> HIDE DEF n, opened
    <3>3. /\ DOMAIN discussions' = DOMAIN discussions \cup {Len(discussions')}
          /\ discussions'[Len(discussions')] = NewDiscussion(n)
          /\ \A j \in DOMAIN discussions :
               /\ Open(j) => discussions'[j] = [discussions[j] EXCEPT !.status = "stopped"]
               /\ ~Open(j) => discussions'[j] = discussions[j]
      BY <1>1, <3>1, <3>2, NewTable DEF opened
    <3>4. CASE i = Len(discussions')
      BY <1>2, <3>3, <3>4 DEF NewDiscussion
    <3>5. CASE i \in DOMAIN discussions
      BY <1>2, <1>3, <3>3, <3>5 DEF DiscussionRow
    <3> QED BY <3>3, <3>4, <3>5
  <2> QED BY <2>1, <2>2
<1>7. ASSUME NEW j \in DOMAIN discussions, Advance(j)
      PROVE  Agreed(i)'
  <2>1. i = j
    BY <1>1, <1>2, <1>7, AdvanceOne
  <2>2. CASE AdvanceRound(j)
    <3>1. RoundsOK(i)
      BY <2>1, <2>2 DEF AdvanceRound, RoundsInv
    <3> QED BY <1>1, <1>2, <2>1, <2>2, <3>1, RoundAgreed
  <2>3. CASE AdvanceFree(j)
    BY <1>1, <1>2, <2>1, <2>3, FreeAgreed
  <2> QED BY <1>7, <2>2, <2>3 DEF Advance
<1>8. ASSUME Manage
      PROVE  FALSE
  <2>1. ASSUME NEW p \in Policies, SetRoomAutomation(p)
        PROVE  FALSE
    BY <1>2, <1>5, <2>1 DEF SetRoomAutomation
  <2>2. ASSUME NEW j \in DOMAIN discussions, Pause(j) \/ Resume(j)
        PROVE  FALSE
    <3>1. DOMAIN discussions' = DOMAIN discussions
          /\ (i # j => discussions'[i] = discussions[i])
          /\ (i = j => discussions'[i].status \in {"active", "paused"})
      BY <1>2, <1>3, <2>2 DEF Pause, Resume, DiscussionRow
    <3> QED BY <1>2, <3>1
  <2>3. ASSUME NEW j \in DOMAIN discussions, Stop(j)
        PROVE  FALSE
    BY <1>5, <2>3 DEF Stop
  <2>4. ASSUME NEW j \in DOMAIN discussions, NEW extra \in ExtraRounds, Continue(j, extra)
        PROVE  FALSE
    <3> DEFINE d   == discussions[j]
               n   == Cardinality(Participants(j))
    <3>1. PICK new \in { [d EXCEPT !.status = "active", !.rounds = RaisedRounds(j, extra)],
                         [d EXCEPT !.status = "active", !.current = NextRound(j), !.count = @ + n,
                                   !.rounds = RaisedRounds(j, extra),
                                   !.messages = RaisedMessages(j, n, extra)] } :
            discussions' = [discussions EXCEPT ![j] = new]
      BY <2>4 DEF Continue
    <3>2. d \in DiscussionRow
      BY <1>3
    <3>3. new.status = "active"
      <4> HIDE DEF d, n
      <4> QED BY <3>1, <3>2 DEF DiscussionRow
    <3>4. DOMAIN discussions' = DOMAIN discussions /\ discussions'[j] = new
          /\ (i # j => discussions'[i] = discussions[i])
      BY <1>2, <3>1
    <3> QED BY <1>2, <3>3, <3>4
  <2> QED BY <1>8, <2>1, <2>2, <2>3, <2>4 DEF Manage
<1> QED BY <1>4, <1>6, <1>7, <1>8 DEF TalkNext

\* A room that is not in free mode was not: under Steady nothing leaves it.
LEMMA RoundsStay ==
  ASSUME Steady, TalkInv, TalkNext, policy'.mode # "free"
  PROVE  policy.mode # "free"
<1>1. CASE policy' = policy
  BY <1>1
<1>2. CASE "mode" \in Commands
  BY <1>2 DEF Steady, TalkInv, DiscussionTypeOK
<1>3. policy' = policy \/ "mode" \in Commands
  BY DEF TalkNext, PostRoomMessage, Advance, AdvanceRound, AdvanceFree, Manage,
         Pause, Resume, Stop, Continue
<1> QED BY <1>1, <1>2, <1>3

\* The inductive invariant of rounds.
THEOREM RoundsInvariant == ASSUME Steady PROVE TalkSpec => []RoundsInv
<1>1. TalkInit => RoundsInv
  <2>1. SUFFICES ASSUME TalkInit PROVE RoundsInv
    OBVIOUS
  <2>2. TalkInv
    BY <2>1, TalkStart
  <2>3. DOMAIN discussions = {}
    BY <2>1 DEF TalkInit, Init
  <2> QED BY <2>2, <2>3 DEF RoundsInv, AgreementStands
<1>2. RoundsInv /\ TalkNext => RoundsInv'
  <2>1. SUFFICES ASSUME RoundsInv, TalkNext PROVE RoundsInv'
    OBVIOUS
  <2>2. TalkInv'
    BY <2>1, TalkNextStep DEF RoundsInv, TalkStep
  <2>3. policy'.mode # "free" => \A i \in DOMAIN discussions' : RoundsOK(i)'
    BY <2>1, RoundsStay, RoundsNext DEF RoundsInv
  <2>4. AgreementStands'
    BY <2>1, AgreementNext
  <2> QED BY <2>2, <2>3, <2>4 DEF RoundsInv
<1>3. RoundsInv /\ UNCHANGED talkVars => RoundsInv'
  <2>1. SUFFICES ASSUME RoundsInv, UNCHANGED talkVars PROVE RoundsInv'
    OBVIOUS
  <2>2. TalkStep /\ TalkInv /\ AgreementStands
    BY <2>1, TalkStutter DEF RoundsInv
  <2>3. AgreementStands'
    BY <2>1, <2>2, AgreementKept DEF talkVars, mailVars
  <2>4. \A j : TalkKept(j)
    <3>1. Added = {}
      BY <2>1 DEF Added, talkVars, mailVars
    <3> QED BY <2>2, <3>1, SameTalk DEF TalkStep
  <2>5. policy'.mode # "free" => \A i \in DOMAIN discussions' : RoundsOK(i)'
    BY <2>1, <2>4, RoundsSame DEF RoundsInv, talkVars, mailVars
  <2> QED BY <2>2, <2>3, <2>5 DEF RoundsInv, TalkStep
<1>4. RoundsInv /\ [TalkNext]_talkVars => RoundsInv'
  BY <1>2, <1>3
<1> QED BY <1>1, <1>4, PTL DEF TalkSpec

\* With the seats at rest and no change of mode, message_count is exact after
\* every pause, continue, failure and advance.
THEOREM MessagesCounted == ASSUME Steady PROVE TalkSpec => []MessageCountExact
<1>1. RoundsInv => MessageCountExact
  BY DEF RoundsInv, RoundsOK, RoundsCounted, Counted, MessageCountExact, InRounds
<1> QED BY <1>1, RoundsInvariant, PTL

\* With the seats at rest and no change of mode, the messages of a discussion
\* stay within max_messages, also while answers are still to come.
THEOREM BudgetsKept == ASSUME Steady PROVE TalkSpec => []BudgetKept
<1>1. ASSUME RoundsInv, InRounds, NEW i \in DOMAIN discussions, discussions[i].messages # 0
      PROVE  Cardinality(MessagesOf(i)) <= discussions[i].messages
  <2> DEFINE d == discussions[i]
             n == Cardinality(AnsweredIn(i, d.current))
             p == Cardinality(Participants(i))
  <2>1. TalkInv /\ RoundsOK(i)
    BY <1>1 DEF RoundsInv, InRounds
  <2>2. d.count \in Nat /\ d.messages \in Nat /\ d.processed \in Nat /\ d.current \in Nat /\ p \in Nat
    <3>1. d \in DiscussionRow
      BY <2>1, TableDomain
    <3>2. p \in Nat
      BY <2>1, ParticipantsTyped
    <3> QED BY <3>1, <3>2 DEF DiscussionRow
  <2>3. d.count + (IF d.processed < d.current THEN p ELSE 0) <= d.messages
    BY <1>1, <2>1 DEF RoundsOK, RoundsCounted
  <2>4. CASE d.processed < d.current
    <3>1. n \in Nat /\ n <= p /\ Cardinality(MessagesOf(i)) = d.count + n
      BY <2>1, <2>4, RoundUncounted
    <3> HIDE DEF d, n, p
    <3>2. Cardinality(MessagesOf(i)) <= d.messages
      BY <2>2, <2>3, <2>4, <3>1
    <3> QED BY <3>2 DEF d
  <2>5. CASE ~(d.processed < d.current)
    <3>1. Cardinality(MessagesOf(i)) = d.count
      BY <2>1, <2>2, <2>5, RoundCounted
    <3> HIDE DEF d, n, p
    <3>2. Cardinality(MessagesOf(i)) <= d.messages
      BY <2>2, <2>3, <2>5, <3>1
    <3> QED BY <3>2 DEF d
  <2> QED BY <2>4, <2>5
<1>2. RoundsInv => BudgetKept
  BY <1>1 DEF BudgetKept
<1> QED BY <1>2, RoundsInvariant, PTL

\* With the seats at rest and no change of mode, the prompts of the earlier
\* rounds are settled when a round is open.
THEOREM RoundsOver == ASSUME Steady PROVE TalkSpec => []EarlierRoundsOver
<1>1. RoundsInv => EarlierRoundsOver
  BY DEF RoundsInv, RoundsOK, RoundsSettled, Past, EarlierRoundsOver, InRounds
<1> QED BY <1>1, RoundsInvariant, PTL

\* With the seats at rest and no change of mode, a round asks every seat once.
THEOREM SeatsAskedOnce == ASSUME Steady PROVE TalkSpec => []OnePromptPerSeat
<1>1. RoundsInv => OnePromptPerSeat
  BY DEF RoundsInv, RoundsOK, RoundSeats, OnePromptPerSeat, InRounds, PromptsIn
<1> QED BY <1>1, RoundsInvariant, PTL

\* A discussion that ended in agreement keeps the last word of everybody, in
\* rounds and in free mode, with the seats at rest and no change of mode.
THEOREM AgreementsStand == ASSUME Steady PROVE TalkSpec => []AgreementStands
<1>1. RoundsInv => AgreementStands
  BY DEF RoundsInv
<1> QED BY <1>1, RoundsInvariant, PTL
=============================================================================
