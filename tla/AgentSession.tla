---------------------------- MODULE AgentSession ----------------------------
(***************************************************************************)
(* A session of either class with its broker, its processes, the threads   *)
(* of the workbench and the operator: the whole next-state relation and    *)
(* the properties.                                                         *)
(***************************************************************************)
EXTENDS ClaudeSession, CodexSession

\* What the process does, and what the operator does.
Outside ==
  \/ \E g \in Gens, i \in Ids : AsksFor(g, i) \/ Withdraws(g, i)
  \/ \E g \in Gens : Finishes(g) \/ Dies(g) \/ Serves(g)
  \/ \E a \in Asks : ResolvesAsk(a)

Commands(c) == Start(c) \/ Resume(c) \/ Stop(c) \/ ClaudeCalls(c) \/ CodexCalls(c)

\* The rest of a method that has begun.
Proceeds(c) ==
  \/ CancelsOne(c) \/ Marks(c) \/ Kills(c) \/ LaunchFails(c)
  \/ ClaudeLaunches(c) \/ CodexReturns(c)

ReaderStep(g) ==
  \/ (client = "codex" => ReaderFree(g)) /\ ReadsDone(g)
  \/ ClaudeReads(g) \/ CodexReads(g)

ThreadStep(a) == LosesPatience(a) \/ ClaudeThread(a) \/ CodexThread(a)

SessionNext ==
  \/ Outside
  \/ \E c \in Callers : Commands(c) \/ Proceeds(c)
  \/ \E g \in Gens : ReaderStep(g) \/ Watch(g)
  \/ \E a \in Asks : ThreadStep(a)

SessionSpec == SessionInit /\ [][SessionNext]_allVars

\* Each caller goes on with the method it is in; of the readers and watchers,
\* and of the threads that ask, some that can go on does (less than every
\* thread going on by itself).  The process, the operator and whoever calls
\* the methods owe nothing.
FairSession ==
  /\ SessionSpec
  /\ \A c \in Callers : WF_allVars(Proceeds(c))
  /\ WF_allVars(\E g \in Gens : ReaderStep(g) \/ Watch(g))
  /\ WF_allVars(\E a \in Asks : ThreadStep(a))

---------------------------------------------------------------------------
\* Types, and the limits of the code: requests that wait, threads that ask.
SessionTypeOK ==
  /\ BrokerTypeOK
  /\ <<client, mode>> \in Kinds
  /\ session \in [state : {"created", "running", "stopping"} \cup Terminal,
                  busy : BOOLEAN, gen : 0..MaxLaunches, ready : BOOLEAN,
                  turn : BOOLEAN, turns : 0..MaxTurns]
  /\ \A g \in Gens : agent[g].process \in {"none", "alive", "dead", "reaped"}
  /\ told \in [Asks -> {"unasked", "asked", "withdrawn"} \cup Decisions]
  /\ control \in [Ids -> 0..MaxLaunches]
  /\ \A c \in Callers : call[c].at \in {"idle", "launch", "send", "wait", "cancel", "kill"}
  /\ Cardinality(Pending) <= MaxPending
  /\ client = "claude" => Cardinality(AtWork) <= Slots

AnswersAreOnesOwn ==
  \A a \in Asks :
    told[a] \in Allows =>
      \/ record[a] = told[a]
      \/ record[a] = "none" /\ mode # "approval-required"

\* _send_claude_control_response: a Claude process that was allowed something
\* was allowed it by the decision on its own request, and not by one on the
\* request of another process, or by one that came too late.
AnswersGoHome == client = "claude" => AnswersAreOnesOwn

\* _busy and the fences by generation: a Claude process never has a second
\* turn before it has finished the first, whatever is still to be read from
\* the processes before it.
TurnsDoNotOverlap ==
  client = "claude" => \A g \in Gens : agent[g].open <= 1

OneProcess ==
  \A g \in Gens :
    Alive(g) => g = session.gen /\ session.state \in {"running", "stopping"}

\* Since it looked at the session, another launch has come before its own.
LaunchesLate(c) ==
  /\ call[c].at = "launch" /\ call'[c].at # "launch"
  /\ session.gen # call[c].gen /\ session'.gen # session.gen

\* resume, fork and start look at the session under its lock and launch
\* without it.  That only the newest process is alive, and that the session
\* shows no end while it is, stops being true in one way: by a launch that
\* another one has overtaken.  No stop, interrupt, fork or exit in between
\* leaves a process behind, and no launch does that found the session as its
\* check had seen it.
OrphansNeedRace ==
  [][OneProcess /\ ~OneProcess' => \E c \in Callers : LaunchesLate(c)]_allVars

\* request: what the operator allowed is not lost on the way to the process.
AllowedIsNotLost == \A a \in Asks : ~(record[a] \in Allows /\ thread[a] = "raised")

\* A request for approval does not wait for ever, a session that is stopping
\* stops or is launched again, and what a process asks is answered, unless
\* the process is gone, is no longer the one of the session, or an approval
\* of its has raised.
SessionSettles ==
  /\ \A a \in Asks : a \in Pending ~> a \notin Pending
  /\ session.state = "stopping" ~> session.state # "stopping"
  /\ \A a \in Asks :
       told[a] = "asked" ~>
         \/ told[a] # "asked"
         \/ ~Alive(a[1]) \/ a[1] # session.gen
         \/ \E i \in Ids : thread[<<a[1], i>>] = "raised"
=============================================================================
