---------------------------- MODULE MCTaskBoard -----------------------------
(***************************************************************************)
(* TaskBoard on one scope and one task, for sessions of agents a1 to a3.   *)
(* The .cfg files choose sessions, files, plans and bounds, each for one   *)
(* question.                                                               *)
(***************************************************************************)
EXTENDS TaskBoard

LOCAL INSTANCE TLC

CONSTANTS s1, s2, s3, a1, a2, a3, sx, t1, src, doc, c1, c2

MCAgentOf   == [s \in Sessions |-> IF s = s1 THEN a1 ELSE IF s = s2 THEN a2 ELSE a3]
MCScopeOf   == [s \in Sessions |-> sx]
MCTaskScope == [t \in Tasks |-> sx]
MCPathOf    == [f \in Files |-> IF f = src THEN <<"src", "module">> ELSE <<"doc", "log">>]

PlanOf(dir, mode, peers, peer, quorum) ==
  [read |-> {}, write |-> {<<dir>>}, mode |-> mode, peers |-> peers,
   peer |-> peer, quorum |-> quorum]

\* Two of two peers, or the one named peer; the latter writes another
\* directory, so a task may be claimed again with another scope.
ReviewPlans == {PlanOf("src", "quorum_required", {a2, a3}, NoAgent, 2),
                PlanOf("doc", "two_party_required", {a2}, a2, 1)}

PresencePlans == {PlanOf("src", "presence_aware", {a2}, a2, 1)}

QuorumPlans == {PlanOf("src", "quorum_required", {a2}, NoAgent, 1)}

\* Two contents are told apart and nothing else.
Symmetric == Permutations({c1, c2})

=============================================================================
