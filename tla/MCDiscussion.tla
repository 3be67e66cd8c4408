---------------------------- MODULE MCDiscussion ----------------------------
(***************************************************************************)
(* Small instances of Discussion: a person and two model agents, each with *)
(* one process and, for the agents, one route profile.                     *)
(***************************************************************************)
EXTENDS Discussion

CONSTANTS human, left, right, hs, ls, rs, leftProfile, rightProfile,
          agree, more, stuck, noise, essay

MCAgents == {human, left, right}
MCAgentOf == [s \in Sessions |-> CASE s = hs -> human [] s = ls -> left [] s = rs -> right]
MCRoutes == {leftProfile, rightProfile}
MCRouteAgent == [p \in Routes |-> IF p = leftProfile THEN left ELSE right]
MCRouteOf == [s \in Sessions |-> CASE s = hs -> NoRoute [] s = ls -> leftProfile
                                   [] s = rs -> rightProfile]
MCSignalOf == [t \in Texts |-> CASE t = agree -> "CONSENSUS" [] t = stuck -> "BLOCKED"
                                 [] t = noise -> "INVALID" [] OTHER -> "CONTINUE"]

\* Everybody sits in the room.
MCSeats == [a \in Agents |-> CASE a = human -> NoRoute [] a = left -> leftProfile
                               [] a = right -> rightProfile]

Limits(mode, rounds, messages) ==
  [mode |-> mode, rounds |-> rounds, messages |-> messages, patience |-> 1]

\* Room for one round and the answers of another; no room for a third event.
TightRounds == {Limits("discussion", 2, 6)}
OnlyFree == {[Limits("free", 3, 6) EXCEPT !.patience = 2]}
AnyMode == {Limits(mode, 2, 4) : mode \in {"off", "once", "discussion", "free"}}
FreeThenRounds == {Limits("free", 2, 8), Limits("discussion", 2, 8)}
RoundsOrFree == TightRounds \cup OnlyFree
=============================================================================
