------------------------ MODULE MCMailboxSupervisor ------------------------
(***************************************************************************)
(* A small instance of MailboxSupervisor: a person who writes one message  *)
(* to each of two model agents, of which the second also reads its mail    *)
(* with a client of its own.                                               *)
(***************************************************************************)
EXTENDS MailboxSupervisor

CONSTANTS human, left, right, hs, ls, rs, own, leftProfile, rightProfile

MCAgentOf == [s \in Sessions |-> CASE s = hs -> human [] s = ls -> left [] OTHER -> right]
MCRouteAgent == [r \in Routes |-> IF r = leftProfile THEN left ELSE right]
MCRouteOf == [s \in Sessions |-> CASE s = hs -> NoRoute [] s = ls -> leftProfile
                                   [] OTHER -> rightProfile]
MCBridge == [r \in Routes |-> IF r = leftProfile THEN ls ELSE rs]
MCSeats == [a \in Agents |-> CASE a = human -> NoRoute [] a = left -> leftProfile
                               [] a = right -> rightProfile]
MCSends == {<<human, left, leftProfile>>, <<human, right, rightProfile>>}
=============================================================================
