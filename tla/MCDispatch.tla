----------------------------- MODULE MCDispatch -----------------------------
(***************************************************************************)
(* A small instance of Dispatch: an operator and one model agent that two  *)
(* processes serve, the one with the identity of its route profile and the *)
(* other without.                                                          *)
(***************************************************************************)
EXTENDS Dispatch

CONSTANTS human, model, h1, m1, m2, profile

MCAgents == {human, model}
MCSessions == {h1, m1, m2}
MCAgentOf == [s \in Sessions |-> IF s = h1 THEN human ELSE model]
MCRoutes == {profile}
MCRouteAgent == [r \in MCRoutes |-> model]
MCSeats == [a \in MCAgents |-> NoRoute]
\* A routed message to the model, and one to everyone.
MCSends == {<<human, model, profile>>, <<human, Everyone, NoRoute>>}
MCRouteOf == [s \in Sessions |-> IF s = m1 THEN profile ELSE NoRoute]
=============================================================================
