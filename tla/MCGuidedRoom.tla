---------------------------- MODULE MCGuidedRoom ----------------------------
(***************************************************************************)
(* GuidedRoom with one operation per Room.                                 *)
(***************************************************************************)
EXTENDS GuidedRoom

CONSTANTS o1, k1, w1, w2

MCMaxAttempts == [o \in Operations |-> 2]
MCKeyOf == [o \in Operations |-> k1]

=============================================================================
