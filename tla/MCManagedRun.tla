---------------------------- MODULE MCManagedRun ----------------------------
(***************************************************************************)
(* ManagedRun with one operation of each kind: an Implement + Review, a    *)
(* release gate with two reviewers, an audit that may be tried twice, one  *)
(* that a schedule asks for, and one that an earlier version left to be    *)
(* retried.  All need one resource.                                        *)
(***************************************************************************)
EXTENDS ManagedRun

CONSTANTS implement, gate, audit, note, nightly, k1, w1, w2, base, c1

MCOperations == {implement, gate, audit, note, <<nightly, 1>>}
MCAutoRetry == Operations \ {implement, note}
MCKeyOf == [o \in Operations |-> k1]
MCCrew == [o \in Operations |-> IF o = gate THEN 2 ELSE 1]
MCMaxAttempts == [o \in Operations |-> IF o = audit THEN 2 ELSE 1]

\* Each alone; two that compete for the resource.
OneByOne == {{implement}, {gate}, {audit}, {note}, {<<nightly, 1>>}}
TwoAtOnce == {{note, <<nightly, 1>>}}

=============================================================================
