---------------------------- MODULE MCTaskLease -----------------------------
(***************************************************************************)
(* TaskLease on two scopes of one project: two tasks and two agents in the *)
(* first scope, a third task in the second.                                *)
(***************************************************************************)
EXTENDS TaskLease

CONSTANTS s1, s2, s3, a1, a2, sx, sy, t1, t2, t3

MCAgentOf   == [s \in Sessions |-> IF s = s1 THEN a1 ELSE a2]
MCScopeOf   == [s \in Sessions |-> IF s = s3 THEN sy ELSE sx]
MCTaskScope == [t \in Tasks |-> IF t = t3 THEN sy ELSE sx]

src    == <<"src">>
module == <<"src", "module">>

\* A writer of the directory, a writer of a file in it (whose policy names a2
\* as required peer), and a reader of the directory.
MCPlans ==
  { [read |-> {},    write |-> {src},    peers |-> {}],
    [read |-> {},    write |-> {module}, peers |-> {a2}],
    [read |-> {src}, write |-> {},       peers |-> {}] }

=============================================================================
