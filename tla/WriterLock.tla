----------------------------- MODULE WriterLock -----------------------------
(***************************************************************************)
(* What the task board promises about write access, and nothing else: a    *)
(* table of grants in which two tasks never hold conflicting claims.       *)
(* There is no clock, no token and no session here.  TaskLease.tla is the  *)
(* detailed specification and implements this one.                         *)
(***************************************************************************)
CONSTANTS Tasks,           (* the tasks that may hold a claim               *)
          Claims,          (* what a task may be granted                    *)
          NoClaim,         (* a value outside Claims                        *)
          Conflict(_, _)   (* claims that exclude each other                *)

VARIABLES granted,   (* granted[t]: the claim t holds, or NoClaim           *)
          finished   (* tasks that are over and are never granted again     *)

lockVars == <<granted, finished>>

Holding == {t \in Tasks : granted[t] # NoClaim}

Init == /\ granted  = [t \in Tasks |-> NoClaim]
        /\ finished = {}

\* A task gets a claim only when no other task holds a conflicting one.
Grant(t, c) == /\ t \notin Holding \cup finished
               /\ \A u \in Holding : ~Conflict(c, granted[u])
               /\ granted' = [granted EXCEPT ![t] = c]
               /\ UNCHANGED finished

\* Any claims may be given up, several at once when their time is over.
Lapse(S) == /\ granted' = [t \in Tasks |-> IF t \in S THEN NoClaim ELSE granted[t]]
            /\ UNCHANGED finished

\* The holder finishes the task and gives up the claim in the same step.
Finish(t) == /\ t \in Holding
             /\ granted'  = [granted EXCEPT ![t] = NoClaim]
             /\ finished' = finished \cup {t}

Next == \/ \E t \in Tasks, c \in Claims : Grant(t, c)
        \/ \E S \in SUBSET Holding : Lapse(S)
        \/ \E t \in Tasks : Finish(t)

Spec == Init /\ [][Next]_lockVars

=============================================================================
