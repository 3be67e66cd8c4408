------------------------------ MODULE JobBoard ------------------------------
(***************************************************************************)
(* What the operation queue promises about the work it hands out, and      *)
(* nothing else: a job waits, runs, may go back to waiting or be told to   *)
(* stop, and is over once; of the jobs that need one resource at most one  *)
(* runs.  There is no clock, no worker and no discussion here.             *)
(* OperationQueue is the detailed specification and implements this one.   *)
(***************************************************************************)
CONSTANTS Jobs,      (* what can be asked for                               *)
          Keys,      (* the resources jobs need                             *)
          KeyOf      (* KeyOf[j]: the resource j needs                      *)

VARIABLE stage       (* stage[j]: where j stands                            *)

Stages == {"none", "waiting", "running", "stopping", "succeeded", "ended"}

Busy == {"running", "stopping"}

\* The moves of one job.  What has succeeded or ended is over, and a job that
\* was told to stop neither succeeds nor goes back to waiting.
Moves == {<<"none", "waiting">>, <<"waiting", "running">>, <<"waiting", "ended">>,
          <<"running", "waiting">>, <<"running", "stopping">>,
          <<"running", "succeeded">>, <<"running", "ended">>, <<"stopping", "ended">>}

Exclusive(st) == \A i, j \in Jobs :
  (i # j /\ KeyOf[i] = KeyOf[j] /\ st[i] \in Busy) => st[j] \notin Busy

Init == stage \in [Jobs -> {"none", "waiting"}]

\* One transaction may move several jobs: it returns or ends those whose
\* worker is lost and may start one more.
Next == /\ stage' \in [Jobs -> Stages]
        /\ \A j \in Jobs : stage'[j] = stage[j] \/ <<stage[j], stage'[j]>> \in Moves
        /\ Exclusive(stage')

Spec == Init /\ [][Next]_stage

=============================================================================
