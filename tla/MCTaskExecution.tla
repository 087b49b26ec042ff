--------------------------- MODULE MCTaskExecution ---------------------------
(***************************************************************************)
(* Small deployments for TaskExecution.                                    *)
(***************************************************************************)
EXTENDS TaskExecution, TLC

CONSTANTS t1, t2, t3, w1, w2

ThreeTasks == {t1, t2, t3}
TwoWorkers == {w1, w2}
Split == t1 :> w1 @@ t2 :> w2 @@ t3 :> w1

(* The two tasks at the first worker are interchangeable.                  *)
SameWorker == Permutations({t1, t3})
=============================================================================
