--------------------------- MODULE MCProcessEngine ---------------------------
(***************************************************************************)
(* Small process definitions for ProcessEngine.                            *)
(***************************************************************************)
EXTENDS ProcessEngine, TLC

CONSTANTS s1, s2, s3, r1, r2, r3

(* Three steps, one after the other.                                       *)
ThreeSteps == {s1, s2, s3}
ChainDeps == s1 :> {} @@ s2 :> {s1} @@ s3 :> {s2}

(* s1 and s2 side by side, then s3.                                        *)
JoinDeps == s1 :> {} @@ s2 :> {} @@ s3 :> {s1, s2}

(* s1 and s2 side by side, nothing else.                                   *)
ForkSteps == {s1, s2}
ForkDeps == s1 :> {} @@ s2 :> {}

(* Each kind of error policy once, and the strictest one everywhere.       *)
MixedErrors == s1 :> "fail_process" @@ s2 :> "skip_step" @@ s3 :> "goto_step"
AllFail == [s \in ThreeSteps |-> "fail_process"]
ForkFail == [s \in ForkSteps |-> "fail_process"]

(* One step is attempted twice, the others once; or all of them once.      *)
LastTwice == s1 :> 1 @@ s2 :> 1 @@ s3 :> 2
ForkOnce == [s \in ForkSteps |-> 1]

OneRun == {r1}
TwoRuns == {r1, r2}
ThreeRuns == {r1, r2, r3}
=============================================================================
