----------------------------- MODULE MCScheduler -----------------------------
(***************************************************************************)
(* Small deployments for Scheduler.                                        *)
(***************************************************************************)
EXTENDS Scheduler

CONSTANTS s1, i1, daily, sunday

OneSchedule == {s1}
OneInstance == {i1}
TwoRuns == 1..2
=============================================================================
