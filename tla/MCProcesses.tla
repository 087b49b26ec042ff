----------------------------- MODULE MCProcesses -----------------------------
(***************************************************************************)
(* Small sets of definitions for Processes.                                *)
(***************************************************************************)
EXTENDS Processes, TLC

CONSTANTS outer, inner

(* outer runs the process inner, which asks an agent or a human.           *)
Pair == {outer, inner}
Contents == outer :> {"sub_process"} @@ inner :> {"agent_task", "human_approval"}
Name == outer :> "parent" @@ inner :> "child"
Version == [d \in Pair |-> 1]
Calls == [d \in Pair |-> "child"]
Latest == [d \in Pair |-> 0]
Attempts == outer :> 2 @@ inner :> 1
OnError == [d \in Pair |-> "fail_process"]
Scheduled == outer :> TRUE @@ inner :> FALSE

(* One start with everything that can hit it, and two starts that share    *)
(* the limits.                                                             *)
Mixes ==
  {[starts |-> 1, retired |-> 1, cancels |-> 0, restarts |-> 1, faults |-> 1],
   [starts |-> 1, retired |-> 0, cancels |-> 1, restarts |-> 1, faults |-> 0],
   [starts |-> 2, retired |-> 0, cancels |-> 1, restarts |-> 0, faults |-> 0]}
=============================================================================
