------------------------------- MODULE MCFleet -------------------------------
(***************************************************************************)
(* Small fleets for Fleet.                                                 *)
(***************************************************************************)
EXTENDS Fleet, TLC

CONSTANTS ours, agent1, agent2, h1, h2

(* agent1 stands for "my-agent", agent2 for "my-agent-2", whose container  *)
(* is listed as "my-2".                                                    *)
ThreeNames == {ours, agent1, agent2}
ShownAs == ours :> ours @@ agent1 :> agent1 @@ agent2 :> None
Versions == <<agent1, agent2>>
FiveBoxes == 1..5
TwoHandlers == {h1, h2}
(* A fleet of which no agent has been renamed yet.                         *)
Unrenamed == Spec /\ \A b \in Present : box[b].home = box[b].name
Swaps == Permutations(TwoHandlers)
=============================================================================
