---------------------------- MODULE MCProcurement ----------------------------
(***************************************************************************)
(* A small market for Procurement.                                         *)
(***************************************************************************)
EXTENDS Procurement, TLC

CONSTANTS v1, v2, a1, a2, a3, a4

(* The second vendor is above the approval threshold.                      *)
Prices == v1 :> 2 @@ v2 :> 4

(* Trace ids are only compared.                                            *)
AnyTrace == Permutations(Traces)
=============================================================================
