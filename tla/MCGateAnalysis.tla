--------------------------- MODULE MCGateAnalysis ---------------------------
(* GateAnalysis with interchangeable sides of the partition. *)
EXTENDS GateAnalysis, TLC

GroupSymmetry == Permutations(Groups)
=============================================================================
