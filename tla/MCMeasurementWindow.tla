------------------------- MODULE MCMeasurementWindow ------------------------
(* MeasurementWindow with interchangeable targets. *)
EXTENDS MeasurementWindow, TLC

TargetSymmetry == Permutations(Targets)
=============================================================================
