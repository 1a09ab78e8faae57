----------------------- MODULE MCEstimatorController -----------------------
(***************************************************************************)
(* Instances of EstimatorController for TLC.                               *)
(***************************************************************************)
EXTENDS EstimatorController, TLC

(* Their elements are only compared for equality. *)
Symmetry == Permutations(Estimators) \cup Permutations(Channels)
                \cup Permutations(Goroutines) \cup Permutations(FieldValues)
=============================================================================
