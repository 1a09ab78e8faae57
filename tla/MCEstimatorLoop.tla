--------------------------- MODULE MCEstimatorLoop ---------------------------
(* Finite instances of EstimatorLoop for TLC. *)
EXTENDS EstimatorLoop

(* Four timestamps: two sent points may have matured when a third is sent. *)
MCShort == 2..5
=============================================================================
