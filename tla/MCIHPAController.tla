-------------------------- MODULE MCIHPAController --------------------------
(* Finite instances of IHPAController for TLC. *)
EXTENDS IHPAController, TLC

(* Metrics, targets and IHPAs are interchangeable. *)
Symmetry == Permutations(Metrics) \cup Permutations(Targets)
            \cup Permutations(IHPAs)
=============================================================================
