----------------------------- MODULE ChangePoint -----------------------------
(***************************************************************************)
(* SingularSpectrumTransformation without its linear algebra: which rows   *)
(* of n may be change points, which slices of the data are looked at for   *)
(* them, and which are kept.  Rows are counted from 0 as in the code.        *)
(***************************************************************************)
EXTENDS Integers

CONSTANTS RowsPerDay  \* 24*12 in the code

ASSUME RowsAssumption == RowsPerDay \in Nat \ {0}

(* The fields of ChangePointDetectionConfig, 1 or more by the CRD.         *)
DetectionConfigs ==
    [windowSize : Nat \ {0}, trajectoryRows : Nat \ {0},
     trajectoryFeatures : Nat \ {0}, testRows : Nat \ {0},
     testFeatures : Nat \ {0}, lag : Nat \ {0}]

(* __init__ returns early, the object lacks its parameters. *)
HasWindow(d) == d.trajectoryFeatures <= d.windowSize
                /\ d.testFeatures <= d.windowSize

TrajectoryAt(t, d) == t - d.windowSize - d.trajectoryFeatures + 1

TestAt(t, d) == TrajectoryAt(t, d) + d.lag - 1

(* Mutant: the test matrix may reach beyond the data. *)
Eligible_Unchecked(n, d) == {t \in 0..(n - 1) : TrajectoryAt(t, d) >= 0}

(* Rows whose rate of change is computed; it is 0 for the others. *)
Eligible(n, d) ==
    {t \in 0..(n - 1) : /\ TrajectoryAt(t, d) >= 0
                        /\ TestAt(t, d) + d.windowSize + d.testRows < n}

(* data[start : start + windowSize] is shorter at the end of the data.     *)
SliceLength(n, start, d) ==
    IF start + d.windowSize <= n THEN d.windowSize
    ELSE IF start <= n THEN n - start ELSE 0

(* A slice is assigned to a row of the matrix; one value fills any row.    *)
Fits(n, start, rows, d) ==
    \A i \in 0..(rows - 1) : SliceLength(n, start + i, d) \in {1, d.windowSize}

WindowsInRange(n, d) == \A t \in Eligible(n, d) :
    /\ Fits(n, TrajectoryAt(t, d), d.trajectoryRows, d)
    /\ Fits(n, TestAt(t, d), d.testRows, d)

(* The loop over the reversed rates ends with the earliest rate beyond the *)
(* threshold, and its index from the end is used as one from the start.    *)
CutIndex(n, first) == n - 1 - first

(* run(): the first row that is trained by; what is cut down to less than  *)
(* a day is ignored.                                                       *)
TrainingStart(n, idx) == IF n - idx < RowsPerDay THEN 0 ELSE idx
=============================================================================
