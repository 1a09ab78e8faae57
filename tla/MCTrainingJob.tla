---------------------------- MODULE MCTrainingJob ----------------------------
(* Finite instances of TrainingJob for TLC. *)
EXTENDS TrainingJob

Config(window, trajectoryRows, features) ==
    [windowSize |-> window, trajectoryRows |-> trajectoryRows,
     trajectoryFeatures |-> features, testRows |-> 2, testFeatures |-> 1,
     lag |-> 2]

(* One that works, and one with too many rows of the past. *)
MCDetections == {Config(3, 1, 1), Config(2, 7, 1)}

(* Too many rows of the past at first. *)
MCSpecs == <<[executeOn |-> 0, detection |-> Config(2, 7, 1)],
             [executeOn |-> 0, detection |-> Config(3, 1, 1)]>>

(* Two days and more: row 3 may be a change point. *)
MCRows == {7}

(* Days enough for change points in both halves of the data. *)
MCLongRows == {10}
=============================================================================
