--------------------------- MODULE MCPointDelivery ---------------------------
(* Finite instances of PointDelivery for TLC. *)
EXTENDS PointDelivery

CONSTANTS u1

(* Two datapoints in one second, two values, gaps before and between.      *)
MCPairs == [ms : {2000, 2500, 5000}, v : {1}] \cup {[ms |-> 5000, v |-> 5]}

(* Up to three datapoints; three or four times, newest first.              *)
MCAnswers == UNION {[1..n -> MCPairs] : n \in 0..3}
             \cup {[k \in 1..4 |-> [ms |-> 700 * (6 - k), v |-> k]]}
             \cup {[k \in 1..4 |-> [ms |-> 1000 * (5 - k), v |-> k]]}

(* At 4 the datapoint after it is nearer than the one before. *)
MCTimestamps == {0, 2, 4, 5}

(* An interval of some width, a negative prediction without width below,   *)
(* and bounds in the wrong order.                                          *)
MCBands == {[yhat |-> 2, lower |-> 1, upper |-> 5],
            [yhat |-> -2, lower |-> -2, upper |-> 1],
            [yhat |-> 3, lower |-> 4, upper |-> 2]}

MCUnits == {NoUnit, u1}
=============================================================================
