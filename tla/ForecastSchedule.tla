-------------------------- MODULE ForecastSchedule --------------------------
(***************************************************************************)
(* What an estimator promises about one metric, docs/estimator.md: it      *)
(* keeps a plan of points to send; a new forecast overwrites the plan from *)
(* its first point on; every point is sent once, when its time has come,   *)
(* the earliest first.  A forecast that leaves no point in the future is   *)
(* outside the promise: it may disorder the plan, a second one may bring   *)
(* back points of any earlier forecast, and it is fatal to an estimator    *)
(* that has nothing left to send.                                          *)
(***************************************************************************)
EXTENDS Integers, Sequences

CONSTANTS Points,      \* points: records with a field e, the time to send
          MaxNow

VARIABLES now,        \* the clock
          forecast,   \* the last forecast received
          heard,      \* the points of all forecasts received
          plan,       \* the points still to send
          log,        \* what was sent, and when
          expired,    \* a forecast with nothing to send was received
          crashed

vars == <<now, forecast, heard, plan, log, expired, crashed>>

Init ==
    /\ now = 0
    /\ forecast = {} /\ heard = {}
    /\ plan = {}
    /\ log = <<>>
    /\ expired = FALSE
    /\ crashed = FALSE

Tick ==
    /\ now < MaxNow
    /\ now' = now + 1
    /\ UNCHANGED <<forecast, heard, plan, log, expired, crashed>>

(* The plan before the new forecast, then the new forecast, from now on. *)
Merge(F) ==
    {p \in F : p.e > now}
      \cup {p \in plan : p.e > now /\ \A q \in F : p.e < q.e}

(* A forecast is received. *)
Hear ==
    /\ ~crashed
    /\ forecast' \in SUBSET Points
    /\ heard' = heard \cup forecast'

Accept ==
    /\ Hear
    /\ Merge(forecast') # {}
    /\ plan' = Merge(forecast')
    /\ UNCHANGED <<now, log, expired, crashed>>

AcceptExpired ==
    /\ Hear
    /\ Merge(forecast') = {}
    /\ expired' = TRUE
    /\ IF plan = {}
       THEN crashed' = TRUE /\ UNCHANGED plan
       ELSE /\ plan' \subseteq plan \cup forecast' \cup (IF expired THEN heard ELSE {})
            /\ UNCHANGED crashed
    /\ UNCHANGED <<now, log>>

Emit(p) ==
    /\ ~crashed
    /\ p \in plan
    /\ p.e <= now
    /\ expired \/ \A q \in plan : p.e <= q.e
    /\ plan' = plan \ {p}
    /\ log' = Append(log, [pt |-> p, at |-> now])
    /\ UNCHANGED <<now, forecast, heard, expired, crashed>>

Next == \/ Tick
        \/ Accept \/ AcceptExpired
        \/ \E p \in Points : Emit(p)

Spec == Init /\ [][Next]_vars
=============================================================================
