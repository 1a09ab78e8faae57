---------------------------- MODULE PointDelivery ----------------------------
(***************************************************************************)
(* The timer case of estimator() in detail: how one point of a forecast is *)
(* adjusted by an earlier one and sent to Datadog as several metrics.  For *)
(* each metric Send posts the point, reads the unit of the metric that is  *)
(* forecast, and writes it to the metric posted; any request may fail, or  *)
(* be carried out although its answer is lost.  Errors are only logged.    *)
(* Which earlier point is looked up is modelled in EstimatorLoop; here it  *)
(* is any, or none.                                                        *)
(***************************************************************************)
EXTENDS DatadogFetch

CONSTANTS
    Series,       \* the metrics of a point: adjusted, raw, upper, lower
    Units,        \* units of metrics, NoUnit among them
    NoUnit,
    Bands,        \* predictions: records with yhat, lower and upper
    MaxUnitEdits  \* bound: changes of the unit of the forecast metric

ASSUME DeliveryAssumption ==
    /\ NoUnit \in Units /\ None \notin Units /\ None \notin Series
    /\ MaxUnitEdits \in Nat
    /\ \A b \in Bands : {b.yhat, b.lower, b.upper} \subseteq Int

VARIABLES
    pc,        \* "wait", "fetch", "send", "unit" or "put"
    curr,      \* the prediction to send
    prev,      \* the earlier one it is adjusted by
    actual,    \* the value of the metric at that time, None before Fetch
    adjusted,  \* adjustedYHat: a fraction, NaN with denominator 0
    todo,      \* metrics of the point not sent yet
    metric,    \* the metric being sent
    read,      \* the unit getUnit has returned
    logged,    \* metrics of the point whose Send returned an error
    stored,    \* the provider: metrics of the point it has stored
    unit,      \* the provider: unit of each metric sent
    base,      \* the provider: unit of the forecast metric, None if unknown
    outdated,  \* history: metrics sent before the last change of base
    edits

pointVars == <<curr, prev, actual, adjusted>>
sendVars == <<todo, metric, read, logged, stored>>
unitVars == <<unit, base, outdated, edits>>
vars == <<fetchVars, pc, pointVars, sendVars, unitVars>>

Real(n) == [num |-> n, den |-> 1]

Init ==
    /\ FetchInit
    /\ pc = "wait"
    /\ curr = None /\ prev = None /\ actual = None /\ adjusted = Real(0)
    /\ todo = {} /\ metric = None /\ read = None
    /\ logged = {} /\ stored = {}
    /\ unit = [s \in Series |-> NoUnit]
    /\ base \in Units \cup {None}
    /\ outdated = {}
    /\ edits = 0

(* The unit of the forecast metric is changed, or the metric removed. *)
EditUnit ==
    /\ edits < MaxUnitEdits
    /\ edits' = edits + 1
    /\ base' \in (Units \cup {None}) \ {base}
    /\ outdated' = Series
    /\ UNCHANGED <<fetchVars, pc, pointVars, sendVars, unit>>

(***************************************************************************)
(* adjustYHat                                                              *)
(***************************************************************************)
Consistent(b) == b.upper >= b.yhat /\ b.yhat >= b.lower

(* Mutant: an extraordinary value of the metric is taken as it is. *)
Smaller_Second(m, n) == n

Smaller(m, n) == IF m <= n THEN m ELSE n

(* The prediction is moved within its interval by the share of its own     *)
(* interval that the earlier one was off: 0/0 when that has no width.      *)
AdjustYHat(c, p, y) ==
    LET up == p.upper - p.yhat
        down == p.yhat - p.lower
    IN  IF ~(Consistent(p) /\ Consistent(c)) THEN Real(c.yhat)
        ELSE IF y > p.yhat
        THEN [num |-> c.yhat * up
                        + Smaller(up, y - p.yhat) * (c.upper - c.yhat),
              den |-> up]
        ELSE [num |-> c.yhat * down
                        - Smaller(down, p.yhat - y) * (c.yhat - c.lower),
              den |-> down]

(* Mutant: the adjustment is adopted in both directions, NaN included. *)
Adopted_Always(q, yhat) == q

(* Only an upper adjustment is adopted; comparisons with NaN are false. *)
Adopted(q, yhat) == IF q.den > 0 /\ q.num > yhat * q.den THEN q ELSE Real(yhat)

(* sendMap is made: the four values of the point, sent in any order. *)
Deliver(q) ==
    /\ adjusted' = q
    /\ pc' = "send"
    /\ todo' = Series

(* The first point after a read, or a mode other than "adjust". *)
TakeUnadjusted ==
    /\ pc = "wait"
    /\ curr' \in Bands
    /\ Deliver(Real(curr'.yhat))
    /\ UNCHANGED <<fetchVars, prev, actual, metric, read, logged, stored,
                   unitVars>>

(* No earlier point: prevData is the point itself and prevY is zero. *)
TakeWithoutPrevious ==
    /\ pc = "wait"
    /\ curr' \in Bands
    /\ Deliver(Adopted(AdjustYHat(curr', curr', 0), curr'.yhat))
    /\ UNCHANGED <<fetchVars, prev, actual, metric, read, logged, stored,
                   unitVars>>

TakeLookup ==
    /\ pc = "wait"
    /\ pc' = "fetch"
    /\ \E ts \in Timestamps : Ask(ts)
    /\ UNCHANGED <<pointVars, sendVars, unitVars>>

FetchOn ==
    /\ pc = "fetch"
    /\ FetchStep
    /\ UNCHANGED <<pc, pointVars, sendVars, unitVars>>

Adjust(y) ==
    /\ fpc' = "idle" /\ Reset
    /\ Deliver(Adopted(AdjustYHat(curr', prev', y), curr'.yhat))
    /\ UNCHANGED <<metric, read, logged, stored, unitVars>>

AdjustByActual ==
    /\ pc = "fetch" /\ fpc = "found"
    /\ curr' \in Bands /\ prev' \in Bands
    /\ actual' = mergedDps[lo].v
    /\ Adjust(actual')

(* Mutant: the zero that Fetch returned with its error is used. *)
Fallback_Zero(p) == 0

Fallback(p) == p.yhat

(* Fetch has failed: the earlier prediction stands for the actual value. *)
AdjustByPrediction ==
    /\ pc = "fetch" /\ fpc = "failed"
    /\ curr' \in Bands /\ prev' \in Bands
    /\ UNCHANGED actual
    /\ Adjust(Fallback(prev'))

(***************************************************************************)
(* Datadog.Send, for one metric after the other                            *)
(***************************************************************************)
NextMetric == metric' = None /\ read' = None /\ pc' = "send"

(* Mutant: an error returned by one of the requests is dropped. *)
LogError_Dropped(s) == NextMetric /\ UNCHANGED logged

LogError(s) == NextMetric /\ logged' = logged \cup {s}

Posted(s) ==
    /\ pc = "send"
    /\ s \in todo
    /\ todo' = todo \ {s}
    /\ UNCHANGED <<fetchVars, pointVars, unitVars>>

Post(s) ==
    /\ Posted(s)
    /\ stored' = stored \cup {s}
    /\ metric' = s
    /\ pc' = "unit"
    /\ UNCHANGED <<read, logged>>

PostFails(s) ==
    /\ Posted(s)
    /\ stored' \in {stored, stored \cup {s}}
    /\ LogError(s)

(* Mutant: the status of the answer is not checked. *)
Known_Unchecked == TRUE

Known == base # None

GetUnit ==
    /\ pc = "unit"
    /\ Known
    /\ read' = base
    /\ outdated' = outdated \ {metric}
    /\ pc' = "put"
    /\ UNCHANGED <<fetchVars, pointVars, todo, metric, logged, stored, unit,
                   base, edits>>

(* Also when the forecast metric is unknown to the provider. *)
GetUnitFails ==
    /\ pc = "unit"
    /\ LogError(metric)
    /\ UNCHANGED <<fetchVars, pointVars, todo, stored, unitVars>>

(* Mutant: the unit is only set on a metric that has none. *)
Labelled_Once(u) == IF unit[metric] = NoUnit
                    THEN [unit EXCEPT ![metric] = u] ELSE unit

Labelled(u) == [unit EXCEPT ![metric] = u]

SetUnit ==
    /\ pc = "put"
    /\ unit' = Labelled(read)
    /\ NextMetric
    /\ UNCHANGED <<fetchVars, pointVars, todo, logged, stored, base,
                   outdated, edits>>

SetUnitFails ==
    /\ pc = "put"
    /\ unit' \in {unit, Labelled(read)}
    /\ LogError(metric)
    /\ UNCHANGED <<fetchVars, pointVars, todo, stored, base, outdated,
                   edits>>

(* All metrics sent: on to the next point. *)
PointDone ==
    /\ pc = "send" /\ todo = {}
    /\ pc' = "wait"
    /\ curr' = None /\ prev' = None /\ actual' = None /\ adjusted' = Real(0)
    /\ logged' = {} /\ stored' = {}
    /\ UNCHANGED <<fetchVars, todo, metric, read, unitVars>>

(***************************************************************************)
(* The specification                                                       *)
(***************************************************************************)
Take == \/ TakeUnadjusted \/ TakeWithoutPrevious \/ TakeLookup
        \/ AdjustByActual \/ AdjustByPrediction

Loop == \/ Take \/ FetchOn
        \/ \E s \in Series : Post(s) \/ PostFails(s)
        \/ GetUnit \/ GetUnitFails \/ SetUnit \/ SetUnitFails
        \/ PointDone

Next == EditUnit \/ Loop

Spec == Init /\ [][Next]_vars

(* The goroutine goes on, and no request fails for ever. *)
Fairness ==
    /\ WF_vars(Loop)
    /\ \A s \in Series : /\ SF_vars(Post(s))
                         /\ SF_vars(GetUnit /\ metric = s)
                         /\ SF_vars(SetUnit /\ metric = s)

FairSpec == Spec /\ Fairness

(***************************************************************************)
(* Properties                                                              *)
(***************************************************************************)
Fractions == [num : Int, den : Nat]

TypeOK ==
    /\ FetchTypeOK
    /\ pc \in {"wait", "fetch", "send", "unit", "put"}
    /\ {curr, prev} \subseteq Bands \cup {None}
    /\ actual \in Int \cup {None}
    /\ adjusted \in Fractions
    /\ todo \subseteq Series /\ metric \in Series \cup {None}
    /\ read \in Units \cup {None}
    /\ logged \subseteq Series /\ stored \subseteq Series
    /\ unit \in [Series -> Units]
    /\ base \in Units \cup {None}
    /\ outdated \subseteq Series
    /\ edits \in 0..MaxUnitEdits

(* The value sent is a number, not below the prediction, and not above its *)
(* upper bound however far off the metric was ("get min to avoid response  *)
(* anormaly metric"), whatever the widths of the intervals and whatever    *)
(* Fetch found or failed to find.                                          *)
AdjustedInBand == pc = "send" =>
    /\ adjusted.den > 0
    /\ adjusted.num >= curr.yhat * adjusted.den
    /\ Consistent(curr) => adjusted.num <= curr.upper * adjusted.den
    /\ ~Consistent(curr) => adjusted = Real(curr.yhat)

(* A prediction is raised only because the metric was fetched and was      *)
(* above the earlier prediction, except that a negative prediction without *)
(* an earlier point is compared with zero, which nobody measured.          *)
RaisedOnEvidence ==
    pc = "send" /\ adjusted.num > curr.yhat * adjusted.den =>
        \/ actual # None /\ actual > prev.yhat
        \/ prev = None /\ curr.yhat < 0

(* A metric whose Send reported no error is stored and has the unit that   *)
(* the forecast metric has, unless that was changed since it was read: no  *)
(* failure of one of three requests is mistaken for success.               *)
SilenceMeansDone == \A s \in Series \ (todo \cup logged \cup {metric}) :
    pc \in {"send", "unit", "put"} =>
        s \in stored /\ (unit[s] = base \/ s \in outdated)

(* However often requests fail, the metrics sent get the unit of the       *)
(* forecast metric in the end, for each point sets it anew: without it the *)
(* HPA takes nanocores for cores.  Unless Fetch panics.                    *)
UnitSettles ==
    [](fpc # "panicked") /\ <>[](base # None)
        => <>[](\A s \in Series : unit[s] = base)

(* Every call of Fetch ends: the search never stops narrowing.             *)
FetchEnds == fpc = "query" ~> fpc \in {"found", "failed", "panicked"}
=============================================================================
