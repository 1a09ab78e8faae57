------------------------ MODULE PointDelivery_proofs ------------------------
(***************************************************************************)
(* Theorems about PointDelivery, for all predictions, answers and metrics. *)
(***************************************************************************)
EXTENDS PointDelivery, DatadogFetch_proofs

(***************************************************************************)
(* The inductive invariant                                                 *)
(***************************************************************************)
Sending == pc \in {"send", "unit", "put"}

(* The point to send is chosen when sending begins, with what it is        *)
(* adjusted by.                                                            *)
Chosen ==
    /\ Sending => curr \in Bands
    /\ ~Sending => prev = None /\ actual = None

(* A metric under way is stored already, and the unit read for it is the   *)
(* present one, unless that was changed since.                             *)
UnderWay ==
    /\ pc \in {"unit", "put"} => metric \in Series /\ metric \in stored
    /\ pc \notin {"unit", "put"} => metric = None
    /\ pc = "put" => /\ read \in Units
                     /\ read = base \/ metric \in outdated

(* AdjustedInBand and RaisedOnEvidence hold until the point is done, also  *)
(* between the requests for one metric.                                    *)
InBand(q, b) ==
    /\ q.den > 0
    /\ q.num >= b.yhat * q.den
    /\ Consistent(b) => q.num <= b.upper * q.den
    /\ ~Consistent(b) => q = Real(b.yhat)

Raised(q, b) == q.num > b.yhat * q.den

Justified ==
    Sending /\ Raised(adjusted, curr) =>
        \/ actual # None /\ actual > prev.yhat
        \/ prev = None /\ curr.yhat < 0

ValueInv == Sending => InBand(adjusted, curr)

(* TypeOK without the types of Fetch, which are part of FetchInv.          *)
DeliveryTypeOK ==
    /\ pc \in {"wait", "fetch", "send", "unit", "put"}
    /\ {curr, prev} \subseteq Bands \cup {None}
    /\ actual \in Int \cup {None}
    /\ adjusted \in Fractions
    /\ todo \subseteq Series /\ metric \in Series \cup {None}
    /\ read \in Units \cup {None}
    /\ logged \subseteq Series /\ stored \subseteq Series
    /\ unit \in [Series -> Units]
    /\ base \in Units \cup {None}
    /\ outdated \subseteq Series
    /\ edits \in 0..MaxUnitEdits

PointInv ==
    /\ DeliveryTypeOK
    /\ Chosen
    /\ UnderWay
    /\ ValueInv
    /\ Justified
    /\ SilenceMeansDone

DeliveryInv == FetchInv /\ PointInv

(***************************************************************************)
(* The arithmetic of the adjustment                                        *)
(***************************************************************************)
LEMMA ProductGrows ==
  ASSUME NEW a \in Int, NEW b \in Int, NEW w \in Int, a <= b, 0 <= w
  PROVE  a * w <= b * w
<1>1. b - a \in Nat /\ w \in Nat
  OBVIOUS
<1>2. 0 <= (b - a) * w
  BY <1>1
<1>3. (b - a) * w = b * w - a * w
  OBVIOUS
<1> QED
  BY <1>2, <1>3

LEMMA BandType ==
  ASSUME NEW b \in Bands
  PROVE  b.yhat \in Int /\ b.lower \in Int /\ b.upper \in Int
  BY DeliveryAssumption DEF DeliveryAssumption

LEMMA RealType ==
  ASSUME NEW n \in Int
  PROVE  Real(n) \in Fractions /\ Real(n).num = n /\ Real(n).den = 1
  BY DEF Real, Fractions

(* Whatever the metric was, the value adopted stays in the interval, and   *)
(* it is raised only if the metric was above the earlier prediction.       *)
LEMMA AdoptedInBand ==
  ASSUME NEW c \in Bands, NEW p \in Bands, NEW y \in Int,
         NEW q, q = Adopted(AdjustYHat(c, p, y), c.yhat)
  PROVE  /\ q \in Fractions
         /\ InBand(q, c)
         /\ Raised(q, c) => y > p.yhat
<1>1. /\ c.yhat \in Int /\ c.lower \in Int /\ c.upper \in Int
      /\ p.yhat \in Int /\ p.lower \in Int /\ p.upper \in Int
  BY BandType
<1>2. PICK z : z = AdjustYHat(c, p, y)
  OBVIOUS
<1>3. q = Adopted(z, c.yhat)
  BY <1>2
<1>4. PICK up \in Int, down \in Int :
         up = p.upper - p.yhat /\ down = p.yhat - p.lower
  BY <1>1
<1>5. ASSUME q = Real(c.yhat)
      PROVE  q \in Fractions /\ InBand(q, c) /\ ~Raised(q, c)
  <2>1. q \in Fractions /\ q.num = c.yhat /\ q.den = 1
    BY <1>1, <1>5, RealType
  <2>2. Consistent(c) => c.yhat <= c.upper
    BY <1>1 DEF Consistent
  <2> QED
    BY <1>1, <1>5, <2>1, <2>2 DEF InBand, Raised
<1>6. CASE ~(Consistent(p) /\ Consistent(c))
  <2>1. z = Real(c.yhat)
    BY <1>2, <1>6 DEF AdjustYHat
  <2>2. q = Real(c.yhat)
    BY <1>3, <2>1 DEF Adopted
  <2> QED
    BY <1>5, <2>2
<1>7. CASE Consistent(p) /\ Consistent(c) /\ y > p.yhat
  <2>1. PICK s \in Int, w \in Nat :
           /\ s = Smaller(up, y - p.yhat) /\ w = c.upper - c.yhat
           /\ s <= up /\ up \in Nat
    BY <1>1, <1>4, <1>7 DEF Consistent, Smaller
  <2>2. z = [num |-> c.yhat * up + s * w, den |-> up]
    BY <1>2, <1>4, <1>7, <2>1 DEF AdjustYHat
  <2>3. c.yhat * up \in Int /\ s * w \in Int /\ c.upper * up \in Int
    BY <1>1, <1>4, <2>1
  <2>4. z \in Fractions /\ z.num = c.yhat * up + s * w /\ z.den = up
    BY <2>1, <2>2, <2>3 DEF Fractions
  <2>5. s * w <= up * w
    BY <2>1, ProductGrows
  <2>6. up * w = c.upper * up - c.yhat * up
    BY <1>1, <1>4, <2>1
  <2>7. z.num <= c.upper * z.den
    BY <2>3, <2>4, <2>5, <2>6
  <2>8. CASE q = Real(c.yhat)
    BY <1>5, <2>8
  <2>9. CASE q # Real(c.yhat)
    <3>1. q = z /\ z.den > 0 /\ z.num > c.yhat * z.den
      BY <1>3, <2>9 DEF Adopted
    <3>2. c.yhat * z.den \in Int /\ z.num \in Int
      BY <1>1, <2>3, <2>4
    <3>3. InBand(q, c)
      BY <1>7, <2>7, <3>1, <3>2 DEF InBand
    <3> QED
      BY <1>7, <2>4, <3>1, <3>3
  <2> QED
    BY <2>8, <2>9
<1>8. CASE Consistent(p) /\ Consistent(c) /\ ~(y > p.yhat)
  <2>1. PICK s \in Nat, w \in Nat :
           /\ s = Smaller(down, p.yhat - y) /\ w = c.yhat - c.lower
    BY <1>1, <1>4, <1>8 DEF Consistent, Smaller
  <2>2. z = [num |-> c.yhat * down - s * w, den |-> down]
    BY <1>2, <1>4, <1>8, <2>1 DEF AdjustYHat
  <2>3. s * w \in Nat /\ c.yhat * down \in Int
    BY <1>1, <1>4, <2>1
  <2>4. z.num = c.yhat * down - s * w /\ z.den = down
    BY <2>2
  <2>5. ~(z.num > c.yhat * z.den)
    BY <2>3, <2>4
  <2>6. q = Real(c.yhat)
    BY <1>3, <2>5 DEF Adopted
  <2> QED
    BY <1>5, <2>6
<1> QED
  BY <1>6, <1>7, <1>8

(***************************************************************************)
(* A point is taken                                                        *)
(***************************************************************************)
(* Sending begins with a value in its interval, raised for a reason.       *)
LEMMA DeliverKeepsInv ==
  ASSUME DeliveryInv, pc \in {"wait", "fetch"}, NEW q \in Fractions,
         curr' \in Bands, prev' \in Bands \cup {None},
         actual' \in Int \cup {None}, InBand(q, curr'),
         Raised(q, curr') => \/ actual' # None /\ actual' > prev'.yhat
                             \/ prev' = None /\ curr'.yhat < 0,
         Deliver(q), UNCHANGED <<metric, read, logged, stored, unitVars>>
  PROVE  PointInv'
<1>1. DeliveryTypeOK /\ metric = None
  BY DEF DeliveryInv, PointInv, UnderWay
<1>2. adjusted' = q /\ pc' = "send" /\ todo' = Series
  BY DEF Deliver
<1>3. UNCHANGED <<metric, read, logged, stored, unit, base, outdated, edits>>
  BY DEF unitVars
<1>4. DeliveryTypeOK'
  BY <1>1, <1>2, <1>3 DEF DeliveryTypeOK
<1>5. Chosen' /\ UnderWay'
  BY <1>1, <1>2, <1>3 DEF Chosen, UnderWay, Sending
<1>6. ValueInv' /\ Justified'
  BY <1>2 DEF ValueInv, Justified
<1>7. SilenceMeansDone'
  BY <1>2 DEF SilenceMeansDone
<1> QED
  BY <1>4, <1>5, <1>6, <1>7 DEF PointInv

LEMMA TakeKeepsInv == ASSUME DeliveryInv, Take PROVE PointInv'
<1>1. ASSUME TakeUnadjusted PROVE PointInv'
  <2>1. PICK q : q = Real(curr'.yhat)
    OBVIOUS
  <2>2. pc = "wait" /\ curr' \in Bands /\ Deliver(q)
    BY <1>1, <2>1 DEF TakeUnadjusted
  <2>3. UNCHANGED <<prev, actual, metric, read, logged, stored, unitVars>>
    BY <1>1 DEF TakeUnadjusted
  <2>4. prev' = None /\ actual' = None
    BY <2>2, <2>3 DEF DeliveryInv, PointInv, Chosen, Sending
  <2>5. q \in Fractions /\ InBand(q, curr') /\ ~Raised(q, curr')
    <3>1. /\ curr'.yhat \in Int /\ curr'.upper \in Int
          /\ Consistent(curr') => curr'.yhat <= curr'.upper
      BY <2>2, BandType DEF Consistent
    <3>2. q \in Fractions /\ q.num = curr'.yhat /\ q.den = 1
      BY <2>1, <3>1, RealType
    <3> QED
      BY <2>1, <3>1, <3>2 DEF InBand, Raised
  <2> QED
    BY <2>2, <2>3, <2>4, <2>5, DeliverKeepsInv
<1>2. ASSUME TakeWithoutPrevious PROVE PointInv'
  <2>1. PICK q : q = Adopted(AdjustYHat(curr', curr', 0), curr'.yhat)
    OBVIOUS
  <2>2. pc = "wait" /\ curr' \in Bands /\ Deliver(q)
    BY <1>2, <2>1 DEF TakeWithoutPrevious
  <2>3. UNCHANGED <<prev, actual, metric, read, logged, stored, unitVars>>
    BY <1>2 DEF TakeWithoutPrevious
  <2>4. prev' = None /\ actual' = None
    BY <2>2, <2>3 DEF DeliveryInv, PointInv, Chosen, Sending
  <2>5. q \in Fractions /\ InBand(q, curr') /\ (Raised(q, curr') => 0 > curr'.yhat)
    BY <2>1, <2>2, AdoptedInBand
  <2>6. curr'.yhat \in Int
    BY <2>2, BandType
  <2> QED
    BY <2>2, <2>3, <2>4, <2>5, <2>6, DeliverKeepsInv
<1>3. ASSUME TakeLookup PROVE PointInv'
  <2>1. pc = "wait" /\ pc' = "fetch" /\ UNCHANGED <<pointVars, sendVars, unitVars>>
    BY <1>3 DEF TakeLookup
  <2>2. UNCHANGED <<curr, prev, actual, adjusted, todo, metric, read, logged,
                    stored, unit, base, outdated, edits>>
    BY <2>1 DEF pointVars, sendVars, unitVars
  <2> QED
    BY <2>1, <2>2
       DEF DeliveryInv, PointInv, DeliveryTypeOK, Chosen, UnderWay, ValueInv,
           Justified, SilenceMeansDone, Sending
<1>4. ASSUME AdjustByActual PROVE PointInv'
  <2>1. PICK q : q = Adopted(AdjustYHat(curr', prev', actual'), curr'.yhat)
    OBVIOUS
  <2>2. /\ pc = "fetch" /\ fpc = "found" /\ curr' \in Bands /\ prev' \in Bands
        /\ actual' = mergedDps[lo].v /\ Adjust(actual')
    BY <1>4 DEF AdjustByActual
  <2>3. Deliver(q) /\ UNCHANGED <<metric, read, logged, stored, unitVars>>
    BY <2>1, <2>2 DEF Adjust
  <2>4. actual' \in Int /\ actual' # None
    <3>1. lo \in DOMAIN mergedDps /\ mergedDps \in Seq(Datapoints)
      BY <2>2, InvFindsLatest DEF DeliveryInv, FoundIsLatest, FetchInv, FetchTypeOK
    <3>2. mergedDps[lo] \in Datapoints
      BY <3>1
    <3>3. mergedDps[lo].v \in Int
      BY <3>2 DEF Datapoints
    <3> QED
      BY <2>2, <3>3, FetchAssumption DEF FetchAssumption
  <2>5. q \in Fractions /\ InBand(q, curr') /\ (Raised(q, curr') => actual' > prev'.yhat)
    BY <2>1, <2>2, <2>4, AdoptedInBand
  <2> QED
    BY <2>2, <2>3, <2>4, <2>5, DeliverKeepsInv
<1>5. ASSUME AdjustByPrediction PROVE PointInv'
  <2>1. PICK q : q = Adopted(AdjustYHat(curr', prev', prev'.yhat), curr'.yhat)
    OBVIOUS
  <2>2. /\ pc = "fetch" /\ curr' \in Bands /\ prev' \in Bands
        /\ UNCHANGED actual /\ Adjust(prev'.yhat)
    BY <1>5 DEF AdjustByPrediction, Fallback
  <2>3. Deliver(q) /\ UNCHANGED <<metric, read, logged, stored, unitVars>>
    BY <2>1, <2>2 DEF Adjust
  <2>4. prev'.yhat \in Int /\ actual' = None
    BY <2>2, BandType DEF DeliveryInv, PointInv, Chosen, Sending
  <2>5. q \in Fractions /\ InBand(q, curr') /\ (Raised(q, curr') => prev'.yhat > prev'.yhat)
    BY <2>1, <2>2, <2>4, AdoptedInBand
  <2>6. ~Raised(q, curr')
    BY <2>4, <2>5
  <2> QED
    BY <2>2, <2>3, <2>4, <2>5, <2>6, DeliverKeepsInv
<1> QED
  BY <1>1, <1>2, <1>3, <1>4, <1>5 DEF Take

(***************************************************************************)
(* The requests for one metric                                             *)
(***************************************************************************)
(* Posting leaves the other metrics alone; a failure is remembered.        *)
LEMMA PostKeepsInv ==
  ASSUME DeliveryInv, NEW s \in Series, Post(s) \/ PostFails(s)
  PROVE  PointInv'
<1>1. /\ pc = "send" /\ s \in todo /\ todo' = todo \ {s}
      /\ UNCHANGED <<curr, prev, actual, adjusted, unit, base, outdated, edits>>
      /\ stored' \in {stored, stored \cup {s}}
  BY DEF Post, PostFails, Posted, pointVars, unitVars
<1>2. DeliveryTypeOK /\ Chosen /\ UnderWay /\ ValueInv /\ Justified /\ SilenceMeansDone
  BY DEF DeliveryInv, PointInv
<1>3. metric = None
  BY <1>1, <1>2 DEF UnderWay
<1>4. CASE Post(s)
  <2>1. /\ stored' = stored \cup {s} /\ metric' = s /\ pc' = "unit"
        /\ UNCHANGED <<read, logged>>
    BY <1>4 DEF Post
  <2>2. DeliveryTypeOK' /\ Chosen' /\ UnderWay'
    BY <1>1, <1>2, <2>1 DEF DeliveryTypeOK, Chosen, UnderWay, Sending
  <2>3. ValueInv' /\ Justified'
    BY <1>1, <1>2, <2>1 DEF ValueInv, Justified, Sending
  <2>4. SilenceMeansDone'
    BY <1>1, <1>2, <1>3, <2>1, DeliveryAssumption
       DEF DeliveryAssumption, SilenceMeansDone
  <2> QED
    BY <2>2, <2>3, <2>4 DEF PointInv
<1>5. CASE PostFails(s)
  <2>1. /\ metric' = None /\ read' = None /\ pc' = "send"
        /\ logged' = logged \cup {s}
    BY <1>5 DEF PostFails, LogError, NextMetric
  <2>2. DeliveryTypeOK' /\ Chosen' /\ UnderWay'
    BY <1>1, <1>2, <2>1 DEF DeliveryTypeOK, Chosen, UnderWay, Sending
  <2>3. ValueInv' /\ Justified'
    BY <1>1, <1>2, <2>1 DEF ValueInv, Justified, Sending
  <2>4. SilenceMeansDone'
    BY <1>1, <1>2, <1>3, <2>1, DeliveryAssumption
       DEF DeliveryAssumption, SilenceMeansDone
  <2> QED
    BY <2>2, <2>3, <2>4 DEF PointInv
<1> QED
  BY <1>4, <1>5

(* The unit that is read is the present one: no change before is missed.   *)
LEMMA GetUnitKeepsInv ==
  ASSUME DeliveryInv, GetUnit \/ GetUnitFails
  PROVE  PointInv'
<1>1. /\ pc = "unit"
      /\ UNCHANGED <<curr, prev, actual, adjusted, todo, stored, unit, base, edits>>
  BY DEF GetUnit, GetUnitFails, pointVars, unitVars
<1>2. DeliveryTypeOK /\ Chosen /\ UnderWay /\ ValueInv /\ Justified /\ SilenceMeansDone
  BY DEF DeliveryInv, PointInv
<1>3. metric \in Series /\ metric \in stored
  BY <1>1, <1>2 DEF UnderWay
<1>4. CASE GetUnit
  <2>1. /\ base # None /\ read' = base /\ outdated' = outdated \ {metric}
        /\ pc' = "put" /\ UNCHANGED <<metric, logged>>
    BY <1>4 DEF GetUnit, Known
  <2>2. DeliveryTypeOK' /\ Chosen' /\ UnderWay'
    BY <1>1, <1>2, <1>3, <2>1 DEF DeliveryTypeOK, Chosen, UnderWay, Sending
  <2>3. ValueInv' /\ Justified'
    BY <1>1, <1>2, <2>1 DEF ValueInv, Justified, Sending
  <2>4. SilenceMeansDone'
    BY <1>1, <1>2, <2>1 DEF SilenceMeansDone
  <2> QED
    BY <2>2, <2>3, <2>4 DEF PointInv
<1>5. CASE GetUnitFails
  <2>1. /\ metric' = None /\ read' = None /\ pc' = "send"
        /\ logged' = logged \cup {metric} /\ outdated' = outdated
    BY <1>5 DEF GetUnitFails, LogError, NextMetric, unitVars
  <2>2. DeliveryTypeOK' /\ Chosen' /\ UnderWay'
    BY <1>1, <1>2, <1>3, <2>1 DEF DeliveryTypeOK, Chosen, UnderWay, Sending
  <2>3. ValueInv' /\ Justified'
    BY <1>1, <1>2, <2>1 DEF ValueInv, Justified, Sending
  <2>4. SilenceMeansDone'
    BY <1>1, <1>2, <2>1 DEF SilenceMeansDone
  <2> QED
    BY <2>2, <2>3, <2>4 DEF PointInv
<1> QED
  BY <1>4, <1>5

(* The unit that is written was read for this metric: it is the present    *)
(* one or known to be outdated.                                            *)
LEMMA SetUnitKeepsInv ==
  ASSUME DeliveryInv, SetUnit \/ SetUnitFails
  PROVE  PointInv'
<1>1. /\ pc = "put" /\ pc' = "send" /\ metric' = None /\ read' = None
      /\ UNCHANGED <<curr, prev, actual, adjusted, todo, stored, base,
                     outdated, edits>>
  BY DEF SetUnit, SetUnitFails, LogError, NextMetric, pointVars
<1>2. DeliveryTypeOK /\ Chosen /\ UnderWay /\ ValueInv /\ Justified /\ SilenceMeansDone
  BY DEF DeliveryInv, PointInv
<1>3. /\ metric \in Series /\ metric \in stored /\ read \in Units
      /\ read = base \/ metric \in outdated
  BY <1>1, <1>2 DEF UnderWay
<1>4. PICK u : u = Labelled(read)
  OBVIOUS
<1>5. /\ u \in [Series -> Units] /\ u[metric] = read
      /\ \A x \in Series \ {metric} : u[x] = unit[x]
  BY <1>2, <1>3, <1>4 DEF DeliveryTypeOK, Labelled
<1>6. \/ unit' = u /\ logged' = logged
      \/ unit' \in {unit, u} /\ logged' = logged \cup {metric}
  BY <1>4 DEF SetUnit, SetUnitFails, LogError
<1>7. DeliveryTypeOK' /\ Chosen' /\ UnderWay'
  BY <1>1, <1>2, <1>3, <1>5, <1>6 DEF DeliveryTypeOK, Chosen, UnderWay, Sending
<1>8. ValueInv' /\ Justified'
  BY <1>1, <1>2 DEF ValueInv, Justified, Sending
<1>9. SilenceMeansDone'
  BY <1>1, <1>2, <1>3, <1>5, <1>6 DEF SilenceMeansDone
<1> QED
  BY <1>7, <1>8, <1>9 DEF PointInv

(* Nothing of a point is left when the next one is taken.                  *)
LEMMA PointDoneKeepsInv == ASSUME DeliveryInv, PointDone PROVE PointInv'
<1>1. /\ pc = "send" /\ pc' = "wait" /\ curr' = None /\ prev' = None
      /\ actual' = None /\ adjusted' = Real(0) /\ logged' = {} /\ stored' = {}
      /\ UNCHANGED <<todo, metric, read, unit, base, outdated, edits>>
  BY DEF PointDone, unitVars
<1>2. adjusted' \in Fractions
  BY <1>1, RealType
<1>3. DeliveryTypeOK /\ UnderWay
  BY DEF DeliveryInv, PointInv
<1>4. DeliveryTypeOK'
  BY <1>1, <1>2, <1>3 DEF DeliveryTypeOK
<1> QED
  BY <1>1, <1>3, <1>4
     DEF PointInv, Chosen, UnderWay, ValueInv, Justified, SilenceMeansDone, Sending

(* After a change of the unit every metric sent is known to be outdated.   *)
LEMMA EditUnitKeepsInv == ASSUME DeliveryInv, EditUnit PROVE PointInv'
<1>1. /\ edits < MaxUnitEdits /\ edits' = edits + 1
      /\ base' \in Units \cup {None} /\ outdated' = Series
      /\ UNCHANGED <<pc, curr, prev, actual, adjusted, todo, metric, read,
                     logged, stored, unit>>
  BY DEF EditUnit, pointVars, sendVars
<1>2. DeliveryTypeOK /\ Chosen /\ UnderWay /\ ValueInv /\ Justified /\ SilenceMeansDone
  BY DEF DeliveryInv, PointInv
<1>3. DeliveryTypeOK'
  BY <1>1, <1>2, DeliveryAssumption DEF DeliveryAssumption, DeliveryTypeOK
<1>4. Chosen' /\ UnderWay'
  BY <1>1, <1>2 DEF Chosen, UnderWay, Sending
<1>5. ValueInv' /\ Justified'
  BY <1>1, <1>2 DEF ValueInv, Justified, Sending
<1>6. SilenceMeansDone'
  BY <1>1, <1>2 DEF SilenceMeansDone
<1> QED
  BY <1>3, <1>4, <1>5, <1>6 DEF PointInv

(* What Fetch does, or nothing, does not touch the point.                  *)
LEMMA PointUntouched ==
  ASSUME DeliveryInv, UNCHANGED <<pc, pointVars, sendVars, unitVars>>
  PROVE  PointInv'
<1>1. UNCHANGED <<pc, curr, prev, actual, adjusted, todo, metric, read, logged,
                  stored, unit, base, outdated, edits>>
  BY DEF pointVars, sendVars, unitVars
<1>2. DeliveryTypeOK /\ Chosen /\ UnderWay /\ ValueInv /\ Justified /\ SilenceMeansDone
  BY DEF DeliveryInv, PointInv
<1>3. DeliveryTypeOK' /\ Chosen' /\ UnderWay'
  BY <1>1, <1>2 DEF DeliveryTypeOK, Chosen, UnderWay, Sending
<1>4. ValueInv' /\ Justified' /\ SilenceMeansDone'
  BY <1>1, <1>2 DEF ValueInv, Justified, SilenceMeansDone, Sending
<1> QED
  BY <1>3, <1>4 DEF PointInv

(***************************************************************************)
(* Fetch inside the loop                                                   *)
(***************************************************************************)
(* The loop leaves Fetch alone, lets it take a step of its own, or drops   *)
(* what it has found and starts anew.                                      *)
LEMMA LoopSteps ==
  ASSUME [Next]_vars
  PROVE  UNCHANGED fetchVars \/ FetchNext \/ (fpc' = "idle" /\ Reset)
<1>1. CASE TakeLookup
  BY <1>1 DEF TakeLookup, FetchNext
<1>2. CASE FetchOn
  BY <1>2 DEF FetchOn, FetchNext
<1>3. CASE AdjustByActual \/ AdjustByPrediction
  BY <1>3 DEF AdjustByActual, AdjustByPrediction, Adjust
<1>4. \/ UNCHANGED fetchVars \/ TakeLookup \/ FetchOn
      \/ AdjustByActual \/ AdjustByPrediction
  BY DEF vars, Next, Loop, Take, EditUnit, TakeUnadjusted, TakeWithoutPrevious,
         Post, PostFails, Posted, GetUnit, GetUnitFails, SetUnit, SetUnitFails,
         PointDone
<1> QED
  BY <1>1, <1>2, <1>3, <1>4

LEMMA LoopKeepsFetchInv == ASSUME FetchInv, [Next]_vars PROVE FetchInv'
<1>1. CASE fpc' = "idle" /\ Reset
  BY <1>1 DEF Reset, FetchInv, FetchTypeOK, Fresh, Merging, Searching
<1> QED
  BY <1>1, LoopSteps, StepKeepsInv, AskKeepsInv, StutterKeepsInv DEF FetchNext

(* A new call of Fetch begins without datapoints.                          *)
FetchResults == RoomInv /\ TotalsInv

LEMMA LoopKeepsResults ==
  ASSUME FetchInv, FetchResults, [Next]_vars PROVE FetchResults'
<1>1. CASE UNCHANGED fetchVars
  BY <1>1 DEF fetchVars, FetchResults, RoomInv, PanicsOnlyOutOfRange, TotalsInv,
              MergedAll, MergedSoFar
<1>2. CASE FetchNext
  BY <1>2, RoomStep, TotalsStep DEF FetchResults
<1>3. CASE fpc' = "idle" /\ Reset
  BY <1>3 DEF Reset, FetchResults, RoomInv, PanicsOnlyOutOfRange, TotalsInv
<1> QED
  BY <1>1, <1>2, <1>3, LoopSteps

(***************************************************************************)
(* The theorems                                                            *)
(***************************************************************************)
(* The value chosen, the request under way and the metrics sent stay       *)
(* consistent, whatever fails and whenever the unit is changed.            *)
THEOREM DeliveryInvariant == Spec => []DeliveryInv
<1>1. Init => DeliveryInv
  <2> SUFFICES ASSUME Init PROVE DeliveryInv
    OBVIOUS
  <2>1. FetchInv
    BY InitInv DEF Init
  <2>2. Real(0) \in Fractions
    BY RealType
  <2>3. DeliveryTypeOK
    BY <2>2, DeliveryAssumption DEF DeliveryAssumption, Init, DeliveryTypeOK
  <2>4. Chosen /\ UnderWay /\ ValueInv /\ Justified /\ SilenceMeansDone
    BY DEF Init, Chosen, UnderWay, ValueInv, Justified, SilenceMeansDone, Sending
  <2> QED
    BY <2>1, <2>3, <2>4 DEF DeliveryInv, PointInv
<1>2. DeliveryInv /\ [Next]_vars => DeliveryInv'
  <2> SUFFICES ASSUME DeliveryInv, [Next]_vars PROVE DeliveryInv'
    OBVIOUS
  <2>1. CASE Next
    <3>1. FetchInv'
      BY LoopKeepsFetchInv DEF DeliveryInv
    <3>2. PointInv'
      BY <2>1, TakeKeepsInv, PostKeepsInv, GetUnitKeepsInv, SetUnitKeepsInv,
         PointDoneKeepsInv, EditUnitKeepsInv, PointUntouched
         DEF Next, Loop, FetchOn
    <3> QED
      BY <3>1, <3>2 DEF DeliveryInv
  <2>2. CASE UNCHANGED vars
    <3>1. UNCHANGED fetchVars /\ UNCHANGED <<pc, pointVars, sendVars, unitVars>>
      BY <2>2 DEF vars
    <3> QED
      BY <3>1, StutterKeepsInv, PointUntouched DEF DeliveryInv
  <2> QED
    BY <2>1, <2>2
<1> QED
  BY <1>1, <1>2, PTL DEF Spec

(* Every variable of the loop and of Fetch has its type, for all metrics,  *)
(* predictions and answers.                                                *)
THEOREM TypeCorrect == Spec => []TypeOK
<1>1. DeliveryInv => TypeOK
  BY DEF DeliveryInv, PointInv, FetchInv, DeliveryTypeOK, TypeOK
<1> QED
  BY <1>1, DeliveryInvariant, PTL

(* adjustYHat never leaves the interval of the prediction upwards and      *)
(* never goes below it, for all intervals and all values of the metric.    *)
THEOREM AdjustmentInBand == Spec => []AdjustedInBand
<1>1. DeliveryInv => AdjustedInBand
  BY DEF DeliveryInv, PointInv, ValueInv, InBand, AdjustedInBand, Sending
<1> QED
  BY <1>1, DeliveryInvariant, PTL

(* A prediction is not raised for a metric that Fetch did not find above   *)
(* the earlier one, a negative prediction without an earlier one aside.    *)
THEOREM RaisesHaveEvidence == Spec => []RaisedOnEvidence
<1>1. DeliveryInv => RaisedOnEvidence
  BY DEF DeliveryInv, PointInv, Justified, Raised, RaisedOnEvidence, Sending
<1> QED
  BY <1>1, DeliveryInvariant, PTL

(* A metric that no error was logged for is stored with the unit of the    *)
(* forecast metric, whichever of the requests fail.                        *)
THEOREM SilentMetricsAreDone == Spec => []SilenceMeansDone
<1>1. DeliveryInv => SilenceMeansDone
  BY DEF DeliveryInv, PointInv
<1> QED
  BY <1>1, DeliveryInvariant, PTL

(* What every call of Fetch builds and finds, however often the loop calls *)
(* it again, and between which requests.                                   *)
LEMMA ResultsInvariant == Spec => [](FetchInv /\ FetchResults)
<1>1. Init => FetchInv /\ FetchResults
  BY InitInv DEF Init, FetchInit, FetchResults, RoomInv, PanicsOnlyOutOfRange,
                 TotalsInv
<1>2. FetchInv /\ FetchResults /\ [Next]_vars => FetchInv' /\ FetchResults'
  BY LoopKeepsFetchInv, LoopKeepsResults
<1> QED
  BY <1>1, <1>2, PTL DEF Spec

(* The actual value that adjusts a point is a total over all hosts: in     *)
(* every call of Fetch the merged series has each time of the answer once, *)
(* in order, with the sum of what was reported for it.                     *)
THEOREM LoopMergesTotals == Spec => []MergedIsTotals
<1>1. FetchInv /\ FetchResults => MergedIsTotals
  BY TotalsSuffice DEF FetchResults
<1> QED
  BY <1>1, ResultsInvariant, PTL

(* It is the value at the last time that is not after the one asked for.   *)
THEOREM LoopFindsLatest == Spec => []FoundIsLatest
  BY ResultsInvariant, InvFindsLatest, PTL

(* The goroutine panics in Fetch only for an answer without datapoints or  *)
(* with more times than places.                                            *)
THEOREM LoopPanicsOnlyThere == Spec => []PanicsOnlyOutOfRange
<1>1. FetchInv /\ FetchResults => PanicsOnlyOutOfRange
  BY DEF FetchResults, RoomInv
<1> QED
  BY <1>1, ResultsInvariant, PTL

(* What is sent is adjusted by the total of all hosts at the last time that *)
(* is not after the earlier point: the order in which an unstable sort left *)
(* the datapoints and the halving make no difference.                       *)
THEOREM LoopReturnsLatestTotal == Spec => []LatestTotal
<1>1. FetchInv => FetchTypeOK
  BY DEF FetchInv
<1> QED
  BY <1>1, ResultsInvariant, LoopMergesTotals, LoopFindsLatest, LatestTotalHolds, PTL

(* In the goroutine too every round of Fetch's loops comes nearer to its    *)
(* end: once answered, no call of Fetch goes round for ever.               *)
THEOREM LoopFetchShrinks == Spec => LoopsProgress
<1>1. FetchInv /\ [Next]_vars => [MergeProgress /\ SearchProgress]_fetchVars
  <2>1. ASSUME fpc' = "idle" PROVE MergeProgress /\ SearchProgress
    BY <2>1 DEF MergeProgress, SearchProgress
  <2> QED
    BY <2>1, LoopSteps, StepProgresses
<1> QED
  BY <1>1, ResultsInvariant, PTL DEF Spec, LoopsProgress
=============================================================================
