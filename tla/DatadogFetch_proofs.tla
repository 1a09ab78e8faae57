------------------------- MODULE DatadogFetch_proofs -------------------------
(***************************************************************************)
(* Theorems about DatadogFetch, for every answer, timestamp and capacity.  *)
(***************************************************************************)
EXTENDS DatadogFetch, FiniteSetTheorems, WellFoundedInduction, TLAPS

(* Whatever sort.Slice makes of datapoints is a sequence of as many         *)
(* datapoints, in the order of their times.                                 *)
LEMMA SortsType ==
  ASSUME NEW s \in Seq(Datapoints), NEW q \in Sorts(s)
  PROVE  /\ q \in Seq(Datapoints)
         /\ Len(q) = Len(s)
         /\ \A j, k \in DOMAIN q : j < k => q[j].t <= q[k].t
<1>1. PICK p \in Bijection(DOMAIN s, DOMAIN s) :
         q = [k \in DOMAIN s |-> s[p[k]]]
  BY DEF Sorts
<1>2. p \in [DOMAIN s -> DOMAIN s]
  BY DEF Bijection, Injection
<1>3. q = [k \in 1..Len(s) |-> s[p[k]]] /\ \A k \in 1..Len(s) : s[p[k]] \in Datapoints
  BY <1>1, <1>2
<1>4. q \in Seq(Datapoints) /\ Len(q) = Len(s)
  BY <1>3
<1> QED
  BY <1>4 DEF Sorts

(* Milliseconds divided by a thousand are a time.                           *)
LEMMA AnswerType ==
  ASSUME NEW a \in Answers
  PROVE  [k \in DOMAIN a |-> Datapoint(a[k])] \in Seq(Datapoints)
<1>1. a \in Seq([ms : Int, v : Int])
  BY FetchAssumption DEF FetchAssumption
<1>2. ASSUME NEW k \in 1..Len(a) PROVE Datapoint(a[k]) \in Datapoints
  <2>1. a[k] \in [ms : Int, v : Int]
    <3> DEFINE R == [ms : Int, v : Int]
    <3>1. a \in Seq(R)
      BY <1>1
    <3> HIDE DEF R
    <3>2. a[k] \in R
      BY <3>1
    <3> QED
      BY <3>2 DEF R
  <2>2. a[k].ms \div 1000 \in Int /\ a[k].v \in Int
    BY <2>1
  <2> QED
    BY <2>2 DEF Datapoint, Datapoints
<1>3. DOMAIN a = 1..Len(a) /\ Len(a) \in Nat
  BY <1>1
<1> QED
  BY <1>2, <1>3

(* The order of a series survives a change of its last value (Added), and   *)
(* the addition of a later datapoint.                                       *)
LEMMA OrderedGrows ==
  ASSUME NEW s \in Seq(Datapoints), s # <<>>, Ordered(s), NEW dp \in Datapoints
  PROVE  /\ dp.t = s[Len(s)].t => Ordered([s EXCEPT ![Len(s)] = dp])
         /\ s[Len(s)].t < dp.t => Ordered(Append(s, dp))
<1>1. ASSUME dp.t = s[Len(s)].t PROVE Ordered([s EXCEPT ![Len(s)] = dp])
  BY <1>1 DEF Ordered, Datapoints
<1>2. ASSUME s[Len(s)].t < dp.t PROVE Ordered(Append(s, dp))
  <2> DEFINE q == Append(s, dp)
  <2>1. /\ DOMAIN q = 1..(Len(s) + 1)
        /\ \A k \in 1..Len(s) : q[k] = s[k]
        /\ q[Len(s) + 1] = dp
    OBVIOUS
  <2>2. \A j \in 1..Len(s) : s[j].t < dp.t
    <3> SUFFICES ASSUME NEW j \in 1..Len(s) PROVE s[j].t < dp.t
      OBVIOUS
    <3>1. j = Len(s) \/ s[j].t < s[Len(s)].t
      BY DEF Ordered
    <3>2. s[j].t \in Int /\ s[Len(s)].t \in Int /\ dp.t \in Int
      <4>1. s[j] \in Datapoints /\ s[Len(s)] \in Datapoints
        OBVIOUS
      <4> QED
        BY <4>1 DEF Datapoints
    <3> QED
      BY <1>2, <3>1, <3>2
  <2> QED
    BY <2>1, <2>2 DEF Ordered
<1> QED
  BY <1>1, <1>2

(* An answer is sorted, and the merge starts at its first time.             *)
LEMMA AnswerKeepsInv == ASSUME FetchInv, QueryAnswers PROVE FetchInv'
<1>1. PICK a \in Answers :
         IF a = <<>>
         THEN fpc' = "panicked" /\ UNCHANGED <<dps, mergedDps>>
         ELSE /\ fpc' = "merge"
              /\ dps' \in Sorts([k \in DOMAIN a |-> Datapoint(a[k])])
              /\ mergedDps' = <<[t |-> dps'[1].t, v |-> 0]>>
  BY DEF QueryAnswers
<1>2. fpc = "query" /\ next = 1 /\ want \in Int /\ UNCHANGED <<want, next, lo, hi>>
  BY DEF QueryAnswers, FetchInv, Fresh
<1>3. CASE a = <<>>
  BY <1>1, <1>2, <1>3 DEF FetchInv, FetchTypeOK, Fresh, Merging, Searching
<1>4. CASE a # <<>>
  <2> DEFINE s == [k \in DOMAIN a |-> Datapoint(a[k])]
  <2>1. s \in Seq(Datapoints) /\ Len(s) = Len(a) /\ Len(a) >= 1
    BY <1>4, AnswerType, FetchAssumption DEF FetchAssumption
  <2>2. /\ dps' \in Seq(Datapoints) /\ Len(dps') = Len(a)
        /\ \A j, k \in DOMAIN dps' : j < k => dps'[j].t <= dps'[k].t
    <3> HIDE DEF s
    <3> QED
      BY <1>1, <1>4, <2>1, SortsType DEF s
  <2>3. dps'[1] \in Datapoints /\ dps'[1].t \in Int /\ dps' # <<>>
    <3>1. dps'[1] \in Datapoints /\ dps' # <<>>
      BY <2>1, <2>2
    <3> QED
      BY <3>1 DEF Datapoints
  <2>4. /\ mergedDps' \in Seq(Datapoints) /\ Len(mergedDps') = 1
        /\ mergedDps'[1].t = dps'[1].t
    <3> DEFINE z == [t |-> dps'[1].t, v |-> 0]
    <3>1. z \in Datapoints /\ z.t = dps'[1].t
      BY <2>3 DEF Datapoints
    <3>2. mergedDps' = <<z>>
      BY <1>1, <1>4
    <3> HIDE DEF z
    <3> QED
      BY <3>1, <3>2
  <2>5. Ordered(mergedDps') /\ mergedDps' # <<>>
    <3>1. DOMAIN mergedDps' = {1} /\ mergedDps' # <<>>
      BY <2>4
    <3> QED
      BY <3>1 DEF Ordered
  <2> QED
    BY <1>1, <1>2, <1>4, <2>1, <2>2, <2>3, <2>4, <2>5
       DEF FetchInv, FetchTypeOK, Fresh, Merging, Searching, Top
<1> QED
  BY <1>3, <1>4

(* A round of the merge keeps the merged series ordered and behind dps.     *)
LEMMA MergeKeepsInv == ASSUME FetchInv, Merge PROVE FetchInv'
<1>1. /\ fpc = "merge" /\ next \in 1..Len(dps) /\ next' = next + 1
      /\ want \in Int /\ UNCHANGED <<want, dps, lo, hi>>
      /\ FetchTypeOK /\ Ordered(mergedDps) /\ mergedDps # <<>>
      /\ \A j, k \in DOMAIN dps : j < k => dps[j].t <= dps[k].t
      /\ Top.t <= dps[next].t
  BY DEF Merge, FetchInv, Merging, FetchTypeOK
<1>2. dps[next] \in Datapoints /\ Top \in Datapoints
  BY <1>1 DEF FetchTypeOK, Top
<1>3. next' <= Len(dps) => dps[next].t <= dps[next'].t
  BY <1>1 DEF FetchTypeOK
<1>4. CASE Top.t = dps[next].t
  <2>1. mergedDps' = [mergedDps EXCEPT ![Len(mergedDps)] = Added(dps[next])] /\ fpc' = fpc
    BY <1>4 DEF Merge
  <2>2. Added(dps[next]) \in Datapoints /\ Added(dps[next]).t = Top.t
    BY <1>2 DEF Added, Datapoints
  <2>3. /\ mergedDps' \in Seq(Datapoints) /\ Ordered(mergedDps')
        /\ mergedDps' # <<>> /\ mergedDps'[Len(mergedDps')].t = Top.t
    <3>1. /\ mergedDps' \in Seq(Datapoints) /\ Len(mergedDps') = Len(mergedDps)
          /\ mergedDps'[Len(mergedDps)] = Added(dps[next])
      BY <1>1, <2>1, <2>2 DEF FetchTypeOK
    <3>2. Added(dps[next]).t = mergedDps[Len(mergedDps)].t
      BY <2>2 DEF Top
    <3>3. Ordered([mergedDps EXCEPT ![Len(mergedDps)] = Added(dps[next])])
      BY <1>1, <2>2, <3>2, OrderedGrows DEF FetchTypeOK
    <3> QED
      BY <1>1, <2>1, <2>2, <3>1, <3>3
  <2> QED
    BY <1>1, <1>3, <1>4, <2>1, <2>3
       DEF FetchInv, FetchTypeOK, Fresh, Merging, Searching, Top
<1>5. CASE Top.t # dps[next].t /\ Room
  <2>1. mergedDps' = Append(mergedDps, dps[next]) /\ fpc' = fpc
    BY <1>5 DEF Merge
  <2>2. Top.t < dps[next].t
    BY <1>1, <1>2, <1>5 DEF Datapoints
  <2>3. /\ mergedDps' \in Seq(Datapoints) /\ Ordered(mergedDps')
        /\ mergedDps' # <<>> /\ mergedDps'[Len(mergedDps')] = dps[next]
    <3>1. /\ mergedDps' \in Seq(Datapoints) /\ mergedDps' # <<>>
          /\ mergedDps'[Len(mergedDps')] = dps[next]
      BY <1>1, <1>2, <2>1 DEF FetchTypeOK
    <3>2. mergedDps[Len(mergedDps)].t < dps[next].t
      BY <2>2 DEF Top
    <3>3. Ordered(Append(mergedDps, dps[next]))
      BY <1>1, <1>2, <3>2, OrderedGrows DEF FetchTypeOK
    <3> QED
      BY <2>1, <3>1, <3>3
  <2> QED
    BY <1>1, <1>3, <2>1, <2>3
       DEF FetchInv, FetchTypeOK, Fresh, Merging, Searching, Top
<1>6. CASE Top.t # dps[next].t /\ ~Room
  <2>1. fpc' = "panicked" /\ UNCHANGED mergedDps
    BY <1>6 DEF Merge
  <2> QED
    BY <1>1, <2>1 DEF FetchInv, FetchTypeOK, Fresh, Merging, Searching
<1> QED
  BY <1>4, <1>5, <1>6

(* A halving leaves a part that is not empty, whose first element is not    *)
(* after the time asked for and behind which everything is.                 *)
LEMMA HalveKeepsInv == ASSUME FetchInv, Halve PROVE FetchInv'
<1>1. /\ fpc = "search" /\ want \in Int /\ Ordered(mergedDps)
      /\ lo \in 1..hi /\ hi \in 1..Len(mergedDps) /\ lo < hi
      /\ lo = 1 \/ mergedDps[lo].t <= want
      /\ hi = Len(mergedDps) \/ mergedDps[hi + 1].t > want
      /\ FetchTypeOK
      /\ UNCHANGED <<fpc, want, dps, mergedDps, next>>
  BY DEF Halve, FetchInv, Searching
<1>2. Middle \in (lo + 1)..hi
  BY <1>1 DEF Middle, FetchTypeOK
<1>3. mergedDps[Middle].t \in Int
  <2>1. mergedDps[Middle] \in Datapoints
    BY <1>1, <1>2 DEF FetchTypeOK
  <2> QED
    BY <2>1 DEF Datapoints
<1>4. CASE Beyond(mergedDps[Middle])
  BY <1>1, <1>2, <1>3, <1>4
     DEF Halve, Beyond, FetchInv, FetchTypeOK, Fresh, Merging, Searching
<1>5. CASE ~Beyond(mergedDps[Middle])
  BY <1>1, <1>2, <1>3, <1>5
     DEF Halve, Beyond, FetchInv, FetchTypeOK, Fresh, Merging, Searching
<1> QED
  BY <1>4, <1>5

(* The steps of Fetch inside a composition.                                 *)
LEMMA StepKeepsInv == ASSUME FetchInv, FetchStep PROVE FetchInv'
<1>1. ASSUME QueryFails PROVE FetchInv'
  BY <1>1 DEF QueryFails, Reset, FetchInv, FetchTypeOK, Fresh, Merging, Searching
<1>2. ASSUME MergeDone PROVE FetchInv'
  BY <1>2 DEF MergeDone, FetchInv, FetchTypeOK, Fresh, Merging, Searching
<1>3. ASSUME Found PROVE FetchInv'
  BY <1>3 DEF Found, FetchInv, FetchTypeOK, Fresh, Merging, Searching
<1> QED
  BY <1>1, <1>2, <1>3, AnswerKeepsInv, MergeKeepsInv, HalveKeepsInv DEF FetchStep

LEMMA AskKeepsInv ==
  ASSUME FetchInv, NEW ts \in Timestamps, Ask(ts) PROVE FetchInv'
  BY FetchAssumption
     DEF FetchAssumption, Ask, FetchInv, FetchTypeOK, Fresh, Merging, Searching

LEMMA InitInv == ASSUME FetchInit PROVE FetchInv
  BY DEF FetchInit, FetchInv, FetchTypeOK, Fresh, Merging, Searching

LEMMA StutterKeepsInv == ASSUME FetchInv, UNCHANGED fetchVars PROVE FetchInv'
  BY DEF fetchVars, FetchInv, FetchTypeOK, Fresh, Merging, Searching, Top, Ordered

(* The types, the order of the series and the bounds of the search hold in  *)
(* every state of a call of Fetch.                                          *)
THEOREM FetchInvariant == FetchSpec => []FetchInv
<1>1. FetchInit => FetchInv
  BY InitInv
<1>2. FetchInv /\ [FetchNext]_fetchVars => FetchInv'
  BY StepKeepsInv, AskKeepsInv, StutterKeepsInv DEF FetchNext
<1> QED
  BY <1>1, <1>2, PTL DEF FetchSpec

(* Where the halving ends is the last datapoint not after the time.         *)
LEMMA InvFindsLatest == ASSUME FetchInv PROVE FoundIsLatest
<1> SUFFICES ASSUME fpc = "found" 
             PROVE  /\ lo \in DOMAIN mergedDps
                    /\ mergedDps[lo].t <= want \/ lo = 1
                    /\ \A k \in DOMAIN mergedDps : mergedDps[k].t <= want => k <= lo
  BY DEF FoundIsLatest
<1>1. /\ mergedDps \in Seq(Datapoints) /\ want \in Int /\ Ordered(mergedDps)
      /\ lo \in 1..Len(mergedDps) /\ hi = lo
      /\ lo = 1 \/ mergedDps[lo].t <= want
      /\ lo = Len(mergedDps) \/ mergedDps[lo + 1].t > want
  BY DEF FetchInv, FetchTypeOK, Searching
<1>2. ASSUME NEW k \in 1..Len(mergedDps), mergedDps[k].t <= want, k > lo
      PROVE  FALSE
  <2>1. mergedDps[lo + 1].t > want /\ lo + 1 \in 1..Len(mergedDps)
    BY <1>1, <1>2
  <2>2. k = lo + 1 \/ mergedDps[lo + 1].t < mergedDps[k].t
    BY <1>1, <1>2, <2>1 DEF Ordered
  <2>3. mergedDps[k].t \in Int /\ mergedDps[lo + 1].t \in Int
    <3>1. mergedDps[k] \in Datapoints /\ mergedDps[lo + 1] \in Datapoints
      BY <1>1, <1>2, <2>1
    <3> QED
      BY <3>1 DEF Datapoints
  <2> QED
    BY <1>1, <1>2, <2>1, <2>2, <2>3
<1> QED
  BY <1>1, <1>2

(* Fetch answers with the last datapoint that is not after the time it was  *)
(* asked for, or with the first, however the answer is merged and halved.   *)
THEOREM SearchFindsLatest == FetchSpec => []FoundIsLatest
  BY FetchInvariant, InvFindsLatest, PTL

(* A merged series has only times of the datapoints, each once; there is no *)
(* datapoint before the query has been answered.                            *)
RoomInv ==
  /\ fpc \in {"idle", "query"} => dps = <<>>
  /\ fpc = "merge" => Times(mergedDps) \subseteq Times(dps)
  /\ PanicsOnlyOutOfRange

(* As many datapoints in strict order as there are places, and one more     *)
(* time, are more times than places.                                        *)
LEMMA FullAndOneMore ==
  ASSUME NEW s \in Seq(Datapoints), Ordered(s),
         NEW d \in Seq(Datapoints), Times(s) \subseteq Times(d),
         NEW t \in Times(d), t \notin Times(s), NEW n \in Nat, Len(s) >= n
  PROVE  Cardinality(Times(d)) > n
<1>1. Len(s) \in Nat /\ Len(d) \in Nat /\ DOMAIN s = 1..Len(s) /\ DOMAIN d = 1..Len(d)
  OBVIOUS
<1>2. \A k \in 1..Len(s) : s[k].t \in Int
  <2>1. \A k \in 1..Len(s) : s[k] \in Datapoints
    OBVIOUS
  <2> QED
    BY <2>1 DEF Datapoints
<1>3. IsFiniteSet(1..Len(s)) /\ Cardinality(1..Len(s)) = Len(s)
  <2>1. \A k \in Nat : IsFiniteSet(1..k) /\ Cardinality(1..k) = k
    BY FS_Interval
  <2> QED
    BY <1>1, <2>1, Zenon
<1>4. IsFiniteSet(Times(d))
  <2>1. IsFiniteSet(1..Len(d))
    BY <1>1, FS_Interval
  <2> DEFINE g == [k \in 1..Len(d) |-> d[k].t]
  <2>2. g \in Surjection(1..Len(d), Times(d))
    BY <1>1 DEF Surjection, Times
  <2> HIDE DEF g
  <2> QED
    BY <2>1, <2>2, FS_Surjection
<1>5. Times(s) \cup {t} \subseteq Times(d)
  OBVIOUS
<1>6. IsFiniteSet(Times(s)) /\ Cardinality(Times(s)) = Len(s)
  <2> DEFINE f == [k \in 1..Len(s) |-> s[k].t]
  <2>1. \A j, k \in 1..Len(s) : f[j] = f[k] => j = k
    BY <1>1, <1>2 DEF Ordered
  <2>2. f \in [1..Len(s) -> Times(s)] /\ \A u \in Times(s) : \E k \in 1..Len(s) : f[k] = u
    BY <1>1 DEF Times
  <2>3. f \in Bijection(1..Len(s), Times(s))
    <3> HIDE DEF f
    <3> QED
      BY <2>1, <2>2 DEF Bijection, Injection, Surjection, IsInjective
  <2> HIDE DEF f
  <2>4. ExistsBijection(1..Len(s), Times(s))
    BY <2>3 DEF ExistsBijection
  <2> QED
    BY <1>3, <2>4, FS_Bijection, Zenon
<1>7. Cardinality(Times(s) \cup {t}) = Len(s) + 1
  BY <1>6, FS_AddElement
<1>8. Cardinality(Times(s) \cup {t}) <= Cardinality(Times(d))
  BY <1>4, <1>5, FS_Subset
<1>9. Cardinality(Times(d)) \in Nat
  BY <1>4, FS_CardinalityType
<1> QED
  BY <1>1, <1>7, <1>8, <1>9

(* All times of the merged series but the last are before the next one.     *)
LEMMA EarlierTimes ==
  ASSUME FetchInv, fpc = "merge", next \in 1..Len(dps),
         NEW k \in 1..Len(mergedDps), k # Len(mergedDps) \/ Top.t # dps[next].t
  PROVE  mergedDps[k].t # dps[next].t
<1>1. /\ mergedDps \in Seq(Datapoints) /\ dps \in Seq(Datapoints)
      /\ Ordered(mergedDps) /\ mergedDps # <<>> /\ Top.t <= dps[next].t
  BY DEF FetchInv, FetchTypeOK, Merging
<1>2. CASE k = Len(mergedDps)
  BY <1>2 DEF Top
<1>3. CASE k # Len(mergedDps)
  <2>1. /\ k \in DOMAIN mergedDps /\ Len(mergedDps) \in DOMAIN mergedDps
        /\ k < Len(mergedDps)
    BY <1>1, <1>3
  <2>2. mergedDps[k].t < mergedDps[Len(mergedDps)].t
    BY <1>1, <2>1, Zenon DEF Ordered
  <2>3. /\ mergedDps[k] \in Datapoints /\ dps[next] \in Datapoints
        /\ mergedDps[Len(mergedDps)] \in Datapoints
    BY <1>1, <2>1
  <2>4. /\ mergedDps[k].t \in Int /\ dps[next].t \in Int
        /\ mergedDps[Len(mergedDps)].t \in Int
    BY <2>3 DEF Datapoints
  <2> QED
    BY <1>1, <2>2, <2>4 DEF Top
<1> QED
  BY <1>2, <1>3

LEMMA RoomStep == ASSUME FetchInv, RoomInv, FetchNext PROVE RoomInv'
<1>1. CASE QueryAnswers
  <2>1. PICK a \in Answers :
           IF a = <<>>
           THEN fpc' = "panicked" /\ UNCHANGED <<dps, mergedDps>>
           ELSE /\ fpc' = "merge"
                /\ dps' \in Sorts([k \in DOMAIN a |-> Datapoint(a[k])])
                /\ mergedDps' = <<[t |-> dps'[1].t, v |-> 0]>>
    BY <1>1 DEF QueryAnswers
  <2>2. CASE a = <<>>
    <3>1. fpc' = "panicked" /\ dps' = <<>>
      BY <1>1, <2>1, <2>2 DEF QueryAnswers, RoomInv
    <3> QED
      BY <3>1 DEF RoomInv, PanicsOnlyOutOfRange
  <2>3. CASE a # <<>>
    <3>1. fpc' = "merge" /\ mergedDps' = <<[t |-> dps'[1].t, v |-> 0]>>
      BY <2>1, <2>3
    <3>2. FetchInv'
      BY <1>1, AnswerKeepsInv
    <3>3. dps' # <<>> /\ dps' \in Seq(Datapoints)
      BY <3>1, <3>2 DEF FetchInv, Merging, FetchTypeOK
    <3>4. 1 \in DOMAIN dps'
      BY <3>3
    <3>5. DOMAIN mergedDps' = {1} /\ mergedDps'[1].t = dps'[1].t
      BY <3>1
    <3>6. Times(mergedDps') \subseteq Times(dps')
      BY <3>4, <3>5 DEF Times
    <3> QED
      BY <3>1, <3>6 DEF RoomInv, PanicsOnlyOutOfRange
  <2> QED
    BY <2>2, <2>3
<1>2. CASE Merge
  <2>1. /\ fpc = "merge" /\ next \in 1..Len(dps) /\ dps' = dps
        /\ mergedDps \in Seq(Datapoints) /\ dps \in Seq(Datapoints)
        /\ Ordered(mergedDps) /\ mergedDps # <<>>
        /\ Top.t <= dps[next].t
        /\ Times(mergedDps) \subseteq Times(dps)
    BY <1>2 DEF Merge, FetchInv, FetchTypeOK, Merging, RoomInv
  <2>2. /\ DOMAIN mergedDps = 1..Len(mergedDps) /\ Len(mergedDps) \in Nat \ {0}
        /\ next \in DOMAIN dps /\ dps[next] \in Datapoints
    BY <2>1
  <2>3. dps[next].t \in Times(dps)
    BY <2>2 DEF Times
  <2>4. CASE Top.t = dps[next].t
    <3>1. /\ mergedDps' = [mergedDps EXCEPT ![Len(mergedDps)] = Added(dps[next])]
          /\ fpc' = "merge"
      BY <1>2, <2>1, <2>4 DEF Merge
    <3>2. Top \in Datapoints /\ Top = mergedDps[Len(mergedDps)]
      BY <2>1, <2>2 DEF Top
    <3>3. Added(dps[next]).t = Top.t
      BY <3>2 DEF Added, Datapoints
    <3>4. /\ DOMAIN mergedDps' = DOMAIN mergedDps
          /\ \A k \in DOMAIN mergedDps : mergedDps'[k].t = mergedDps[k].t
      BY <2>2, <3>1, <3>2, <3>3
    <3>5. Times(mergedDps') = Times(mergedDps)
      BY <3>4 DEF Times
    <3> QED
      BY <2>1, <3>1, <3>5 DEF RoomInv, PanicsOnlyOutOfRange
  <2>5. CASE Top.t # dps[next].t /\ Room
    <3>1. mergedDps' = Append(mergedDps, dps[next]) /\ fpc' = "merge"
      BY <1>2, <2>1, <2>5 DEF Merge
    <3>2. \A k \in DOMAIN mergedDps' : \/ mergedDps'[k] = dps[next]
                                       \/ /\ k \in DOMAIN mergedDps
                                          /\ mergedDps'[k] = mergedDps[k]
      BY <2>1, <2>2, <3>1
    <3>3. Times(mergedDps') \subseteq Times(mergedDps) \cup {dps[next].t}
      BY <3>2 DEF Times
    <3> QED
      BY <2>1, <2>3, <3>1, <3>3 DEF RoomInv, PanicsOnlyOutOfRange
  <2>6. CASE Top.t # dps[next].t /\ ~Room
    <3>1. fpc' = "panicked"
      BY <1>2, <2>6 DEF Merge
    <3>2. dps[next].t \notin Times(mergedDps)
      <4>1. \A k \in 1..Len(mergedDps) : mergedDps[k].t # dps[next].t
        BY <2>1, <2>6, EarlierTimes
      <4> QED
        BY <2>2, <4>1 DEF Times
    <3>3. Places \in Nat /\ Len(mergedDps) >= Places
      BY <2>2, <2>6, FetchAssumption DEF Room, FetchAssumption
    <3>4. Cardinality(Times(dps)) > Places
      BY <2>1, <2>3, <3>2, <3>3, FullAndOneMore
    <3> QED
      BY <2>1, <3>1, <3>4 DEF RoomInv, PanicsOnlyOutOfRange
  <2> QED
    BY <2>4, <2>5, <2>6
<1>3. CASE MergeDone \/ Found \/ Halve
  BY <1>3 DEF MergeDone, Found, Halve, RoomInv, PanicsOnlyOutOfRange
<1>4. CASE QueryFails
  BY <1>4 DEF QueryFails, Reset, RoomInv, PanicsOnlyOutOfRange
<1>5. CASE \E ts \in Timestamps : Ask(ts)
  BY <1>5 DEF Ask, RoomInv, PanicsOnlyOutOfRange
<1> QED
  BY <1>1, <1>2, <1>3, <1>4, <1>5 DEF FetchNext, FetchStep

(* Fetch indexes out of range only for an answer without datapoints or with *)
(* more times than mergeAllSeriesDatapointToOne has places for, and for no  *)
(* other answer, however its hosts and times are mixed and searched.        *)
THEOREM PanicsOnlyThere == FetchSpec => []PanicsOnlyOutOfRange
<1>1. FetchInit => RoomInv
  BY DEF FetchInit, RoomInv, PanicsOnlyOutOfRange
<1>2. FetchInv /\ RoomInv /\ [FetchNext]_fetchVars => RoomInv'
  <2>1. ASSUME RoomInv, UNCHANGED fetchVars PROVE RoomInv'
    BY <2>1 DEF fetchVars, RoomInv, PanicsOnlyOutOfRange
  <2> QED
    BY <2>1, RoomStep
<1>3. RoomInv => PanicsOnlyOutOfRange
  BY DEF RoomInv
<1> QED
  BY <1>1, <1>2, <1>3, FetchInvariant, PTL DEF FetchSpec

(***************************************************************************)
(* Sums over finite sets                                                   *)
(***************************************************************************)
(* A set of subsets of a finite set has a smallest one: the form in which   *)
(* the proofs below argue by induction over finite sets.                    *)
LEMMA SmallestSubset ==
  ASSUME NEW S, IsFiniteSet(S), NEW T \in SUBSET (SUBSET S), T # {}
  PROVE  \E X \in T : \A Y \in T : Y \subseteq X => Y = X
<1>1. IsWellFoundedOn(StrictSubsetOrdering(S), FiniteSubsetsOf(S))
  BY FS_StrictSubsetOrderingWellFounded
<1>2. FiniteSubsetsOf(S) = SUBSET S
  BY FS_FiniteSubsetsOfFinite
<1>3. \E X \in T : \A Y \in T : ~ (<<Y, X>> \in StrictSubsetOrdering(S))
  <2> DEFINE R == StrictSubsetOrdering(S)
  <2>1. IsWellFoundedOn(R, SUBSET S)
    BY <1>1, <1>2
  <2> HIDE DEF R
  <2>2. \E X \in T : \A Y \in T : ~ (<<Y, X>> \in R)
    BY <2>1, WFMin
  <2> QED
    BY <2>2 DEF R
<1> QED
  BY <1>3 DEF StrictSubsetOrdering

(* The function by which MapThenSumSet sums the values v[x] of a set.       *)
SumEquation(it, v, S) ==
  it = [s \in SUBSET S |->
          IF s = {} THEN 0
          ELSE LET x == CHOOSE x \in s : TRUE IN v[x] + it[s \ {x}]]

SumOf(v, S) == CHOOSE it : SumEquation(it, v, S)

Total(v, S) == SumOf(v, S)[S]

Any(s) == CHOOSE x \in s : TRUE

LEMMA SumEquationAt ==
  ASSUME NEW v, NEW S, NEW it, SumEquation(it, v, S)
  PROVE  /\ it[{}] = 0
         /\ \A s : s \subseteq S /\ s # {} =>
               it[s] = v[Any(s)] + it[s \ {Any(s)}]
<1>1. it = [u \in SUBSET S |->
          IF u = {} THEN 0
          ELSE LET x == CHOOSE x \in u : TRUE IN v[x] + it[u \ {x}]]
  BY Zenon DEF SumEquation
<1> DEFINE G(u) == IF u = {} THEN 0
                   ELSE LET x == CHOOSE x \in u : TRUE IN v[x] + it[u \ {x}]
<1>2. it = [u \in SUBSET S |-> G(u)]
  BY <1>1
<1>3. \A s : s \subseteq S => it[s] = G(s)
  <2> HIDE DEF G
  <2> QED
    BY <1>2
<1>4. it[{}] = G({})
  <2>1. {} \subseteq S
    OBVIOUS
  <2> HIDE DEF G
  <2> QED
    BY <1>3, <2>1, Zenon
<1> QED
  BY <1>3, <1>4 DEF Any

(* Sums over two sets agree on what is a subset of both.                    *)
LEMMA SumsAgree ==
  ASSUME NEW v, NEW S, NEW U, IsFiniteSet(S), U \in SUBSET S,
         NEW f, SumEquation(f, v, S), NEW g, SumEquation(g, v, U)
  PROVE  \A s \in SUBSET U : f[s] = g[s]
<1> DEFINE T == {s \in SUBSET U : f[s] # g[s]}
<1>1. SUFFICES ASSUME T # {} PROVE FALSE
  OBVIOUS
<1>2. PICK X \in T : \A Y \in T : Y \subseteq X => Y = X
  <2>1. IsFiniteSet(U) /\ T \in SUBSET (SUBSET U)
    BY FS_Subset
  <2> HIDE DEF T
  <2> QED
    BY <1>1, <2>1, SmallestSubset
<1>3. X \in SUBSET U /\ X \in SUBSET S /\ f[X] # g[X]
  BY <1>2
<1>4. X # {}
  <2>1. f[{}] = 0 /\ g[{}] = 0
    BY <1>3, SumEquationAt
  <2> QED
    BY <1>3, <2>1
<1>5. Any(X) \in X
  BY <1>4 DEF Any
<1>6. f[X \ {Any(X)}] = g[X \ {Any(X)}]
  BY <1>2, <1>3, <1>5
<1>7. /\ f[X] = v[Any(X)] + f[X \ {Any(X)}]
      /\ g[X] = v[Any(X)] + g[X \ {Any(X)}]
  <2> HIDE DEF T
  <2>1. f[X] = v[Any(X)] + f[X \ {Any(X)}]
    BY <1>3, <1>4, SumEquationAt
  <2>2. g[X] = v[Any(X)] + g[X \ {Any(X)}]
    BY <1>3, <1>4, SumEquationAt
  <2> QED
    BY <2>1, <2>2
<1> QED
  BY <1>3, <1>6, <1>7

(* The sum over a finite set exists.                                        *)
LEMMA SumExists ==
  ASSUME NEW v, NEW S, IsFiniteSet(S)
  PROVE  SumEquation(SumOf(v, S), v, S)
<1> DEFINE T == {s \in SUBSET S : ~ SumEquation(SumOf(v, s), v, s)}
<1>1. SUFFICES ASSUME T # {} PROVE FALSE
  OBVIOUS
<1>2. PICK X \in T : \A Y \in T : Y \subseteq X => Y = X
  <2>1. T \in SUBSET (SUBSET S)
    OBVIOUS
  <2> HIDE DEF T
  <2> QED
    BY <1>1, <2>1, SmallestSubset
<1>3. X \in SUBSET S /\ ~ SumEquation(SumOf(v, X), v, X) /\ IsFiniteSet(X)
  BY <1>2, FS_Subset
<1>4. ASSUME NEW s \in SUBSET X, s # X
      PROVE  SumEquation(SumOf(v, s), v, s) /\ IsFiniteSet(s)
  BY <1>2, <1>3, <1>4, FS_Subset
<1> DEFINE F(s) == IF s = {} THEN 0 ELSE v[Any(s)] + Total(v, s \ {Any(s)})
           h == [s \in SUBSET X |-> F(s)]
<1>5. ASSUME NEW s \in SUBSET X, s # {}
      PROVE  h[s \ {Any(s)}] = Total(v, s \ {Any(s)})
  <2> DEFINE u == s \ {Any(s)}
  <2>1. Any(s) \in s /\ u \in SUBSET X /\ u # X
    BY <1>5 DEF Any
  <2>2. SumEquation(SumOf(v, u), v, u) /\ IsFiniteSet(u)
    BY <1>4, <2>1
  <2>3. h[u] = F(u)
    BY <2>1
  <2>4. CASE u = {}
    <3>1. SumOf(v, u)[{}] = 0
      <4> HIDE DEF u
      <4> QED
        BY <2>2, SumEquationAt
    <3> QED
      BY <2>3, <2>4, <3>1 DEF Total
  <2>5. CASE u # {}
    <3> DEFINE w == u \ {Any(u)}
    <3>1. Any(u) \in u /\ w \in SUBSET X /\ w # X /\ w \in SUBSET u
      BY <2>1, <2>5 DEF Any
    <3>2. SumEquation(SumOf(v, w), v, w)
      BY <1>4, <3>1
    <3>3. SumOf(v, u)[w] = SumOf(v, w)[w]
      BY <2>2, <3>1, <3>2, SumsAgree
    <3>4. SumOf(v, u)[u] = v[Any(u)] + SumOf(v, u)[w]
      <4>1. u \in SUBSET u
        OBVIOUS
      <4> HIDE DEF u
      <4> QED
        BY <2>2, <2>5, <4>1, SumEquationAt
    <3> QED
      BY <2>3, <2>5, <3>3, <3>4 DEF Total
  <2> QED
    BY <2>4, <2>5
<1>6. \A s \in SUBSET X :
         h[s] = IF s = {} THEN 0
                ELSE LET x == CHOOSE x \in s : TRUE IN v[x] + h[s \ {x}]
  <2>1. \A s \in SUBSET X : h[s] = F(s)
    OBVIOUS
  <2>2. \A s \in SUBSET X :
           F(s) = IF s = {} THEN 0 ELSE v[Any(s)] + h[s \ {Any(s)}]
    <3> HIDE DEF h
    <3> QED
      BY <1>5
  <2> HIDE DEF h, F
  <2> QED
    BY <2>1, <2>2 DEF Any
<1>7. SumEquation(h, v, X)
  <2>1. h = [s \in SUBSET X |-> h[s]]
    OBVIOUS
  <2> HIDE DEF h
  <2> QED
    BY <1>6, <2>1 DEF SumEquation
<1>8. SumEquation(SumOf(v, X), v, X)
  <2> HIDE DEF h
  <2> QED
    BY <1>7, Zenon DEF SumOf
<1> QED
  BY <1>3, <1>8

(* The sum of no values is zero, that of integers an integer, and any value *)
(* may be taken out first.                                                  *)
LEMMA TotalEmpty == ASSUME NEW v PROVE Total(v, {}) = 0
<1>1. IsFiniteSet({})
  BY FS_EmptySet
<1>2. SumEquation(SumOf(v, {}), v, {})
  BY <1>1, SumExists
<1> QED
  BY <1>2, SumEquationAt DEF Total

LEMMA TotalChosen ==
  ASSUME NEW v, NEW S, IsFiniteSet(S), S # {}
  PROVE  Total(v, S) = v[Any(S)] + Total(v, S \ {Any(S)})
<1> DEFINE w == S \ {Any(S)}
<1>1. IsFiniteSet(w) /\ w \in SUBSET S /\ S \in SUBSET S /\ w \in SUBSET w
  BY FS_Subset
<1> HIDE DEF w
<1>2. SumEquation(SumOf(v, S), v, S) /\ SumEquation(SumOf(v, w), v, w)
  BY <1>1, SumExists
<1>3. SumOf(v, S)[w] = SumOf(v, w)[w]
  BY <1>1, <1>2, SumsAgree
<1>4. SumOf(v, S)[S] = v[Any(S)] + SumOf(v, S)[S \ {Any(S)}]
  BY <1>1, <1>2, SumEquationAt
<1> QED
  BY <1>3, <1>4 DEF Total, w

LEMMA TotalType ==
  ASSUME NEW v, NEW S, IsFiniteSet(S), \A x \in S : v[x] \in Int
  PROVE  Total(v, S) \in Int
<1> DEFINE T == {s \in SUBSET S : Total(v, s) \notin Int}
<1>1. SUFFICES ASSUME T # {} PROVE FALSE
  OBVIOUS
<1>2. PICK X \in T : \A Y \in T : Y \subseteq X => Y = X
  <2>1. T \in SUBSET (SUBSET S)
    OBVIOUS
  <2> HIDE DEF T
  <2> QED
    BY <1>1, <2>1, SmallestSubset
<1>3. X \in SUBSET S /\ Total(v, X) \notin Int /\ IsFiniteSet(X)
  BY <1>2, FS_Subset
<1>4. X # {}
  BY <1>3, TotalEmpty
<1>5. Any(X) \in X
  BY <1>4 DEF Any
<1>6. Total(v, X \ {Any(X)}) \in Int
  BY <1>2, <1>3, <1>5
<1>7. Total(v, X) = v[Any(X)] + Total(v, X \ {Any(X)})
  <2> HIDE DEF T
  <2> QED
    BY <1>3, <1>4, TotalChosen
<1>8. v[Any(X)] \in Int
  BY <1>3, <1>5
<1> QED
  BY <1>3, <1>6, <1>7, <1>8

LEMMA TotalWithout ==
  ASSUME NEW v, NEW S, IsFiniteSet(S), \A x \in S : v[x] \in Int
  PROVE  \A x \in S : Total(v, S) = v[x] + Total(v, S \ {x})
<1> DEFINE P(s) == \A x \in s : Total(v, s) = v[x] + Total(v, s \ {x})
           T == {s \in SUBSET S : ~ P(s)}
<1>1. SUFFICES ASSUME T # {} PROVE FALSE
  OBVIOUS
<1>2. PICK X \in T : \A Y \in T : Y \subseteq X => Y = X
  <2>1. T \in SUBSET (SUBSET S)
    OBVIOUS
  <2> HIDE DEF T
  <2> QED
    BY <1>1, <2>1, SmallestSubset
<1>3. X \in SUBSET S /\ ~ P(X) /\ IsFiniteSet(X)
  BY <1>2, FS_Subset
<1>4. \A s \in SUBSET X : IsFiniteSet(s) /\ Total(v, s) \in Int
  <2>1. \A s \in SUBSET X : IsFiniteSet(s)
    BY <1>3, FS_Subset
  <2> HIDE DEF T, P
  <2> QED
    BY <1>3, <2>1, TotalType
<1>5. PICK x \in X : Total(v, X) # v[x] + Total(v, X \ {x})
  BY <1>3
<1> DEFINE c == Any(X)
<1>6. c \in X
  BY <1>5 DEF Any
<1>7. Total(v, X) = v[c] + Total(v, X \ {c})
  <2> HIDE DEF T, P
  <2> QED
    BY <1>3, <1>5, TotalChosen
<1>8. c # x
  BY <1>5, <1>7
<1>9. P(X \ {c}) /\ P(X \ {x})
  <2>1. /\ X \ {c} \subseteq X /\ X \ {c} # X
        /\ X \ {x} \subseteq X /\ X \ {x} # X
    BY <1>5, <1>6
  <2>2. \A Y \in SUBSET X : Y # X => P(Y)
    <3> HIDE DEF P, c
    <3> QED
      BY <1>2, <1>3
  <2> HIDE DEF P, T, c
  <2> QED
    BY <2>1, <2>2
<1>10. /\ Total(v, X \ {c}) = v[x] + Total(v, (X \ {c}) \ {x})
       /\ Total(v, X \ {x}) = v[c] + Total(v, (X \ {x}) \ {c})
  BY <1>5, <1>6, <1>8, <1>9
<1>11. (X \ {c}) \ {x} = (X \ {x}) \ {c}
  OBVIOUS
<1>12. v[x] \in Int /\ v[c] \in Int /\ Total(v, (X \ {x}) \ {c}) \in Int
  <2>1. (X \ {x}) \ {c} \in SUBSET X
    OBVIOUS
  <2> HIDE DEF P, T, c
  <2> QED
    BY <1>3, <1>4, <1>5, <1>6, <2>1
<1>13. \A a, b, d \in Int : a + (b + d) = b + (a + d)
  OBVIOUS
<1>14. v[c] + (v[x] + Total(v, (X \ {x}) \ {c}))
          = v[x] + (v[c] + Total(v, (X \ {x}) \ {c}))
  <2> HIDE DEF P, T, c
  <2> QED
    BY <1>12, <1>13
<1> QED
  <2> HIDE DEF P, T, c
  <2>1. Total(v, X) = v[x] + Total(v, X \ {x})
    BY <1>7, <1>10, <1>11, <1>14, Zenon
  <2> QED
    BY <1>5, <2>1

LEMMA TotalWith ==
  ASSUME NEW v, NEW S, IsFiniteSet(S), NEW x, x \notin S,
         \A y \in S \cup {x} : v[y] \in Int
  PROVE  Total(v, S \cup {x}) = v[x] + Total(v, S)
<1>1. IsFiniteSet(S \cup {x})
  BY FS_AddElement
<1>2. Total(v, S \cup {x}) = v[x] + Total(v, (S \cup {x}) \ {x})
  BY <1>1, TotalWithout
<1>3. (S \cup {x}) \ {x} = S
  OBVIOUS
<1> QED
  BY <1>2, <1>3

(***************************************************************************)
(* The merged values                                                       *)
(***************************************************************************)
Values(d) == [j \in DOMAIN d |-> d[j].v]

(* The first n datapoints of a time.                                        *)
At(d, n, t) == {j \in 1..n : d[j].t = t}

(* While merging, the merged series has the totals of the datapoints merged *)
(* so far, and the times of all of them.                                    *)
MergedSoFar ==
  /\ \A j \in 1..(next - 1) : dps[j].t \in Times(mergedDps)
  /\ \A k \in DOMAIN mergedDps :
        mergedDps[k].v = Total(Values(dps), At(dps, next - 1, mergedDps[k].t))

MergedAll ==
  /\ Times(mergedDps) = Times(dps)
  /\ \A k \in DOMAIN mergedDps :
        mergedDps[k].v = Total(Values(dps), At(dps, Len(dps), mergedDps[k].t))

TotalsInv == /\ fpc = "merge" => MergedSoFar
             /\ fpc \in {"search", "found"} => MergedAll

(* The sum that MergedIsTotals writes with MapThenSumSet is this one.       *)
LEMMA SumIsTotal ==
  ASSUME NEW S, S \subseteq DOMAIN dps
  PROVE  MapThenSumSet(LAMBDA j : dps[j].v, S) = Total(Values(dps), S)
  BY DEF MapThenSumSet, MapThenFoldSet, Total, SumOf, SumEquation, Values

LEMMA TotalsSuffice == ASSUME FetchInv, TotalsInv PROVE MergedIsTotals
<1> SUFFICES ASSUME fpc \in {"search", "found"}
             PROVE  /\ Ordered(mergedDps)
                    /\ Times(mergedDps) = Times(dps)
                    /\ \A k \in DOMAIN mergedDps : mergedDps[k].v =
                          MapThenSumSet(LAMBDA j : dps[j].v,
                                        {j \in DOMAIN dps : dps[j].t = mergedDps[k].t})
  BY DEF MergedIsTotals
<1>1. Ordered(mergedDps) /\ MergedAll /\ DOMAIN dps = 1..Len(dps)
  BY DEF FetchInv, FetchTypeOK, Searching, TotalsInv
<1>2. ASSUME NEW k \in DOMAIN mergedDps
      PROVE  mergedDps[k].v =
                MapThenSumSet(LAMBDA j : dps[j].v,
                              {j \in DOMAIN dps : dps[j].t = mergedDps[k].t})
  <2> DEFINE S == {j \in DOMAIN dps : dps[j].t = mergedDps[k].t}
  <2>1. mergedDps[k].v = Total(Values(dps), S)
    BY <1>1 DEF MergedAll, At
  <2>2. S \subseteq DOMAIN dps
    OBVIOUS
  <2> HIDE DEF S
  <2>3. MapThenSumSet(LAMBDA j : dps[j].v, S) = Total(Values(dps), S)
    BY <2>2, SumIsTotal
  <2> QED
    BY <2>1, <2>3 DEF S
<1> QED
  BY <1>1, <1>2 DEF MergedAll

(* Another datapoint of a time adds its value to the total of that time and *)
(* leaves the other totals alone.                                           *)
LEMMA TotalGrows ==
  ASSUME NEW d \in Seq(Datapoints), NEW n \in 1..Len(d), NEW t
  PROVE  /\ d[n].t = t =>
              Total(Values(d), At(d, n, t)) = d[n].v + Total(Values(d), At(d, n - 1, t))
         /\ d[n].t # t => At(d, n, t) = At(d, n - 1, t)
<1>1. n \in Nat /\ 1..n = 1..(n - 1) \cup {n} /\ n \notin 1..(n - 1)
  OBVIOUS
<1>2. d[n].t # t => At(d, n, t) = At(d, n - 1, t)
  BY <1>1 DEF At
<1>3. ASSUME d[n].t = t
      PROVE  Total(Values(d), At(d, n, t)) = d[n].v + Total(Values(d), At(d, n - 1, t))
  <2>1. At(d, n, t) = At(d, n - 1, t) \cup {n} /\ n \notin At(d, n - 1, t)
    BY <1>1, <1>3 DEF At
  <2>2. IsFiniteSet(At(d, n - 1, t))
    <3>1. \A k \in Int : IsFiniteSet(1..k)
      BY FS_Interval
    <3>2. IsFiniteSet(1..(n - 1))
      BY <1>1, <3>1
    <3>3. At(d, n - 1, t) \in SUBSET (1..(n - 1))
      BY DEF At
    <3> QED
      BY <3>2, <3>3, FS_Subset
  <2>3. \A j \in At(d, n - 1, t) \cup {n} : Values(d)[j] \in Int
    <3>1. \A j \in 1..Len(d) : d[j] \in Datapoints
      OBVIOUS
    <3>2. \A j \in 1..Len(d) : d[j].v \in Int
      BY <3>1 DEF Datapoints
    <3>3. At(d, n - 1, t) \cup {n} \subseteq 1..Len(d) /\ DOMAIN d = 1..Len(d)
      BY DEF At
    <3> QED
      BY <3>2, <3>3 DEF Values
  <2>4. Total(Values(d), At(d, n - 1, t) \cup {n})
           = Values(d)[n] + Total(Values(d), At(d, n - 1, t))
    BY <2>1, <2>2, <2>3, TotalWith
  <2>5. Values(d)[n] = d[n].v
    BY DEF Values
  <2> QED
    BY <2>1, <2>4, <2>5
<1> QED
  BY <1>2, <1>3

(* A round of the merge adds one datapoint to the totals.                   *)
LEMMA MergeKeepsTotals ==
  ASSUME FetchInv, TotalsInv, Merge, fpc' = "merge" PROVE MergedSoFar'
<1> DEFINE L == Len(mergedDps)
           T(n, t) == Total(Values(dps), At(dps, n, t))
<1>1. /\ fpc = "merge" /\ next \in 1..Len(dps) /\ next' = next + 1 /\ dps' = dps
      /\ mergedDps \in Seq(Datapoints) /\ dps \in Seq(Datapoints) /\ mergedDps # <<>>
  BY DEF Merge, FetchInv, FetchTypeOK, Merging
<1>2. /\ DOMAIN mergedDps = 1..L /\ L \in Nat \ {0} /\ L \in 1..L
      /\ next \in Nat /\ next' - 1 = next /\ DOMAIN dps = 1..Len(dps)
      /\ \A k \in 1..L : mergedDps[k] \in Datapoints
      /\ dps[next] \in Datapoints
  BY <1>1
<1>3. /\ \A j \in 1..(next - 1) : dps[j].t \in Times(mergedDps)
      /\ \A k \in 1..L : mergedDps[k].v = T(next - 1, mergedDps[k].t)
  BY <1>1, <1>2 DEF TotalsInv, MergedSoFar
<1>4. \A k \in 1..L : /\ mergedDps[k].t # dps[next].t =>
                            T(next, mergedDps[k].t) = mergedDps[k].v
                      /\ mergedDps[k].t = dps[next].t =>
                            T(next, mergedDps[k].t) = dps[next].v + mergedDps[k].v
  <2>1. \A t : /\ dps[next].t = t => T(next, t) = dps[next].v + T(next - 1, t)
               /\ dps[next].t # t => T(next, t) = T(next - 1, t)
    BY <1>1, TotalGrows
  <2> HIDE DEF T
  <2> QED
    BY <1>3, <2>1
<1>5. \A j \in 1..next : dps[j].t \in Times(mergedDps) \/ j = next
  BY <1>2, <1>3
<1>6. SUFFICES /\ \A j \in 1..next : dps[j].t \in Times(mergedDps')
               /\ \A k \in DOMAIN mergedDps' :
                     mergedDps'[k].v = T(next, mergedDps'[k].t)
  BY <1>1, <1>2 DEF MergedSoFar
<1>7. CASE Top.t = dps[next].t
  <2>1. mergedDps' = [mergedDps EXCEPT ![L] = Added(dps[next])]
    BY <1>1, <1>7 DEF Merge
  <2>2. /\ Added(dps[next]).t = mergedDps[L].t /\ Top.t = mergedDps[L].t
        /\ Added(dps[next]).v = mergedDps[L].v + dps[next].v
    BY <1>2 DEF Added, Top, Datapoints
  <2>3. /\ DOMAIN mergedDps' = 1..L /\ mergedDps'[L] = Added(dps[next])
        /\ \A k \in 1..L : k # L => mergedDps'[k] = mergedDps[k]
    BY <1>2, <2>1
  <2>4. \A k \in 1..L : mergedDps'[k].t = mergedDps[k].t
    BY <2>2, <2>3
  <2>5. Times(mergedDps') = Times(mergedDps) /\ dps[next].t \in Times(mergedDps)
    BY <1>2, <1>7, <2>2, <2>3, <2>4 DEF Times
  <2>6. ASSUME NEW k \in 1..L PROVE mergedDps'[k].v = T(next, mergedDps'[k].t)
    <3> HIDE DEF T
    <3>1. CASE k = L
      <4>1. T(next, mergedDps[L].t) = dps[next].v + mergedDps[L].v
        BY <1>2, <1>4, <1>7, <2>2
      <4>2. dps[next].v \in Int /\ mergedDps[L].v \in Int
        BY <1>2 DEF Datapoints
      <4>3. dps[next].v + mergedDps[L].v = mergedDps[L].v + dps[next].v
        BY <4>2
      <4> QED
        BY <2>2, <2>3, <3>1, <4>1, <4>3
    <3>2. CASE k # L
      <4>1. mergedDps[k].t # dps[next].t
        BY <1>1, <2>6, <3>2, EarlierTimes
      <4> QED
        BY <1>4, <2>3, <2>6, <3>2, <4>1
    <3> QED
      BY <3>1, <3>2
  <2> QED
    BY <1>5, <2>3, <2>5, <2>6
<1>8. CASE Top.t # dps[next].t
  <2>1. mergedDps' = Append(mergedDps, dps[next])
    BY <1>1, <1>8 DEF Merge
  <2>2. /\ DOMAIN mergedDps' = 1..(L + 1) /\ mergedDps'[L + 1] = dps[next]
        /\ \A k \in 1..L : mergedDps'[k] = mergedDps[k]
    BY <1>2, <2>1
  <2>3. Times(mergedDps) \subseteq Times(mergedDps') /\ dps[next].t \in Times(mergedDps')
    <3>1. 1..L \subseteq 1..(L + 1) /\ L + 1 \in 1..(L + 1)
      BY <1>2
    <3> QED
      BY <1>2, <2>2, <3>1 DEF Times
  <2>4. \A k \in 1..L : mergedDps[k].t # dps[next].t
    BY <1>1, <1>8, EarlierTimes
  <2>5. dps[next].v = T(next, dps[next].t)
    <3>1. dps[next].t \notin Times(mergedDps)
      BY <1>2, <2>4 DEF Times
    <3>2. At(dps, next - 1, dps[next].t) = {}
      BY <1>3, <3>1 DEF At
    <3>3. T(next, dps[next].t) = dps[next].v + Total(Values(dps), {})
      BY <1>1, <3>2, TotalGrows
    <3>4. dps[next].v \in Int
      BY <1>2 DEF Datapoints
    <3> HIDE DEF T
    <3> QED
      BY <3>3, <3>4, TotalEmpty
  <2>6. \A k \in 1..(L + 1) : k \in 1..L \/ k = L + 1
    BY <1>2
  <2>7. \A k \in 1..(L + 1) : mergedDps'[k].v = T(next, mergedDps'[k].t)
    <3> HIDE DEF T
    <3> QED
      BY <1>4, <2>2, <2>4, <2>5, <2>6
  <2> QED
    BY <1>5, <2>2, <2>3, <2>7
<1> QED
  BY <1>7, <1>8

LEMMA TotalsStep ==
  ASSUME FetchInv, RoomInv, TotalsInv, FetchNext PROVE TotalsInv'
<1>1. CASE QueryAnswers
  <2> SUFFICES ASSUME fpc' = "merge" PROVE MergedSoFar'
    BY <1>1 DEF QueryAnswers, TotalsInv
  <2>1. PICK a \in Answers :
           IF a = <<>>
           THEN fpc' = "panicked" /\ UNCHANGED <<dps, mergedDps>>
           ELSE /\ fpc' = "merge"
                /\ dps' \in Sorts([k \in DOMAIN a |-> Datapoint(a[k])])
                /\ mergedDps' = <<[t |-> dps'[1].t, v |-> 0]>>
    BY <1>1 DEF QueryAnswers
  <2>2. mergedDps' = <<[t |-> dps'[1].t, v |-> 0]>>
    BY <2>1
  <2>3. next' - 1 = 0
    BY <1>1 DEF QueryAnswers, FetchInv, Fresh
  <2>4. DOMAIN mergedDps' = {1} /\ mergedDps'[1].v = 0
    BY <2>2
  <2>5. \A t : At(dps', 0, t) = {}
    BY DEF At
  <2>6. \A t : Total(Values(dps'), At(dps', 0, t)) = 0
    BY <2>5, TotalEmpty
  <2> QED
    BY <2>3, <2>4, <2>6 DEF MergedSoFar
<1>2. CASE Merge
  <2>1. fpc' \in {"merge", "panicked"}
    BY <1>2 DEF Merge
  <2> QED
    BY <1>2, <2>1, MergeKeepsTotals DEF TotalsInv
<1>3. CASE MergeDone
  <2>1. /\ fpc = "merge" /\ fpc' = "search" /\ next > Len(dps)
        /\ dps' = dps /\ mergedDps' = mergedDps
    BY <1>3 DEF MergeDone
  <2>2. MergedSoFar /\ next - 1 = Len(dps) /\ dps \in Seq(Datapoints)
    BY <2>1 DEF TotalsInv, FetchInv, FetchTypeOK, Merging
  <2>3. Times(dps) \subseteq Times(mergedDps)
    <3>1. DOMAIN dps = 1..Len(dps)
      BY <2>2
    <3> QED
      BY <2>2, <3>1 DEF MergedSoFar, Times
  <2>4. Times(mergedDps) \subseteq Times(dps)
    BY <2>1 DEF RoomInv
  <2>5. MergedAll
    BY <2>2, <2>3, <2>4 DEF MergedSoFar, MergedAll
  <2> QED
    BY <2>1, <2>5 DEF TotalsInv, MergedAll
<1>4. CASE Found \/ Halve
  BY <1>4 DEF Found, Halve, TotalsInv, MergedAll
<1>5. CASE QueryFails \/ \E ts \in Timestamps : Ask(ts)
  BY <1>5 DEF QueryFails, Ask, TotalsInv
<1> QED
  BY <1>1, <1>2, <1>3, <1>4, <1>5 DEF FetchNext, FetchStep

(* After the merge the series has each time of the answer once and in order *)
(* with the total of all hosts, for every answer, however many datapoints   *)
(* it has and in whatever order the sort leaves those of one time.          *)
THEOREM MergeTotals == FetchSpec => []MergedIsTotals
<1>1. FetchInit => RoomInv /\ TotalsInv
  BY DEF FetchInit, RoomInv, PanicsOnlyOutOfRange, TotalsInv
<1>2. FetchInv /\ RoomInv /\ TotalsInv /\ [FetchNext]_fetchVars
         => RoomInv' /\ TotalsInv'
  <2>1. ASSUME RoomInv, TotalsInv, UNCHANGED fetchVars PROVE RoomInv' /\ TotalsInv'
    BY <2>1 DEF fetchVars, RoomInv, PanicsOnlyOutOfRange, TotalsInv, MergedAll, MergedSoFar
  <2> QED
    BY <2>1, RoomStep, TotalsStep
<1>3. FetchInv /\ TotalsInv => MergedIsTotals
  BY TotalsSuffice
<1> QED
  BY <1>1, <1>2, <1>3, FetchInvariant, PTL DEF FetchSpec

(* What Fetch returns, said of the datapoints alone: the total of all hosts *)
(* at the last time not after the one asked for, or at the first time.      *)
TotalAt(t) == MapThenSumSet(LAMBDA j : dps[j].v,
                            {j \in DOMAIN dps : dps[j].t = t})

LatestTotal ==
  fpc = "found" =>
    \E t \in Times(dps) :
      /\ t <= want \/ \A u \in Times(dps) : t <= u
      /\ \A u \in Times(dps) : u <= want => u <= t
      /\ mergedDps[lo].v = TotalAt(t)

LEMMA LatestTotalHolds ==
  ASSUME FetchTypeOK, FoundIsLatest, MergedIsTotals PROVE LatestTotal
<1> SUFFICES ASSUME fpc = "found"
             PROVE  \E t \in Times(dps) :
                      /\ t <= want \/ \A u \in Times(dps) : t <= u
                      /\ \A u \in Times(dps) : u <= want => u <= t
                      /\ mergedDps[lo].v = TotalAt(t)
  BY DEF LatestTotal
<1>1. /\ lo \in DOMAIN mergedDps
      /\ mergedDps[lo].t <= want \/ lo = 1
      /\ \A k \in DOMAIN mergedDps : mergedDps[k].t <= want => k <= lo
  BY DEF FoundIsLatest
<1>2. /\ Ordered(mergedDps) /\ Times(mergedDps) = Times(dps)
      /\ \A k \in DOMAIN mergedDps : mergedDps[k].v = TotalAt(mergedDps[k].t)
  BY DEF MergedIsTotals, TotalAt
<1>3. /\ DOMAIN mergedDps = 1..Len(mergedDps) /\ Len(mergedDps) \in Nat
      /\ \A k \in DOMAIN mergedDps : mergedDps[k].t \in Int
  <2>1. mergedDps \in Seq(Datapoints)
    BY DEF FetchTypeOK
  <2>2. \A k \in DOMAIN mergedDps : mergedDps[k] \in Datapoints
    BY <2>1
  <2> QED
    BY <2>1, <2>2 DEF Datapoints
<1>4. \A j, k \in DOMAIN mergedDps : j <= k => mergedDps[j].t <= mergedDps[k].t
  <2> SUFFICES ASSUME NEW j \in DOMAIN mergedDps, NEW k \in DOMAIN mergedDps, j <= k
               PROVE  mergedDps[j].t <= mergedDps[k].t
    OBVIOUS
  <2>1. mergedDps[j].t \in Int /\ mergedDps[k].t \in Int
    BY <1>3
  <2>2. j = k \/ mergedDps[j].t < mergedDps[k].t
    BY <1>2, <1>3 DEF Ordered
  <2> QED
    BY <2>1, <2>2
<1>5. \A u \in Times(mergedDps) : \E k \in DOMAIN mergedDps : u = mergedDps[k].t
  BY DEF Times
<1>6. \A k \in DOMAIN mergedDps : mergedDps[k].t \in Times(mergedDps)
  BY DEF Times
<1>7. mergedDps[lo].t <= want \/ \A u \in Times(mergedDps) : mergedDps[lo].t <= u
  BY <1>1, <1>3, <1>4, <1>5
<1>8. \A u \in Times(mergedDps) : u <= want => u <= mergedDps[lo].t
  <2> SUFFICES ASSUME NEW u \in Times(mergedDps), u <= want
               PROVE  u <= mergedDps[lo].t
    OBVIOUS
  <2>1. PICK k \in DOMAIN mergedDps : u = mergedDps[k].t
    BY <1>5
  <2>2. k <= lo
    BY <1>1, <2>1
  <2> QED
    BY <1>1, <1>4, <2>1, <2>2, Zenon
<1>9. mergedDps[lo].v = TotalAt(mergedDps[lo].t)
  BY <1>1, <1>2, Zenon
<1>10. mergedDps[lo].t \in Times(dps)
  BY <1>1, <1>2, <1>6, Zenon
<1> QED
  BY <1>2, <1>7, <1>8, <1>9, <1>10, Zenon

(***************************************************************************)
(* Progress of the loops: what is left shrinks                             *)
(***************************************************************************)
MergeProgress == fpc = "merge" /\ fpc' = "merge" =>
    /\ next' = next + 1 /\ next' \in 1..(Len(dps') + 1)
    /\ dps' = dps

SearchProgress == fpc = "search" /\ fpc' = "search" =>
    /\ lo < hi
    /\ hi' - lo' \in 0..(hi - lo)
    /\ 2 * (hi' - lo') <= hi - lo
    /\ mergedDps' = mergedDps /\ want' = want

LoopsProgress == [][MergeProgress /\ SearchProgress]_fetchVars

(* One round of the recursion keeps at most half of what was left.          *)
LEMMA HalveProgresses == ASSUME FetchInv, Halve PROVE SearchProgress
<1>1. /\ lo \in Nat /\ hi \in Nat /\ lo < hi
      /\ mergedDps' = mergedDps /\ want' = want
  BY DEF FetchInv, FetchTypeOK, Halve
<1>2. PICK n \in Nat : n = hi - lo /\ n > 0
  BY <1>1
<1>3. PICK m \in Int : m = (n + 1) \div 2
  BY <1>2
<1>4. 2 * m \in {n, n + 1} /\ Middle = lo + m
  BY <1>1, <1>2, <1>3 DEF Middle
<1>5. \/ hi' = lo + m - 1 /\ lo' = lo
      \/ lo' = lo + m /\ hi' = hi
  <2>1. \/ hi' = Middle - 1 /\ lo' = lo
        \/ lo' = Middle /\ hi' = hi
    BY Zenon DEF Halve
  <2> QED
    BY <1>1, <1>3, <1>4, <2>1
<1> QED
  BY <1>1, <1>2, <1>3, <1>4, <1>5 DEF SearchProgress

LEMMA StepProgresses ==
  ASSUME FetchInv, FetchNext PROVE MergeProgress /\ SearchProgress
<1>1. CASE Merge
  <2>1. next' = next + 1 /\ dps' = dps /\ fpc = "merge"
    BY <1>1 DEF Merge
  <2>2. next \in 1..(Len(dps) + 1) /\ next <= Len(dps) /\ Len(dps) \in Nat
    BY <1>1, <2>1 DEF Merge, FetchInv, Merging, FetchTypeOK
  <2> QED
    BY <2>1, <2>2 DEF MergeProgress, SearchProgress
<1>2. CASE Halve
  BY <1>2, HalveProgresses DEF Halve, MergeProgress
<1>3. CASE \/ QueryFails \/ QueryAnswers \/ MergeDone \/ Found
           \/ \E ts \in Timestamps : Ask(ts)
  BY <1>3
     DEF QueryFails, QueryAnswers, MergeDone, Found, Ask, MergeProgress,
         SearchProgress
<1> QED
  BY <1>1, <1>2, <1>3 DEF FetchNext, FetchStep

(* Neither loop of Fetch can go round without coming nearer to its end: a   *)
(* round of the merge takes one datapoint, a call of                        *)
(* binarySearchNearTimestamp leaves at most half of its slice and never     *)
(* none, so the recursion ends, whatever the datapoints are.                *)
THEOREM FetchLoopsShrink == FetchSpec => LoopsProgress
<1>1. FetchInv /\ [FetchNext]_fetchVars
      => [MergeProgress /\ SearchProgress]_fetchVars
  BY StepProgresses
<1> QED
  BY <1>1, FetchInvariant, PTL DEF FetchSpec, LoopsProgress
=============================================================================
