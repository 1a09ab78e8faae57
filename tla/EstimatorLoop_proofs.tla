------------------------ MODULE EstimatorLoop_proofs ------------------------
(***************************************************************************)
(* EstimatorLoop implements ForecastSchedule, and sends nothing early, for *)
(* every value of its constants.                                           *)
(***************************************************************************)
EXTENDS EstimatorLoop, FiniteSetTheorems, SequenceTheorems, TLAPS

(***************************************************************************)
(* Slices of points                                                        *)
(***************************************************************************)
Holds(s) == s.len <= Cap(s) /\ \A i \in 1..s.len : s.cells[i] \in Points

Ascending(s) == \A i, j \in 1..s.len : i < j => Before(s.cells[i], s.cells[j])

Weakly(s) == \A i, j \in 1..s.len : i < j => s.cells[i].e <= s.cells[j].e

Distinct(s) == \A i, j \in 1..s.len : i # j => s.cells[i] # s.cells[j]

(* A point has times, and is of a forecast.                                *)
LEMMA PointFields ==
  ASSUME NEW p \in Points
  PROVE  /\ p.u \in Times /\ p.e = p.u - Gap /\ p.r \in 1..MaxReads
         /\ p.u \in Nat /\ p.e \in Int /\ p.r \in Nat /\ p.e <= MaxNow
  BY LoopAssumption DEF Points, Point, LoopAssumption

(* The points of forecast r.                                               *)
LEMMA FreshPoints ==
  ASSUME NEW F \in SUBSET Times, NEW r \in 1..MaxReads
  PROVE  /\ {Point(u, r) : u \in F} \subseteq Points
         /\ \A p \in {Point(u, r) : u \in F} : p.r = r
  BY DEF Points, Point

(* Sorting moves the points of a slice about, and nothing else.            *)
LEMMA SortedMoves ==
  ASSUME NEW s \in Slices, Holds(s), NEW old \in Sorted(s)
  PROVE  \E p \in [1..s.len -> 1..s.len] :
            /\ old \in Slices /\ old.len = s.len /\ Holds(old)
            /\ \A i \in 1..s.len : old.cells[i] = s.cells[p[i]]
            /\ \A i, j \in 1..s.len : p[i] = p[j] => i = j
            /\ \A j \in 1..s.len : \E i \in 1..s.len : p[i] = j
            /\ Weakly(old)
<1>1. PICK p \in Sorts(s) :
         old = [s EXCEPT !.cells = [k \in 1..Cap(s) |->
                                       s.cells[IF k <= s.len THEN p[k] ELSE k]]]
  BY DEF Sorted
<1>2. /\ p \in [1..s.len -> 1..s.len]
      /\ \A i, j \in 1..s.len : p[i] = p[j] => i = j
      /\ \A j \in 1..s.len : \E i \in 1..s.len : p[i] = j
      /\ \A i, j \in 1..s.len : Before(s.cells[p[i]], s.cells[p[j]]) => i < j
  BY <1>1 DEF Sorts, Bijection, Injection, Surjection, IsInjective
<1>3. /\ s.cells \in Seq(Points \cup {None}) /\ s.len \in Nat
      /\ Cap(s) \in Nat /\ s.len <= Cap(s)
  BY DEF Slices, Holds, Cap
<1>4. PICK c : c = [k \in 1..Cap(s) |-> s.cells[IF k <= s.len THEN p[k] ELSE k]]
  OBVIOUS
<1>5. \A k \in 1..Cap(s) : c[k] \in Points \cup {None}
  <2>1. SUFFICES ASSUME NEW k \in 1..Cap(s) PROVE c[k] \in Points \cup {None}
    OBVIOUS
  <2>2. (IF k <= s.len THEN p[k] ELSE k) \in 1..Cap(s)
    <3>1. CASE k <= s.len
      <4>1. k \in 1..s.len
        BY <1>3, <3>1
      <4>2. p[k] \in 1..s.len
        BY <1>2, <4>1
      <4> QED
        BY <1>3, <3>1, <4>2
    <3>2. CASE ~(k <= s.len)
      BY <3>2
    <3> QED
      BY <3>1, <3>2
  <2> QED
    BY <1>3, <1>4, <2>2 DEF Cap
<1>6. c \in Seq(Points \cup {None}) /\ Len(c) = Cap(s)
  BY <1>3, <1>4, <1>5
<1>7. old = [cells |-> c, len |-> s.len]
  BY <1>1, <1>4 DEF Slices
<1>8. \A i \in 1..s.len : old.cells[i] = s.cells[p[i]] /\ old.cells[i] \in Points
  <2>1. SUFFICES ASSUME NEW i \in 1..s.len
                 PROVE  c[i] = s.cells[p[i]] /\ s.cells[p[i]] \in Points
    BY <1>7
  <2>2. p[i] \in 1..s.len /\ i \in 1..Cap(s) /\ i <= s.len
    BY <1>2, <1>3
  <2> QED
    BY <1>4, <2>2 DEF Holds
<1>9. old \in Slices /\ old.len = s.len /\ Holds(old)
  BY <1>3, <1>6, <1>7, <1>8 DEF Slices, Holds, Cap
<1>10. Weakly(old)
  <2>1. SUFFICES ASSUME NEW i \in 1..s.len, NEW j \in 1..s.len, i < j
                 PROVE  old.cells[i].e <= old.cells[j].e
    BY <1>7 DEF Weakly
  <2>2. ~(old.cells[j].e < old.cells[i].e)
    <3>1. old.cells[i] = s.cells[p[i]] /\ old.cells[j] = s.cells[p[j]]
      BY <1>8
    <3>2. ~(j < i)
      BY <1>3, <2>1
    <3>3. ~Before(s.cells[p[j]], s.cells[p[i]])
      BY <1>2, <3>2
    <3> QED
      BY <3>1, <3>3 DEF Before
  <2> QED
    BY <1>8, <2>2, PointFields
<1> QED
  BY <1>2, <1>8, <1>9, <1>10

(* More numbers do not fit where there is room for fewer.                  *)
LEMMA NoneDown ==
  ASSUME NEW n \in Nat, NEW p \in [1..n -> 1..n],
         \A i, j \in 1..n : p[i] = p[j] => i = j,
         NEW m \in 0..n, NEW k \in 1..m
  PROVE  \E i \in k..n : p[i] <= m
<1>1. SUFFICES ASSUME \A i \in k..n : p[i] > m PROVE FALSE
  OBVIOUS
<1>2. PICK f : f = [i \in k..n |-> p[i]]
  OBVIOUS
<1>3. f \in [k..n -> (m + 1)..n]
  BY <1>1, <1>2
<1>4. /\ IsFiniteSet(k..n) /\ Cardinality(k..n) = n - k + 1
      /\ IsFiniteSet((m + 1)..n) /\ Cardinality((m + 1)..n) = n - m
  BY FS_Interval
<1>5. Cardinality((m + 1)..n) < Cardinality(k..n)
  BY <1>4
<1>6. \E x, y \in k..n : x # y /\ f[x] = f[y]
  BY ONLY <1>3, <1>4, <1>5, FS_PigeonHole, Zenon
<1> QED
  BY <1>2, <1>6

LEMMA NoneUp ==
  ASSUME NEW n \in Nat, NEW p \in [1..n -> 1..n],
         \A i, j \in 1..n : p[i] = p[j] => i = j,
         NEW m \in 0..n, NEW k \in (m + 1)..n
  PROVE  \E i \in 1..k : p[i] > m
<1>1. SUFFICES ASSUME \A i \in 1..k : p[i] <= m PROVE FALSE
  <2>1. \A i \in 1..k : p[i] \in 1..n
    OBVIOUS
  <2> QED
    BY <2>1
<1>2. PICK f : f = [i \in 1..k |-> p[i]]
  OBVIOUS
<1>3. f \in [1..k -> 1..m]
  BY <1>1, <1>2
<1>4. /\ IsFiniteSet(1..k) /\ Cardinality(1..k) = k
      /\ IsFiniteSet(1..m) /\ Cardinality(1..m) = m
  BY FS_Interval
<1>5. Cardinality(1..m) < Cardinality(1..k)
  BY <1>4
<1>6. \E x, y \in 1..k : x # y /\ f[x] = f[y]
  BY ONLY <1>3, <1>4, <1>5, FS_PigeonHole, Zenon
<1> QED
  BY <1>2, <1>6

(* The first m points of a sorted slice are due if those of the slice are: *)
(* the position in it keeps its meaning.                                   *)
LEMMA FirstAreDue ==
  ASSUME NEW s \in Slices, Holds(s), NEW old \in Slices, Holds(old),
         old.len = s.len, Weakly(old),
         NEW p \in [1..s.len -> 1..s.len],
         \A i \in 1..s.len : old.cells[i] = s.cells[p[i]],
         \A i, j \in 1..s.len : p[i] = p[j] => i = j,
         NEW m \in 0..s.len, NEW t \in Int,
         \A i \in 1..m : s.cells[i].e <= t
  PROVE  \A i \in 1..m : old.cells[i].e <= t
<1>1. SUFFICES ASSUME NEW k \in 1..m PROVE old.cells[k].e <= t
  OBVIOUS
<1>2. s.len \in Nat
  BY DEF Slices
<1>3. PICK i \in k..s.len : p[i] <= m
  BY <1>2, NoneDown
<1>4. i \in 1..s.len /\ k \in 1..s.len /\ p[i] \in 1..m
  BY <1>2, <1>3
<1>5. old.cells[k].e \in Int /\ old.cells[i].e \in Int
  BY <1>4, PointFields DEF Holds
<1>6. old.cells[k].e <= old.cells[i].e
  BY <1>2, <1>3, <1>4, <1>5 DEF Weakly
<1>7. old.cells[i].e <= t
  BY <1>4
<1> QED
  BY <1>5, <1>6, <1>7

(* Of a slice that is in order already, the points after the m-th stay     *)
(* after the m-th.                                                         *)
LEMMA LastStayLast ==
  ASSUME NEW s \in Slices, Holds(s), Ascending(s),
         NEW old \in Slices, old.len = s.len, Weakly(old),
         NEW p \in [1..s.len -> 1..s.len],
         \A i \in 1..s.len : old.cells[i] = s.cells[p[i]],
         \A i, j \in 1..s.len : p[i] = p[j] => i = j,
         NEW m \in 0..s.len, NEW k \in (m + 1)..s.len
  PROVE  p[k] > m
<1>1. SUFFICES ASSUME p[k] <= m PROVE FALSE
  BY DEF Slices
<1>2. s.len \in Nat /\ k \in 1..s.len
  BY DEF Slices
<1>3. PICK i \in 1..k : p[i] > m
  BY <1>2, NoneUp
<1>4. i \in 1..s.len /\ i < k /\ p[k] < p[i]
  BY <1>1, <1>2, <1>3
<1>5. s.cells[p[k]].e < s.cells[p[i]].e
  BY <1>2, <1>4 DEF Ascending, Before
<1>6. s.cells[p[i]].e <= s.cells[p[k]].e
  <2>1. old.cells[i].e <= old.cells[k].e
    BY <1>2, <1>4 DEF Weakly
  <2> QED
    BY <1>2, <1>4, <2>1
<1>7. s.cells[p[i]].e \in Int /\ s.cells[p[k]].e \in Int
  <2>1. p[i] \in 1..s.len /\ p[k] \in 1..s.len
    BY <1>2, <1>4
  <2> QED
    BY <2>1, PointFields DEF Holds
<1> QED
  BY <1>5, <1>6, <1>7

(***************************************************************************)
(* Reading a forecast                                                      *)
(***************************************************************************)
(* The rows of a parsed forecast are its points, in order.                 *)
LEMMA ParsedRows ==
  ASSUME NEW F \in SUBSET Times, NEW spare \in 1..MaxSpare,
         reads + 1 \in 1..MaxReads, NEW new \in Parsed(F, spare)
  PROVE  /\ new \in Slices /\ Holds(new) /\ Ascending(new)
         /\ \A i \in 1..new.len : new.cells[i] \in {Point(u, reads + 1) : u \in F}
         /\ \A p \in {Point(u, reads + 1) : u \in F} :
               \E i \in 1..new.len : new.cells[i] = p
<1> DEFINE points == {Point(u, reads + 1) : u \in F}
           n == Cardinality(F)
<1>1. n \in Nat
  BY FS_Subset, FS_CardinalityType, LoopAssumption DEF LoopAssumption
<1>2. points \subseteq Points
  BY FreshPoints
<1>3. PICK q \in Surjection(1..n, points) :
         /\ \A i, j \in 1..n : i < j => Before(q[i], q[j])
         /\ new = Slice([k \in 1..(n + spare) |-> IF k <= n THEN q[k] ELSE None], n)
  BY DEF Parsed
<1> HIDE DEF points, n
<1>4. /\ q \in [1..n -> points]
      /\ \A p \in points : \E i \in 1..n : q[i] = p
  BY <1>3 DEF Surjection
<1>5. PICK c : c = [k \in 1..(n + spare) |-> IF k <= n THEN q[k] ELSE None]
  OBVIOUS
<1>6. spare \in Nat
  BY LoopAssumption DEF LoopAssumption
<1>7. \A k \in 1..(n + spare) : c[k] \in Points \cup {None}
  BY <1>1, <1>2, <1>4, <1>5
<1>8. c \in Seq(Points \cup {None}) /\ Len(c) = n + spare
  BY <1>1, <1>5, <1>6, <1>7
<1>9. new = [cells |-> c, len |-> n]
  BY <1>3, <1>5 DEF Slice
<1>10. \A i \in 1..n : new.cells[i] = q[i] /\ q[i] \in points
  BY <1>1, <1>4, <1>5, <1>6, <1>9
<1>11. new \in Slices /\ Holds(new)
  BY <1>1, <1>2, <1>6, <1>8, <1>9, <1>10 DEF Slices, Holds, Cap
<1>12. Ascending(new)
  BY <1>3, <1>9, <1>10 DEF Ascending
<1> QED
  BY <1>4, <1>9, <1>10, <1>11, <1>12 DEF points

(* Joining keeps the old points up to some n-th and puts the new ones      *)
(* after them; the old slice may be overwritten with new points from       *)
(* there on.                                                               *)
JoinedAt(n, new, old, joined) ==
  /\ joined.slice \in Slices /\ Holds(joined.slice)
  /\ joined.slice.len = n + new.len
  /\ \A i \in 1..n : joined.slice.cells[i] = old.cells[i]
  /\ \A i \in 1..new.len : joined.slice.cells[n + i] = new.cells[i]
  /\ joined.old \in Slices /\ joined.old.len = old.len /\ Holds(joined.old)
  /\ \A i \in 1..old.len :
        \/ joined.old.cells[i] = old.cells[i]
        \/ i > n /\ i - n \in 1..new.len /\ joined.old.cells[i] = new.cells[i - n]

LEMMA AppendFacts ==
  ASSUME NEW old \in Slices, Holds(old), NEW new \in Slices, Holds(new),
         NEW n \in 0..old.len, new.len > 0
  PROVE  JoinedAt(n, new, old, AppendTo(old, n, new))
<1> DEFINE len == n + new.len
           fits == len <= Cap(old)
           cap == IF fits THEN Cap(old)
                  ELSE IF len > 2 * Cap(old) THEN len ELSE 2 * Cap(old)
           cells == [k \in 1..cap |-> IF k > n /\ k <= len THEN new.cells[k - n]
                                      ELSE IF k <= Cap(old) THEN old.cells[k]
                                      ELSE None]
           joined == AppendTo(old, n, new)
<1>1. /\ joined.slice = [cells |-> cells, len |-> len]
      /\ joined.old = IF fits THEN [old EXCEPT !.cells = cells] ELSE old
  BY DEF AppendTo, Slice
<1>2. /\ old.cells \in Seq(Points \cup {None}) /\ old.len \in Nat
      /\ Cap(old) \in Nat /\ old.len <= Cap(old) /\ Cap(old) = Len(old.cells)
      /\ new.len \in Nat /\ n \in Nat /\ n <= old.len
      /\ \A i \in 1..new.len : new.cells[i] \in Points
      /\ \A i \in 1..old.len : old.cells[i] \in Points
      /\ \A i \in 1..Cap(old) : old.cells[i] \in Points \cup {None}
  BY DEF Slices, Holds, Cap
<1>3. cap \in Nat /\ len \in Nat /\ len <= cap /\ Cap(old) <= cap /\ n < len
  BY <1>2
<1>4. PICK c : c = cells
  OBVIOUS
<1>5. /\ \A i \in 1..n : c[i] = old.cells[i] /\ c[i] \in Points
      /\ \A i \in 1..new.len : c[n + i] = new.cells[i]
  <2>1. ASSUME NEW i \in 1..n PROVE c[i] = old.cells[i] /\ c[i] \in Points
    BY <1>2, <1>3, <1>4
  <2>2. ASSUME NEW i \in 1..new.len PROVE c[n + i] = new.cells[i]
    <3>1. n + i \in 1..cap /\ n + i > n /\ n + i <= len /\ (n + i) - n = i
      BY <1>2, <1>3
    <3> HIDE DEF cap, len
    <3> QED
      BY <1>4, <3>1
  <2> QED
    BY <2>1, <2>2
<1>6. \A k \in (n + 1)..len : c[k] = new.cells[k - n] /\ k - n \in 1..new.len
  BY <1>2, <1>3, <1>4
<1>7. \A k \in 1..cap : c[k] \in Points \cup {None}
  <2>1. SUFFICES ASSUME NEW k \in 1..cap PROVE c[k] \in Points \cup {None}
    OBVIOUS
  <2>2. CASE k > n /\ k <= len
    BY <1>2, <1>3, <1>6, <2>2
  <2>3. CASE ~(k > n /\ k <= len)
    <3> HIDE DEF cap, len
    <3> QED
      BY <1>2, <1>4, <2>3
  <2> QED
    BY <2>2, <2>3
<1>8. c \in Seq(Points \cup {None}) /\ Len(c) = cap
  <2> HIDE DEF cap, len
  <2> QED
    BY <1>3, <1>4, <1>7
<1>9. \A k \in 1..len : c[k] \in Points
  <2>1. SUFFICES ASSUME NEW k \in 1..len PROVE c[k] \in Points
    OBVIOUS
  <2>2. CASE k <= n
    BY <1>2, <1>5, <2>2
  <2>3. CASE ~(k <= n)
    BY <1>2, <1>6, <2>3
  <2> QED
    BY <2>2, <2>3
<1>10. joined.slice = [cells |-> c, len |-> len]
  BY <1>1, <1>4
<1>11. joined.slice \in Slices /\ Holds(joined.slice)
  <2> HIDE DEF cap, len
  <2> QED
    BY <1>3, <1>8, <1>9, <1>10 DEF Slices, Holds, Cap
<1>12. \A i \in 1..old.len : len <= Cap(old) =>
          \/ c[i] = old.cells[i]
          \/ i > n /\ i - n \in 1..new.len /\ c[i] = new.cells[i - n]
  <2>1. SUFFICES ASSUME NEW i \in 1..old.len, len <= Cap(old)
                 PROVE  \/ c[i] = old.cells[i]
                        \/ i > n /\ i - n \in 1..new.len /\ c[i] = new.cells[i - n]
    OBVIOUS
  <2>2. CASE i > n /\ i <= len
    BY <1>2, <1>6, <2>2
  <2>3. CASE ~(i > n /\ i <= len)
    <3>1. i \in 1..cap /\ i <= Cap(old)
      BY <1>2, <1>3
    <3> HIDE DEF cap, len
    <3> QED
      BY <1>4, <2>3, <3>1
  <2> QED
    BY <2>2, <2>3
<1>13. /\ joined.old \in Slices /\ joined.old.len = old.len
       /\ \A i \in 1..old.len :
             \/ joined.old.cells[i] = old.cells[i]
             \/ /\ i > n /\ i - n \in 1..new.len
                /\ joined.old.cells[i] = new.cells[i - n]
       /\ Cap(joined.old) >= Cap(old)
  <2>1. CASE fits
    <3>1. joined.old = [cells |-> c, len |-> old.len]
      BY <1>1, <1>4, <2>1 DEF Slices
    <3>2. Cap(joined.old) = cap
      BY <1>8, <3>1 DEF Cap
    <3> HIDE DEF cap
    <3> QED
      BY <1>2, <1>3, <1>8, <1>12, <2>1, <3>1, <3>2 DEF Slices
  <2>2. CASE ~fits
    <3>1. joined.old = old
      BY <1>1, <2>2
    <3> HIDE DEF joined
    <3> QED
      BY <1>2, <3>1
  <2> QED
    BY <2>1, <2>2
<1>14. Holds(joined.old)
  <2>1. \A i \in 1..old.len : joined.old.cells[i] \in Points
    BY <1>2, <1>13
  <2> QED
    BY <1>2, <1>13, <2>1 DEF Holds, Slices, Cap
<1> QED
  BY <1>5, <1>10, <1>11, <1>13, <1>14 DEF JoinedAt

LEMMA JoinFacts ==
  ASSUME NEW old \in Slices, Holds(old), NEW new \in Slices, Holds(new),
         NEW joined \in Join(new, old)
  PROVE  \E n \in 0..old.len :
            /\ JoinedAt(n, new, old, joined)
            /\ new.len > 0 => n \in Front(new, old)
            /\ new.len = 0 => n = old.len
<1>1. new.len \in Nat /\ old.len \in Nat
  BY DEF Slices
<1>2. CASE new.len = 0
  <2>1. joined.slice = old /\ joined.old = old
    BY <1>2 DEF Join
  <2>2. JoinedAt(old.len, new, old, joined)
    BY <1>1, <1>2, <2>1 DEF JoinedAt
  <2> QED
    BY <1>1, <1>2, <2>2
<1>3. CASE new.len # 0 /\ old.len = 0
  <2>1. joined.slice = new /\ joined.old = old
    BY <1>3 DEF Join
  <2>2. JoinedAt(0, new, old, joined)
    BY <1>1, <1>3, <2>1 DEF JoinedAt
  <2>3. 0 \in Front(new, old)
    BY <1>1, <1>3 DEF Front
  <2> QED
    BY <1>1, <1>3, <2>2, <2>3
<1>4. CASE new.len # 0 /\ old.len # 0
  <2>1. PICK n \in Front(new, old) : joined = AppendTo(old, n, new)
    BY <1>4 DEF Join
  <2>2. n \in 0..old.len
    BY DEF Front
  <2>3. JoinedAt(n, new, old, joined)
    BY <1>1, <1>4, <2>1, <2>2, AppendFacts
  <2> QED
    BY <1>4, <2>2, <2>3
<1> QED
  BY <1>2, <1>3, <1>4

(* The points from the i-th one on.                                        *)
LEMMA FromFacts ==
  ASSUME NEW s \in Slices, Holds(s), NEW i \in 1..s.len
  PROVE  /\ From(s, i) \in Slices /\ Holds(From(s, i))
         /\ From(s, i).len = s.len - i + 1
         /\ \A k \in 1..(s.len - i + 1) : From(s, i).cells[k] = s.cells[i + k - 1]
<1>1. s.cells \in Seq(Points \cup {None}) /\ s.len \in Nat /\ s.len <= Len(s.cells)
  BY DEF Slices, Holds, Cap
<1>2. PICK c : c = SubSeq(s.cells, i, Len(s.cells))
  OBVIOUS
<1>3. /\ c \in Seq(Points \cup {None}) /\ Len(c) = Len(s.cells) - i + 1
      /\ \A k \in 1..Len(c) : c[k] = s.cells[i + k - 1]
  BY <1>1, <1>2
<1>4. From(s, i) = [cells |-> c, len |-> s.len - i + 1]
  BY <1>2 DEF From, Slice, Cap
<1>5. \A k \in 1..(s.len - i + 1) :
         c[k] = s.cells[i + k - 1] /\ i + k - 1 \in 1..s.len
  BY <1>1, <1>3
<1>6. \A k \in 1..(s.len - i + 1) : c[k] \in Points
  BY <1>5 DEF Holds
<1> QED
  BY <1>1, <1>3, <1>4, <1>5, <1>6 DEF Slices, Holds, Cap

(* The k-th joined point is an old one or a new one.                       *)
LEMMA JoinedCell ==
  ASSUME NEW old \in Slices, NEW new \in Slices, NEW joined,
         NEW n \in 0..old.len, JoinedAt(n, new, old, joined),
         NEW k \in 1..joined.slice.len
  PROVE  \/ k \in 1..n /\ k \in 1..old.len /\ joined.slice.cells[k] = old.cells[k]
         \/ /\ k > n /\ k - n \in 1..new.len
            /\ joined.slice.cells[k] = new.cells[k - n]
<1>1. new.len \in Nat /\ old.len \in Nat
  BY DEF Slices
<1>2. CASE k <= n
  BY <1>1, <1>2 DEF JoinedAt
<1>3. CASE ~(k <= n)
  <2>1. k - n \in 1..new.len /\ n + (k - n) = k
    BY <1>1, <1>3 DEF JoinedAt
  <2> QED
    BY <1>1, <1>3, <2>1 DEF JoinedAt
<1> QED
  BY <1>2, <1>3

(* What is joined is in order, strictly if the old points were.            *)
LEMMA JoinedInOrder ==
  ASSUME NEW old \in Slices, Holds(old), Weakly(old),
         NEW new \in Slices, Holds(new), Ascending(new), NEW joined,
         NEW n \in 0..old.len, JoinedAt(n, new, old, joined),
         new.len > 0 => n \in Front(new, old)
  PROVE  /\ Weakly(joined.slice)
         /\ Ascending(old) => Ascending(joined.slice)
<1>1. new.len \in Nat /\ old.len \in Nat /\ joined.slice.len \in Nat
  BY DEF Slices, JoinedAt
<1>2. ASSUME NEW i \in 1..joined.slice.len, NEW j \in 1..joined.slice.len, i < j
      PROVE  /\ joined.slice.cells[i].e <= joined.slice.cells[j].e
             /\ Ascending(old) =>
                   joined.slice.cells[i].e < joined.slice.cells[j].e
  <2>1. CASE j <= n
    <3>1. i \in 1..old.len /\ j \in 1..old.len /\ i \in 1..n /\ j \in 1..n
      BY <1>1, <1>2, <2>1
    <3> QED
      BY <1>2, <3>1 DEF JoinedAt, Weakly, Ascending, Before
  <2>2. CASE n < i
    <3>1. i - n \in 1..new.len /\ j - n \in 1..new.len /\ i - n < j - n
      BY <1>1, <1>2, <2>2 DEF JoinedAt
    <3>2. /\ joined.slice.cells[i] = new.cells[i - n]
          /\ joined.slice.cells[j] = new.cells[j - n]
      BY <1>2, <2>2, JoinedCell
    <3>3. new.cells[i - n].e < new.cells[j - n].e
      BY <3>1 DEF Ascending, Before
    <3> QED
      BY <3>1, <3>2, <3>3, PointFields DEF Holds
  <2>3. CASE i <= n /\ n < j
    <3>1. /\ i \in 1..n /\ i \in 1..old.len /\ j - n \in 1..new.len /\ 1 \in 1..new.len
          /\ new.len > 0
      BY <1>1, <1>2, <2>3 DEF JoinedAt
    <3>2. /\ joined.slice.cells[i] = old.cells[i]
          /\ joined.slice.cells[j] = new.cells[j - n]
      BY <2>3, <3>1, JoinedCell
    <3>3. old.cells[i].e < new.cells[1].e
      BY <3>1 DEF Front
    <3>4. /\ old.cells[i].e \in Int /\ new.cells[1].e \in Int
          /\ new.cells[j - n].e \in Int
      BY <3>1, PointFields DEF Holds
    <3>5. new.cells[1].e <= new.cells[j - n].e
      <4>1. CASE j - n = 1
        BY <3>4, <4>1
      <4>2. CASE j - n # 1
        BY <3>1, <3>4, <4>2 DEF Ascending, Before
      <4> QED
        BY <4>1, <4>2
    <3> QED
      BY <3>2, <3>3, <3>4, <3>5
  <2> QED
    BY <1>1, <1>2, <2>1, <2>2, <2>3
<1> QED
  BY <1>2 DEF Weakly, Ascending, Before

(* New points differ from the old ones, so no point is held twice.         *)
LEMMA JoinedDistinct ==
  ASSUME NEW old \in Slices, Holds(old), Distinct(old),
         NEW new \in Slices, Holds(new), Ascending(new), NEW joined,
         NEW n \in 0..old.len, JoinedAt(n, new, old, joined),
         \A i \in 1..old.len, k \in 1..new.len : old.cells[i] # new.cells[k]
  PROVE  Distinct(joined.slice) /\ Distinct(joined.old)
<1>1. new.len \in Nat /\ old.len \in Nat /\ joined.slice.len \in Nat
  BY DEF Slices, JoinedAt
<1>2. \A i, j \in 1..new.len : i # j => new.cells[i] # new.cells[j]
  <2>1. \A i \in 1..new.len : new.cells[i].e \in Int
    BY PointFields DEF Holds
  <2> QED
    BY <1>1, <2>1 DEF Ascending, Before
<1>3. ASSUME NEW i \in 1..joined.slice.len, NEW j \in 1..joined.slice.len, i # j
      PROVE  joined.slice.cells[i] # joined.slice.cells[j]
  <2>1. \A k \in {i, j} :
           \/ k \in 1..old.len /\ joined.slice.cells[k] = old.cells[k]
           \/ k - n \in 1..new.len /\ joined.slice.cells[k] = new.cells[k - n]
    BY JoinedCell
  <2>2. i - n # j - n
    BY <1>1, <1>3
  <2> QED
    BY <1>2, <1>3, <2>1, <2>2 DEF Distinct
<1>4. ASSUME NEW i \in 1..old.len, NEW j \in 1..old.len, i # j
      PROVE  joined.old.cells[i] # joined.old.cells[j]
  <2>1. i - n # j - n
    BY <1>1, <1>4
  <2> QED
    BY <1>2, <1>4, <2>1 DEF Distinct, JoinedAt
<1> QED
  BY <1>3, <1>4 DEF Distinct, JoinedAt

(***************************************************************************)
(* The invariant                                                           *)
(***************************************************************************)
(* What is in the channel was given and not read yet.                      *)
Budget == reads + Len(inbox) <= given

(* The points held came with the forecasts read, each once.                *)
Filled ==
  /\ Holds(data) /\ Distinct(data)
  /\ \A i \in 1..data.len : data.cells[i] \in heard
  /\ \A p \in heard : p.r <= reads

(* They are in order until a forecast comes too late.                      *)
InOrder == expired \/ Ascending(data)

(* The points before the position are due.                                 *)
Due == \A i \in 1..position : data.cells[i].e <= now

(* The timer does not fire before the point it was set for.                *)
Timed ==
  /\ pc = "send" => Held /\ Current.e <= now
  /\ pc = "check" /\ Held => Current.e <= now + wait
  /\ pc = "select" /\ Held => Current.e <= deadline

LoopInv == /\ TypeOK /\ Budget /\ Filled /\ InOrder /\ Due /\ Timed
           /\ NeverEarly

(* The slices a read goes through.                                         *)
ReadThrough(new, old, p, joined, n) ==
  /\ new \in Slices /\ Holds(new) /\ Ascending(new)
  /\ \A i \in 1..new.len : new.cells[i] \in forecast'
  /\ \A q \in forecast' : \E i \in 1..new.len : new.cells[i] = q
  /\ old \in Slices /\ Holds(old) /\ Weakly(old) /\ old.len = data.len
  /\ p \in [1..data.len -> 1..data.len]
  /\ \A i \in 1..data.len : old.cells[i] = data.cells[p[i]]
  /\ \A i, j \in 1..data.len : p[i] = p[j] => i = j
  /\ \A j \in 1..data.len : \E i \in 1..data.len : p[i] = j
  /\ n \in 0..data.len /\ JoinedAt(n, new, old, joined)
  /\ new.len > 0 => n \in Front(new, old)
  /\ new.len = 0 => n = data.len
  /\ Cut(joined)
  /\ expired' = (expired \/ Future(joined.slice) = {})

LEMMA Reading ==
  ASSUME LoopInv, ReadForecast
  PROVE  /\ reads + 1 \in 1..MaxReads
         /\ forecast' \subseteq Points /\ \A q \in forecast' : q.r = reads + 1
         /\ \E new, old, p, joined, n : ReadThrough(new, old, p, joined, n)
<1>1. Head(inbox) \in SUBSET Times
  <2>1. inbox \in Seq((SUBSET Times) \cup {Garbage}) /\ inbox # <<>>
    BY DEF LoopInv, TypeOK, ReadForecast
  <2>2. Head(inbox) \in (SUBSET Times) \cup {Garbage}
    BY <2>1, HeadTailProperties
  <2>3. Head(inbox) # Garbage
    BY DEF ReadForecast
  <2> QED
    BY <2>2, <2>3
<1>2. reads + 1 \in 1..MaxReads
  BY LoopAssumption DEF LoopInv, TypeOK, Budget, ReadForecast, LoopAssumption
<1>3. forecast' \subseteq Points /\ \A q \in forecast' : q.r = reads + 1
  BY <1>1, <1>2, FreshPoints DEF ReadForecast
<1>4. PICK spare \in 1..MaxSpare :
         \E new \in Parsed(Head(inbox), spare), old \in Sorted(data) :
         \E joined \in Join(new, old) :
            /\ Cut(joined)
            /\ expired' = (expired \/ Future(joined.slice) = {})
  BY DEF ReadForecast
<1>5. PICK new \in Parsed(Head(inbox), spare), old \in Sorted(data) :
         \E joined \in Join(new, old) :
            /\ Cut(joined)
            /\ expired' = (expired \/ Future(joined.slice) = {})
  BY <1>4
<1>6. PICK joined \in Join(new, old) :
         /\ Cut(joined)
         /\ expired' = (expired \/ Future(joined.slice) = {})
  BY <1>5
<1>7. data \in Slices /\ Holds(data)
  BY DEF LoopInv, TypeOK, Filled
<1>8. /\ new \in Slices /\ Holds(new) /\ Ascending(new)
      /\ \A i \in 1..new.len : new.cells[i] \in forecast'
      /\ \A q \in forecast' : \E i \in 1..new.len : new.cells[i] = q
  BY <1>1, <1>2, ParsedRows DEF ReadForecast
<1>9. PICK p \in [1..data.len -> 1..data.len] :
         /\ old \in Slices /\ old.len = data.len /\ Holds(old)
         /\ \A i \in 1..data.len : old.cells[i] = data.cells[p[i]]
         /\ \A i, j \in 1..data.len : p[i] = p[j] => i = j
         /\ \A j \in 1..data.len : \E i \in 1..data.len : p[i] = j
         /\ Weakly(old)
  BY <1>7, SortedMoves
<1>10. PICK n \in 0..old.len :
          /\ JoinedAt(n, new, old, joined)
          /\ new.len > 0 => n \in Front(new, old)
          /\ new.len = 0 => n = old.len
  BY <1>8, <1>9, JoinFacts
<1>11. ReadThrough(new, old, p, joined, n)
  BY <1>6, <1>8, <1>9, <1>10 DEF ReadThrough
<1> QED
  BY <1>2, <1>3, <1>11

(* Old points are points of the data, and the first ones are due.          *)
LEMMA OldPoints ==
  ASSUME LoopInv, ReadForecast,
         NEW new, NEW old, NEW p, NEW joined, NEW n,
         ReadThrough(new, old, p, joined, n)
  PROVE  /\ \A i \in 1..data.len : /\ old.cells[i] \in heard
                                   /\ old.cells[i].r <= reads
         /\ \A i \in 1..position : old.cells[i].e <= now
         /\ \A i \in 1..old.len, k \in 1..new.len : old.cells[i] # new.cells[k]
         /\ Distinct(old)
         /\ Ascending(data) => Ascending(old)
<1>1. /\ data \in Slices /\ Holds(data) /\ Distinct(data) /\ data.len \in Nat
      /\ position \in 0..data.len /\ now \in Int /\ reads \in Nat
      /\ \A i \in 1..data.len : data.cells[i] \in heard
      /\ \A q \in heard : q.r <= reads
      /\ \A i \in 1..position : data.cells[i].e <= now
  <2>1. data \in Slices /\ position \in 0..data.len
    BY DEF LoopInv, TypeOK
  <2>2. now \in Int /\ reads \in Nat
    BY LoopAssumption DEF LoopInv, TypeOK, LoopAssumption
  <2> QED
    BY <2>1, <2>2 DEF LoopInv, Filled, Due, Slices
<1>2. /\ old \in Slices /\ Holds(old) /\ Weakly(old) /\ old.len = data.len
      /\ p \in [1..data.len -> 1..data.len]
      /\ \A i \in 1..data.len : old.cells[i] = data.cells[p[i]]
      /\ \A i, j \in 1..data.len : p[i] = p[j] => i = j
      /\ \A i \in 1..new.len : new.cells[i] \in forecast'
  BY DEF ReadThrough
<1>3. \A i \in 1..data.len : old.cells[i] \in heard /\ old.cells[i].r <= reads
  BY <1>1, <1>2
<1>4. \A i \in 1..position : old.cells[i].e <= now
  BY <1>1, <1>2, FirstAreDue
<1>5. \A i \in 1..old.len, k \in 1..new.len : old.cells[i] # new.cells[k]
  <2>1. \A k \in 1..new.len : new.cells[k].r = reads + 1
    BY <1>2, Reading
  <2> QED
    BY <1>1, <1>2, <1>3, <2>1
<1>6. Distinct(old)
  <2>1. SUFFICES ASSUME NEW i \in 1..data.len, NEW j \in 1..data.len, i # j
                 PROVE  old.cells[i] # old.cells[j]
    BY <1>2 DEF Distinct
  <2>2. p[i] \in 1..data.len /\ p[j] \in 1..data.len /\ p[i] # p[j]
    BY <1>1, <1>2, <2>1
  <2>3. data.cells[p[i]] # data.cells[p[j]]
    BY <1>1, <2>2 DEF Distinct
  <2>4. old.cells[i] = data.cells[p[i]] /\ old.cells[j] = data.cells[p[j]]
    BY <1>2, <2>1
  <2> QED
    BY <2>3, <2>4
<1>7. ASSUME Ascending(data) PROVE Ascending(old)
  <2>1. SUFFICES ASSUME NEW i \in 1..data.len, NEW j \in 1..data.len, i < j
                 PROVE  old.cells[i].e < old.cells[j].e
    BY <1>2 DEF Ascending, Before
  <2>2. p[i] \in 1..data.len /\ p[j] \in 1..data.len /\ p[i] # p[j]
    BY <1>1, <1>2, <2>1
  <2>3. old.cells[i].e <= old.cells[j].e
    BY <1>2, <2>1 DEF Weakly
  <2>4. old.cells[i].e # old.cells[j].e
    <3>1. p[i] < p[j] \/ p[j] < p[i]
      BY <2>2
    <3>2. data.cells[p[i]].e # data.cells[p[j]].e
      BY <1>1, <1>7, <2>2, <3>1, PointFields DEF Ascending, Before, Holds
    <3> QED
      BY <1>2, <3>2
  <2>5. old.cells[i].e \in Int /\ old.cells[j].e \in Int
    BY <1>2, PointFields DEF Holds
  <2> QED
    BY <2>3, <2>4, <2>5
<1> QED
  BY <1>3, <1>4, <1>5, <1>6, <1>7

(* The future points of what is joined are the schedule's merged plan.     *)
LEMMA FutureIsMerge ==
  ASSUME LoopInv, ReadForecast,
         NEW new, NEW old, NEW p, NEW joined, NEW n,
         ReadThrough(new, old, p, joined, n)
  PROVE  {joined.slice.cells[k] : k \in Future(joined.slice)}
            = Schedule!Merge(forecast')
<1> DEFINE s == joined.slice
           M == Schedule!Merge(forecast')
<1>1. /\ new \in Slices /\ Holds(new) /\ Ascending(new)
      /\ \A i \in 1..new.len : new.cells[i] \in forecast'
      /\ \A q \in forecast' : \E i \in 1..new.len : new.cells[i] = q
      /\ old \in Slices /\ Holds(old) /\ Weakly(old) /\ old.len = data.len
      /\ p \in [1..data.len -> 1..data.len]
      /\ \A i \in 1..data.len : old.cells[i] = data.cells[p[i]]
      /\ \A j \in 1..data.len : \E i \in 1..data.len : p[i] = j
      /\ n \in 0..data.len /\ JoinedAt(n, new, old, joined)
      /\ new.len > 0 => n \in Front(new, old)
      /\ new.len = 0 => n = data.len
  BY DEF ReadThrough
<1>2. /\ data.len \in Nat /\ new.len \in Nat /\ s.len = n + new.len
      /\ position \in 0..data.len /\ now \in Int
  BY <1>1, LoopAssumption DEF LoopInv, TypeOK, Slices, JoinedAt, LoopAssumption
<1>3. \A i \in 1..new.len : new.cells[1].e <= new.cells[i].e
  <2>1. SUFFICES ASSUME NEW i \in 1..new.len
                 PROVE  new.cells[1].e <= new.cells[i].e
    OBVIOUS
  <2>2. 1 \in 1..new.len /\ new.cells[1].e \in Int
    BY <1>1, <1>2, PointFields DEF Holds
  <2>3. i = 1 \/ (1 < i /\ new.cells[1].e < new.cells[i].e)
    BY <1>1, <1>2, <2>2 DEF Ascending, Before
  <2>4. new.cells[i].e \in Int
    BY <1>1, PointFields DEF Holds
  <2> QED
    BY <2>2, <2>3, <2>4
<1>4. \A i \in 1..data.len :
         /\ old.cells[i].e \in Int
         /\ old.cells[i].e > now => old.cells[i] \in Plan
  <2>1. SUFFICES ASSUME NEW i \in 1..data.len
                 PROVE  /\ old.cells[i].e \in Int
                        /\ old.cells[i].e > now => old.cells[i] \in Plan
    OBVIOUS
  <2>2. old.cells[i].e \in Int /\ p[i] \in 1..data.len
    BY <1>1, PointFields DEF Holds
  <2>3. ASSUME old.cells[i].e > now PROVE p[i] > position
    <3>1. old.cells[i] = data.cells[p[i]]
      BY <1>1
    <3>2. ~(data.cells[p[i]].e <= now)
      BY <1>2, <2>2, <2>3, <3>1
    <3> QED
      BY <1>2, <2>2, <3>2 DEF LoopInv, Due
  <2>4. ASSUME old.cells[i].e > now PROVE old.cells[i] \in Plan
    <3>1. p[i] \in (position + 1)..data.len
      BY <1>2, <2>2, <2>3, <2>4
    <3>2. pc # "crashed"
      BY DEF ReadForecast
    <3>3. old.cells[i] = data.cells[p[i]]
      BY <1>1
    <3> QED
      BY <3>1, <3>2, <3>3 DEF Plan
  <2> QED
    BY <2>2, <2>4
<1>5. ASSUME NEW k \in Future(s) PROVE s.cells[k] \in M
  <2>1. k \in 1..s.len /\ s.cells[k].e > now
    BY DEF Future
  <2>2. CASE k \in 1..n /\ k \in 1..old.len /\ s.cells[k] = old.cells[k]
    <3>1. s.cells[k] \in Plan
      BY <1>1, <1>4, <2>1, <2>2
    <3>2. ASSUME NEW q \in forecast' PROVE s.cells[k].e < q.e
      <4>1. PICK i \in 1..new.len : new.cells[i] = q
        BY <1>1
      <4>2. new.len > 0 /\ 1 \in 1..new.len
        BY <1>2, <4>1
      <4>3. new.cells[1].e <= q.e
        BY <1>3, <4>1
      <4>4. new.cells[1].e \in Int /\ q.e \in Int /\ old.cells[k].e \in Int
        <5>1. new.cells[1] \in Points /\ q \in Points
          BY <1>1, <4>1, <4>2 DEF Holds
        <5> QED
          BY <1>1, <1>4, <2>2, <5>1, PointFields
      <4>5. old.cells[k].e < new.cells[1].e
        <5>1. n \in Front(new, old)
          BY <1>1, <4>2
        <5> QED
          BY <2>2, <5>1 DEF Front
      <4> QED
        BY <2>2, <4>3, <4>4, <4>5
    <3> QED
      BY <2>1, <3>1, <3>2 DEF Schedule!Merge
  <2>3. CASE k - n \in 1..new.len /\ s.cells[k] = new.cells[k - n]
    BY <1>1, <2>1, <2>3 DEF Schedule!Merge
  <2> QED
    BY <1>1, <2>1, <2>2, <2>3, JoinedCell
<1>6. ASSUME NEW q \in M PROVE \E k \in Future(s) : s.cells[k] = q
  <2>1. q.e > now
    BY DEF Schedule!Merge
  <2>2. CASE q \in forecast'
    <3>1. PICK i \in 1..new.len : new.cells[i] = q
      BY <1>1, <2>2
    <3>2. n + i \in 1..s.len /\ s.cells[n + i] = q
      BY <1>1, <1>2, <3>1 DEF JoinedAt
    <3> QED
      BY <2>1, <3>2 DEF Future
  <2>3. CASE q \in Plan /\ \A r \in forecast' : q.e < r.e
    <3>1. PICK j \in (position + 1)..data.len : q = data.cells[j]
      BY <2>3 DEF Plan
    <3>2. j \in 1..data.len
      BY <1>2, <3>1
    <3>3. PICK i \in 1..data.len : p[i] = j
      BY <1>1, <3>2
    <3>4. q = old.cells[i]
      BY <1>1, <3>1, <3>3
    <3>5. i <= n
      <4>1. SUFFICES ASSUME i > n PROVE FALSE
        BY <1>1, <1>2, <3>3
      <4>2. /\ new.len > 0 /\ n < old.len /\ n + 1 \in 1..old.len
            /\ 1 \in 1..new.len
        <5>1. n \in Int /\ i \in Int /\ i <= data.len /\ n # data.len /\ 0 <= n
          BY <1>1, <1>2, <3>3, <4>1
        <5>2. new.len # 0 /\ old.len = data.len
          BY <1>1, <5>1
        <5> QED
          BY <1>2, <4>1, <5>1, <5>2
      <4>3. old.cells[n + 1].e >= new.cells[1].e
        BY <1>1, <4>2 DEF Front
      <4>4. q.e < new.cells[1].e
        <5>1. new.cells[1] \in forecast'
          BY <1>1, <4>2
        <5> QED
          BY <2>3, <5>1
      <4>5. old.cells[n + 1].e <= old.cells[i].e
        <5>1. CASE i = n + 1
          BY <1>1, <1>4, <5>1
        <5>2. CASE i # n + 1
          BY <1>1, <1>2, <3>3, <4>1, <4>2, <5>2 DEF Weakly
        <5> QED
          BY <5>1, <5>2
      <4>6. /\ old.cells[n + 1].e \in Int /\ old.cells[i].e \in Int
            /\ new.cells[1].e \in Int
        <5>1. new.cells[1] \in Points
          BY <1>1, <4>2 DEF Holds
        <5>2. n + 1 \in 1..data.len
          BY <1>1, <4>2
        <5> QED
          BY <1>4, <3>3, <5>1, <5>2, PointFields
      <4> QED
        BY <3>4, <4>3, <4>4, <4>5, <4>6
    <3>6. i \in 1..s.len /\ i \in 1..n
      BY <1>1, <1>2, <3>5
    <3>7. s.cells[i] = q
      BY <1>1, <3>4, <3>6 DEF JoinedAt
    <3> QED
      BY <2>1, <3>6, <3>7 DEF Future
  <2> QED
    BY <2>2, <2>3 DEF Schedule!Merge
<1> QED
  BY <1>5, <1>6

(* From the first point in the future on, all are in the future.           *)
LEMMA FromIsFuture ==
  ASSUME NEW s \in Slices, Holds(s), Weakly(s), now \in Int,
         NEW i \in Future(s), \A j \in Future(s) : i <= j
  PROVE  {From(s, i).cells[k] : k \in 1..From(s, i).len}
            = {s.cells[k] : k \in Future(s)}
<1>1. s.len \in Nat /\ i \in 1..s.len /\ s.cells[i].e > now
  BY DEF Slices, Future
<1>2. /\ From(s, i).len = s.len - i + 1
      /\ \A k \in 1..(s.len - i + 1) : From(s, i).cells[k] = s.cells[i + k - 1]
  BY <1>1, FromFacts
<1>3. ASSUME NEW k \in 1..From(s, i).len
      PROVE  i + k - 1 \in Future(s) /\ From(s, i).cells[k] = s.cells[i + k - 1]
  <2>1. i + k - 1 \in 1..s.len /\ i <= i + k - 1
    BY <1>1, <1>2
  <2>2. s.cells[i + k - 1].e > now
    <3>1. CASE k = 1
      BY <1>1, <3>1
    <3>2. CASE k # 1
      <4>1. s.cells[i].e <= s.cells[i + k - 1].e
        BY <1>1, <2>1, <3>2 DEF Weakly
      <4>2. s.cells[i].e \in Int /\ s.cells[i + k - 1].e \in Int
        BY <1>1, <2>1, PointFields DEF Holds
      <4> QED
        BY <1>1, <4>1, <4>2
    <3> QED
      BY <3>1, <3>2
  <2> QED
    BY <1>2, <2>1, <2>2 DEF Future
<1>4. ASSUME NEW k \in Future(s)
      PROVE  \E m \in 1..From(s, i).len : From(s, i).cells[m] = s.cells[k]
  <2>1. k \in 1..s.len /\ i <= k
    BY DEF Future
  <2>2. k - i + 1 \in 1..From(s, i).len /\ i + (k - i + 1) - 1 = k
    BY <1>1, <1>2, <2>1
  <2> QED
    BY <1>3, <2>2
<1> QED
  BY <1>3, <1>4

(* The timer set for a wait does not fire before its end, or the clock's   *)
(* last tick.                                                              *)
LEMMA AfterFacts ==
  ASSUME NEW w \in Int, now \in 0..MaxNow
  PROVE  /\ After(w) \in Int
         /\ \A e \in Int : e <= MaxNow /\ e <= now + w => e <= After(w)
  BY LoopAssumption DEF After, LoopAssumption

(* What a read leaves as data is fit to be sent.                           *)
LEMMA ReadKeepsData ==
  ASSUME LoopInv, ReadForecast,
         NEW new, NEW old, NEW p, NEW joined, NEW n,
         ReadThrough(new, old, p, joined, n)
  PROVE  /\ data' \in Slices /\ Holds(data') /\ Distinct(data')
         /\ position' \in 0..data'.len
         /\ \A i \in 1..data'.len : data'.cells[i] \in heard'
         /\ expired' \/ Ascending(data')
         /\ \A i \in 1..position' : data'.cells[i].e <= now
<1> DEFINE s == joined.slice
<1>1. /\ new \in Slices /\ Holds(new) /\ Ascending(new)
      /\ \A i \in 1..new.len : new.cells[i] \in forecast'
      /\ old \in Slices /\ Holds(old) /\ Weakly(old) /\ old.len = data.len
      /\ n \in 0..data.len /\ JoinedAt(n, new, old, joined)
      /\ new.len > 0 => n \in Front(new, old)
      /\ Cut(joined)
      /\ expired' = (expired \/ Future(s) = {})
  BY DEF ReadThrough
<1>2. /\ data.len \in Nat /\ new.len \in Nat /\ position \in 0..data.len
      /\ now \in Int
  BY <1>1, LoopAssumption DEF LoopInv, TypeOK, Slices, LoopAssumption
<1>3. /\ s \in Slices /\ Holds(s) /\ s.len \in Nat /\ s.len = n + new.len
      /\ joined.old \in Slices /\ joined.old.len = data.len /\ Holds(joined.old)
  BY <1>1 DEF JoinedAt, Slices
<1>4. heard' = heard \cup forecast'
  BY DEF ReadForecast
<1>5. /\ \A i \in 1..data.len : old.cells[i] \in heard
      /\ \A i \in 1..position : old.cells[i].e <= now
      /\ Distinct(old)
      /\ \A i \in 1..old.len, k \in 1..new.len : old.cells[i] # new.cells[k]
      /\ Ascending(data) => Ascending(old)
  BY OldPoints
<1>6. Distinct(s) /\ Distinct(joined.old)
  BY <1>1, <1>5, JoinedDistinct
<1>7. Weakly(s) /\ (Ascending(old) => Ascending(s))
  BY <1>1, JoinedInOrder
<1>8. \A i \in 1..s.len : s.cells[i] \in heard'
  <2>1. SUFFICES ASSUME NEW i \in 1..s.len PROVE s.cells[i] \in heard'
    OBVIOUS
  <2>2. CASE i \in 1..old.len /\ s.cells[i] = old.cells[i]
    BY <1>1, <1>4, <1>5, <2>2
  <2>3. CASE i - n \in 1..new.len /\ s.cells[i] = new.cells[i - n]
    BY <1>1, <1>4, <2>3
  <2> QED
    BY <1>1, <2>2, <2>3, JoinedCell
<1>9. CASE \E i \in Future(s) : /\ \A j \in Future(s) : i <= j
                                /\ data' = From(s, i)
                                /\ position' = 0
  <2>1. PICK i \in Future(s) : data' = From(s, i) /\ position' = 0
    BY <1>9
  <2>2. i \in 1..s.len
    BY DEF Future
  <2>3. /\ data' \in Slices /\ Holds(data') /\ data'.len = s.len - i + 1
        /\ \A k \in 1..(s.len - i + 1) : data'.cells[k] = s.cells[i + k - 1]
    BY <1>3, <2>1, <2>2, FromFacts
  <2>4. \A k \in 1..data'.len : /\ i + k - 1 \in 1..s.len
                                /\ data'.cells[k] = s.cells[i + k - 1]
    BY <1>3, <2>2, <2>3
  <2>5. Distinct(data')
    <3>1. SUFFICES ASSUME NEW k \in 1..data'.len, NEW m \in 1..data'.len, k # m
                   PROVE  data'.cells[k] # data'.cells[m]
      BY DEF Distinct
    <3>2. i + k - 1 # i + m - 1
      BY <1>3, <2>2, <3>1
    <3> QED
      BY <1>6, <2>4, <3>2 DEF Distinct
  <2>6. ASSUME Ascending(s) PROVE Ascending(data')
    <3>1. SUFFICES ASSUME NEW k \in 1..data'.len, NEW m \in 1..data'.len, k < m
                   PROVE  Before(data'.cells[k], data'.cells[m])
      BY DEF Ascending
    <3>2. i + k - 1 < i + m - 1
      BY <1>3, <2>2, <3>1
    <3> QED
      BY <2>4, <2>6, <3>2 DEF Ascending
  <2>7. expired' \/ Ascending(data')
    BY <1>1, <1>5, <1>7, <2>1, <2>6 DEF LoopInv, InOrder
  <2> QED
    BY <1>3, <1>8, <2>1, <2>2, <2>3, <2>4, <2>5, <2>7
<1>10. CASE Future(s) = {} /\ data' = joined.old /\ position' = position
  <2>1. \A i \in 1..new.len : new.cells[i].e <= now
    <3>1. SUFFICES ASSUME NEW i \in 1..new.len PROVE new.cells[i].e <= now
      OBVIOUS
    <3>2. n + i \in 1..s.len /\ s.cells[n + i] = new.cells[i]
      BY <1>1, <1>2, <1>3 DEF JoinedAt
    <3>3. ~(s.cells[n + i].e > now)
      BY <1>10, <3>2 DEF Future
    <3>4. new.cells[i].e \in Int
      BY <1>1, PointFields DEF Holds
    <3> QED
      BY <1>2, <3>2, <3>3, <3>4
  <2>2. \A i \in 1..data.len :
           \/ joined.old.cells[i] = old.cells[i]
           \/ i - n \in 1..new.len /\ joined.old.cells[i] = new.cells[i - n]
    BY <1>1 DEF JoinedAt
  <2>3. \A i \in 1..data.len : joined.old.cells[i] \in heard'
    BY <1>1, <1>4, <1>5, <2>2
  <2>4. \A i \in 1..position : i \in 1..data.len
    BY <1>2
  <2>5. \A i \in 1..position : joined.old.cells[i].e <= now
    BY <1>5, <2>1, <2>2, <2>4
  <2> QED
    BY <1>1, <1>2, <1>3, <1>6, <1>10, <2>3, <2>5
<1> QED
  BY <1>1, <1>9, <1>10 DEF Cut

(* A read keeps the invariant.                                             *)
LEMMA ReadKeepsInv ==
  ASSUME LoopInv, ReadForecast
  PROVE  LoopInv'
<1>1. /\ reads + 1 \in 1..MaxReads
      /\ forecast' \subseteq Points /\ \A q \in forecast' : q.r = reads + 1
  BY Reading
<1>2. PICK new, old, p, joined, n : ReadThrough(new, old, p, joined, n)
  BY Reading
<1>3. /\ data' \in Slices /\ Holds(data') /\ Distinct(data')
      /\ position' \in 0..data'.len
      /\ \A i \in 1..data'.len : data'.cells[i] \in heard'
      /\ expired' \/ Ascending(data')
      /\ \A i \in 1..position' : data'.cells[i].e <= now
  BY <1>2, ReadKeepsData
<1>4. data'.len \in Nat /\ position' \in Nat
  BY <1>3 DEF Slices
<1>5. /\ inbox \in Seq((SUBSET Times) \cup {Garbage}) /\ inbox # <<>>
      /\ inbox' = Tail(inbox)
  BY DEF LoopInv, TypeOK, ReadForecast
<1>6. /\ inbox' \in Seq((SUBSET Times) \cup {Garbage})
      /\ Len(inbox') = Len(inbox) - 1 /\ Len(inbox) \in Nat
  BY <1>5, HeadTailProperties, LenProperties
<1>7. /\ reads' = reads + 1 /\ heard' = heard \cup forecast'
      /\ now' = now /\ past' = past /\ prev' = prev /\ given' = given /\ sent' = sent
  BY DEF ReadForecast
<1>8. /\ now \in 0..MaxNow /\ past \in Seq(Points) /\ prev \in Points \cup {None}
      /\ given \in 0..MaxReads /\ reads \in 0..given /\ heard \subseteq Points
      /\ sent \in Seq([pt : Points, at : 0..MaxNow])
      /\ wait \in Int /\ deadline \in Int /\ expired \in BOOLEAN
  BY DEF LoopInv, TypeOK
<1>9. reads + Len(inbox) <= given
  BY DEF LoopInv, Budget
<1>10. given \in Nat /\ reads \in Nat /\ now \in Int
  BY <1>8, LoopAssumption DEF LoopAssumption
<1>11. \/ /\ OutOfRange
          /\ pc' = "crashed" /\ wait' = wait /\ deadline' = deadline
       \/ /\ ~OutOfRange
          /\ wait' = data'.cells[position' + 1].e - now
          /\ deadline' = After(wait')
          /\ pc' = "select"
  BY DEF ReadForecast
<1>12. ASSUME ~OutOfRange
       PROVE  wait' \in Int /\ deadline' \in Int /\ Current'.e <= deadline'
  <2>1. position' + 1 \in 1..data'.len
    <3>1. ~(position' >= data'.len)
      BY <1>12 DEF OutOfRange
    <3>2. ASSUME NEW l \in Nat, NEW q \in Nat, ~(q >= l) PROVE q + 1 \in 1..l
      BY <3>2
    <3> QED
      BY <1>4, <3>1, <3>2, Zenon
  <2>2. data'.cells[position' + 1] \in Points
    BY <1>3, <2>1 DEF Holds
  <2>3. /\ data'.cells[position' + 1].e \in Int
        /\ data'.cells[position' + 1].e <= MaxNow
    BY <2>2, PointFields
  <2>4. wait' \in Int /\ data'.cells[position' + 1].e = now + wait'
    BY <1>10, <1>11, <1>12, <2>3
  <2>5. deadline' \in Int /\ data'.cells[position' + 1].e <= deadline'
    <3>1. deadline' = After(wait')
      BY <1>11, <1>12
    <3>2. ASSUME NEW w \in Int, NEW e \in Int, e = now + w, e <= MaxNow
          PROVE  After(w) \in Int /\ e <= After(w)
      <4>1. e <= now + w /\ now + w \in Int
        BY <1>10, <3>2
      <4> QED
        BY <1>8, <3>2, <4>1, AfterFacts
    <3> QED
      BY <2>3, <2>4, <3>1, <3>2, Zenon
  <2> QED
    BY <2>4, <2>5 DEF Current
<1>13. TypeOK'
  <2>1. wait' \in Int /\ deadline' \in Int /\ pc' \in {"select", "crashed"}
    BY <1>8, <1>11, <1>12
  <2>2. expired' \in BOOLEAN
    BY <1>2, <1>8 DEF ReadThrough
  <2>3. reads' \in 0..given'
    BY <1>6, <1>7, <1>9, <1>10
  <2>4. heard' \subseteq Points
    BY <1>1, <1>7, <1>8
  <2>5. data'.len <= Cap(data')
    BY <1>3 DEF Holds
  <2> QED
    BY <1>1, <1>3, <1>6, <1>7, <1>8, <2>1, <2>2, <2>3, <2>4, <2>5 DEF TypeOK
<1>14. Budget'
  BY <1>6, <1>7, <1>9, <1>10 DEF Budget
<1>15. Filled'
  <2>1. ASSUME NEW q \in heard' PROVE q.r <= reads'
    <3>1. CASE q \in heard
      <4>1. q.r <= reads /\ q.r \in Int
        BY <1>8, <3>1, PointFields DEF LoopInv, Filled
      <4> QED
        BY <1>7, <1>10, <4>1
    <3>2. CASE q \in forecast'
      BY <1>1, <1>7, <1>10, <3>2
    <3> QED
      BY <1>7, <3>1, <3>2
  <2> QED
    BY <1>3, <2>1 DEF Filled
<1>16. InOrder' /\ Due' /\ NeverEarly'
  BY <1>3, <1>7 DEF InOrder, Due, NeverEarly, LoopInv
<1>17. Timed'
  BY <1>11, <1>12 DEF Timed
<1> QED
  BY <1>13, <1>14, <1>15, <1>16, <1>17 DEF LoopInv

(***************************************************************************)
(* The invariant holds                                                     *)
(***************************************************************************)
(* The lookup takes a point of the queue and leaves points.                *)
LEMMA SeekKeepsPoints ==
  ASSUME past \in Seq(Points), Seek
  PROVE  past' \in Seq(Points) /\ prev' \in Points \cup {None}
<1> DEFINE m == Cardinality(Matured)
<1>1. Len(past) \in Nat /\ DOMAIN past = 1..Len(past)
  BY LenProperties
<1>2. IsFiniteSet(1..Len(past)) /\ Cardinality(1..Len(past)) = Len(past)
  BY <1>1, FS_Interval
<1>3. Matured \subseteq 1..Len(past)
  BY <1>1 DEF Matured
<1>4. /\ IsFiniteSet(Matured) /\ m <= Len(past)
  BY <1>2, <1>3, FS_Subset
<1>5. m \in Nat /\ (m = 0 <=> Matured = {})
  BY <1>4, FS_CardinalityType, FS_EmptySet
<1> HIDE DEF m
<1>6. past' = SubSeq(past, m + 1, Len(past))
  BY DEF Seek, m
<1>7. past' \in Seq(Points)
  BY <1>1, <1>4, <1>5, <1>6
<1>8. Matured # {} => past[m] \in Points
  BY <1>1, <1>4, <1>5
<1> QED
  BY <1>7, <1>8 DEF Seek, m

LEMMA InitInv == Init => LoopInv
<1> SUFFICES ASSUME Init PROVE LoopInv
  OBVIOUS
<1>1. data = [cells |-> <<>>, len |-> 0]
  BY DEF Init, Slice
<1>2. data \in Slices /\ Cap(data) = 0
  BY <1>1 DEF Slices, Cap
<1>3. TypeOK
  <2>1. data.len <= Cap(data) /\ position \in 0..data.len
    BY <1>1, <1>2 DEF Init
  <2>2. now \in 0..MaxNow /\ deadline \in Int /\ wait \in Int
    BY LoopAssumption DEF Init, LoopAssumption
  <2>3. given \in 0..MaxReads /\ reads \in 0..given
    BY LoopAssumption DEF Init, LoopAssumption
  <2>4. /\ inbox \in Seq((SUBSET Times) \cup {Garbage}) /\ past \in Seq(Points)
        /\ sent \in Seq([pt : Points, at : 0..MaxNow])
    BY EmptySeq DEF Init
  <2> QED
    BY <1>2, <2>1, <2>2, <2>3, <2>4 DEF Init, TypeOK
<1>4. Holds(data) /\ Ascending(data) /\ Distinct(data)
  BY <1>1, <1>2 DEF Holds, Ascending, Distinct
<1>5. Budget
  BY DEF Init, Budget
<1>6. Filled
  BY <1>1, <1>4 DEF Init, Filled
<1>7. InOrder /\ Due /\ NeverEarly
  BY <1>4 DEF Init, InOrder, Due, NeverEarly
<1>8. Timed
  BY <1>1 DEF Init, Timed, Held
<1> QED
  BY <1>3, <1>5, <1>6, <1>7, <1>8 DEF LoopInv

LEMMA StepKeepsInv == LoopInv /\ [Next]_vars => LoopInv'
<1> SUFFICES ASSUME LoopInv, [Next]_vars PROVE LoopInv'
  OBVIOUS
<1>1. /\ TypeOK /\ Budget /\ Filled /\ InOrder /\ Due /\ Timed /\ NeverEarly
      /\ now \in 0..MaxNow /\ now \in Int
      /\ position \in 0..data.len /\ data.len \in Nat
      /\ position \in Nat /\ wait \in Int /\ deadline \in Int
      /\ sent \in Seq([pt : Points, at : 0..MaxNow])
      /\ inbox \in Seq((SUBSET Times) \cup {Garbage})
      /\ given \in Nat /\ reads \in 0..given /\ reads \in Nat
  <2>1. TypeOK
    BY DEF LoopInv
  <2>2. data.len \in Nat /\ position \in 0..data.len
    BY <2>1 DEF TypeOK, Slices
  <2> QED
    BY <2>1, <2>2, LoopAssumption DEF LoopInv, TypeOK, LoopAssumption
<1>2. \A i \in 1..data.len : data.cells[i].e \in Int /\ data.cells[i].e <= MaxNow
  BY <1>1, PointFields DEF Filled, Holds
<1>3. Held => position + 1 \in 1..data.len
  BY <1>1 DEF Held
<1>4. Held => Current \in Points /\ Current.e \in Int /\ Current.e <= MaxNow
  BY <1>1, <1>2, <1>3 DEF Filled, Holds, Current
<1>5. CASE Tick
  <2>1. /\ now' = now + 1 /\ now' \in 0..MaxNow
        /\ UNCHANGED <<inbox, pc, deadline, wait, data, position, past, prev,
                       given, reads, forecast, heard, sent, expired>>
    BY <1>1, <1>5, LoopAssumption DEF Tick, LoopAssumption
  <2>2. TypeOK' /\ Budget' /\ Filled' /\ InOrder' /\ NeverEarly'
    BY <1>1, <2>1 DEF TypeOK, Budget, Filled, InOrder, NeverEarly
  <2>3. Due'
    <3>1. \A i \in 1..position : i \in 1..data.len
      BY <1>1
    <3> QED
      BY <1>1, <1>2, <2>1, <3>1 DEF Due
  <2>4. Timed'
    BY <1>1, <1>4, <2>1 DEF Timed, Held, Current
  <2> QED
    BY <2>2, <2>3, <2>4 DEF LoopInv
<1>6. CASE Push
  <2>1. PICK F \in (SUBSET Times) \cup {Garbage} : inbox' = Append(inbox, F)
    BY <1>6 DEF Push
  <2>2. /\ inbox' \in Seq((SUBSET Times) \cup {Garbage})
        /\ Len(inbox') = Len(inbox) + 1 /\ Len(inbox) \in Nat
    BY <1>1, <2>1, AppendProperties, LenProperties
  <2>3. /\ given' = given + 1 /\ given' \in 0..MaxReads
        /\ UNCHANGED <<now, pc, deadline, wait, data, position, past, prev,
                       reads, forecast, heard, sent, expired>>
    BY <1>1, <1>6, LoopAssumption DEF Push, LoopAssumption
  <2>4. TypeOK'
    <3>1. reads' \in 0..given'
      BY <1>1, <2>3
    <3> QED
      BY <1>1, <2>2, <2>3, <3>1 DEF TypeOK
  <2>5. Budget'
    BY <1>1, <2>2, <2>3 DEF Budget
  <2>6. Filled' /\ InOrder' /\ Due' /\ Timed' /\ NeverEarly'
    BY <1>1, <2>3 DEF Filled, InOrder, Due, Timed, NeverEarly, Held, Current
  <2> QED
    BY <2>4, <2>5, <2>6 DEF LoopInv
<1>7. CASE FireIdle
  <2>1. /\ ~Held /\ pc' = "check"
        /\ UNCHANGED <<now, inbox, deadline, wait, data, position, past, prev,
                       given, reads, forecast, heard, sent, expired>>
    BY <1>7 DEF FireIdle
  <2>2. TypeOK' /\ Budget' /\ Filled' /\ InOrder' /\ Due' /\ NeverEarly'
    BY <1>1, <2>1 DEF TypeOK, Budget, Filled, InOrder, Due, NeverEarly
  <2>3. Timed'
    BY <2>1 DEF Timed, Held
  <2> QED
    BY <2>2, <2>3 DEF LoopInv
<1>8. CASE Fire
  <2>1. /\ pc = "select" /\ now >= deadline /\ Held /\ pc' = "send"
        /\ UNCHANGED <<now, inbox, deadline, wait, data, position, given,
                       reads, forecast, heard, sent, expired>>
    BY <1>8 DEF Fire
  <2>2. past' \in Seq(Points) /\ prev' \in Points \cup {None}
    <3>1. CASE Adjusting
      <4>1. Seek
        BY <1>8, <3>1 DEF Fire
      <4> QED
        BY <1>1, <4>1, SeekKeepsPoints DEF TypeOK
    <3>2. CASE ~Adjusting
      BY <1>1, <1>8, <3>2 DEF Fire, TypeOK
    <3> QED
      BY <3>1, <3>2
  <2>3. TypeOK' /\ Budget' /\ Filled' /\ InOrder' /\ Due' /\ NeverEarly'
    BY <1>1, <2>1, <2>2 DEF TypeOK, Budget, Filled, InOrder, Due, NeverEarly
  <2>4. Current.e <= now
    <3>1. Current.e <= deadline
      BY <1>1, <2>1 DEF Timed
    <3> QED
      BY <1>1, <1>4, <2>1, <3>1
  <2>5. Timed'
    BY <2>1, <2>4 DEF Timed, Held, Current
  <2> QED
    BY <2>3, <2>5 DEF LoopInv
<1>9. CASE Send
  <2>1. /\ pc = "send" /\ pc' = "check" /\ position' = position + 1
        /\ sent' = Append(sent, [pt |-> Current, at |-> now])
        /\ past' = Append(past, Current)
        /\ wait' = IF position' < data.len
                   THEN data.cells[position' + 1].e - now ELSE IdleWait
        /\ UNCHANGED <<now, inbox, deadline, data, prev, given, reads,
                       forecast, heard, expired>>
    BY <1>9 DEF Send
  <2>2. Held /\ Current.e <= now /\ Current \in Points
    BY <1>1, <1>4, <2>1 DEF Timed
  <2>3. position + 1 \in 1..data.len /\ position' \in 0..data.len
    BY <1>1, <1>3, <2>1, <2>2
  <2>4. past' \in Seq(Points)
    BY <1>1, <2>1, <2>2, AppendProperties DEF TypeOK
  <2>5. [pt |-> Current, at |-> now] \in [pt : Points, at : 0..MaxNow]
    BY <1>1, <2>2
  <2>6. /\ sent' \in Seq([pt : Points, at : 0..MaxNow])
        /\ Len(sent') = Len(sent) + 1 /\ Len(sent) \in Nat
        /\ DOMAIN sent = 1..Len(sent) /\ DOMAIN sent' = 1..Len(sent')
        /\ \A i \in 1..Len(sent) : sent'[i] = sent[i]
        /\ sent'[Len(sent) + 1] = [pt |-> Current, at |-> now]
    BY <1>1, <2>1, <2>5, AppendProperties, LenProperties
  <2>7. ASSUME position' < data.len
        PROVE  /\ wait' \in Int
               /\ data.cells[position' + 1].e <= now + wait'
    <3>1. ASSUME NEW q \in 0..data.len, q < data.len
          PROVE  data.cells[q + 1].e \in Int
      <4>1. q + 1 \in 1..data.len
        BY <1>1, <3>1
      <4> QED
        BY <1>2, <4>1
    <3>2. data.cells[position' + 1].e \in Int
      BY <2>3, <2>7, <3>1, Zenon
    <3>3. wait' = data.cells[position' + 1].e - now
      BY <2>1, <2>7, Zenon
    <3>4. ASSUME NEW e \in Int, wait' = e - now
          PROVE  wait' \in Int /\ e <= now + wait'
      BY <1>1, <3>4
    <3> QED
      BY <3>2, <3>3, <3>4, Zenon
  <2>8. wait' \in Int
    BY <2>1, <2>7, LoopAssumption DEF LoopAssumption
  <2>9. TypeOK'
    BY <1>1, <2>1, <2>3, <2>4, <2>6, <2>8 DEF TypeOK
  <2>10. Budget' /\ Filled' /\ InOrder'
    BY <1>1, <2>1 DEF Budget, Filled, InOrder
  <2>11. Due'
    <3>1. SUFFICES ASSUME NEW i \in 1..(position + 1)
                   PROVE  data.cells[i].e <= now
      BY <2>1 DEF Due
    <3>2. CASE i = position + 1
      BY <2>2, <3>2 DEF Current
    <3>3. CASE i # position + 1
      BY <1>1, <3>3 DEF Due
    <3> QED
      BY <3>2, <3>3
  <2>12. Timed'
    BY <2>1, <2>7 DEF Timed, Held, Current
  <2>13. NeverEarly'
    <3>1. SUFFICES ASSUME NEW i \in 1..Len(sent')
                   PROVE  sent'[i].pt.e <= sent'[i].at
      BY <2>6 DEF NeverEarly
    <3>2. CASE i = Len(sent) + 1
      BY <2>2, <2>6, <3>2
    <3>3. CASE i # Len(sent) + 1
      <4>1. i \in 1..Len(sent)
        BY <2>6, <3>3
      <4> QED
        BY <1>1, <2>6, <4>1 DEF NeverEarly
    <3> QED
      BY <3>2, <3>3
  <2> QED
    BY <2>9, <2>10, <2>11, <2>12, <2>13 DEF LoopInv
<1>10. After(wait) \in Int /\ (pc = "check" /\ Held => Current.e <= After(wait))
  BY <1>1, <1>4, AfterFacts DEF Timed
<1>11. CASE ReadNothing
  <2>1. /\ pc = "check" /\ pc' = "select" /\ deadline' = After(wait)
        /\ UNCHANGED <<now, inbox, wait, data, position, past, prev, given,
                       reads, forecast, heard, sent, expired>>
    BY <1>11 DEF ReadNothing
  <2>2. TypeOK' /\ Budget' /\ Filled' /\ InOrder' /\ Due' /\ NeverEarly'
    BY <1>1, <1>10, <2>1 DEF TypeOK, Budget, Filled, InOrder, Due, NeverEarly
  <2>3. Timed'
    BY <1>10, <2>1 DEF Timed, Held, Current
  <2> QED
    BY <2>2, <2>3 DEF LoopInv
<1>12. CASE ReadGarbage
  <2>1. /\ pc = "check" /\ pc' = "select" /\ deadline' = After(wait)
        /\ inbox # <<>> /\ inbox' = Tail(inbox)
        /\ UNCHANGED <<now, wait, data, position, past, prev, given, reads,
                       forecast, heard, sent, expired>>
    BY <1>12 DEF ReadGarbage
  <2>2. /\ inbox' \in Seq((SUBSET Times) \cup {Garbage})
        /\ Len(inbox') = Len(inbox) - 1 /\ Len(inbox) \in Nat
    BY <1>1, <2>1, HeadTailProperties, LenProperties
  <2>3. TypeOK' /\ Filled' /\ InOrder' /\ Due' /\ NeverEarly'
    BY <1>1, <1>10, <2>1, <2>2 DEF TypeOK, Filled, InOrder, Due, NeverEarly
  <2>4. Budget'
    BY <1>1, <2>1, <2>2 DEF Budget
  <2>5. Timed'
    BY <1>10, <2>1 DEF Timed, Held, Current
  <2> QED
    BY <2>3, <2>4, <2>5 DEF LoopInv
<1>13. CASE ReadForecast
  BY <1>13, ReadKeepsInv
<1>14. CASE UNCHANGED vars
  BY <1>1, <1>14 DEF vars, LoopInv, TypeOK, Budget, Filled, InOrder, Due, Timed,
                     NeverEarly, Held, Current
<1> QED
  BY <1>5, <1>6, <1>7, <1>8, <1>9, <1>11, <1>12, <1>13, <1>14 DEF Next, Loop

(* The invariant holds in every state the loop reaches.                    *)
THEOREM LoopInvariant == Spec => []LoopInv
BY InitInv, StepKeepsInv, PTL DEF Spec

(* Every variable keeps its type, so that no cell of a slice is read that  *)
(* was not written, and the channel's budget is respected.                 *)
THEOREM TypeCorrect == Spec => []TypeOK
<1>1. LoopInv => TypeOK
  BY DEF LoopInv
<1> QED
  BY <1>1, LoopInvariant, PTL

(* estimator() sends no point before its time, whatever forecasts replace  *)
(* the one its timer was set for, however late they come.                  *)
THEOREM NothingEarly == Spec => []NeverEarly
<1>1. LoopInv => NeverEarly
  BY DEF LoopInv
<1> QED
  BY <1>1, LoopInvariant, PTL

(***************************************************************************)
(* The loop implements the schedule                                        *)
(***************************************************************************)
(* A send takes the earliest point, and only that one, out of the plan.    *)
LEMMA SendEmits ==
  ASSUME LoopInv, Send
  PROVE  Schedule!Emit(Current)
<1>1. /\ pc = "send" /\ pc' = "check" /\ position' = position + 1
      /\ sent' = Append(sent, [pt |-> Current, at |-> now])
      /\ data' = data
      /\ UNCHANGED <<now, forecast, heard, expired>>
  BY DEF Send
<1>2. data.len \in Nat /\ position \in 0..data.len
  BY DEF LoopInv, TypeOK, Slices
<1>3. Held /\ Current.e <= now
  BY <1>1 DEF LoopInv, Timed
<1>4. /\ position + 1 \in 1..data.len
      /\ position + 1 \in (position + 1)..data.len
  BY <1>2, <1>3 DEF Held
<1>5. Plan = {data.cells[i] : i \in (position + 1)..data.len}
  BY <1>1 DEF Plan
<1>6. Plan' = {data.cells[i] : i \in (position + 2)..data.len}
  <2>1. Plan' = {data.cells[i] : i \in (position' + 1)..data.len}
    BY <1>1 DEF Plan
  <2>2. position' + 1 = position + 2
    BY <1>1, <1>2
  <2> QED
    BY <2>1, <2>2
<1>7. Current \in Plan
  BY <1>4, <1>5 DEF Current
<1>8. expired \/ \A q \in Plan : Current.e <= q.e
  <2>1. SUFFICES ASSUME ~expired, NEW i \in (position + 1)..data.len
                 PROVE  data.cells[position + 1].e <= data.cells[i].e
    BY <1>5 DEF Current
  <2>2. i \in 1..data.len
    BY <1>2
  <2>3. /\ data.cells[position + 1].e \in Int /\ data.cells[i].e \in Int
    BY <1>4, <2>2, PointFields DEF LoopInv, Filled, Holds
  <2>4. CASE i = position + 1
    BY <2>3, <2>4
  <2>5. CASE i # position + 1
    <3>1. position + 1 < i
      BY <1>2, <2>5
    <3>2. Ascending(data)
      BY <2>1 DEF LoopInv, InOrder
    <3>3. data.cells[position + 1].e < data.cells[i].e
      BY <1>4, <2>2, <3>1, <3>2 DEF Ascending, Before
    <3> QED
      BY <2>3, <3>3
  <2> QED
    BY <2>4, <2>5
<1>9. Plan' = Plan \ {Current}
  <2>1. ASSUME NEW i \in (position + 2)..data.len
        PROVE  i \in (position + 1)..data.len /\ data.cells[i] # Current
    <3>1. i \in 1..data.len /\ i # position + 1 /\ i \in (position + 1)..data.len
      BY <1>2
    <3> QED
      BY <1>4, <3>1 DEF LoopInv, Filled, Distinct, Current
  <2>2. ASSUME NEW i \in (position + 1)..data.len, data.cells[i] # Current
        PROVE  i \in (position + 2)..data.len
    <3>1. i # position + 1
      BY <2>2 DEF Current
    <3> QED
      BY <1>2, <3>1
  <2> QED
    BY <1>5, <1>6, <2>1, <2>2
<1> QED
  BY <1>1, <1>3, <1>7, <1>8, <1>9 DEF Schedule!Emit

(* A forecast that leaves a point in the future replaces the plan from its *)
(* first point on; one that does not may only disorder it, and is fatal    *)
(* exactly when nothing is left to send.                                   *)
LEMMA ReadAccepts ==
  ASSUME LoopInv, ReadForecast
  PROVE  Schedule!Accept \/ Schedule!AcceptExpired
<1>1. /\ pc = "check" /\ heard' = heard \cup forecast'
      /\ now' = now /\ sent' = sent
  BY DEF ReadForecast
<1>2. forecast' \subseteq Points
  BY Reading
<1>3. PICK new, old, p, joined, n : ReadThrough(new, old, p, joined, n)
  BY Reading
<1> DEFINE s == joined.slice
<1>4. {s.cells[k] : k \in Future(s)} = Schedule!Merge(forecast')
  BY <1>3, FutureIsMerge
<1>5. /\ old \in Slices /\ Holds(old) /\ Weakly(old) /\ old.len = data.len
      /\ new \in Slices /\ Holds(new) /\ Ascending(new)
      /\ \A i \in 1..new.len : new.cells[i] \in forecast'
      /\ p \in [1..data.len -> 1..data.len]
      /\ \A i \in 1..data.len : old.cells[i] = data.cells[p[i]]
      /\ \A i, j \in 1..data.len : p[i] = p[j] => i = j
      /\ n \in 0..data.len /\ JoinedAt(n, new, old, joined)
      /\ new.len > 0 => n \in Front(new, old)
      /\ Cut(joined)
      /\ expired' = (expired \/ Future(s) = {})
  BY <1>3 DEF ReadThrough
<1>6. /\ data \in Slices /\ data.len \in Nat /\ position \in 0..data.len
      /\ now \in Int /\ expired \in BOOLEAN
  <2>1. data \in Slices /\ position \in 0..data.len /\ expired \in BOOLEAN
    BY DEF LoopInv, TypeOK
  <2>2. now \in Int
    BY LoopAssumption DEF LoopInv, TypeOK, LoopAssumption
  <2> QED
    BY <2>1, <2>2 DEF Slices
<1>7. Schedule!Hear
  BY <1>1, <1>2 DEF Schedule!Hear
<1>8. \/ OutOfRange /\ pc' = "crashed"
      \/ ~OutOfRange /\ pc' = "select"
  BY DEF ReadForecast
<1>9. CASE \E i \in Future(s) : /\ \A j \in Future(s) : i <= j
                                /\ data' = From(s, i)
                                /\ position' = 0
  <2>1. PICK i \in Future(s) : /\ \A j \in Future(s) : i <= j
                               /\ data' = From(s, i)
                               /\ position' = 0
    BY <1>9
  <2>2. s \in Slices /\ Holds(s) /\ s.len \in Nat /\ i \in 1..s.len
    BY <1>5 DEF JoinedAt, Slices, Future
  <2>3. Weakly(s)
    BY <1>5, JoinedInOrder
  <2>4. data'.len = s.len - i + 1
    BY <2>1, <2>2, FromFacts
  <2>5. pc' = "select"
    <3>1. ~(position' >= data'.len)
      BY <2>1, <2>2, <2>4
    <3> QED
      BY <1>8, <3>1 DEF OutOfRange
  <2>6. Plan' = {data'.cells[k] : k \in 1..data'.len}
    <3>1. position' + 1 = 1
      BY <2>1
    <3> QED
      BY <2>5, <3>1 DEF Plan
  <2>7. Plan' = Schedule!Merge(forecast')
    <3>1. {From(s, i).cells[k] : k \in 1..From(s, i).len}
             = {s.cells[k] : k \in Future(s)}
      BY <1>6, <2>1, <2>2, <2>3, FromIsFuture
    <3>2. Plan' = {From(s, i).cells[k] : k \in 1..From(s, i).len}
      BY <2>1, <2>6
    <3> QED
      BY <1>4, <3>1, <3>2
  <2>8. Schedule!Merge(forecast') # {}
    BY <1>4, <2>1
  <2>9. expired' = expired
    BY <1>5, <1>6, <2>1
  <2> QED
    BY <1>1, <1>7, <2>5, <2>7, <2>8, <2>9 DEF Schedule!Accept
<1>10. CASE Future(s) = {} /\ data' = joined.old /\ position' = position
  <2>1. Schedule!Merge(forecast') = {}
    BY <1>4, <1>10
  <2>2. expired' = TRUE
    BY <1>5, <1>6, <1>10
  <2>3. Plan = {data.cells[i] : i \in (position + 1)..data.len}
    BY <1>1 DEF Plan
  <2>4. data'.len = data.len
    BY <1>5, <1>10 DEF JoinedAt
  <2>5. CASE position >= data.len
    <3>1. pc' = "crashed"
      BY <1>8, <1>10, <2>4, <2>5 DEF OutOfRange
    <3>2. Plan = {}
      BY <1>6, <2>3, <2>5
    <3>3. Plan' = {}
      BY <3>1 DEF Plan
    <3> QED
      BY <1>1, <1>7, <2>1, <2>2, <3>1, <3>2, <3>3 DEF Schedule!AcceptExpired
  <2>6. CASE ~(position >= data.len)
    <3>1. pc' = "select"
      BY <1>8, <1>10, <2>4, <2>6 DEF OutOfRange
    <3>2. Plan # {}
      <4>1. position + 1 \in (position + 1)..data.len
        BY <1>6, <2>6
      <4> QED
        BY <2>3, <4>1
    <3>3. Plan' = {joined.old.cells[i] : i \in (position + 1)..data.len}
      BY <1>10, <2>4, <3>1 DEF Plan
    <3>4. ASSUME NEW i \in (position + 1)..data.len
          PROVE  joined.old.cells[i] \in
                    Plan \cup forecast' \cup (IF expired THEN heard ELSE {})
      <4>1. i \in 1..data.len
        BY <1>6
      <4>2. CASE joined.old.cells[i] = old.cells[i] /\ expired
        BY <1>3, <4>1, <4>2, OldPoints
      <4>3. CASE joined.old.cells[i] = old.cells[i] /\ ~expired
        <5>1. Ascending(data) /\ Holds(data)
          BY <4>3 DEF LoopInv, InOrder, Filled
        <5>2. p[i] > position
          BY <1>5, <1>6, <5>1, LastStayLast
        <5>3. p[i] \in 1..data.len
          BY <1>5, <4>1
        <5>4. p[i] \in (position + 1)..data.len
          BY <1>6, <5>2, <5>3
        <5>5. old.cells[i] = data.cells[p[i]]
          BY <1>5, <4>1
        <5> QED
          BY <2>3, <4>3, <5>4, <5>5
      <4>4. CASE i - n \in 1..new.len /\ joined.old.cells[i] = new.cells[i - n]
        BY <1>5, <4>4
      <4> QED
        BY <1>5, <4>1, <4>2, <4>3, <4>4 DEF JoinedAt
    <3>5. Plan' \subseteq Plan \cup forecast' \cup (IF expired THEN heard ELSE {})
      BY <3>3, <3>4
    <3> QED
      BY <1>1, <1>7, <2>1, <2>2, <3>1, <3>2, <3>5 DEF Schedule!AcceptExpired
  <2> QED
    BY <2>5, <2>6
<1> QED
  BY <1>5, <1>9, <1>10 DEF Cut

LEMMA InitSchedule == Init => Schedule!Init
<1> SUFFICES ASSUME Init PROVE Schedule!Init
  OBVIOUS
<1>1. data.len = 0 /\ position = 0
  BY DEF Init, Slice
<1>2. Plan = {}
  BY <1>1 DEF Plan
<1> QED
  BY <1>2 DEF Init, Schedule!Init

LEMMA StepSchedule ==
  LoopInv /\ [Next]_vars => [Schedule!Next]_(Schedule!vars)
<1> SUFFICES ASSUME LoopInv, [Next]_vars
             PROVE  Schedule!Next \/ UNCHANGED Schedule!vars
  OBVIOUS
<1>1. CASE Tick
  <2>1. Plan' = Plan
    BY <1>1 DEF Tick, Plan
  <2>2. Schedule!Tick
    BY <1>1, <2>1 DEF Tick, Schedule!Tick
  <2> QED
    BY <2>2 DEF Schedule!Next
<1>2. CASE Send
  <2>1. Current \in Points
    <3>1. data.len \in Nat /\ position \in 0..data.len /\ Holds(data) /\ Held
      BY <1>2 DEF LoopInv, TypeOK, Slices, Filled, Timed, Send
    <3>2. position + 1 \in 1..data.len
      BY <3>1 DEF Held
    <3> QED
      BY <3>1, <3>2 DEF Holds, Current
  <2> QED
    BY <1>2, <2>1, SendEmits DEF Schedule!Next
<1>3. CASE ReadForecast
  BY <1>3, ReadAccepts DEF Schedule!Next
<1>4. CASE Push \/ Fire \/ FireIdle \/ ReadNothing \/ ReadGarbage
  <2>1. /\ UNCHANGED <<now, forecast, heard, sent, expired, data, position>>
        /\ pc' = pc \/ (pc # "crashed" /\ pc' # "crashed")
    BY <1>4 DEF Push, Fire, FireIdle, ReadNothing, ReadGarbage
  <2>2. Plan' = Plan /\ (pc' = "crashed") = (pc = "crashed")
    BY <2>1 DEF Plan
  <2> QED
    BY <2>1, <2>2 DEF Schedule!vars
<1>5. CASE UNCHANGED vars
  <2>1. Plan' = Plan
    BY <1>5 DEF vars, Plan
  <2> QED
    BY <1>5, <2>1 DEF vars, Schedule!vars
<1> QED
  BY <1>1, <1>2, <1>3, <1>4, <1>5 DEF Next, Loop

(* estimator() keeps what docs/estimator.md promises: every point is sent  *)
(* once, in order and on time, a new forecast replaces exactly the points  *)
(* from its first one on, and the loop panics only on a forecast that has  *)
(* no future point when there is nothing left to send.                     *)
THEOREM LoopImplementsSchedule == Spec => ImplementsSchedule
<1>1. Spec => []LoopInv
  BY LoopInvariant
<1>2. Spec => Init /\ [][Next]_vars
  BY DEF Spec
<1> QED
  BY <1>1, <1>2, InitSchedule, StepSchedule, PTL
     DEF ImplementsSchedule, Schedule!Spec

(***************************************************************************)
(* The point an adjustment compares with                                   *)
(***************************************************************************)
(* The queue holds the last points sent; all that is sent is due; until a  *)
(* forecast comes too late it was sent in order, and before what is left.  *)
PastInv ==
  /\ Len(past) <= Len(sent)
  /\ \A i \in 1..Len(past) : past[i] = sent[Len(sent) - Len(past) + i].pt
  /\ \A i \in 1..Len(sent) : sent[i].pt.e <= now
  /\ ~expired =>
        /\ \A i, j \in 1..Len(sent) : i < j => sent[i].pt.e < sent[j].pt.e
        /\ \A i \in 1..Len(sent), j \in (position + 1)..data.len :
              sent[i].pt.e < data.cells[j].e

(* The matured points are the first of the queue, as many as there are.    *)
LEMMA MaturedFirst ==
  ASSUME past \in Seq(Points)
  PROVE  /\ Cardinality(Matured) \in 0..Len(past)
         /\ \A k \in Matured : k <= Cardinality(Matured)
         /\ Cardinality(Matured) # 0 => Cardinality(Matured) \in Matured
         /\ Cardinality(Matured) = 0 <=> Matured = {}
<1> DEFINE m == Cardinality(Matured)
<1>1. Len(past) \in Nat /\ DOMAIN past = 1..Len(past)
  BY LenProperties
<1>2. \A k \in Nat : IsFiniteSet(1..k) /\ Cardinality(1..k) = k
  BY FS_Interval
<1>3. Matured \subseteq 1..Len(past)
  BY <1>1 DEF Matured
<1>4. IsFiniteSet(Matured) /\ m <= Len(past)
  <2>1. IsFiniteSet(1..Len(past)) /\ Cardinality(1..Len(past)) = Len(past)
    BY <1>1, <1>2, Zenon
  <2> QED
    BY <1>3, <2>1, FS_Subset
<1>5. m \in Nat /\ (m = 0 <=> Matured = {})
  BY <1>4, FS_CardinalityType, FS_EmptySet
<1>6. \A k \in Matured : \A j \in 1..k : j \in Matured
  <2>1. SUFFICES ASSUME NEW k \in Matured, NEW j \in 1..k PROVE j \in Matured
    OBVIOUS
  <2>2. k \in 1..Len(past) /\ \A i \in 1..k : past[i].u <= now
    BY <1>1 DEF Matured
  <2>3. j \in 1..Len(past) /\ \A i \in 1..j : i \in 1..k
    BY <1>1, <2>1, <2>2
  <2> QED
    BY <1>1, <2>2, <2>3 DEF Matured
<1> HIDE DEF m
<1>7. ASSUME NEW k \in Matured PROVE k <= m
  <2>1. k \in Nat /\ 1..k \subseteq Matured
    BY <1>1, <1>3, <1>6
  <2>2. Cardinality(1..k) <= Cardinality(Matured)
    BY <1>4, <2>1, FS_Subset
  <2> QED
    BY <1>2, <2>1, <2>2 DEF m
<1>8. ASSUME m # 0, m \notin Matured PROVE FALSE
  <2>1. \A k \in Matured : k \in 1..(m - 1)
    <3>1. SUFFICES ASSUME NEW k \in Matured PROVE k \in 1..(m - 1)
      OBVIOUS
    <3>2. k \in 1..Len(past) /\ k <= m /\ k # m
      BY <1>3, <1>7, <1>8
    <3> QED
      BY <1>1, <1>5, <3>2
  <2>2. Matured \subseteq 1..(m - 1) /\ m - 1 \in Nat
    BY <1>5, <1>8, <2>1
  <2>3. IsFiniteSet(1..(m - 1)) /\ Cardinality(1..(m - 1)) = m - 1
    BY <1>2, <2>2
  <2>4. Cardinality(Matured) <= m - 1
    BY <2>2, <2>3, FS_Subset
  <2> QED
    BY <1>5, <2>4 DEF m
<1> QED
  BY <1>1, <1>4, <1>5, <1>7, <1>8 DEF m

(* What is left to send after a read is in the future.                     *)
LEMMA ReadLeavesFuture ==
  ASSUME LoopInv, ReadForecast, ~expired'
  PROVE  \A j \in (position' + 1)..data'.len : data'.cells[j].e > now
<1>1. PICK new, old, p, joined, n : ReadThrough(new, old, p, joined, n)
  BY Reading
<1> DEFINE s == joined.slice
<1>2. /\ old \in Slices /\ Holds(old) /\ Weakly(old) /\ old.len = data.len
      /\ new \in Slices /\ Holds(new) /\ Ascending(new)
      /\ n \in 0..data.len /\ JoinedAt(n, new, old, joined)
      /\ new.len > 0 => n \in Front(new, old)
      /\ Cut(joined) /\ Future(s) # {}
  BY <1>1 DEF ReadThrough
<1>3. s \in Slices /\ Holds(s) /\ Weakly(s)
  BY <1>2, JoinedInOrder DEF JoinedAt
<1>4. PICK i \in Future(s) : /\ \A j \in Future(s) : i <= j
                             /\ data' = From(s, i)
                             /\ position' = 0
  BY <1>2 DEF Cut
<1>5. now \in Int
  BY LoopAssumption DEF LoopInv, TypeOK, LoopAssumption
<1>6. {From(s, i).cells[k] : k \in 1..From(s, i).len}
         = {s.cells[k] : k \in Future(s)}
  BY <1>3, <1>4, <1>5, FromIsFuture
<1>7. ASSUME NEW j \in 1..data'.len PROVE data'.cells[j].e > now
  <2>1. data'.cells[j] \in {s.cells[k] : k \in Future(s)}
    BY <1>4, <1>6
  <2> QED
    BY <2>1 DEF Future
<1>8. position' + 1 = 1
  BY <1>4
<1> QED
  BY <1>7, <1>8

LEMMA PastStep == LoopInv /\ LoopInv' /\ PastInv /\ [Next]_vars => PastInv'
<1> SUFFICES ASSUME LoopInv, LoopInv', PastInv, [Next]_vars PROVE PastInv'
  OBVIOUS
<1>1. /\ past \in Seq(Points) /\ sent \in Seq([pt : Points, at : 0..MaxNow])
      /\ now \in Int /\ position \in Nat /\ data.len \in Nat
      /\ Len(past) \in Nat /\ Len(sent) \in Nat /\ expired \in BOOLEAN
  <2>1. /\ past \in Seq(Points) /\ sent \in Seq([pt : Points, at : 0..MaxNow])
        /\ expired \in BOOLEAN
    BY DEF LoopInv, TypeOK
  <2>2. data.len \in Nat /\ position \in 0..data.len
    BY DEF LoopInv, TypeOK, Slices
  <2>3. now \in Int
    BY LoopAssumption DEF LoopInv, TypeOK, LoopAssumption
  <2> QED
    BY <2>1, <2>2, <2>3, LenProperties
<1>2. \A i \in 1..Len(sent) : sent[i].pt \in Points /\ sent[i].pt.e \in Int
  <2>1. \A i \in 1..Len(sent) : sent[i] \in [pt : Points, at : 0..MaxNow]
    <3> DEFINE R == [pt : Points, at : 0..MaxNow]
    <3>1. sent \in Seq(R)
      BY <1>1
    <3> HIDE DEF R
    <3>2. \A i \in 1..Len(sent) : sent[i] \in R
      BY <3>1
    <3> QED
      BY <3>2 DEF R
  <2>2. \A x \in [pt : Points, at : 0..MaxNow] : x.pt \in Points
    OBVIOUS
  <2> QED
    BY <2>1, <2>2, PointFields
<1>3. \A j \in 1..data.len : data.cells[j].e \in Int
  BY PointFields DEF LoopInv, Filled, Holds
<1>4. CASE Tick
  <2>1. now' = now + 1 /\ UNCHANGED <<past, sent, expired, data, position>>
    BY <1>4 DEF Tick
  <2> QED
    BY <1>1, <1>2, <2>1 DEF PastInv
<1>5. CASE Push \/ FireIdle \/ ReadNothing \/ ReadGarbage \/ UNCHANGED vars
  <2>1. UNCHANGED <<now, past, sent, expired, data, position>>
    BY <1>5 DEF Push, FireIdle, ReadNothing, ReadGarbage, vars
  <2> QED
    BY <2>1 DEF PastInv
<1>6. CASE Fire
  <2>1. UNCHANGED <<now, sent, expired, data, position>>
    BY <1>6 DEF Fire
  <2>2. CASE past' = past
    BY <2>1, <2>2 DEF PastInv
  <2>3. CASE past' # past
    <3>1. past' = SubSeq(past, Cardinality(Matured) + 1, Len(past))
      BY <1>6, <2>3 DEF Fire, Seek
    <3>2. PICK m \in 0..Len(past) : m = Cardinality(Matured)
      BY <1>1, MaturedFirst
    <3>3. /\ Len(past') = Len(past) - m
          /\ \A i \in 1..(Len(past) - m) : past'[i] = past[m + i]
      BY <1>1, <3>1, <3>2
    <3>4. ASSUME NEW i \in 1..Len(past')
          PROVE  past'[i] = sent[Len(sent) - Len(past') + i].pt
      <4>1. m + i \in 1..Len(past) /\ past'[i] = past[m + i]
        BY <1>1, <3>3
      <4>2. Len(sent) - Len(past) + (m + i) = Len(sent) - Len(past') + i
        BY <1>1, <3>3
      <4> QED
        BY <4>1, <4>2 DEF PastInv
    <3>5. Len(past') <= Len(sent)
      BY <1>1, <3>3 DEF PastInv
    <3> QED
      BY <2>1, <3>4, <3>5 DEF PastInv
  <2> QED
    BY <2>2, <2>3
<1>7. CASE Send
  <2>1. /\ position' = position + 1 /\ past' = Append(past, Current)
        /\ sent' = Append(sent, [pt |-> Current, at |-> now])
        /\ UNCHANGED <<now, data, expired>> /\ pc = "send"
    BY <1>7 DEF Send
  <2>2. Held /\ Current.e <= now
    BY <2>1 DEF LoopInv, Timed
  <2>3. /\ position + 1 \in 1..data.len
        /\ position + 1 \in (position + 1)..data.len
    BY <1>1, <2>2 DEF Held
  <2>4. /\ Len(sent') = Len(sent) + 1 /\ Len(past') = Len(past) + 1
        /\ \A i \in 1..Len(sent) : sent'[i] = sent[i]
        /\ sent'[Len(sent) + 1] = [pt |-> Current, at |-> now]
        /\ \A i \in 1..Len(past) : past'[i] = past[i]
        /\ past'[Len(past) + 1] = Current
    <3>1. Current \in Points
      BY <2>3 DEF LoopInv, Filled, Holds, Current
    <3>2. [pt |-> Current, at |-> now] \in [pt : Points, at : 0..MaxNow]
      BY <3>1 DEF LoopInv, TypeOK
    <3> QED
      BY <1>1, <2>1, <3>1, <3>2, AppendProperties
  <2>5. ASSUME NEW i \in 1..Len(past')
        PROVE  past'[i] = sent'[Len(sent') - Len(past') + i].pt
    <3>1. Len(sent') - Len(past') + i = Len(sent) - Len(past) + i
      BY <1>1, <2>4
    <3>2. CASE i = Len(past) + 1
      <4>1. Len(sent) - Len(past) + i = Len(sent) + 1
        BY <1>1, <3>2
      <4> QED
        BY <2>4, <3>1, <3>2, <4>1
    <3>3. CASE i # Len(past) + 1
      <4>1. i \in 1..Len(past) /\ Len(sent) - Len(past) + i \in 1..Len(sent)
        BY <1>1, <2>4, <3>3 DEF PastInv
      <4> QED
        BY <2>4, <3>1, <4>1 DEF PastInv
    <3> QED
      BY <3>2, <3>3
  <2>6. ASSUME NEW i \in 1..Len(sent')
        PROVE  \/ i \in 1..Len(sent) /\ sent'[i].pt = sent[i].pt
               \/ i = Len(sent) + 1 /\ sent'[i].pt = Current
    BY <1>1, <2>4
  <2>7. \A i \in 1..Len(sent') : sent'[i].pt.e <= now
    BY <2>2, <2>6 DEF PastInv
  <2>8. ASSUME ~expired, NEW i \in 1..Len(sent'), NEW j \in 1..Len(sent'), i < j
        PROVE  sent'[i].pt.e < sent'[j].pt.e
    <3>1. i \in 1..Len(sent) /\ sent'[i].pt = sent[i].pt
      BY <1>1, <2>4, <2>6, <2>8
    <3>2. CASE j = Len(sent) + 1 /\ sent'[j].pt = Current
      BY <2>3, <2>8, <3>1, <3>2 DEF PastInv, Current
    <3>3. CASE j \in 1..Len(sent) /\ sent'[j].pt = sent[j].pt
      BY <2>8, <3>1, <3>3 DEF PastInv
    <3> QED
      BY <2>6, <3>2, <3>3
  <2>9. ASSUME ~expired, NEW i \in 1..Len(sent'), NEW j \in (position' + 1)..data.len
        PROVE  sent'[i].pt.e < data.cells[j].e
    <3>1. /\ j \in (position + 1)..data.len /\ position + 1 < j
          /\ j \in 1..data.len
      BY <1>1, <2>1
    <3>2. CASE i \in 1..Len(sent) /\ sent'[i].pt = sent[i].pt
      BY <2>9, <3>1, <3>2 DEF PastInv
    <3>3. CASE sent'[i].pt = Current
      BY <2>3, <2>9, <3>1, <3>3
         DEF LoopInv, InOrder, Ascending, Before, Current
    <3> QED
      BY <2>6, <3>2, <3>3
  <2>10. Len(past') <= Len(sent')
    BY <1>1, <2>4 DEF PastInv
  <2> QED
    BY <2>1, <2>5, <2>7, <2>8, <2>9, <2>10 DEF PastInv
<1>8. CASE ReadForecast
  <2>1. UNCHANGED <<now, past, sent>>
    BY <1>8 DEF ReadForecast
  <2>2. ~expired' => ~expired
    <3>1. PICK new, old, p, joined, n : ReadThrough(new, old, p, joined, n)
      BY <1>8, Reading
    <3> QED
      BY <1>1, <3>1 DEF ReadThrough
  <2>3. ASSUME ~expired', NEW i \in 1..Len(sent),
               NEW j \in (position' + 1)..data'.len
        PROVE  sent[i].pt.e < data'.cells[j].e
    <3>1. sent[i].pt.e <= now
      BY DEF PastInv
    <3>2. data'.cells[j].e > now
      BY <1>8, <2>3, ReadLeavesFuture
    <3>3. data'.cells[j].e \in Int
      <4>1. data'.len \in Nat /\ position' \in 0..data'.len
        BY DEF LoopInv, TypeOK, Slices
      <4>2. \A l \in Nat : \A q \in 0..l : \A k \in (q + 1)..l : k \in 1..l
        OBVIOUS
      <4>3. j \in 1..data'.len
        BY <2>3, <4>1, <4>2, Zenon
      <4> QED
        BY <4>3, PointFields DEF LoopInv, Filled, Holds
    <3> QED
      BY <1>1, <1>2, <3>1, <3>2, <3>3
  <2> QED
    BY <2>1, <2>2, <2>3 DEF PastInv
<1> QED
  BY <1>4, <1>5, <1>6, <1>7, <1>8 DEF Next, Loop

LEMMA LookupIsLatest ==
  ASSUME LoopInv, PastInv, Fire, prev' # None, ~expired
  PROVE  /\ prev'.u <= now
         /\ \E i \in DOMAIN sent : sent[i].pt = prev'
         /\ \A i \in DOMAIN sent : sent[i].pt.u <= now => sent[i].pt.u <= prev'.u
<1>1. /\ past \in Seq(Points) /\ sent \in Seq([pt : Points, at : 0..MaxNow])
      /\ DOMAIN sent = 1..Len(sent) /\ DOMAIN past = 1..Len(past)
      /\ Len(past) \in Nat /\ Len(sent) \in Nat /\ Len(past) <= Len(sent)
      /\ now \in Int
  <2>1. past \in Seq(Points) /\ sent \in Seq([pt : Points, at : 0..MaxNow])
    BY DEF LoopInv, TypeOK
  <2>2. now \in Int
    BY LoopAssumption DEF LoopInv, TypeOK, LoopAssumption
  <2> QED
    BY <2>1, <2>2, LenProperties DEF PastInv
<1>2. Seek
  BY DEF Fire
<1>3. PICK m \in 0..Len(past) : m = Cardinality(Matured)
  BY <1>1, MaturedFirst
<1>4. Matured # {} /\ prev' = past[m] /\ m \in Matured
  BY <1>1, <1>2, <1>3, MaturedFirst DEF Seek
<1>5. m \in 1..Len(past) /\ past[m].u <= now
  BY <1>1, <1>4 DEF Matured
<1> DEFINE q == Len(sent) - Len(past)
<1>6. q \in Nat /\ q + m \in 1..Len(sent) /\ past[m] = sent[q + m].pt
  BY <1>1, <1>5 DEF PastInv
<1>7. \A i \in 1..Len(sent) : /\ sent[i].pt.e \in Int /\ sent[i].pt.u \in Int
                              /\ sent[i].pt.e = sent[i].pt.u - Gap
  <2>1. \A i \in 1..Len(sent) : sent[i] \in [pt : Points, at : 0..MaxNow]
    <3> DEFINE R == [pt : Points, at : 0..MaxNow]
    <3>1. sent \in Seq(R)
      BY <1>1
    <3> HIDE DEF R
    <3>2. \A i \in 1..Len(sent) : sent[i] \in R
      BY <1>1, <3>1
    <3> QED
      BY <3>2 DEF R
  <2>2. \A x \in [pt : Points, at : 0..MaxNow] : x.pt \in Points
    OBVIOUS
  <2>3. \A x \in Points : x.e \in Int /\ x.u \in Int /\ x.e = x.u - Gap
    BY PointFields
  <2> QED
    BY <2>1, <2>2, <2>3
<1>8. \A i, j \in 1..Len(sent) : i < j => sent[i].pt.u < sent[j].pt.u
  <2>1. Gap \in Int
    BY LoopAssumption DEF LoopAssumption
  <2> QED
    BY <1>7, <2>1 DEF PastInv
<1>9. ASSUME NEW i \in 1..Len(sent), sent[i].pt.u <= now
      PROVE  sent[i].pt.u <= past[m].u
  <2>1. CASE i <= q + m
    <3>1. CASE i = q + m
      BY <1>6, <1>7, <3>1
    <3>2. CASE i # q + m
      <4>1. i < q + m
        BY <1>6, <2>1, <3>2
      <4>2. sent[i].pt.u < sent[q + m].pt.u
        BY <1>6, <1>8, <4>1
      <4> QED
        BY <1>6, <1>7, <4>2
    <3> QED
      BY <3>1, <3>2
  <2>2. CASE ~(i <= q + m)
    <3>1. PICK k \in 1..Len(past) : i = q + k /\ k > m
      <4>1. i - q \in 1..Len(past) /\ i = q + (i - q) /\ i - q > m
        BY <1>1, <1>5, <1>6, <2>2
      <4> QED
        BY <4>1
    <3>2. past[k] = sent[i].pt
      BY <3>1 DEF PastInv
    <3>3. ASSUME NEW j \in 1..k PROVE past[j].u <= now
      <4>1. j \in 1..Len(past) /\ q + j \in 1..Len(sent)
        BY <1>1, <1>6, <3>1
      <4>2. past[j] = sent[q + j].pt
        BY <4>1 DEF PastInv
      <4>3. CASE j = k
        BY <1>9, <3>2, <4>3
      <4>4. CASE j # k
        <5>1. q + j < i
          BY <1>6, <3>1, <4>1, <4>4
        <5>2. sent[q + j].pt.u < sent[i].pt.u
          BY <1>8, <4>1, <5>1
        <5>3. past[j].u < sent[i].pt.u /\ past[j].u \in Int
          BY <1>7, <4>1, <4>2, <5>2
        <5>4. sent[i].pt.u \in Int /\ sent[i].pt.u <= now
          BY <1>7, <1>9
        <5> QED
          BY <1>1, <5>3, <5>4
      <4> QED
        BY <4>3, <4>4
    <3>4. k \in Matured
      BY <1>1, <3>1, <3>3 DEF Matured
    <3> QED
      BY <1>3, <1>5, <3>1, <3>4, MaturedFirst, <1>1
  <2> QED
    BY <2>1, <2>2
<1> QED
  BY <1>1, <1>4, <1>5, <1>6, <1>9

(* The point seekByUnixTime returns was sent, its time has come, and it is *)
(* the latest such, although each lookup takes points out of the queue and *)
(* forecasts replace one another, as long as none comes too late.          *)
THEOREM AdjustsByLatest == Spec => PrevIsLatest
<1>1. Init => PastInv
  <2> SUFFICES ASSUME Init PROVE PastInv
    OBVIOUS
  <2>1. past = <<>> /\ sent = <<>> /\ Len(past) = 0 /\ Len(sent) = 0
    BY DEF Init
  <2> QED
    BY <2>1 DEF PastInv
<1>2. Spec => []LoopInv
  BY LoopInvariant
<1>3. LoopInv /\ PastInv /\ [Next]_vars =>
         [Fire /\ prev' # None /\ ~expired =>
            /\ prev'.u <= now
            /\ \E i \in DOMAIN sent : sent[i].pt = prev'
            /\ \A i \in DOMAIN sent :
                  sent[i].pt.u <= now => sent[i].pt.u <= prev'.u]_vars
  BY LookupIsLatest
<1> QED
  BY <1>1, <1>2, <1>3, PastStep, PTL DEF Spec, PrevIsLatest
=============================================================================
