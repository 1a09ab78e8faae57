---------------------------- MODULE DatadogFetch ----------------------------
(***************************************************************************)
(* Datadog.Fetch: the value of a metric at a time.  One query returns the  *)
(* datapoints of all hosts around that time; they are sorted and merged    *)
(* into one series of totals, which is searched by halving.  The slices    *)
(* are indexed as in the code, out of range means that the runtime panics. *)
(***************************************************************************)
EXTENDS Integers, Sequences, FiniteSets, Functions, FiniteSetsExt

CONSTANTS
    Places,      \* places of mergedDps, 300 in the code
    Timestamps,  \* times a caller asks for, in seconds
    Answers,     \* datapoints a query may return: sequences of [ms, v]
    None

ASSUME FetchAssumption ==
    /\ Places \in Nat \ {0}
    /\ Timestamps \subseteq Int
    /\ \A a \in Answers : a \in Seq([ms : Int, v : Int])
    /\ None \notin Int

VARIABLES
    fpc,        \* "idle", "query", "merge", "search", "found", "failed",
                \* or "panicked"
    want,       \* the timestamp asked for
    dps,        \* the sorted datapoints of all hosts
    mergedDps,  \* one datapoint for each time seen so far
    next,       \* the next datapoint to merge
    lo, hi      \* the part of mergedDps that is left to search

fetchVars == <<fpc, want, dps, mergedDps, next, lo, hi>>

Datapoints == [t : Int, v : Int]

Reset == /\ want' = None /\ dps' = <<>> /\ mergedDps' = <<>>
         /\ next' = 1 /\ lo' = 1 /\ hi' = 0

FetchInit ==
    /\ fpc = "idle"
    /\ want = None /\ dps = <<>> /\ mergedDps = <<>>
    /\ next = 1 /\ lo = 1 /\ hi = 0

Ask(ts) ==
    /\ fpc = "idle"
    /\ fpc' = "query"
    /\ want' = ts
    /\ UNCHANGED <<dps, mergedDps, next, lo, hi>>

(* Transport, status or decoding: Fetch returns an error. *)
QueryFails ==
    /\ fpc = "query"
    /\ fpc' = "failed"
    /\ Reset

(* Milliseconds become seconds, by truncation. *)
Datapoint(p) == [t |-> p.ms \div 1000, v |-> p.v]

(* Mutant: no sort.Slice. *)
Sorts_NotAtAll(s) == {s}

(* sort.Slice is not stable: any order of the datapoints of one time. *)
Sorts(s) == {q \in {[k \in DOMAIN s |-> s[p[k]]] :
                       p \in Bijection(DOMAIN s, DOMAIN s)} :
               \A j, k \in DOMAIN q : j < k => q[j].t <= q[k].t}

(* A body without "series" yields nil, whose first element is taken by the *)
(* search; a series without datapoints likewise by the merge.              *)
QueryAnswers ==
    /\ fpc = "query"
    /\ \E a \in Answers :
          IF a = <<>>
          THEN fpc' = "panicked" /\ UNCHANGED <<dps, mergedDps>>
          ELSE /\ fpc' = "merge"
               /\ dps' \in Sorts([k \in DOMAIN a |-> Datapoint(a[k])])
               /\ mergedDps' = <<[t |-> dps'[1].t, v |-> 0]>>
    /\ UNCHANGED <<want, next, lo, hi>>

Top == mergedDps[Len(mergedDps)]

(* Mutant: the place is taken by the datapoint, the others are forgotten. *)
Added_Replaced(dp) == dp

Added(dp) == [Top EXCEPT !.v = @ + dp.v]

(* Mutant: the last place is never used. *)
Room_OffByOne == Len(mergedDps) + 1 < Places

Room == Len(mergedDps) < Places

(* One round of the loop over dps. *)
Merge ==
    /\ fpc = "merge"
    /\ next <= Len(dps)
    /\ \/ /\ Top.t = dps[next].t
          /\ mergedDps' = [mergedDps EXCEPT ![Len(mergedDps)] =
                             Added(dps[next])]
          /\ UNCHANGED fpc
       \/ /\ Top.t # dps[next].t
          /\ Room
          /\ mergedDps' = Append(mergedDps, dps[next])
          /\ UNCHANGED fpc
       \/ /\ Top.t # dps[next].t
          /\ ~Room
          /\ fpc' = "panicked"
          /\ UNCHANGED mergedDps
    /\ next' = next + 1
    /\ UNCHANGED <<want, dps, lo, hi>>

MergeDone ==
    /\ fpc = "merge"
    /\ next > Len(dps)
    /\ fpc' = "search"
    /\ lo' = 1 /\ hi' = Len(mergedDps)
    /\ UNCHANGED <<want, dps, mergedDps, next>>

(* Mutant: rounded the other way, two elements are never told apart. *)
Middle_RoundedDown == lo + (hi - lo) \div 2

(* dps[len(dps)/2] of the part that is left. *)
Middle == lo + (hi - lo + 1) \div 2

(* Mutant: a datapoint at the very time is passed over. *)
Beyond_OrAt(dp) == dp.t >= want

Beyond(dp) == dp.t > want

(* binarySearchNearTimestamp: one call of the recursion. *)
Halve ==
    /\ fpc = "search"
    /\ lo < hi
    /\ IF Beyond(mergedDps[Middle])
       THEN hi' = Middle - 1 /\ UNCHANGED lo
       ELSE lo' = Middle /\ UNCHANGED hi
    /\ UNCHANGED <<fpc, want, dps, mergedDps, next>>

Found ==
    /\ fpc = "search"
    /\ lo = hi
    /\ fpc' = "found"
    /\ UNCHANGED <<want, dps, mergedDps, next, lo, hi>>

FetchStep == \/ QueryFails \/ QueryAnswers
             \/ Merge \/ MergeDone \/ Halve \/ Found

FetchNext == FetchStep \/ \E ts \in Timestamps : Ask(ts)

FetchSpec == FetchInit /\ [][FetchNext]_fetchVars

(***************************************************************************)
(* Invariants                                                              *)
(***************************************************************************)
FetchTypeOK ==
    /\ fpc \in {"idle", "query", "merge", "search", "found", "failed",
                "panicked"}
    /\ want \in Int \cup {None}
    /\ dps \in Seq(Datapoints) /\ mergedDps \in Seq(Datapoints)
    /\ next \in Nat /\ lo \in Nat /\ hi \in Nat

Ordered(s) == \A j, k \in DOMAIN s : j < k => s[j].t < s[k].t

Times(s) == {s[k].t : k \in DOMAIN s}

Distance(x, y) == IF x < y THEN y - x ELSE x - y

(* The merged series has every time of the answer once, in order, with the *)
(* total of what the hosts reported, whatever order the sort left them in. *)
MergedIsTotals == fpc \in {"search", "found"} =>
    /\ Ordered(mergedDps)
    /\ Times(mergedDps) = Times(dps)
    /\ \A k \in DOMAIN mergedDps : mergedDps[k].v =
          MapThenSumSet(LAMBDA j : dps[j].v,
                        {j \in DOMAIN dps : dps[j].t = mergedDps[k].t})

(* What the search returns is the last datapoint that is not after the     *)
(* time asked for, or the first if all are: that is what the recursion     *)
(* computes, not what its comment says (FoundIsNearest).                   *)
FoundIsLatest == fpc = "found" =>
    /\ lo \in DOMAIN mergedDps
    /\ mergedDps[lo].t <= want \/ lo = 1
    /\ \A k \in DOMAIN mergedDps : mergedDps[k].t <= want => k <= lo

(* "search most near datapoint by specified timestamp", as the comment of  *)
(* binarySearchNearTimestamp has it: no datapoint is nearer to the time    *)
(* asked for than the one that is returned.                                *)
FoundIsNearest == fpc = "found" =>
    \A k \in DOMAIN mergedDps :
       Distance(mergedDps[lo].t, want) <= Distance(mergedDps[k].t, want)

(* Fetch panics only for an answer without datapoints or with more times   *)
(* than it has places for.                                                 *)
PanicsOnlyOutOfRange == fpc = "panicked" =>
    dps = <<>> \/ Cardinality(Times(dps)) > Places

(***************************************************************************)
(* The invariant behind FoundIsLatest                                      *)
(***************************************************************************)
Merging == fpc = "merge" =>
    /\ want \in Int
    /\ dps # <<>> /\ mergedDps # <<>>
    /\ \A j, k \in DOMAIN dps : j < k => dps[j].t <= dps[k].t
    /\ Ordered(mergedDps)
    /\ next \in 1..(Len(dps) + 1)
    /\ next <= Len(dps) => Top.t <= dps[next].t

Searching == fpc \in {"search", "found"} =>
    /\ want \in Int
    /\ Ordered(mergedDps)
    /\ lo \in 1..hi /\ hi \in 1..Len(mergedDps)
    /\ lo = 1 \/ mergedDps[lo].t <= want
    /\ hi = Len(mergedDps) \/ mergedDps[hi + 1].t > want
    /\ fpc = "found" => lo = hi

Fresh == /\ fpc \in {"idle", "query"} => next = 1
         /\ fpc = "query" => want \in Int

FetchInv ==
    /\ FetchTypeOK
    /\ Fresh
    /\ Merging
    /\ Searching
=============================================================================
