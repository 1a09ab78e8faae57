---------------------------- MODULE EstimatorLoop ----------------------------
(***************************************************************************)
(* One estimator() goroutine: it waits for the time of the next point of   *)
(* its forecast, looks up an earlier point to adjust it by, sends it, and  *)
(* then looks for a new forecast in its data channel, which it joins with  *)
(* the points it holds.  Starting and stopping goroutines is modelled in   *)
(* EstimatorController; the arithmetic of the adjustment is abstracted.    *)
(*                                                                         *)
(* Points are in Go slices.  joinEstimateData appends to a prefix of the   *)
(* old slice, which overwrites the old points in place when their array    *)
(* has room, so a slice is modelled with the cells of its array.           *)
(***************************************************************************)
EXTENDS Integers, Sequences, Functions, FiniteSets

CONSTANTS
    Gap,         \* GapMinutes, in clock ticks
    Times,       \* the timestamps forecasts are made for
    IdleWait,    \* the 5 seconds a goroutine without points waits
    ChanCap,     \* capacity of the data channel
    Adjust,      \* whether the mode is "adjust"
    MaxNow,      \* bound of the clock
    MaxReads,    \* bound: forecasts given to the goroutine
    MaxSpare,    \* bound: cells of a parsed forecast's array left unused
    None,
    Garbage      \* data that is not the CSV of a forecast

ASSUME LoopAssumption ==
    /\ Gap \in Nat /\ IdleWait \in 1..MaxNow /\ ChanCap \in Nat \ {0}
    /\ MaxNow \in Nat /\ MaxReads \in Nat /\ MaxSpare \in Nat \ {0}
    /\ Times \in SUBSET Nat /\ IsFiniteSet(Times)
    /\ \A u \in Times : u - Gap <= MaxNow
    /\ Adjust \in BOOLEAN

(* An EstimateDatum: u is UnixTime, e EstimateUnixTime, r the forecast it  *)
(* came with (the n-th read by the goroutine).                             *)
Point(u, r) == [u |-> u, e |-> u - Gap, r |-> r]
Points == {Point(u, r) : u \in Times, r \in 1..MaxReads}

(* A slice: the cells of its array from its first element on, its length.  *)
Slice(cells, len) == [cells |-> cells, len |-> len]
Cap(s) == Len(s.cells)
From(s, i) == Slice(SubSeq(s.cells, i, Cap(s)), s.len - i + 1)

VARIABLES
    now,        \* the clock
    inbox,      \* the data channel: sets of timestamps, or Garbage
    pc,         \* "select", "send", "check" or "crashed"
    deadline,   \* when the timer of the select fires
    wait,       \* waitTime
    data, position,
    past,       \* pastDatumQueue
    prev,       \* the earlier point the current one is adjusted by
    given,      \* number of forecasts given
    reads,      \* number of forecasts read
    forecast,   \* history: points of the last forecast read
    heard,      \* history: points of all forecasts read
    sent,       \* history: points sent, with the time of the send
    expired     \* history: a forecast without a future point was read

vars == <<now, inbox, pc, deadline, wait, data, position, past, prev,
          given, reads, forecast, heard, sent, expired>>

Init ==
    /\ now = 0
    /\ inbox = <<>>
    /\ pc = "select"
    /\ deadline = IdleWait
    /\ wait = IdleWait
    /\ data = Slice(<<>>, 0)
    /\ position = 0
    /\ past = <<>>
    /\ prev = None
    /\ given = 0 /\ reads = 0
    /\ forecast = {} /\ heard = {}
    /\ sent = <<>>
    /\ expired = FALSE

(* Mutant: the end of the data is taken to be its last point. *)
Held_OffByOne == data.len - 1 > position

(* There is a point to send. *)
Held == data.len > position
Current == data.cells[position + 1]

(***************************************************************************)
(* Environment: time passes, the reconciler pushes forecasts               *)
(***************************************************************************)
Tick ==
    /\ now < MaxNow
    /\ now' = now + 1
    /\ UNCHANGED <<inbox, pc, deadline, wait, data, position, past, prev,
                   given, reads, forecast, heard, sent, expired>>

(* A forecast with no row that parses is an empty set; one whose CSV or    *)
(* header is wrong is garbage.                                             *)
Push ==
    /\ given < MaxReads
    /\ given' = given + 1
    /\ Len(inbox) < ChanCap
    /\ \E F \in (SUBSET Times) \cup {Garbage} : inbox' = Append(inbox, F)
    /\ UNCHANGED <<now, pc, deadline, wait, data, position, past, prev,
                   reads, forecast, heard, sent, expired>>

(***************************************************************************)
(* The timer case                                                          *)
(***************************************************************************)
(* seekByUnixTime: drop the points whose time has come, return the last.   *)
Matured == {i \in DOMAIN past : \A j \in 1..i : past[j].u <= now}

(* Mutant: the oldest matured point is taken, not the latest. *)
Seek_Oldest ==
    IF Matured = {} THEN prev' = None /\ UNCHANGED past
    ELSE prev' = Head(past) /\ past' = Tail(past)

Seek ==
    /\ prev' = IF Matured = {} THEN None ELSE past[Cardinality(Matured)]
    /\ past' = SubSeq(past, Cardinality(Matured) + 1, Len(past))

(* No points, or all sent: go and look into the data channel. *)
FireIdle ==
    /\ pc = "select" /\ now >= deadline
    /\ ~Held
    /\ pc' = "check"
    /\ UNCHANGED <<now, inbox, deadline, wait, data, position, past, prev,
                   given, reads, forecast, heard, sent, expired>>

(* The first point after a read is not adjusted. *)
Adjusting == Adjust /\ position # 0

Fire ==
    /\ pc = "select" /\ now >= deadline
    /\ Held
    /\ IF Adjusting THEN Seek ELSE prev' = None /\ UNCHANGED past
    /\ pc' = "send"
    /\ UNCHANGED <<now, inbox, deadline, wait, data, position, given, reads,
                   forecast, heard, sent, expired>>

(* The provider has answered, or failed, for each of the four metrics. *)
Send ==
    /\ pc = "send"
    /\ sent' = Append(sent, [pt |-> Current, at |-> now])
    /\ past' = Append(past, Current)
    /\ position' = position + 1
    /\ wait' = IF position' < data.len
               THEN data.cells[position' + 1].e - now ELSE IdleWait
    /\ pc' = "check"
    /\ UNCHANGED <<now, inbox, deadline, data, prev, given, reads, forecast, heard,
                   expired>>

(***************************************************************************)
(* The data channel                                                        *)
(***************************************************************************)
Before(p, q) == p.e < q.e

(* Sorting the elements of a slice in place: sort.Slice is not stable, so  *)
(* points of one time may end up in any order.                             *)
Sorts(s) == {p \in Bijection(1..s.len, 1..s.len) : \A i, j \in 1..s.len :
                Before(s.cells[p[i]], s.cells[p[j]]) => i < j}

Sorted(s) ==
    {[s EXCEPT !.cells = [k \in 1..Cap(s) |->
                             s.cells[IF k <= s.len THEN p[k] ELSE k]]] :
        p \in Sorts(s)}

(* append(s[:n], t...): in place when the array has room; otherwise into a *)
(* new array at least twice as large.  The result, and what s has become.  *)
AppendTo(s, n, t) ==
    LET len == n + t.len
        fits == len <= Cap(s)
        cap == IF fits THEN Cap(s)
               ELSE IF len > 2 * Cap(s) THEN len ELSE 2 * Cap(s)
        cells == [k \in 1..cap |-> IF k > n /\ k <= len THEN t.cells[k - n]
                                   ELSE IF k <= Cap(s) THEN s.cells[k]
                                   ELSE None]
    IN  [slice |-> Slice(cells, len),
         old |-> IF fits THEN [s EXCEPT !.cells = cells] ELSE s]

(* How many points of old are before the first of new. *)
Front(new, old) ==
    {n \in 0..old.len :
        /\ \A i \in 1..n : old.cells[i].e < new.cells[1].e
        /\ n < old.len => old.cells[n + 1].e >= new.cells[1].e}

(* Mutant: the old points are all kept in front of the new ones. *)
Join_KeepsOld(new, old) == {AppendTo(old, old.len, new)}

(* joinEstimateData: the points of old before the first of new, then new.  *)
Join(new, old) ==
    IF new.len = 0 THEN {[slice |-> old, old |-> old]}
    ELSE IF old.len = 0 THEN {[slice |-> new, old |-> old]}
    ELSE {AppendTo(old, n, new) : n \in Front(new, old)}

(* The rows of a CSV, shifted and sorted. *)
Parsed(F, spare) ==
    LET points == {Point(u, reads + 1) : u \in F}
        n == Cardinality(F)
    IN  {Slice([k \in 1..(n + spare) |-> IF k <= n THEN q[k] ELSE None], n) :
            q \in {q \in Surjection(1..n, points) :
                      \A i, j \in 1..n : i < j => Before(q[i], q[j])}}

(* Mutant: the number of seconds is used as a duration in nanoseconds. *)
After_Nanoseconds(w) == now

(* time.After(wait); the clock's bound stands for all later times. *)
After(w) == IF now + w > MaxNow THEN MaxNow ELSE now + w

(* Indices of the points to keep: from the first one in the future on. *)
Future(s) == {i \in 1..s.len : s.cells[i].e > now}

ReadNothing ==
    /\ pc = "check"
    /\ inbox = <<>>
    /\ pc' = "select"
    /\ deadline' = After(wait)
    /\ UNCHANGED <<now, inbox, wait, data, position, past, prev, given, reads,
                   forecast, heard, sent, expired>>

(* readEstimateDataAsCSV fails: continue. *)
ReadGarbage ==
    /\ pc = "check"
    /\ inbox # <<>> /\ Head(inbox) = Garbage
    /\ inbox' = Tail(inbox)
    /\ pc' = "select"
    /\ deadline' = After(wait)
    /\ UNCHANGED <<now, wait, data, position, past, prev, given, reads,
                   forecast, heard, sent, expired>>

(* Mutant: the position is not reset. *)
Cut_KeepsPosition(joined) ==
    LET future == Future(joined.slice) IN
    /\ \/ \E i \in future : /\ \A j \in future : i <= j
                           /\ data' = From(joined.slice, i)
       \/ future = {} /\ data' = joined.old
    /\ UNCHANGED position

(* The points from the first one in the future on become the data; when    *)
(* there is none the slice and the position stay what they are.            *)
Cut(joined) ==
    LET future == Future(joined.slice) IN
    \/ \E i \in future : /\ \A j \in future : i <= j
                        /\ data' = From(joined.slice, i)
                        /\ position' = 0
    \/ /\ future = {}
       /\ data' = joined.old
       /\ UNCHANGED position

(* The index data[position] is out of range: the runtime panics, and with  *)
(* it the whole controller.                                                *)
OutOfRange == position' >= data'.len

ReadForecast ==
    /\ pc = "check"
    /\ inbox # <<>> /\ Head(inbox) # Garbage
    /\ inbox' = Tail(inbox)
    /\ reads' = reads + 1
    /\ forecast' = {Point(u, reads + 1) : u \in Head(inbox)}
    /\ heard' = heard \cup forecast'
    /\ \E spare \in 1..MaxSpare :
       \E new \in Parsed(Head(inbox), spare), old \in Sorted(data) :
       \E joined \in Join(new, old) :
          /\ Cut(joined)
          /\ expired' = (expired \/ Future(joined.slice) = {})
    /\ IF OutOfRange
       THEN pc' = "crashed" /\ UNCHANGED <<wait, deadline>>
       ELSE /\ wait' = data'.cells[position' + 1].e - now
            /\ deadline' = After(wait')
            /\ pc' = "select"
    /\ UNCHANGED <<now, past, prev, given, sent>>

(***************************************************************************)
(* The specification                                                       *)
(***************************************************************************)
Loop == Fire \/ FireIdle \/ Send \/ ReadNothing \/ ReadGarbage \/ ReadForecast

Next == Tick \/ Push \/ Loop

Spec == Init /\ [][Next]_vars

(* Time passes and the goroutine is scheduled. *)
FairSpec == Spec /\ WF_vars(Tick) /\ WF_vars(Loop)

(***************************************************************************)
(* Invariants                                                              *)
(***************************************************************************)
Slices == [cells : Seq(Points \cup {None}), len : Nat]

TypeOK ==
    /\ now \in 0..MaxNow
    /\ inbox \in Seq((SUBSET Times) \cup {Garbage})
    /\ pc \in {"select", "send", "check", "crashed"}
    /\ deadline \in Int /\ wait \in Int
    /\ data \in Slices /\ data.len <= Cap(data)
    /\ position \in 0..data.len
    /\ past \in Seq(Points)
    /\ prev \in Points \cup {None}
    /\ given \in 0..MaxReads /\ reads \in 0..given
    /\ forecast \subseteq Points /\ heard \subseteq Points
    /\ sent \in Seq([pt : Points, at : 0..MaxNow])
    /\ expired \in BOOLEAN

(* No point reaches the provider before its time, although a new forecast  *)
(* replaces the one the timer was set for: the reason for the two selects, *)
(* according to the comment in estimator().                                *)
NeverEarly == \A i \in DOMAIN sent : sent[i].pt.e <= sent[i].at

(* The point an adjustment compares with was sent, its time has come, and  *)
(* of all the points sent whose time has come none is later, although each *)
(* lookup takes points out of the queue and forecasts replace one another. *)
PrevIsLatest == [][Fire /\ prev' # None /\ ~expired =>
    /\ prev'.u <= now
    /\ \E i \in DOMAIN sent : sent[i].pt = prev'
    /\ \A i \in DOMAIN sent : sent[i].pt.u <= now => sent[i].pt.u <= prev'.u]_vars

(* The controller handles errors without crashing (requirements.md, 9.5).  *)
NoPanic == pc # "crashed"

(***************************************************************************)
(* The schedule the loop implements                                        *)
(***************************************************************************)
Plan == IF pc = "crashed" THEN {}
        ELSE {data.cells[i] : i \in (position + 1)..data.len}

Schedule == INSTANCE ForecastSchedule
    WITH plan <- Plan, log <- sent, crashed <- (pc = "crashed")

(* Each point is sent once, in order, when its time has come; a new        *)
(* forecast replaces exactly the points from its first one on; the loop    *)
(* panics only on a forecast with no future point, with nothing left.      *)
ImplementsSchedule == Schedule!Spec

(* Every point of the plan is sent or replaced, unless the loop panics.    *)
PlanIsCarriedOut == \A p \in Points : p \in Plan ~> p \notin Plan
=============================================================================
