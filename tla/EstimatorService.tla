-------------------------- MODULE EstimatorService --------------------------
(***************************************************************************)
(* What the reconciler, the handler and the goroutines of the estimator    *)
(* controller promise together, as if one thread did their work: what was  *)
(* read of an Estimator is carried out in one step, a sender is started,   *)
(* changed or stopped.  A change replaces the sender by one that holds no  *)
(* forecast; those on the way reach the new one, in order, unless the old  *)
(* one receives some of them before it ends.                               *)
(***************************************************************************)
EXTENDS Integers, Sequences

CONSTANTS Estimators,
          SpecFields,   \* settings of a sender
          Specs,        \* functions of SpecFields
          Zero,         \* the value of a setting that a spec leaves open
          Forecasts,    \* records with a field est, their Estimator
          None,
          Capacity      \* of the way a forecast takes to its sender

VARIABLES objects,  \* the Estimators as their users want them
          request,  \* the Estimator, if any, that was read and is to be carried out
          sending,  \* the settings of the sender of each, if there is one
          feed,     \* forecasts on the way to it
          held,     \* the forecast it holds, if any
          leaving   \* Estimators a former sender of which has not ended

vars == <<objects, request, sending, feed, held, leaving>>

Nobody == /\ request = {}
          /\ sending = [e \in Estimators |-> {}]
          /\ feed = [e \in Estimators |-> <<>>]
          /\ held = [e \in Estimators |-> {}]
          /\ leaving = {}

Init == objects = [e \in Estimators |-> None] /\ Nobody

Edit(e) ==
    /\ \E s \in Specs \cup {None} : objects' = [objects EXCEPT ![e] = s]
    /\ UNCHANGED <<request, sending, feed, held, leaving>>

Read(e) ==
    /\ request = {}
    /\ request' = {[id |-> e, spec |-> objects[e]]}
    /\ UNCHANGED <<objects, sending, feed, held, leaving>>

(* An error: it is read again later. *)
GiveUp ==
    /\ request # {}
    /\ request' = {}
    /\ UNCHANGED <<objects, sending, feed, held, leaving>>

(* A setting that the spec leaves open stays as it is. *)
Changed(old, new) ==
    [f \in SpecFields |-> IF new[f] = Zero THEN old[f] ELSE new[f]]

CarryOut(r) ==
    /\ request' = {}
    /\ held' = [held EXCEPT ![r.id] = {}]
    /\ UNCHANGED objects

Start(r) ==
    /\ r.spec # None
    /\ sending[r.id] = {}
    /\ CarryOut(r)
    /\ sending' = [sending EXCEPT ![r.id] = {r.spec}]
    /\ UNCHANGED <<feed, leaving>>

(* The sender is replaced by one that starts with nothing. *)
Change(r) ==
    /\ r.spec # None
    /\ CarryOut(r)
    /\ \E s \in sending[r.id] :
          sending' = [sending EXCEPT ![r.id] = {Changed(s, r.spec)}]
    /\ leaving' = leaving \cup {r.id}
    /\ UNCHANGED feed

Stop(r) ==
    /\ r.spec = None
    /\ CarryOut(r)
    /\ sending' = [sending EXCEPT ![r.id] = {}]
    /\ feed' = [feed EXCEPT ![r.id] = <<>>]
    /\ leaving' = leaving \ {r.id}

Push(e) ==
    /\ request = {}
    /\ sending[e] # {}
    /\ Len(feed[e]) < Capacity
    /\ \E f \in Forecasts : /\ f.est = e
                            /\ feed' = [feed EXCEPT ![e] = Append(@, f)]
    /\ UNCHANGED <<objects, request, sending, held, leaving>>

Receive(e) ==
    /\ feed[e] # <<>>
    /\ feed' = [feed EXCEPT ![e] = Tail(@)]
    /\ UNCHANGED <<objects, request, sending, leaving>>

Take(e) ==
    /\ Receive(e)
    /\ held' = [held EXCEPT ![e] = {Head(feed[e])}]

(* A former sender receives what was meant for its successor. *)
Lose(e) ==
    /\ e \in leaving
    /\ Receive(e)
    /\ UNCHANGED held

Leave(e) ==
    /\ leaving' = leaving \ {e}
    /\ UNCHANGED <<objects, request, sending, feed, held>>

Crash == Nobody' /\ UNCHANGED objects

Next == \/ \E e \in Estimators :
              \/ Edit(e) \/ Read(e)
              \/ Push(e) \/ Take(e) \/ Lose(e) \/ Leave(e)
        \/ \E r \in request : Start(r) \/ Change(r) \/ Stop(r)
        \/ GiveUp \/ Crash

Spec == Init /\ [][Next]_vars
=============================================================================
