---------------------- MODULE EstimatorService_proofs ----------------------
(***************************************************************************)
(* EstimatorController implements EstimatorService, for every value of its *)
(* constants.                                                              *)
(***************************************************************************)
EXTENDS EstimatorController_proofs

(***************************************************************************)
(* What a target and an operation under way say of a sender                *)
(***************************************************************************)
Draining(ch) == \E g \in stopped : gtgt[g].ch = ch

(* What the sender of an Estimator is in the refinement.                   *)
Shows(e, specs, holds, ch) ==
    /\ Sending(e) = specs
    /\ Held(e) = holds
    /\ Feed(e) = buf[ch]
    /\ Leaving(e) <=> OperationPending(e, "update") \/ Draining(ch)

Untargeted(e) == \A t \in estimateTargets : t.tgt.id # e

Settled == \A t \in estimateTargets : ~Pending(t.tgt.id) =>
    Shows(t.tgt.id, {t.tgt.spec}, {data[t.g]} \ {None}, t.tgt.ch)

Updating == \A t \in estimateTargets : OperationPending(t.tgt.id, "update") =>
    Shows(t.tgt.id, {Patch(t.tgt.spec, ope.spec)}, {}, t.tgt.ch)

Adding == \A e \in Estimators : OperationPending(e, "add") =>
    Shows(e, {ope.spec}, {}, ope.ch)

Absent == \A e \in Estimators :
    OperationPending(e, "remove") \/ (Untargeted(e) /\ ~Pending(e)) =>
        Sending(e) = {} /\ Held(e) = {} /\ Feed(e) = <<>> /\ ~Leaving(e)

Views == Settled /\ Updating /\ Adding /\ Absent

(* A target has one sender, and there is none without a target.            *)
LEMMA TargetSender ==
  ASSUME SenderInv
  PROVE  /\ \A t \in estimateTargets :
               /\ Senders(t.tgt.id) = {t.g} /\ gtgt[t.g] = t.tgt
               /\ t.g \in Goroutines /\ t.g \in Live
               /\ t.tgt.id \in Estimators /\ t.tgt.ch \in Channels
               /\ t.tgt.spec \in Specs
         /\ \A e \in Estimators : Untargeted(e) => Senders(e) = {}
         /\ \A g \in stopped : g \in Running /\ gtgt[g] \in Targets
<1>1. /\ estimateTargets \subseteq [g : Goroutines, tgt : Targets]
      /\ TargetsAreLive /\ UniqueTargets /\ stopped \subseteq Goroutines
  BY DEF SenderInv, TypeOK
<1>2. ASSUME NEW t \in estimateTargets
      PROVE  /\ Senders(t.tgt.id) = {t.g} /\ gtgt[t.g] = t.tgt
             /\ t.g \in Goroutines /\ t.g \in Live
             /\ t.tgt.id \in Estimators /\ t.tgt.ch \in Channels
             /\ t.tgt.spec \in Specs
  <2>1. /\ t.g \in Live /\ gtgt[t.g] = t.tgt
        /\ t.g \in Goroutines /\ t.tgt \in Targets
    BY <1>1 DEF TargetsAreLive
  <2>2. ASSUME NEW g \in Live, gtgt[g].id = t.tgt.id PROVE g = t.g
    <3>1. PICK u : u = [g |-> g, tgt |-> gtgt[g]]
      OBVIOUS
    <3>2. u \in estimateTargets /\ u.tgt.id = t.tgt.id /\ u.g = g
      BY <1>1, <2>2, <3>1 DEF TargetsAreLive
    <3> QED
      BY <1>1, <3>2 DEF UniqueTargets
  <2>3. Senders(t.tgt.id) = {t.g}
    BY <2>1, <2>2 DEF Senders
  <2> QED
    BY <2>1, <2>3 DEF Targets
<1>3. ASSUME NEW e \in Estimators, Untargeted(e) PROVE Senders(e) = {}
  <2> SUFFICES ASSUME NEW g \in Live, gtgt[g].id = e PROVE FALSE
    BY DEF Senders
  <2>1. PICK u : u = [g |-> g, tgt |-> gtgt[g]]
    OBVIOUS
  <2>2. u \in estimateTargets /\ u.tgt.id = e
    BY <1>1, <2>1 DEF TargetsAreLive
  <2> QED
    BY <1>3, <2>2 DEF Untargeted
<1>4. \A g \in stopped : g \in Running /\ gtgt[g] \in Targets
  BY <1>1 DEF SenderInv, RunningHaveTarget, Running
<1> QED
  BY <1>2, <1>3, <1>4

(* The channel is the only one that the sender can be meant to read.       *)
LEMMA OneFeed ==
  ASSUME NEW e \in Estimators, NEW k \in Channels, Sending(e) # {},
         \A ch \in Channels : FeedOf(e, ch) <=> ch = k,
         \A g \in stopped : gtgt[g].ch \in Channels
  PROVE  /\ Feed(e) = buf[k]
         /\ Leaving(e) <=> OperationPending(e, "update") \/ Draining(k)
<1>1. (CHOOSE ch \in Channels : FeedOf(e, ch)) = k
  <2>1. \E ch \in Channels : FeedOf(e, ch)
    OBVIOUS
  <2> QED
    BY <2>1
<1>2. Feed(e) = buf[k]
  BY <1>1 DEF Feed
<1>3. (\E g \in stopped : FeedOf(e, gtgt[g].ch)) <=> Draining(k)
  BY DEF Draining
<1> QED
  BY <1>2, <1>3 DEF Leaving

LEMMA ViewsHold == SenderInv => Views
<1> SUFFICES ASSUME SenderInv PROVE Views
  OBVIOUS
<1>t. /\ \A t \in estimateTargets :
            /\ Senders(t.tgt.id) = {t.g} /\ gtgt[t.g] = t.tgt
            /\ t.tgt.id \in Estimators /\ t.tgt.ch \in Channels
      /\ \A e \in Estimators : Untargeted(e) => Senders(e) = {}
      /\ \A g \in stopped : gtgt[g].ch \in Channels
  BY TargetSender DEF Targets
<1>1. Settled
  <2> SUFFICES ASSUME NEW t \in estimateTargets, ~Pending(t.tgt.id)
               PROVE  Shows(t.tgt.id, {t.tgt.spec}, {data[t.g]} \ {None}, t.tgt.ch)
    BY DEF Settled
  <2>1. Sending(t.tgt.id) = {t.tgt.spec} /\ Held(t.tgt.id) = {data[t.g]} \ {None}
    BY <1>t DEF Sending, Held
  <2>2. \A ch \in Channels : FeedOf(t.tgt.id, ch) <=> ch = t.tgt.ch
    BY <1>t DEF FeedOf, OperationPending, Pending
  <2>3. /\ Feed(t.tgt.id) = buf[t.tgt.ch]
        /\ Leaving(t.tgt.id) <=> \/ OperationPending(t.tgt.id, "update")
                                 \/ Draining(t.tgt.ch)
    BY <1>t, <2>1, <2>2, OneFeed
  <2> QED
    BY <2>1, <2>3 DEF Shows
<1>2. Updating
  <2> SUFFICES ASSUME NEW t \in estimateTargets, OperationPending(t.tgt.id, "update")
               PROVE  Shows(t.tgt.id, {Patch(t.tgt.spec, ope.spec)}, {}, t.tgt.ch)
    BY DEF Updating
  <2>1. Pending(t.tgt.id) /\ ope.op = "update"
    BY DEF OperationPending, Pending
  <2>2. Sending(t.tgt.id) = {Patch(t.tgt.spec, ope.spec)} /\ Held(t.tgt.id) = {}
    BY <1>t, <2>1 DEF Sending, Held
  <2>3. \A ch \in Channels : FeedOf(t.tgt.id, ch) <=> ch = t.tgt.ch
    BY <1>t, <2>1 DEF FeedOf, OperationPending
  <2>4. /\ Feed(t.tgt.id) = buf[t.tgt.ch]
        /\ Leaving(t.tgt.id) <=> \/ OperationPending(t.tgt.id, "update")
                                 \/ Draining(t.tgt.ch)
    BY <1>t, <2>2, <2>3, OneFeed
  <2> QED
    BY <2>2, <2>4 DEF Shows
<1>3. Adding
  <2> SUFFICES ASSUME NEW e \in Estimators, OperationPending(e, "add")
               PROVE  Shows(e, {ope.spec}, {}, ope.ch)
    BY DEF Adding
  <2>1. /\ Pending(e) /\ ope.op = "add"
        /\ Senders(e) = {} /\ ope.ch \in Channels
    BY <1>t DEF OperationPending, Pending, SenderInv, MapsAgree, Untargeted,
                OperationWellFormed, TypeOK, Operations
  <2>2. Sending(e) = {ope.spec} /\ Held(e) = {}
    BY <2>1 DEF Sending, Held
  <2>3. \A ch \in Channels : FeedOf(e, ch) <=> ch = ope.ch
    BY <2>1 DEF FeedOf
  <2>4. /\ Feed(e) = buf[ope.ch]
        /\ Leaving(e) <=> OperationPending(e, "update") \/ Draining(ope.ch)
    BY <1>t, <2>1, <2>2, <2>3, OneFeed
  <2> QED
    BY <2>2, <2>4 DEF Shows
<1>4. Absent
  <2> SUFFICES ASSUME NEW e \in Estimators,
                      OperationPending(e, "remove") \/ (Untargeted(e) /\ ~Pending(e))
               PROVE  /\ Sending(e) = {} /\ Held(e) = {}
                      /\ Feed(e) = <<>> /\ ~Leaving(e)
    BY DEF Absent
  <2>1. Sending(e) = {} /\ Held(e) = {}
    <3>1. CASE OperationPending(e, "remove")
      BY <3>1 DEF OperationPending, Pending, Sending, Held
    <3>2. CASE Senders(e) = {} /\ ~Pending(e)
      BY <3>2 DEF Sending, Held
    <3> QED
      BY <1>t, <3>1, <3>2
  <2> QED
    BY <2>1 DEF Feed, Leaving
<1> QED
  BY <1>1, <1>2, <1>3, <1>4 DEF Views

(***************************************************************************)
(* Senders that a step leaves alone                                        *)
(***************************************************************************)
Stays(e) == Sending(e)' = Sending(e) /\ Held(e)' = Held(e) /\ Feed(e)' = Feed(e)

(* It says nothing about this Estimator.                                   *)
Elsewhere(e) ==
    /\ \A t \in estimateTargets' : t.tgt.id = e => t \in estimateTargets
    /\ \A t \in estimateTargets :
          t.tgt.id = e => t \in estimateTargets' /\ data'[t.g] = data[t.g]
    /\ ope' = ope \/ (~Pending(e) /\ ~Pending(e)')
    /\ \A ch \in Channels : Refers(e, ch) => buf'[ch] = buf[ch]

(* Nobody who reads a channel of this Estimator is told to stop, or ends.  *)
SameDraining(e) == \A ch \in Channels :
    Refers(e, ch) => (Draining(ch)' <=> Draining(ch))

NoNewDraining == \A ch \in Channels : Draining(ch)' => Draining(ch)

LEMMA ElsewhereStays ==
  ASSUME SenderInv, Views, Views', NEW e \in Estimators, Elsewhere(e)
  PROVE  /\ Stays(e)
         /\ SameDraining(e) => (Leaving(e)' <=> Leaving(e))
         /\ NoNewDraining => (Leaving(e)' => Leaving(e))
<1>t. /\ \A t \in estimateTargets : t.tgt.ch \in Channels
      /\ MapsAgree
      /\ OperationPending(e, "add") => ope.ch \in Channels
      /\ ope # None => ope.op \in {"add", "update", "remove"}
  BY TargetSender DEF SenderInv, OperationPending, OperationWellFormed,
     TypeOK, Operations
<1>1. CASE \E t \in estimateTargets : t.tgt.id = e /\ ~Pending(e)
  <2>1. PICK t \in estimateTargets : t.tgt.id = e /\ ~Pending(e)
    BY <1>1
  <2>2. /\ t \in estimateTargets' /\ data'[t.g] = data[t.g] /\ ~Pending(e)'
        /\ ~OperationPending(e, "update") /\ ~OperationPending(e, "update")'
    BY <2>1 DEF Elsewhere, Pending, OperationPending
  <2>3. Refers(e, t.tgt.ch) /\ buf'[t.tgt.ch] = buf[t.tgt.ch] /\ t.tgt.ch \in Channels
    BY <1>t, <2>1 DEF Refers, TargetOf, Elsewhere
  <2>4. Shows(e, {t.tgt.spec}, {data[t.g]} \ {None}, t.tgt.ch)
    BY <2>1 DEF Views, Settled
  <2>5. Shows(e, {t.tgt.spec}, {data[t.g]} \ {None}, t.tgt.ch)'
    BY <2>1, <2>2 DEF Views, Settled
  <2> QED
    BY <2>2, <2>3, <2>4, <2>5 DEF Shows, Stays, SameDraining, NoNewDraining
<1>2. CASE \E t \in estimateTargets : t.tgt.id = e /\ OperationPending(e, "update")
  <2>1. PICK t \in estimateTargets : t.tgt.id = e /\ OperationPending(e, "update")
    BY <1>2
  <2>2. /\ t \in estimateTargets' /\ ope' = ope
        /\ OperationPending(e, "update")'
    BY <2>1 DEF Elsewhere, Pending, OperationPending
  <2>3. Refers(e, t.tgt.ch) /\ buf'[t.tgt.ch] = buf[t.tgt.ch] /\ t.tgt.ch \in Channels
    BY <1>t, <2>1 DEF Refers, TargetOf, Elsewhere
  <2>4. Shows(e, {Patch(t.tgt.spec, ope.spec)}, {}, t.tgt.ch)
    BY <2>1 DEF Views, Updating
  <2>5. Shows(e, {Patch(t.tgt.spec, ope.spec)}, {}, t.tgt.ch)'
    BY <2>1, <2>2 DEF Views, Updating, Patch
  <2> QED
    BY <2>1, <2>2, <2>3, <2>4, <2>5 DEF Shows, Stays
<1>3. CASE OperationPending(e, "add")
  <2>1. ope' = ope /\ OperationPending(e, "add")' /\ ope.op = "add"
    BY <1>3 DEF Elsewhere, Pending, OperationPending
  <2>2. Refers(e, ope.ch) /\ buf'[ope.ch] = buf[ope.ch] /\ ope.ch \in Channels
    BY <1>t, <1>3 DEF Refers, Elsewhere
  <2>3. Shows(e, {ope.spec}, {}, ope.ch)
    BY <1>3 DEF Views, Adding
  <2>4. Shows(e, {ope.spec}, {}, ope.ch)'
    BY <2>1 DEF Views, Adding
  <2> QED
    BY <2>1, <2>2, <2>3, <2>4 DEF Shows, Stays, SameDraining, NoNewDraining,
       OperationPending
<1>4. CASE OperationPending(e, "remove") \/ (Untargeted(e) /\ ~Pending(e))
  <2>1. (OperationPending(e, "remove") \/ (Untargeted(e) /\ ~Pending(e)))'
    BY <1>4 DEF Elsewhere, Untargeted, Pending, OperationPending
  <2> QED
    BY <1>4, <2>1 DEF Views, Absent, Stays
<1>5. Untargeted(e) => ~OperationPending(e, "update")
  BY <1>t DEF MapsAgree, Untargeted
<1> QED
  BY <1>t, <1>1, <1>2, <1>3, <1>4, <1>5 DEF Pending, OperationPending,
     Untargeted

LEMMA MemoryStays ==
  ASSUME SenderInv, Views, Views',
         UNCHANGED <<ope, estimateTargets, buf, gtgt, stopped, data>>,
         NEW e \in Estimators
  PROVE  Stays(e) /\ (Leaving(e)' <=> Leaving(e))
<1>1. Elsewhere(e)
  BY DEF Elsewhere
<1>2. SameDraining(e)
  BY DEF SameDraining, Draining
<1> QED
  BY <1>1, <1>2, ElsewhereStays

(***************************************************************************)
(* The steps of the service                                                *)
(***************************************************************************)
(* All senders are as they were.                                           *)
AllStay == \A e \in Estimators : Stays(e) /\ (Leaving(e)' <=> Leaving(e))

(* All but this one are.                                                   *)
OthersStay(d) == \A e \in Estimators \ {d} :
    Stays(e) /\ (Leaving(e)' <=> Leaving(e))

LEMMA AllStayMaps ==
  ASSUME AllStay
  PROVE  UNCHANGED <<[e \in Estimators |-> Sending(e)],
                     [e \in Estimators |-> Held(e)],
                     [e \in Estimators |-> Feed(e)],
                     {e \in Estimators : Leaving(e)}>>
  BY DEF AllStay, Stays

LEMMA OthersStayMaps ==
  ASSUME NEW d \in Estimators, OthersStay(d)
  PROVE  /\ [e \in Estimators |-> Sending(e)]' =
               [[e \in Estimators |-> Sending(e)] EXCEPT ![d] = Sending(d)']
         /\ [e \in Estimators |-> Held(e)]' =
               [[e \in Estimators |-> Held(e)] EXCEPT ![d] = Held(d)']
         /\ [e \in Estimators |-> Feed(e)]' =
               [[e \in Estimators |-> Feed(e)] EXCEPT ![d] = Feed(d)']
         /\ {e \in Estimators : Leaving(e)}' =
               ({e \in Estimators : Leaving(e)} \ {d})
                   \cup (IF Leaving(d)' THEN {d} ELSE {})
         /\ Sending(d)' = Sending(d) => UNCHANGED [e \in Estimators |-> Sending(e)]
         /\ Held(d)' = Held(d) => UNCHANGED [e \in Estimators |-> Held(e)]
         /\ Feed(d)' = Feed(d) => UNCHANGED [e \in Estimators |-> Feed(e)]
         /\ (Leaving(d)' <=> Leaving(d)) => UNCHANGED {e \in Estimators : Leaving(e)}
  BY DEF OthersStay, Stays

StepKnows == ForecastInv /\ Views /\ Views'

(* Requests are read and given up; the rest of the environment, and the    *)
(* timers, are not seen.                                                   *)
LEMMA WorldSteps ==
  ASSUME StepKnows,
         \/ Environment \/ ReadConfigMap \/ CreateConfigMap \/ ConfigMapFails
         \/ \E e \in Estimators : Begin(e)
         \/ \E g \in Goroutines : Timer(g)
         \/ UNCHANGED vars
  PROVE  Service!Next \/ UNCHANGED Service!vars
<1> USE DEF apiVars, recVars, handVars, chanVars, gorVars
<1>1. UNCHANGED <<ope, estimateTargets, buf, gtgt, stopped, data>>
  BY DEF Environment, ApplyEstimator, DeleteEstimator, DeleteConfigMap,
         StoreForecast, ReadConfigMap, CreateConfigMap, ConfigMapFails, Begin,
         Timer, vars
<1>2. UNCHANGED <<[e \in Estimators |-> Sending(e)],
                  [e \in Estimators |-> Held(e)],
                  [e \in Estimators |-> Feed(e)],
                  {e \in Estimators : Leaving(e)}>>
  BY <1>1, MemoryStays, AllStayMaps DEF StepKnows, ForecastInv, AllStay
<1>3. ASSUME NEW e \in Estimators, ApplyEstimator(e) \/ DeleteEstimator(e)
      PROVE  Service!Next
  <2>1. /\ UNCHANGED <<rpc, rkey, rspec>>
        /\ \E s \in Specs \cup {None} : est' = [est EXCEPT ![e] = s]
    BY <1>3 DEF ApplyEstimator, DeleteEstimator
  <2>2. Service!Edit(e)
    BY <1>2, <2>1 DEF Service!Edit
  <2> QED
    BY <2>2 DEF Service!Next
<1>4. ASSUME NEW e \in Estimators, Begin(e) PROVE Service!Next
  <2>1. /\ rpc = "idle" /\ rpc' \in {"getcm", "ope"}
        /\ rkey' = e /\ rspec' = est[e] /\ UNCHANGED est
    BY <1>4 DEF Begin
  <2>2. Service!Read(e)
    BY <1>2, <2>1 DEF Service!Read
  <2> QED
    BY <2>2 DEF Service!Next
<1>5. CASE ConfigMapFails
  <2>1. rpc = "getcm" /\ rpc' = "idle" /\ UNCHANGED est
    BY <1>5 DEF ConfigMapFails, ReturnError, Return
  <2>2. Service!GiveUp
    BY <1>2, <2>1 DEF Service!GiveUp
  <2> QED
    BY <2>2 DEF Service!Next
<1>6. CASE \/ \E e \in Estimators : DeleteConfigMap(e) \/ StoreForecast(e)
           \/ ReadConfigMap \/ CreateConfigMap
           \/ \E g \in Goroutines : Timer(g)
           \/ UNCHANGED vars
  <2>1. /\ UNCHANGED <<est, rkey, rspec>>
        /\ rpc \in {"getcm", "ope"} <=> rpc' \in {"getcm", "ope"}
    BY <1>6 DEF DeleteConfigMap, StoreForecast, ReadConfigMap, CreateConfigMap,
                Timer, vars
  <2> QED
    BY <1>2, <2>1 DEF Service!vars
<1> QED
  BY <1>3, <1>4, <1>5, <1>6 DEF Environment

(* A sent operation is carried out: what it is about changes at once.      *)
LEMMA SendAddStarts ==
  ASSUME StepKnows, SendAdd
  PROVE  Service!Next
<1> USE DEF apiVars, recVars, handVars, chanVars, gorVars
<1>0. PICK d \in Estimators, s \in Specs \cup {None} : d = rkey /\ s = rspec
  BY DEF StepKnows, ForecastInv, SenderInv, WorkerKnows, TypeOK, SendAdd
<1>t. /\ SenderInv /\ TypeOK /\ d = rkey /\ s = rspec /\ Views /\ Views'
      /\ rpc = "ope" /\ s # None /\ ope = None /\ UNCHANGED est
  BY <1>0 DEF StepKnows, ForecastInv, SenderInv, WorkerKnows, SendAdd
<1>1. PICK ch \in Channels :
         /\ Fresh(ch)
         /\ ope' = [op |-> "add", id |-> d, ch |-> ch, spec |-> s]
         /\ buf' = [buf EXCEPT ![ch] = <<>>]
  BY <1>t DEF SendAdd
<1>2. UNCHANGED <<estimateTargets, gpc, gtgt, stopped, data>>
      /\ rpc' \in {"idle", "push"}
  BY DEF SendAdd, AfterOperation, Return
<1>3. buf'[ch] = <<>> /\ \A c \in Channels \ {ch} : buf'[c] = buf[c]
  BY <1>1, <1>t DEF TypeOK
<1>4. \A e \in Estimators : ~Refers(e, ch)
  BY <1>1, <1>t DEF Fresh, Refers, OperationPending, TargetOf
<1>5. OthersStay(d)
  <2> SUFFICES ASSUME NEW e \in Estimators \ {d}
               PROVE  Stays(e) /\ (Leaving(e)' <=> Leaving(e))
    BY DEF OthersStay
  <2>1. ~Pending(e) /\ ~Pending(e)'
    BY <1>t, <1>1 DEF Pending
  <2>2. Elsewhere(e)
    BY <1>2, <1>3, <1>4, <2>1 DEF Elsewhere
  <2>3. SameDraining(e)
    BY <1>2 DEF SameDraining, Draining
  <2> QED
    BY <1>t, <2>2, <2>3, ElsewhereStays
<1>6. Sending(d) = {} /\ Held(d) = {} /\ Feed(d) = <<>> /\ ~Leaving(d)
  <2>1. Untargeted(d) /\ ~Pending(d)
    BY <1>t DEF SenderInv, MapsAgree, RemovalPending, Untargeted, Pending,
       SendAdd
  <2> QED
    BY <1>t, <2>1 DEF Views, Absent
<1>7. /\ Sending(d)' = {s} /\ Held(d)' = {}
      /\ Feed(d)' = <<>> /\ ~Leaving(d)'
  <2>0. ope'.op = "add" /\ ope'.id = d /\ ope'.ch = ch /\ ope'.spec = s
    BY <1>1
  <2>1. OperationPending(d, "add")' /\ ~OperationPending(d, "update")'
    <3>1. ope' # None
      <4>1. ope' \in Operations
        BY <1>1, <1>t DEF Operations, TypeOK
      <4> QED
        BY <4>1, NothingAssumption
    <3> QED
      BY <2>0, <3>1 DEF OperationPending
  <2>2. Shows(d, {ope.spec}, {}, ope.ch)'
    BY <1>t, <2>1 DEF Views, Adding
  <2>3. ~Draining(ch)'
    <3> SUFFICES ASSUME NEW g \in stopped, gtgt[g].ch = ch PROVE FALSE
      BY <1>2 DEF Draining
    <3>1. g \in Running
      BY <1>t, TargetSender
    <3> QED
      BY <1>1, <3>1 DEF Fresh
  <2> QED
    BY <1>3, <2>0, <2>1, <2>2, <2>3 DEF Shows
<1>8. Service!Start([id |-> d, spec |-> s])
  BY <1>t, <1>2, <1>5, <1>6, <1>7, OthersStayMaps DEF Service!Start,
     Service!CarryOut
<1> QED
  BY <1>t, <1>8 DEF Service!Next

LEMMA SendUpdateChanges ==
  ASSUME StepKnows, SendUpdate
  PROVE  Service!Next
<1> USE DEF apiVars, recVars, handVars, chanVars, gorVars
<1>0. PICK d \in Estimators, s \in Specs \cup {None} : d = rkey /\ s = rspec
  BY DEF StepKnows, ForecastInv, SenderInv, WorkerKnows, TypeOK, SendUpdate
<1>t. /\ SenderInv /\ TypeOK /\ d = rkey /\ s = rspec /\ Views /\ Views'
      /\ rpc = "ope" /\ s # None /\ ope = None /\ UNCHANGED est
      /\ ope' = [op |-> "update", id |-> d, ch |-> None, spec |-> s]
      /\ UNCHANGED <<estimateTargets, buf, gpc, gtgt, stopped, data>>
      /\ rpc' \in {"idle", "push"}
  BY <1>0 DEF StepKnows, ForecastInv, SenderInv, WorkerKnows, SendUpdate,
         AfterOperation, Return
<1>1. OthersStay(d)
  <2> SUFFICES ASSUME NEW e \in Estimators \ {d}
               PROVE  Stays(e) /\ (Leaving(e)' <=> Leaving(e))
    BY DEF OthersStay
  <2>1. ~Pending(e) /\ ~Pending(e)'
    BY <1>t DEF Pending
  <2>2. Elsewhere(e) /\ SameDraining(e)
    BY <1>t, <2>1 DEF Elsewhere, SameDraining, Draining
  <2> QED
    BY <1>t, <2>2, ElsewhereStays
<1>2. PICK t \in estimateTargets : t.tgt.id = d
  BY <1>t DEF SenderInv, MapsAgree, TargetOf, OperationPending, SendUpdate
<1>3. /\ Sending(d) = {t.tgt.spec} /\ Feed(d) = buf[t.tgt.ch]
      /\ t.tgt.spec \in Specs
  <2>1. ~Pending(d)
    BY <1>t DEF Pending
  <2> QED
    BY <1>t, <1>2, <2>1, TargetSender DEF Views, Settled, Shows
<1>4. /\ Sending(d)' = {Patch(t.tgt.spec, s)} /\ Held(d)' = {}
      /\ Feed(d)' = buf[t.tgt.ch] /\ Leaving(d)'
  <2>0. ope'.op = "update" /\ ope'.id = d /\ ope'.spec = s
    BY <1>t
  <2>1. OperationPending(d, "update")'
    <3>1. ope' # None
      <4>1. ope' \in Operations
        BY <1>t DEF Operations, TypeOK
      <4> QED
        BY <4>1, NothingAssumption
    <3> QED
      BY <2>0, <3>1 DEF OperationPending
  <2>2. Shows(d, {Patch(t.tgt.spec, ope.spec)}, {}, t.tgt.ch)'
    BY <1>t, <1>2, <2>1 DEF Views, Updating, Patch
  <2> QED
    BY <1>t, <2>0, <2>1, <2>2 DEF Shows, Patch
<1>5. Service!Changed(t.tgt.spec, s) = Patch(t.tgt.spec, s)
  BY DEF Service!Changed, Patch
<1>6. /\ [e \in Estimators |-> Sending(e)]' =
            [[e \in Estimators |-> Sending(e)] EXCEPT
                ![d] = {Service!Changed(t.tgt.spec, s)}]
      /\ [e \in Estimators |-> Held(e)]' =
            [[e \in Estimators |-> Held(e)] EXCEPT ![d] = {}]
      /\ UNCHANGED [e \in Estimators |-> Feed(e)]
      /\ {e \in Estimators : Leaving(e)}' = {e \in Estimators : Leaving(e)} \cup {d}
  BY <1>t, <1>1, <1>3, <1>4, <1>5, OthersStayMaps
<1>7. t.tgt.spec \in [e \in Estimators |-> Sending(e)][d]
  BY <1>t, <1>3
<1>8. Service!Change([id |-> d, spec |-> s])
  BY <1>t, <1>6, <1>7 DEF Service!Change, Service!CarryOut
<1> QED
  BY <1>t, <1>8 DEF Service!Next

LEMMA SendRemoveStops ==
  ASSUME StepKnows, SendRemove
  PROVE  Service!Next
<1> USE DEF apiVars, recVars, handVars, chanVars, gorVars
<1>0. PICK d \in Estimators, s \in Specs \cup {None} : d = rkey /\ s = rspec
  BY DEF StepKnows, ForecastInv, SenderInv, WorkerKnows, TypeOK, SendRemove
<1>t. /\ SenderInv /\ TypeOK /\ d = rkey /\ s = rspec /\ Views /\ Views'
      /\ rpc = "ope" /\ s = None /\ ope = None /\ UNCHANGED est
      /\ ope' = [op |-> "remove", id |-> d, ch |-> None, spec |-> None]
      /\ UNCHANGED <<estimateTargets, buf, gpc, gtgt, stopped, data>>
      /\ rpc' = "idle"
  BY <1>0 DEF StepKnows, ForecastInv, SenderInv, WorkerKnows, SendRemove,
         ReturnIgnoringNotFound, Return
<1>1. OthersStay(d)
  <2> SUFFICES ASSUME NEW e \in Estimators \ {d}
               PROVE  Stays(e) /\ (Leaving(e)' <=> Leaving(e))
    BY DEF OthersStay
  <2>1. ~Pending(e) /\ ~Pending(e)'
    BY <1>t DEF Pending
  <2>2. Elsewhere(e) /\ SameDraining(e)
    BY <1>t, <2>1 DEF Elsewhere, SameDraining, Draining
  <2> QED
    BY <1>t, <2>2, ElsewhereStays
<1>2. /\ Sending(d)' = {} /\ Held(d)' = {}
      /\ Feed(d)' = <<>> /\ ~Leaving(d)'
  <2>1. OperationPending(d, "remove")'
    <3>1. ope' # None
      <4>1. ope' \in Operations
        BY <1>t DEF Operations, TypeOK
      <4> QED
        BY <4>1, NothingAssumption
    <3> QED
      BY <1>t, <3>1 DEF OperationPending
  <2> QED
    BY <1>t, <2>1 DEF Views, Absent
<1>3. Service!Stop([id |-> d, spec |-> s])
  BY <1>t, <1>1, <1>2, OthersStayMaps DEF Service!Stop, Service!CarryOut
<1> QED
  BY <1>t, <1>3 DEF Service!Next

(* What is pushed for an Estimator is on the way to its sender.            *)
LEMMA PushDataPushes ==
  ASSUME StepKnows, PushData
  PROVE  Service!Next
<1> USE DEF apiVars, recVars, handVars, chanVars, gorVars
<1>0. PICK d \in Estimators, ch \in Channels : d = rkey /\ ch = estimatorChs[rkey]
  BY DEF StepKnows, ForecastInv, SenderInv, WorkerKnows, TypeOK, PushData
<1>t. /\ SenderInv /\ TypeOK /\ d = rkey /\ ch = estimatorChs[d] /\ Views /\ Views'
      /\ rpc = "push" /\ rpc' = "idle"
      /\ rdata \in Forecasts /\ rdata.est = d
      /\ Len(buf[ch]) < ChanCap
      /\ UNCHANGED <<est, ope, estimateTargets, gpc, gtgt, stopped, data>>
      /\ OwnChannels
  BY <1>0 DEF StepKnows, ForecastInv, FlightInv, ReadFrom, SenderInv,
     WorkerKnows,
         PushData, Return, TypeOK
<1>1. /\ buf'[ch] = Append(buf[ch], rdata)
      /\ \A c \in Channels \ {ch} : buf'[c] = buf[c]
  BY <1>t DEF PushData, Pushed, TypeOK
<1>2. Refers(d, ch)
  BY <1>t DEF Refers
<1>3. OthersStay(d)
  <2> SUFFICES ASSUME NEW e \in Estimators \ {d}
               PROVE  Stays(e) /\ (Leaving(e)' <=> Leaving(e))
    BY DEF OthersStay
  <2>1. ~Refers(e, ch)
    BY <1>t, <1>2 DEF OwnChannels
  <2>2. Elsewhere(e) /\ SameDraining(e)
    BY <1>t, <1>1, <2>1 DEF Elsewhere, SameDraining, Draining
  <2> QED
    BY <1>t, <2>2, ElsewhereStays
<1> DEFINE Served == /\ Sending(d) # {} /\ Feed(d) = buf[ch]
                     /\ Feed(d)' = buf'[ch]
                     /\ Sending(d)' = Sending(d) /\ Held(d)' = Held(d)
                     /\ Leaving(d)' <=> Leaving(d)
<1>4. Served
  <2>0. /\ OperationPending(d, "add")' <=> OperationPending(d, "add")
        /\ OperationPending(d, "update")' <=> OperationPending(d, "update")
        /\ Pending(d)' <=> Pending(d)
        /\ Draining(ch)' <=> Draining(ch)
    BY <1>t DEF OperationPending, Pending, Draining
  <2>1. ASSUME NEW t \in estimateTargets, t.tgt.id = d, t.tgt.ch = ch,
               ~Pending(d)
        PROVE  Served
    <3>1. Shows(d, {t.tgt.spec}, {data[t.g]} \ {None}, ch)
      BY <1>t, <2>1 DEF Views, Settled
    <3>2. Shows(d, {t.tgt.spec}, {data[t.g]} \ {None}, ch)'
      BY <1>t, <2>0, <2>1 DEF Views, Settled
    <3> QED
      BY <1>t, <2>0, <3>1, <3>2 DEF Shows
  <2>2. ASSUME NEW t \in estimateTargets, t.tgt.id = d, t.tgt.ch = ch,
               OperationPending(d, "update")
        PROVE  Served
    <3>1. Shows(d, {Patch(t.tgt.spec, ope.spec)}, {}, ch)
      BY <1>t, <2>2 DEF Views, Updating
    <3>2. Shows(d, {Patch(t.tgt.spec, ope.spec)}, {}, ch)'
      BY <1>t, <2>0, <2>2 DEF Views, Updating
    <3> QED
      BY <1>t, <2>0, <3>1, <3>2 DEF Shows, Patch
  <2>3. ASSUME OperationPending(d, "add"), ope.ch = ch
        PROVE  Served
    <3>1. Shows(d, {ope.spec}, {}, ch)
      BY <1>t, <2>3 DEF Views, Adding
    <3>2. Shows(d, {ope.spec}, {}, ch)'
      BY <1>t, <2>0, <2>3 DEF Views, Adding
    <3> QED
      BY <1>t, <2>0, <3>1, <3>2 DEF Shows
  <2>4. /\ TargetOf(d, ch) \/ (OperationPending(d, "add") /\ ope.ch = ch)
        /\ OperationPending(d, "add") => \A t \in estimateTargets : t.tgt.id # d
    BY <1>t, NothingAssumption DEF SenderInv, MapsAgree
  <2>5. ~OperationPending(d, "remove")
    BY <1>t, NothingAssumption DEF OperationPending, SenderInv,
       OperationWellFormed
  <2>6. Pending(d) => \/ OperationPending(d, "add") \/ OperationPending(d, "update")
                      \/ OperationPending(d, "remove")
    BY <1>t DEF Pending, OperationPending, TypeOK, Operations
  <2> QED
    BY <2>1, <2>2, <2>3, <2>4, <2>5, <2>6 DEF TargetOf
<1>5. Service!Push(d)
  <2>1. /\ [e \in Estimators |-> Feed(e)]' =
              [[e \in Estimators |-> Feed(e)] EXCEPT ![d] = Append(@, rdata)]
        /\ UNCHANGED <<[e \in Estimators |-> Sending(e)],
                       [e \in Estimators |-> Held(e)],
                       {e \in Estimators : Leaving(e)}>>
    BY <1>t, <1>1, <1>3, <1>4, OthersStayMaps
  <2>2. /\ [e \in Estimators |-> Sending(e)][d] # {}
        /\ Len([e \in Estimators |-> Feed(e)][d]) < ChanCap
    BY <1>t, <1>4
  <2> QED
    BY <1>t, <2>1, <2>2 DEF Service!Push
<1> QED
  BY <1>t, <1>5 DEF Service!Next

(***************************************************************************)
(* The handler                                                             *)
(***************************************************************************)
(* The operation it applies was carried out when it was sent: nothing that *)
(* a user of the service sees changes now.                                 *)
LEMMA HandleAddUnseen ==
  ASSUME StepKnows, NEW g \in Goroutines, HandleAdd(g)
  PROVE  AllStay
<1> USE DEF apiVars, recVars, handVars, chanVars, gorVars
<1>t. SenderInv /\ TypeOK /\ EndedHoldNothing /\ Views /\ Views'
  BY DEF StepKnows, ForecastInv, FlightInv, SenderInv
<1>s. PICK s : s = ope.spec
  OBVIOUS
<1>0. PICK d \in Estimators, ch \in Channels :
         ope.id = d /\ ope.ch = ch /\ ope.spec = s
  BY <1>s, <1>t DEF SenderInv, HandleAdd, OperationWellFormed, TypeOK,
     Operations
<1>1. PICK t : t = [g |-> g, tgt |-> [id |-> d, ch |-> ch, spec |-> s]]
  OBVIOUS
<1>2. /\ OperationPending(d, "add") /\ ope' = None /\ gpc[g] = "none"
      /\ gtgt' = [gtgt EXCEPT ![g] = t.tgt]
      /\ estimateTargets' = estimateTargets \cup {t}
      /\ t.g = g /\ t.tgt.id = d /\ t.tgt.ch = ch /\ t.tgt.spec = s
      /\ UNCHANGED <<buf, stopped, data>>
  BY <1>0, <1>1 DEF HandleAdd, StartGoroutine, OperationPending
<1>3. data[g] = None /\ g \notin stopped
  BY <1>t, <1>2 DEF EndedHoldNothing, Running, SenderInv, RunningHaveTarget
<1>4. \A c : Draining(c)' <=> Draining(c)
  BY <1>t, <1>2, <1>3 DEF Draining, TypeOK
<1>5. ASSUME NEW e \in Estimators, e # d
      PROVE  Stays(e) /\ (Leaving(e)' <=> Leaving(e))
  <2>1. ~Pending(e) /\ ~Pending(e)'
    BY <1>0, <1>2, <1>5 DEF Pending
  <2>2. Elsewhere(e) /\ SameDraining(e)
    BY <1>2, <1>4, <1>5, <2>1 DEF Elsewhere, SameDraining
  <2> QED
    BY <1>t, <2>2, ElsewhereStays
<1>6. Stays(d) /\ (Leaving(d)' <=> Leaving(d))
  <2>1. Shows(d, {s}, {}, ch) /\ ~OperationPending(d, "update")
    BY <1>t, <1>0, <1>2 DEF Views, Adding, OperationPending
  <2>2. ~Pending(d)' /\ t \in estimateTargets' /\ ~OperationPending(d, "update")'
    BY <1>2 DEF Pending, OperationPending
  <2>3. Shows(d, {t.tgt.spec}, {data[t.g]} \ {None}, t.tgt.ch)'
    BY <1>t, <1>2, <2>2 DEF Views, Settled
  <2>4. Shows(d, {s}, {}, ch)'
    BY <1>2, <1>3, <2>3
  <2> QED
    BY <1>2, <1>4, <2>1, <2>2, <2>4 DEF Shows, Stays
<1> QED
  BY <1>5, <1>6 DEF AllStay

LEMMA HandleUpdateUnseen ==
  ASSUME StepKnows, NEW g \in Goroutines, HandleUpdate(g)
  PROVE  AllStay
<1> USE DEF apiVars, recVars, handVars, chanVars, gorVars
<1>t. SenderInv /\ TypeOK /\ EndedHoldNothing /\ OwnChannels /\ Views /\ Views'
  BY DEF StepKnows, ForecastInv, FlightInv, SenderInv
<1>0. PICK u \in estimateTargets :
         /\ u.tgt.id = ope.id
         /\ CloseStopCh(u)
         /\ StartGoroutine(g, Updated(u.tgt))
         /\ StoreTarget(u, [g |-> g, tgt |-> Updated(u.tgt)])
  BY DEF HandleUpdate
<1>s. PICK s, t : /\ s = Patch(u.tgt.spec, ope.spec)
                  /\ t = [g |-> g, tgt |-> Updated(u.tgt)]
  OBVIOUS
<1>1. PICK d \in Estimators, ch \in Channels :
         /\ u.tgt.id = d /\ u.tgt.ch = ch /\ s = Patch(u.tgt.spec, ope.spec)
         /\ t = [g |-> g, tgt |-> Updated(u.tgt)]
  BY <1>s, <1>t, TargetSender
<1>2. /\ OperationPending(d, "update") /\ ope' = None /\ gpc[g] = "none"
      /\ gtgt' = [gtgt EXCEPT ![g] = t.tgt]
      /\ stopped' = stopped \cup {u.g}
      /\ estimateTargets' = (estimateTargets \ {u}) \cup {t}
      /\ UNCHANGED <<buf, data>>
  BY <1>0, <1>1 DEF HandleUpdate, CloseStopCh, StartGoroutine, StoreTarget,
                    OperationPending
<1>3. t.g = g /\ t.tgt.id = d /\ t.tgt.ch = ch /\ t.tgt.spec = s
  <2>1. u.tgt \in Targets
    BY <1>t DEF TypeOK
  <2> QED
    BY <1>1, <2>1 DEF Updated, Targets
<1>4. /\ data[g] = None /\ g \notin stopped
      /\ u.g # g /\ u.g \in Goroutines /\ gtgt[u.g] = u.tgt
  BY <1>t, <1>2, TargetSender
     DEF EndedHoldNothing, Live, Running, SenderInv, RunningHaveTarget
<1>5. /\ \A c : Draining(c)' <=> Draining(c) \/ c = ch
      /\ Refers(d, ch)
  <2>1. \A h \in stopped' : gtgt'[h] = gtgt[h]
    BY <1>t, <1>2, <1>4 DEF TypeOK
  <2> QED
    BY <1>1, <1>2, <1>4, <2>1 DEF Draining, Refers, TargetOf
<1>6. ASSUME NEW e \in Estimators, e # d
      PROVE  Stays(e) /\ (Leaving(e)' <=> Leaving(e))
  <2>1. ~Pending(e) /\ ~Pending(e)'
    BY <1>0, <1>1, <1>2, <1>6 DEF Pending
  <2>2. Elsewhere(e)
    BY <1>1, <1>2, <1>3, <1>6, <2>1 DEF Elsewhere
  <2>3. SameDraining(e)
    BY <1>t, <1>5, <1>6 DEF SameDraining, OwnChannels
  <2> QED
    BY <1>t, <2>2, <2>3, ElsewhereStays
<1>7. Stays(d) /\ (Leaving(d)' <=> Leaving(d))
  <2>1. Shows(d, {s}, {}, ch)
    BY <1>t, <1>1, <1>2 DEF Views, Updating
  <2>2. ~Pending(d)' /\ t \in estimateTargets'
    BY <1>2 DEF Pending
  <2>3. Shows(d, {t.tgt.spec}, {data[t.g]} \ {None}, t.tgt.ch)'
    BY <1>t, <1>3, <2>2 DEF Views, Settled
  <2>4. Shows(d, {s}, {}, ch)'
    BY <1>2, <1>3, <1>4, <2>3
  <2> QED
    BY <1>2, <1>5, <2>1, <2>4 DEF Shows, Stays
<1> QED
  BY <1>6, <1>7 DEF AllStay

LEMMA HandleRemoveUnseen ==
  ASSUME StepKnows, HandleRemove
  PROVE  AllStay
<1> USE DEF apiVars, recVars, handVars, chanVars, gorVars
<1>t. SenderInv /\ TypeOK /\ OwnChannels /\ UniqueTargets /\ Views /\ Views'
  BY DEF StepKnows, ForecastInv, FlightInv, SenderInv
<1>0. PICK u \in estimateTargets :
         /\ u.tgt.id = ope.id
         /\ stopped' = stopped \cup {u.g}
         /\ estimateTargets' = estimateTargets \ {u}
  BY DEF HandleRemove, CloseStopCh
<1>1. PICK d \in Estimators, ch \in Channels : u.tgt.id = d /\ u.tgt.ch = ch
  BY <1>t, TargetSender
<1>2. /\ OperationPending(d, "remove") /\ ope' = None
      /\ UNCHANGED <<gpc, gtgt, buf, data>>
  BY <1>0, <1>1 DEF HandleRemove, OperationPending
<1>3. ASSUME NEW e \in Estimators, e # d
      PROVE  Stays(e) /\ (Leaving(e)' <=> Leaving(e))
  <2>1. ~Pending(e) /\ ~Pending(e)'
    BY <1>0, <1>1, <1>2, <1>3 DEF Pending
  <2>2. Elsewhere(e)
    BY <1>0, <1>1, <1>2, <1>3, <2>1 DEF Elsewhere
  <2>3. gtgt[u.g] = u.tgt /\ ~Refers(e, ch)
    BY <1>t, <1>1, <1>3, TargetSender DEF OwnChannels, Refers, TargetOf
  <2>4. SameDraining(e)
    BY <1>0, <1>1, <1>2, <2>3 DEF SameDraining, Draining
  <2> QED
    BY <1>t, <2>2, <2>4, ElsewhereStays
<1>4. Stays(d) /\ (Leaving(d)' <=> Leaving(d))
  <2>1. Untargeted(d)' /\ ~Pending(d)'
    BY <1>t, <1>0, <1>1, <1>2 DEF UniqueTargets, Untargeted, Pending
  <2> QED
    BY <1>t, <1>2, <2>1 DEF Views, Absent, Stays
<1> QED
  BY <1>3, <1>4 DEF AllStay

LEMMA HandleUnmatchedUnseen ==
  ASSUME StepKnows, HandleUnmatched
  PROVE  AllStay
<1> USE DEF apiVars, recVars, handVars, chanVars, gorVars
<1>t. SenderInv /\ TypeOK /\ MapsAgree /\ Views /\ Views'
  BY DEF StepKnows, ForecastInv, SenderInv
<1>0. PICK d \in Estimators : ope.id = d
  BY <1>t DEF HandleUnmatched, TypeOK, Operations
<1>1. /\ Untargeted(d) /\ ope' = None
      /\ UNCHANGED <<estimateTargets, gpc, gtgt, stopped, buf, data>>
  BY <1>0 DEF HandleUnmatched, Untargeted
<1>2. OperationPending(d, "remove")
  <2>1. ~OperationPending(d, "update")
    BY <1>t, <1>1 DEF MapsAgree, Untargeted
  <2> QED
    BY <1>0, <2>1 DEF HandleUnmatched, OperationPending
<1>3. ASSUME NEW e \in Estimators, e # d
      PROVE  Stays(e) /\ (Leaving(e)' <=> Leaving(e))
  <2>1. ~Pending(e) /\ ~Pending(e)'
    BY <1>0, <1>1, <1>3 DEF Pending
  <2>2. Elsewhere(e) /\ SameDraining(e)
    BY <1>1, <2>1 DEF Elsewhere, SameDraining, Draining
  <2> QED
    BY <1>t, <2>2, ElsewhereStays
<1>4. Stays(d) /\ (Leaving(d)' <=> Leaving(d))
  <2>1. Untargeted(d)' /\ ~Pending(d)'
    BY <1>1 DEF Untargeted, Pending
  <2> QED
    BY <1>t, <1>2, <2>1 DEF Views, Absent, Stays
<1> QED
  BY <1>3, <1>4 DEF AllStay

(***************************************************************************)
(* The goroutines                                                          *)
(***************************************************************************)
(* A goroutine that ends was no sender any more.                           *)
LEMMA StopReceivedLeaves ==
  ASSUME StepKnows, NEW g \in Goroutines, StopReceived(g)
  PROVE  Service!Next \/ UNCHANGED Service!vars
<1> USE DEF apiVars, recVars, handVars, chanVars, gorVars
<1>t. SenderInv /\ TypeOK /\ OwnChannels /\ Views /\ Views'
  BY DEF StepKnows, ForecastInv, FlightInv, SenderInv
<1>0. PICK d \in Estimators, ch \in Channels : gtgt[g].id = d /\ gtgt[g].ch = ch
  BY <1>t, TargetSender DEF StopReceived, Targets
<1>1. /\ g \in stopped /\ g \in Running /\ stopped' = stopped \ {g}
      /\ \A h \in Goroutines \ {g} : gtgt'[h] = gtgt[h] /\ data'[h] = data[h]
      /\ UNCHANGED <<est, rpc, rkey, rspec, ope, estimateTargets, buf>>
  BY <1>t DEF StopReceived, EndGoroutine, Running, TypeOK
<1>2. \A t \in estimateTargets : data'[t.g] = data[t.g]
  BY <1>t, <1>1, TargetSender DEF Live
<1>3. \A c : Draining(c)' => Draining(c)
  BY <1>t, <1>1 DEF Draining, TypeOK
<1>4. \A c : c # ch => (Draining(c)' <=> Draining(c))
  BY <1>t, <1>0, <1>1 DEF Draining, TypeOK
<1>5. \A e \in Estimators : Elsewhere(e)
  BY <1>1, <1>2 DEF Elsewhere
<1>6. OthersStay(d)
  <2> SUFFICES ASSUME NEW e \in Estimators \ {d}
               PROVE  Stays(e) /\ (Leaving(e)' <=> Leaving(e))
    BY DEF OthersStay
  <2>1. ~Refers(e, ch)
    BY <1>t, <1>0, <1>1 DEF OwnChannels, Refers
  <2>2. SameDraining(e)
    BY <1>4, <2>1 DEF SameDraining
  <2> QED
    BY <1>t, <1>5, <2>2, ElsewhereStays
<1>7. Stays(d)
  BY <1>t, <1>5, ElsewhereStays
<1>8. CASE Leaving(d)' <=> Leaving(d)
  BY <1>1, <1>6, <1>7, <1>8, OthersStayMaps DEF Stays, Service!vars
<1>9. CASE ~Leaving(d)'
  <2>1. Service!Leave(d)
    BY <1>1, <1>6, <1>7, <1>9, OthersStayMaps DEF Stays, Service!Leave
  <2> QED
    BY <2>1 DEF Service!Next
<1>10. Leaving(d)' => Leaving(d)
  BY <1>t, <1>3, <1>5, ElsewhereStays DEF NoNewDraining
<1> QED
  BY <1>8, <1>9, <1>10

LEMMA CrashCrashes ==
  ASSUME StepKnows, Crash
  PROVE  Service!Next
<1>1. /\ rpc' = "idle" /\ ope' = None /\ estimateTargets' = {}
      /\ UNCHANGED est
  BY DEF Crash, Return, apiVars
<1>2. \A e \in Estimators : /\ Sending(e)' = {} /\ Held(e)' = {}
                            /\ Feed(e)' = <<>> /\ ~Leaving(e)'
  <2>1. \A e \in Estimators : Untargeted(e)' /\ ~Pending(e)'
    BY <1>1 DEF Untargeted, Pending
  <2> QED
    BY <2>1 DEF StepKnows, Views, Absent
<1>3. Service!Crash
  BY <1>1, <1>2 DEF Service!Crash, Service!Nobody
<1> QED
  BY <1>3 DEF Service!Next

(* The sender takes the oldest forecast on its way, or one that is leaving *)
(* does; what a goroutine of a removed Estimator receives is not missed.   *)
LEMMA CheckDataReceives ==
  ASSUME StepKnows, NEW g \in Goroutines, CheckData(g)
  PROVE  Service!Next \/ UNCHANGED Service!vars
<1> USE DEF apiVars, recVars, handVars, chanVars, gorVars
<1>t. /\ SenderInv /\ TypeOK /\ OwnChannels /\ Views /\ Views'
      /\ g \in Running /\ gtgt[g] \in Targets
      /\ ope # None => ope.op \in {"add", "update", "remove"}
  BY DEF StepKnows, ForecastInv, FlightInv, SenderInv, RunningHaveTarget,
         CheckData, Running, TypeOK, Operations
<1>0. PICK d \in Estimators, ch \in Channels : gtgt[g].id = d /\ gtgt[g].ch = ch
  BY <1>t DEF Targets
<1>1. UNCHANGED <<est, rpc, rkey, rspec, ope, estimateTargets, gtgt, stopped>>
  BY DEF CheckData
<1>2. \A c : Draining(c)' <=> Draining(c)
  BY <1>1 DEF Draining
<1>3. /\ Pending(d)' <=> Pending(d)
      /\ OperationPending(d, "add")' <=> OperationPending(d, "add")
      /\ OperationPending(d, "update")' <=> OperationPending(d, "update")
      /\ OperationPending(d, "remove")' <=> OperationPending(d, "remove")
      /\ Untargeted(d)' <=> Untargeted(d)
  BY <1>1 DEF Pending, OperationPending, Untargeted
<1>4. CASE buf[ch] = <<>>
  <2>1. UNCHANGED <<buf, data>>
    BY <1>0, <1>4 DEF CheckData
  <2>2. AllStay
    BY <1>t, <1>1, <2>1, MemoryStays DEF AllStay
  <2> QED
    BY <1>1, <2>2, AllStayMaps DEF Service!vars
<1>5. CASE buf[ch] # <<>>
  <2>1. PICK f : f = Head(buf[ch])
    OBVIOUS
  <2>2. /\ data'[g] = f /\ f # None
        /\ \A h \in Goroutines \ {g} : data'[h] = data[h]
        /\ buf'[ch] = Tail(buf[ch])
        /\ \A c \in Channels \ {ch} : buf'[c] = buf[c]
    <3>1. buf[ch] \in Seq(Forecasts)
      BY <1>t DEF TypeOK
    <3>2. f \in Forecasts
      BY <1>5, <2>1, <3>1, ReceiveType
    <3> QED
      BY <1>t, <1>0, <1>5, <2>1, <3>2, NothingAssumption DEF CheckData, TypeOK
  <2>3. OthersStay(d)
    <3> SUFFICES ASSUME NEW e \in Estimators \ {d}
                 PROVE  Stays(e) /\ (Leaving(e)' <=> Leaving(e))
      BY DEF OthersStay
    <3>1. ~Refers(e, ch)
      BY <1>t, <1>0 DEF OwnChannels, Refers
    <3>2. \A t \in estimateTargets : t.tgt.id = e => data'[t.g] = data[t.g]
      BY <1>t, <1>0, <2>2, TargetSender
    <3>3. Elsewhere(e) /\ SameDraining(e)
      BY <1>1, <1>2, <2>2, <3>1, <3>2 DEF Elsewhere, SameDraining
    <3> QED
      BY <1>t, <3>3, ElsewhereStays
  <2> DEFINE Unseen == Stays(d) /\ (Leaving(d)' <=> Leaving(d))
             Received == /\ Feed(d) = buf[ch] /\ Feed(d)' = buf'[ch]
                         /\ Sending(d)' = Sending(d)
                         /\ Leaving(d)' <=> Leaving(d)
                         /\ \/ Held(d)' = {f}
                            \/ Held(d)' = Held(d) /\ Leaving(d)
  <2>4. ASSUME Unseen PROVE UNCHANGED Service!vars
    BY <1>1, <2>3, <2>4, OthersStayMaps DEF Stays, Service!vars
  <2>5. ASSUME Received PROVE Service!Next
    <3>1. Service!Receive(d)
      <4>1. /\ [e \in Estimators |-> Feed(e)]' =
                  [[e \in Estimators |-> Feed(e)] EXCEPT ![d] = Tail(@)]
            /\ UNCHANGED <<[e \in Estimators |-> Sending(e)],
                           {e \in Estimators : Leaving(e)}>>
        BY <2>2, <2>3, <2>5, OthersStayMaps
      <4>2. [e \in Estimators |-> Feed(e)][d] # <<>>
        BY <1>5, <2>5
      <4> QED
        BY <1>1, <4>1, <4>2 DEF Service!Receive
    <3>2. CASE Held(d)' = {f}
      <4>1. [e \in Estimators |-> Held(e)]' =
                [[e \in Estimators |-> Held(e)] EXCEPT
                    ![d] = {Head([e \in Estimators |-> Feed(e)][d])}]
        BY <2>1, <2>3, <2>5, <3>2, OthersStayMaps
      <4>2. Service!Take(d)
        BY <3>1, <4>1 DEF Service!Take
      <4> QED
        BY <4>2 DEF Service!Next
    <3>3. CASE Held(d)' = Held(d) /\ Leaving(d)
      <4>1. UNCHANGED [e \in Estimators |-> Held(e)]
        BY <2>3, <3>3, OthersStayMaps
      <4>2. Service!Lose(d)
        BY <3>1, <3>3, <4>1 DEF Service!Lose
      <4> QED
        BY <4>2 DEF Service!Next
    <3> QED
      BY <2>5, <3>2, <3>3
  <2>6. ASSUME NEW k \in Channels, NEW specs, NEW holds,
               Shows(d, specs, holds, k), Shows(d, specs, holds, k)',
               k = ch => Leaving(d)
        PROVE  Unseen \/ Received
    <3>1. /\ Sending(d)' = Sending(d) /\ Held(d)' = Held(d)
          /\ Feed(d) = buf[k] /\ Feed(d)' = buf'[k]
          /\ Leaving(d)' <=> Leaving(d)
      BY <1>2, <1>3, <2>6 DEF Shows
    <3>2. CASE k = ch
      BY <2>6, <3>1, <3>2
    <3>3. CASE k # ch
      BY <2>2, <3>1, <3>3 DEF Stays
    <3> QED
      BY <3>2, <3>3
  <2>7. ASSUME NEW t \in estimateTargets, t.tgt.id = d, ~Pending(d)
        PROVE  Unseen \/ Received
    <3>1. /\ Senders(d) = {t.g} /\ gtgt[t.g] = t.tgt
          /\ t.g \in Goroutines /\ t.tgt.ch \in Channels
      BY <2>7, TargetSender, <1>t
    <3>2. Shows(d, {t.tgt.spec}, {data[t.g]} \ {None}, t.tgt.ch)
      BY <1>t, <2>7 DEF Views, Settled
    <3>3. Shows(d, {t.tgt.spec}, {data[t.g]} \ {None}, t.tgt.ch)'
      BY <1>t, <1>1, <1>3, <2>7 DEF Views, Settled
    <3>4. CASE t.g = g
      <4>1. t.tgt.ch = ch /\ {data'[t.g]} \ {None} = {f}
        BY <1>0, <2>2, <3>1, <3>4
      <4> QED
        BY <1>2, <1>3, <3>2, <3>3, <4>1 DEF Shows
    <3>5. CASE t.g # g
      <4>1. g \in stopped
        BY <1>t, <1>0, <3>1, <3>5 DEF Senders, Live
      <4>2. t.tgt.ch = ch => Leaving(d)
        BY <1>0, <3>2, <4>1 DEF Shows, Draining
      <4>3. PICK holds : holds = {data[t.g]} \ {None}
        OBVIOUS
      <4>4. /\ Shows(d, {t.tgt.spec}, holds, t.tgt.ch)
            /\ Shows(d, {t.tgt.spec}, holds, t.tgt.ch)'
        BY <2>2, <3>1, <3>2, <3>3, <3>5, <4>3
      <4> QED
        BY <2>6, <3>1, <4>2, <4>4
    <3> QED
      BY <3>4, <3>5
  <2>8. ASSUME NEW t \in estimateTargets, t.tgt.id = d,
               OperationPending(d, "update")
        PROVE  Unseen \/ Received
    <3>1. PICK specs : specs = {Patch(t.tgt.spec, ope.spec)}
      OBVIOUS
    <3>2. Shows(d, specs, {}, t.tgt.ch)
      BY <1>t, <2>8, <3>1 DEF Views, Updating
    <3>3. Shows(d, specs, {}, t.tgt.ch)'
      BY <1>t, <1>1, <1>3, <2>8, <3>1 DEF Views, Updating, Patch
    <3>4. t.tgt.ch \in Channels /\ Leaving(d)
      BY <1>t, <2>8, <3>2, TargetSender DEF Shows
    <3> QED
      BY <2>6, <3>2, <3>3, <3>4
  <2>9. ASSUME OperationPending(d, "add") PROVE Unseen \/ Received
    <3>1. PICK specs, k : specs = {ope.spec} /\ k = ope.ch
      OBVIOUS
    <3>2. Shows(d, specs, {}, k)
      BY <1>t, <2>9, <3>1 DEF Views, Adding
    <3>3. Shows(d, specs, {}, k)'
      BY <1>t, <1>1, <1>3, <2>9, <3>1 DEF Views, Adding
    <3>4. k \in Channels /\ Untargeted(d)
      BY <1>t, <2>9, <3>1 DEF SenderInv, MapsAgree, OperationWellFormed,
         OperationPending, TypeOK, Operations, Untargeted
    <3>5. g \in stopped
      BY <1>t, <1>0, <3>4, TargetSender DEF Senders, Live
    <3>6. k = ch => Leaving(d)
      BY <1>0, <3>2, <3>5 DEF Shows, Draining
    <3> QED
      BY <2>6, <3>2, <3>3, <3>4, <3>6
  <2>10. ASSUME OperationPending(d, "remove") \/ (Untargeted(d) /\ ~Pending(d))
         PROVE  Unseen
    BY <1>t, <1>3, <2>10 DEF Views, Absent, Stays
  <2>11. Untargeted(d) => ~OperationPending(d, "update")
    BY <1>t DEF SenderInv, MapsAgree, Untargeted
  <2> HIDE DEF Unseen, Received
  <2>12. \/ \E t \in estimateTargets :
               t.tgt.id = d /\ (~Pending(d) \/ OperationPending(d, "update"))
         \/ OperationPending(d, "add")
         \/ OperationPending(d, "remove") \/ (Untargeted(d) /\ ~Pending(d))
    BY <1>t, <2>11 DEF Pending, OperationPending, Untargeted
  <2>13. Unseen \/ Received
    BY <2>7, <2>8, <2>9, <2>10, <2>12
  <2> QED
    BY <2>4, <2>5, <2>13
<1> QED
  BY <1>4, <1>5

(***************************************************************************)
(* The theorem                                                             *)
(***************************************************************************)
LEMMA InitService == Init => Service!Init
<1> SUFFICES ASSUME Init PROVE Service!Init
  OBVIOUS
<1>1. /\ est = [e \in Estimators |-> None] /\ rpc = "idle"
      /\ ope = None /\ estimateTargets = {}
  BY DEF Init, MemoryInit
<1>2. Views
  BY InitSenderInv, ViewsHold
<1>3. \A e \in Estimators : /\ Sending(e) = {} /\ Held(e) = {}
                            /\ Feed(e) = <<>> /\ ~Leaving(e)
  BY <1>1, <1>2 DEF Views, Absent, Untargeted, Pending
<1> QED
  BY <1>1, <1>3 DEF Service!Init, Service!Nobody

LEMMA StepService ==
  ASSUME StepKnows, [Next]_vars
  PROVE  [Service!Next]_(Service!vars)
<1>1. CASE \/ Environment \/ ReadConfigMap \/ CreateConfigMap \/ ConfigMapFails
           \/ \E e \in Estimators : Begin(e)
           \/ \E g \in Goroutines : Timer(g)
           \/ UNCHANGED vars
  BY <1>1, WorldSteps
<1>2. CASE SendAdd \/ SendUpdate \/ SendRemove \/ PushData
  BY <1>2, SendAddStarts, SendUpdateChanges, SendRemoveStops, PushDataPushes
<1>3. CASE Handler
  <2>1. AllStay
    BY <1>3, HandleAddUnseen, HandleUpdateUnseen, HandleRemoveUnseen,
       HandleUnmatchedUnseen DEF Handler
  <2>2. UNCHANGED <<est, rpc, rkey, rspec>>
    BY <1>3 DEF Handler, HandleAdd, HandleUpdate, HandleRemove,
       HandleUnmatched,
                apiVars, recVars
  <2> QED
    BY <2>1, <2>2, AllStayMaps DEF Service!vars
<1>4. CASE \E g \in Goroutines : CheckData(g) \/ StopReceived(g)
  BY <1>4, CheckDataReceives, StopReceivedLeaves
<1>5. CASE Crash
  BY <1>5, CrashCrashes
<1> QED
  BY <1>1, <1>2, <1>3, <1>4, <1>5 DEF Next, Worker, Goroutine

(* The reconciler, the handler and the goroutines implement the service:   *)
(* whatever their steps interleave with, crashes included, each Estimator  *)
(* read is carried out at once, on one sender at most, with the settings   *)
(* it leaves open unchanged, and forecasts reach the sender in order.      *)
THEOREM ControllerImplementsService == Spec => ImplementsService
<1>1. ForecastInv => Views
  BY ViewsHold DEF ForecastInv
<1>2. ForecastInv /\ Views /\ Views' /\ [Next]_vars => [Service!Next]_(Service!vars)
  BY StepService DEF StepKnows
<1>3. Spec => Init /\ [][Next]_vars
  BY DEF Spec
<1> QED
  BY <1>1, <1>2, <1>3, ForecastInvariant, InitService, PTL
     DEF ImplementsService, Service!Spec
=============================================================================
