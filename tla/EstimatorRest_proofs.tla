------------------------ MODULE EstimatorRest_proofs ------------------------
(***************************************************************************)
(* What is true of EstimatorController at rest, for every value of its     *)
(* constants.                                                              *)
(***************************************************************************)
EXTENDS EstimatorController_proofs

(***************************************************************************)
(* The inductive invariant                                                 *)
(***************************************************************************)
WorksOn(e) == rpc # "idle" /\ rkey = e

(* Unless the Estimator is queued again, what the worker has read of it is *)
(* as it is.                                                               *)
Snapshot == rpc # "idle" /\ rkey \notin queue =>
    /\ rspec = est[rkey]
    /\ rpc \in {"ope", "push"} /\ rspec # None => rdata = cm[rkey]

(* The settings have reached the handler, or are on the way to it.         *)
SettingsSent(e) ==
    /\ estimatorChs[e] # None
    /\ IF ope # None /\ ope.id = e
       THEN ope.op # "remove" /\ ope.spec = est[e]
       ELSE \E t \in estimateTargets : t.tgt.id = e /\ Carries(t.tgt, est[e])

PushKnows == rpc = "push" /\ rkey \notin queue => SettingsSent(rkey)

(* Nothing is left to do for an Estimator that is neither queued nor being *)
(* reconciled.                                                             *)
Done(e) ==
    /\ est[e] = None => estimatorChs[e] = None
    /\ est[e] # None =>
          /\ cm[e] # None
          /\ SettingsSent(e)
          /\ cm[e] \in Forecasts => pushed[estimatorChs[e]] = cm[e]

Unqueued == \A e \in Estimators : e \notin queue /\ ~WorksOn(e) => Done(e)

RestInv == Snapshot /\ PushKnows /\ Unqueued

(***************************************************************************)
(* The settings on their way to the goroutine                              *)
(***************************************************************************)
(* Settings patched into a target are carried by it.                       *)
LEMMA PatchCarries ==
  ASSUME NEW tgt \in Targets, NEW spec \in Specs
  PROVE  Carries([tgt EXCEPT !.spec = Patch(tgt.spec, spec)], spec)
  BY DEF Carries, Patch, Targets, Specs

(* An operation under way is the only one of its Estimator, and a target   *)
(* that carries the settings is only replaced by one that does.            *)
LEMMA SettingsKept ==
  ASSUME SenderInv, NEW e \in Estimators, est[e] # None, est'[e] = est[e],
         SettingsSent(e),
         \/ UNCHANGED <<estimatorChs, ope, estimateTargets>>
         \/ \E d \in Estimators : Begin(d)
         \/ (SendRemove \/ SendAdd \/ SendUpdate) /\ rkey # e
         \/ Handler
  PROVE  SettingsSent(e)'
<1> USE DEF apiVars, recVars, handVars, chanVars, gorVars
<1>t. /\ TypeOK /\ MapsAgree /\ est[e] \in Specs
      /\ estimatorChs[e] # None
      /\ estimateTargets \subseteq [g : Goroutines, tgt : Targets]
  BY DEF SenderInv, TypeOK, SettingsSent
<1>1. CASE UNCHANGED <<estimatorChs, ope, estimateTargets>>
  BY <1>1 DEF SettingsSent
<1>2. ASSUME NEW d \in Estimators, Begin(d) PROVE SettingsSent(e)'
  <2>1. UNCHANGED <<ope, estimateTargets>> /\ estimatorChs'[e] = estimatorChs[e]
    BY <1>2, <1>t DEF Begin, Forget, TypeOK
  <2> QED
    BY <2>1 DEF SettingsSent
<1>3. CASE (SendRemove \/ SendAdd \/ SendUpdate) /\ rkey # e
  <2>1. /\ ope = None /\ ope'.id = rkey /\ UNCHANGED estimateTargets
    BY <1>3 DEF SendRemove, SendAdd, SendUpdate
  <2>2. estimatorChs'[e] = estimatorChs[e]
    <3>1. CASE SendAdd
      <4>1. \E ch \in Channels : estimatorChs' = [estimatorChs EXCEPT ![rkey] = ch]
        BY <3>1 DEF SendAdd
      <4> QED
        BY <1>3, <1>t, <4>1 DEF TypeOK
    <3>2. CASE SendRemove \/ SendUpdate
      BY <3>2 DEF SendRemove, SendUpdate
    <3> QED
      BY <1>3, <3>1, <3>2
  <2> QED
    BY <1>3, <2>1, <2>2 DEF SettingsSent
<1>4. ASSUME NEW g \in Goroutines, HandleAdd(g) PROVE SettingsSent(e)'
  <2>1. PICK new : new = [g |-> g, tgt |-> [id |-> ope.id, ch |-> ope.ch, spec |-> ope.spec]]
    OBVIOUS
  <2>2. /\ ope # None /\ ope' = None /\ UNCHANGED estimatorChs
        /\ estimateTargets' = estimateTargets \cup {new}
    BY <1>4, <2>1 DEF HandleAdd
  <2>3. CASE ope.id = e
    <3>1. new.tgt.id = e /\ new.tgt.spec = est[e]
      BY <2>1, <2>2, <2>3 DEF SettingsSent
    <3>2. Carries(new.tgt, est[e])
      BY <3>1 DEF Carries
    <3> QED
      BY <1>t, <2>2, <3>1, <3>2 DEF SettingsSent
  <2>4. CASE ope.id # e
    BY <1>t, <2>2, <2>4 DEF SettingsSent
  <2> QED
    BY <2>3, <2>4
<1>5. ASSUME NEW g \in Goroutines, HandleUpdate(g) PROVE SettingsSent(e)'
  <2>1. PICK t \in estimateTargets :
             /\ t.tgt.id = ope.id
             /\ StoreTarget(t, [g |-> g, tgt |-> Updated(t.tgt)])
    BY <1>5 DEF HandleUpdate
  <2>2. PICK new : new = [g |-> g, tgt |-> Updated(t.tgt)]
    OBVIOUS
  <2>3. /\ ope # None /\ ope' = None /\ UNCHANGED estimatorChs
        /\ estimateTargets' = (estimateTargets \ {t}) \cup {new}
    BY <1>5, <2>1, <2>2 DEF HandleUpdate, StoreTarget
  <2>4. CASE ope.id = e
    <3>1. ope.spec = est[e] /\ t.tgt \in Targets
      BY <1>t, <2>3, <2>4 DEF SettingsSent
    <3>2. /\ new.tgt = [t.tgt EXCEPT !.spec = Patch(t.tgt.spec, est[e])]
          /\ new.tgt.id = e
      BY <2>1, <2>2, <2>4, <3>1 DEF Updated, Targets
    <3>3. Carries(new.tgt, est[e])
      BY <1>t, <3>1, <3>2, PatchCarries
    <3> QED
      BY <1>t, <2>3, <3>2, <3>3 DEF SettingsSent
  <2>5. CASE ope.id # e
    <3>1. PICK u \in estimateTargets : u.tgt.id = e /\ Carries(u.tgt, est[e])
      BY <2>3, <2>5 DEF SettingsSent
    <3>2. u # t
      BY <2>1, <2>5, <3>1
    <3> QED
      BY <1>t, <2>3, <3>1, <3>2 DEF SettingsSent
  <2> QED
    BY <2>4, <2>5
<1>6. ASSUME HandleRemove PROVE SettingsSent(e)'
  <2>1. PICK t \in estimateTargets :
           t.tgt.id = ope.id /\ estimateTargets' = estimateTargets \ {t}
    BY <1>6 DEF HandleRemove
  <2>2. ope # None /\ ope.op = "remove" /\ ope' = None /\ UNCHANGED estimatorChs
    BY <1>6 DEF HandleRemove
  <2>3. PICK u \in estimateTargets : u.tgt.id = e /\ Carries(u.tgt, est[e])
    BY <2>2 DEF SettingsSent
  <2>4. u # t
    BY <2>1, <2>2, <2>3 DEF SettingsSent
  <2> QED
    BY <1>t, <2>1, <2>2, <2>3, <2>4 DEF SettingsSent
<1>7. ASSUME HandleUnmatched PROVE SettingsSent(e)'
  <2>1. /\ ope # None /\ ope.op \in {"update", "remove"} /\ ope' = None
        /\ \A t \in estimateTargets : t.tgt.id # ope.id
        /\ UNCHANGED <<estimatorChs, estimateTargets>>
    BY <1>7 DEF HandleUnmatched
  <2>2. ope.id # e
    BY <1>t, <2>1 DEF SettingsSent, MapsAgree, OperationPending
  <2> QED
    BY <1>t, <2>1, <2>2 DEF SettingsSent
<1> QED
  BY <1>1, <1>2, <1>3, <1>4, <1>5, <1>6, <1>7 DEF Handler

(* What is done for an Estimator stays done while it is left alone.        *)
LEMMA DoneKept ==
  ASSUME NEW e \in Estimators, Done(e), est'[e] = est[e], cm'[e] = cm[e],
         estimatorChs'[e] = estimatorChs[e],
         estimatorChs[e] # None => pushed'[estimatorChs[e]] = pushed[estimatorChs[e]],
         est[e] # None => SettingsSent(e)'
  PROVE  Done(e)'
  BY DEF Done, SettingsSent

(* An operation that carries the settings is on the way.                   *)
LEMMA OperationSent ==
  ASSUME SenderInv, SendAdd \/ SendUpdate, NEW e \in Estimators, rkey = e,
         rspec = est[e]
  PROVE  SettingsSent(e)'
<1>t. TypeOK /\ rkey \in Estimators /\ TypeOK'
  <2>1. TypeOK'
    BY SenderStep DEF SenderInv, Next, Worker
  <2> QED
    BY <2>1 DEF SenderInv, WorkerKnows, SendAdd, SendUpdate
<1>1. /\ ope' # None /\ ope'.id = rkey /\ ope'.op # "remove" /\ ope'.spec = rspec
      /\ UNCHANGED est /\ estimatorChs'[rkey] # None
  <2>1. CASE SendAdd
    <3>1. PICK ch \in Channels :
             /\ ope' = [op |-> "add", id |-> rkey, ch |-> ch, spec |-> rspec]
             /\ estimatorChs' = [estimatorChs EXCEPT ![rkey] = ch]
      BY <2>1 DEF SendAdd
    <3>2. ope' \in Operations /\ rspec # None /\ UNCHANGED est
      BY <1>t, <2>1, <3>1 DEF SendAdd, TypeOK, Operations, apiVars
    <3> QED
      BY <1>t, <3>1, <3>2, NothingAssumption DEF TypeOK
  <2>2. CASE SendUpdate
    <3>1. /\ ope' = [op |-> "update", id |-> rkey, ch |-> None, spec |-> rspec]
          /\ rspec # None /\ estimatorChs[rkey] # None
          /\ UNCHANGED <<est, estimatorChs>>
      BY <2>2 DEF SendUpdate, apiVars
    <3>2. ope' \in Operations
      BY <1>t, <3>1 DEF TypeOK, Operations
    <3> QED
      BY <3>1, <3>2, NothingAssumption
  <2> QED
    BY <2>1, <2>2
<1> QED
  BY <1>1 DEF SettingsSent

(***************************************************************************)
(* Every step keeps the invariant                                          *)
(***************************************************************************)
LEMMA RestStep == ASSUME ForecastInv, RestInv, Next PROVE RestInv'
<1> USE DEF apiVars, recVars, handVars, chanVars, gorVars
<1>t. /\ SenderInv /\ TypeOK /\ WorkerKnows /\ Snapshot /\ PushKnows /\ Unqueued
      /\ OwnChannels
      /\ Empty \notin Forecasts \cup {None} /\ None \notin Forecasts
  BY NothingAssumption DEF ForecastInv, FlightInv, SenderInv, RestInv
(* Somebody changes an object, which is queued. *)
<1>1. ASSUME NEW d \in Estimators,
             \/ ApplyEstimator(d) \/ DeleteEstimator(d) \/ DeleteConfigMap(d)
             \/ StoreForecast(d)
      PROVE  RestInv'
  <2>1. /\ queue' = queue \cup {d}
        /\ \A e \in Estimators \ {d} : est'[e] = est[e] /\ cm'[e] = cm[e]
        /\ UNCHANGED <<rpc, rkey, rspec, rdata, estimatorChs, ope,
                       estimateTargets, pushed>>
    BY <1>1, <1>t DEF ApplyEstimator, DeleteEstimator, DeleteConfigMap,
       StoreForecast, TypeOK
  <2>2. ASSUME NEW e \in Estimators \ {d}, SettingsSent(e) PROVE SettingsSent(e)'
    BY <2>1, <2>2 DEF SettingsSent
  <2>3. rpc # "idle" => rkey \in Estimators
    BY <1>t DEF WorkerKnows
  <2>4. Snapshot'
    BY <1>t, <2>1, <2>3 DEF Snapshot
  <2>5. PushKnows'
    <3> SUFFICES ASSUME rpc = "push", rkey \notin queue, rkey # d
                 PROVE  SettingsSent(rkey)'
      BY <2>1 DEF PushKnows
    <3>1. SettingsSent(rkey) /\ rkey \in Estimators \ {d}
      BY <1>t, <2>3 DEF PushKnows
    <3> QED
      BY <2>1, <3>1 DEF SettingsSent
  <2>6. ASSUME NEW e \in Estimators, e \notin queue', ~WorksOn(e)' PROVE Done(e)'
    <3>1. e # d /\ e \notin queue /\ ~WorksOn(e)
      BY <2>1, <2>6 DEF WorksOn
    <3>2. Done(e)
      BY <1>t, <3>1 DEF Unqueued
    <3>3. est[e] # None => SettingsSent(e)'
      BY <2>2, <3>1, <3>2 DEF Done
    <3> QED
      BY <2>1, <3>1, <3>2, <3>3, DoneKept
  <2> QED
    BY <2>4, <2>5, <2>6 DEF RestInv, Unqueued
(* A request is taken from the queue, and the Estimator read.              *)
<1>2. ASSUME NEW d \in Estimators, Begin(d) PROVE RestInv'
  <2>1. /\ rpc = "idle" /\ rpc' \in {"getcm", "ope"} /\ queue' = queue \ {d}
        /\ rkey' = d /\ rspec' = est[d]
        /\ est[d] = None <=> rpc' = "ope"
        /\ UNCHANGED <<est, cm, ope, estimateTargets, pushed>>
    BY <1>2 DEF Begin
  <2>2. \A e \in Estimators \ {d} : estimatorChs'[e] = estimatorChs[e]
    BY <1>2, <1>t DEF Begin, Forget, TypeOK
  <2>3. Snapshot' /\ PushKnows'
    BY <2>1 DEF Snapshot, PushKnows
  <2>4. ASSUME NEW e \in Estimators, e \notin queue', ~WorksOn(e)' PROVE Done(e)'
    <3>1. e # d /\ e \notin queue /\ ~WorksOn(e)
      BY <2>1, <2>4 DEF WorksOn
    <3>2. Done(e)
      BY <1>t, <3>1 DEF Unqueued
    <3>3. est[e] # None => SettingsSent(e)'
      BY <1>2, <1>t, <2>1, <3>2, SettingsKept DEF Done
    <3> QED
      BY <2>1, <2>2, <3>1, <3>2, <3>3, DoneKept
  <2> QED
    BY <2>3, <2>4 DEF RestInv, Unqueued
(* The ConfigMap is read, or created, which is an event.                   *)
<1>3. ASSUME ReadConfigMap \/ CreateConfigMap PROVE RestInv'
  <2>1. /\ rpc = "getcm" /\ rpc' = "ope" /\ rkey \in Estimators
        /\ \A e \in Estimators \ {rkey} : cm'[e] = cm[e]
        /\ \/ rdata' = cm[rkey] /\ cm' = cm /\ queue' = queue
           \/ queue' = queue \cup {rkey}
        /\ UNCHANGED <<est, rkey, rspec, estimatorChs, ope, estimateTargets, pushed>>
    BY <1>3, <1>t DEF ReadConfigMap, CreateConfigMap, TypeOK, WorkerKnows
  <2>2. Snapshot' /\ PushKnows'
    BY <1>t, <2>1 DEF Snapshot, PushKnows
  <2>3. ASSUME NEW e \in Estimators, e \notin queue', ~WorksOn(e)' PROVE Done(e)'
    <3>1. e # rkey /\ e \notin queue /\ ~WorksOn(e)
      BY <2>1, <2>3 DEF WorksOn
    <3>2. Done(e)
      BY <1>t, <3>1 DEF Unqueued
    <3>3. est[e] # None => SettingsSent(e)'
      BY <1>t, <2>1, <3>2, SettingsKept DEF Done
    <3> QED
      BY <2>1, <3>1, <3>2, <3>3, DoneKept
  <2> QED
    BY <2>2, <2>3 DEF RestInv, Unqueued
(* The error puts the request back.                                        *)
<1>4. ASSUME ConfigMapFails PROVE RestInv'
  <2>1. /\ rpc' = "idle" /\ queue' = queue \cup {rkey}
        /\ UNCHANGED <<est, cm, estimatorChs, ope, estimateTargets, pushed>>
    BY <1>4 DEF ConfigMapFails, ReturnError, Return
  <2>2. Snapshot' /\ PushKnows'
    BY <2>1 DEF Snapshot, PushKnows
  <2>3. ASSUME NEW e \in Estimators, e \notin queue', ~WorksOn(e)' PROVE Done(e)'
    <3>1. Done(e)
      BY <1>t, <2>1, <2>3 DEF Unqueued, WorksOn
    <3>2. est[e] # None => SettingsSent(e)'
      BY <1>t, <2>1, <3>1, SettingsKept DEF Done
    <3> QED
      BY <2>1, <3>1, <3>2, DoneKept
  <2> QED
    BY <2>2, <2>3 DEF RestInv, Unqueued
(* The removal is sent: the map has forgotten the channel before.          *)
<1>5. ASSUME SendRemove PROVE RestInv'
  <2>1. /\ rpc = "ope" /\ rspec = None /\ rpc' = "idle" /\ estimatorChs[rkey] = None
        /\ UNCHANGED <<est, cm, queue, estimatorChs, estimateTargets, pushed>>
    BY <1>5, <1>t DEF SendRemove, ReturnIgnoringNotFound, Return, WorkerKnows
  <2>2. Snapshot' /\ PushKnows'
    BY <2>1 DEF Snapshot, PushKnows
  <2>3. ASSUME NEW e \in Estimators, e \notin queue', ~WorksOn(e)' PROVE Done(e)'
    <3>1. CASE e = rkey
      <4>1. est'[e] = None /\ estimatorChs'[e] = None
        BY <1>t, <2>1, <2>3, <3>1 DEF Snapshot
      <4> QED
        BY <4>1 DEF Done
    <3>2. CASE e # rkey
      <4>1. Done(e)
        BY <1>t, <2>1, <2>3, <3>2 DEF Unqueued, WorksOn
      <4>2. est[e] # None => SettingsSent(e)'
        BY <1>5, <1>t, <2>1, <3>2, <4>1, SettingsKept DEF Done
      <4> QED
        BY <2>1, <4>1, <4>2, DoneKept
    <3> QED
      BY <3>1, <3>2
  <2> QED
    BY <2>2, <2>3 DEF RestInv, Unqueued
(* The settings are sent; if there is no forecast, that is all.            *)
<1>6. ASSUME SendAdd \/ SendUpdate PROVE RestInv'
  <2>1. /\ rpc = "ope" /\ rspec # None /\ rkey \in Estimators
        /\ UNCHANGED <<est, cm, queue, estimateTargets>>
    BY <1>6, <1>t DEF SendAdd, SendUpdate, WorkerKnows
  <2>2. \/ rdata = Empty /\ rpc' = "idle"
        \/ rdata # Empty /\ rpc' = "push" /\ UNCHANGED <<rkey, rspec, rdata>>
    BY <1>6 DEF SendAdd, SendUpdate, AfterOperation, Return, Locals
  <2>3. ASSUME NEW e \in Estimators, e = rkey, e \notin queue PROVE SettingsSent(e)'
    BY <1>6, <1>t, <2>1, <2>3, OperationSent DEF Snapshot
  <2>4. Snapshot'
    BY <1>t, <2>1, <2>2 DEF Snapshot
  <2>5. PushKnows'
    BY <2>1, <2>2, <2>3 DEF PushKnows, SettingsSent
  <2>6. ASSUME NEW e \in Estimators \ {rkey}
        PROVE  /\ estimatorChs'[e] = estimatorChs[e]
               /\ estimatorChs[e] # None =>
                     pushed'[estimatorChs[e]] = pushed[estimatorChs[e]]
    <3>1. CASE SendAdd
      <4>1. PICK ch \in Channels :
               /\ Fresh(ch)
               /\ estimatorChs' = [estimatorChs EXCEPT ![rkey] = ch]
               /\ pushed' = [pushed EXCEPT ![ch] = None]
        BY <3>1 DEF SendAdd
      <4>2. estimatorChs[e] # ch
        BY <4>1 DEF Fresh
      <4> QED
        BY <1>t, <4>1, <4>2 DEF TypeOK
    <3>2. CASE SendUpdate
      BY <3>2 DEF SendUpdate
    <3> QED
      BY <1>6, <3>1, <3>2
  <2>7. ASSUME NEW e \in Estimators, e \notin queue', ~WorksOn(e)' PROVE Done(e)'
    <3>1. CASE e = rkey
      <4>1. rdata = Empty
        BY <2>2, <2>7, <3>1 DEF WorksOn
      <4>2. cm'[e] = Empty /\ SettingsSent(e)'
        BY <1>t, <2>1, <2>3, <2>7, <3>1, <4>1 DEF Snapshot
      <4>3. estimatorChs'[e] # None /\ est'[e] # None
        BY <1>t, <2>1, <2>7, <3>1, <4>2 DEF Snapshot, SettingsSent
      <4> QED
        BY <1>t, <4>2, <4>3 DEF Done
    <3>2. CASE e # rkey
      <4>1. Done(e)
        BY <1>t, <2>1, <2>7, <3>2 DEF Unqueued, WorksOn
      <4>2. est[e] # None => SettingsSent(e)'
        BY <1>6, <1>t, <2>1, <3>2, <4>1, SettingsKept DEF Done
      <4> QED
        BY <2>1, <2>6, <3>2, <4>1, <4>2, DoneKept
    <3> QED
      BY <3>1, <3>2
  <2> QED
    BY <2>4, <2>5, <2>7 DEF RestInv, Unqueued
(* The forecast is pushed: no other Estimator has this channel.            *)
<1>7. ASSUME PushData PROVE RestInv'
  <2>1. /\ rpc = "push" /\ rpc' = "idle" /\ rkey \in Estimators
        /\ rspec # None /\ rdata \in Forecasts /\ estimatorChs[rkey] \in Channels
        /\ UNCHANGED <<est, cm, queue, estimatorChs, ope, estimateTargets>>
    BY <1>7, <1>t DEF PushData, Return, WorkerKnows, TypeOK
  <2>2. pushed' = [pushed EXCEPT ![estimatorChs[rkey]] = rdata]
    BY <1>7 DEF PushData
  <2>3. Snapshot' /\ PushKnows'
    BY <2>1 DEF Snapshot, PushKnows
  <2>4. ASSUME NEW e \in Estimators, e \notin queue', ~WorksOn(e)' PROVE Done(e)'
    <3>1. CASE e = rkey
      <4>1. rdata = cm[e] /\ est[e] # None /\ SettingsSent(e)
        BY <1>t, <2>1, <2>4, <3>1 DEF Snapshot, PushKnows
      <4>2. SettingsSent(e)'
        BY <1>t, <2>1, <4>1, SettingsKept
      <4>3. pushed'[estimatorChs'[e]] = cm'[e] /\ cm'[e] # None
        BY <1>t, <2>1, <2>2, <3>1, <4>1 DEF TypeOK
      <4> QED
        BY <2>1, <4>1, <4>2, <4>3 DEF Done
    <3>2. CASE e # rkey
      <4>1. Done(e)
        BY <1>t, <2>1, <2>4, <3>2 DEF Unqueued, WorksOn
      <4>2. est[e] # None => SettingsSent(e)'
        BY <1>t, <2>1, <4>1, SettingsKept DEF Done
      <4>3. estimatorChs[e] # estimatorChs[rkey]
        BY <1>t, <2>1, <3>2 DEF OwnChannels, Refers
      <4>4. estimatorChs[e] # None =>
               pushed'[estimatorChs[e]] = pushed[estimatorChs[e]]
        BY <1>t, <2>1, <2>2, <4>3 DEF TypeOK
      <4> QED
        BY <2>1, <4>1, <4>2, <4>4, DoneKept
    <3> QED
      BY <3>1, <3>2
  <2> QED
    BY <2>3, <2>4 DEF RestInv, Unqueued
(* The handler and the goroutines work on what was sent.                   *)
<1>8. ASSUME Handler \/ \E g \in Goroutines : Goroutine(g) PROVE RestInv'
  <2>1. UNCHANGED <<est, cm, queue, rpc, rkey, rspec, rdata, estimatorChs, pushed>>
    BY <1>8 DEF Handler, HandleAdd, HandleUpdate, HandleRemove,
       HandleUnmatched,
       Goroutine, Timer, CheckData, StopReceived, EndGoroutine
  <2>2. Handler \/ UNCHANGED <<estimatorChs, ope, estimateTargets>>
    BY <1>8 DEF Goroutine, Timer, CheckData, StopReceived, EndGoroutine
  <2>3. ASSUME NEW e \in Estimators, est[e] # None, SettingsSent(e)
        PROVE  SettingsSent(e)'
    BY <1>t, <2>1, <2>2, <2>3, SettingsKept
  <2>4. Snapshot'
    BY <1>t, <2>1 DEF Snapshot
  <2>5. PushKnows'
    <3> SUFFICES ASSUME rpc = "push", rkey \notin queue PROVE SettingsSent(rkey)'
      BY <2>1 DEF PushKnows
    <3>1. SettingsSent(rkey) /\ est[rkey] # None /\ rkey \in Estimators
      BY <1>t DEF PushKnows, Snapshot, WorkerKnows
    <3>2. \A e \in Estimators : e = rkey => SettingsSent(e)'
      BY <2>3, <3>1
    <3> QED
      BY <2>1, <3>1, <3>2 DEF SettingsSent
  <2>6. ASSUME NEW e \in Estimators, e \notin queue', ~WorksOn(e)' PROVE Done(e)'
    <3>1. Done(e)
      BY <1>t, <2>1, <2>6 DEF Unqueued, WorksOn
    <3>2. est[e] # None => SettingsSent(e)'
      BY <2>3, <3>1 DEF Done
    <3> QED
      BY <2>1, <3>1, <3>2, DoneKept
  <2> QED
    BY <2>4, <2>5, <2>6 DEF RestInv, Unqueued
(* After a crash everything that exists is queued.                         *)
<1>9. ASSUME Crash PROVE RestInv'
  <2>1. /\ rpc' = "idle" /\ estimatorChs' = [e \in Estimators |-> None]
        /\ queue' = {e \in Estimators : est[e] # None \/ cm[e] # None}
        /\ UNCHANGED est
    BY <1>9 DEF Crash, Return
  <2> QED
    BY <2>1 DEF RestInv, Snapshot, PushKnows, Unqueued, Done
<1> QED
  BY <1>1, <1>2, <1>3, <1>4, <1>5, <1>6, <1>7, <1>8, <1>9
     DEF Next, Environment, Worker

LEMMA RestStutter == ASSUME RestInv, UNCHANGED vars PROVE RestInv'
<1> USE DEF vars, apiVars, recVars, handVars, chanVars
<1>1. \A e : SettingsSent(e)' <=> SettingsSent(e)
  BY DEF SettingsSent
<1>2. \A e : Done(e)' <=> Done(e)
  BY <1>1 DEF Done
<1>3. Snapshot' /\ Unqueued'
  BY <1>2 DEF RestInv, Snapshot, Unqueued, WorksOn
<1>4. PushKnows'
  BY DEF RestInv, PushKnows, SettingsSent
<1> QED
  BY <1>3, <1>4 DEF RestInv

(***************************************************************************)
(* The theorems                                                            *)
(***************************************************************************)
(* Whatever is not queued or being reconciled has been brought up to date. *)
THEOREM RestInvariant == Spec => [](ForecastInv /\ RestInv)
<1>1. Init => RestInv
  BY DEF Init, MemoryInit, RestInv, Snapshot, PushKnows, Unqueued, Done
<1>2. ForecastInv /\ RestInv /\ [Next]_vars => RestInv'
  BY RestStep, RestStutter
<1> QED
  BY <1>1, <1>2, ForecastInvariant, PTL DEF Spec

(* At rest the map, the slice and the live goroutines tell of the same     *)
(* Estimators.                                                             *)
LEMMA AtRest ==
  ASSUME ForecastInv, RestInv, Quiescent
  PROVE  /\ \A e \in Estimators : Done(e)
         /\ \A g \in Live : /\ gtgt[g].id \in Estimators
                            /\ estimatorChs[gtgt[g].id] = gtgt[g].ch
                            /\ gtgt[g].ch # None
<1>1. \A e \in Estimators : Done(e)
  BY DEF Quiescent, RestInv, Unqueued, WorksOn
<1>2. ASSUME NEW g \in Live
      PROVE  /\ gtgt[g].id \in Estimators
             /\ estimatorChs[gtgt[g].id] = gtgt[g].ch
             /\ gtgt[g].ch # None
  <2> DEFINE e == gtgt[g].id
             t == [g |-> g, tgt |-> gtgt[g]]
  <2>1. t \in estimateTargets /\ t.tgt.id = e /\ t.tgt.ch = gtgt[g].ch
    BY DEF ForecastInv, SenderInv, TargetsAreLive
  <2>2. e \in Estimators /\ gtgt[g].ch \in Channels
    BY RunningFlights DEF ForecastInv, Live
  <2>3. estimatorChs[e] # None
    BY <2>1, <2>2
       DEF ForecastInv, SenderInv, MapsAgree, Quiescent, RemovalPending
  <2>4. TargetOf(e, estimatorChs[e])
    BY <2>2, <2>3
       DEF ForecastInv, SenderInv, MapsAgree, Quiescent, OperationPending
  <2> HIDE DEF e, t
  <2>5. estimatorChs[e] = gtgt[g].ch
    BY <2>1, <2>4 DEF ForecastInv, SenderInv, UniqueTargets, TargetOf
  <2> QED
    BY <2>2, <2>3, <2>5 DEF e
<1> QED
  BY <1>1, <1>2

(* At rest the Estimators that exist are the ones estimated, each with the *)
(* settings of its spec and a ConfigMap, after any number of changes,      *)
(* failures and crashes.                                                   *)
THEOREM RestConverges == Spec => []QuiescentConverged
<1>1. ForecastInv /\ RestInv => QuiescentConverged
  <2> SUFFICES ASSUME ForecastInv, RestInv, Quiescent, NEW e \in Estimators
               PROVE  /\ est[e] = None => \A g \in Live : gtgt[g].id # e
                      /\ est[e] # None =>
                            /\ cm[e] # None
                            /\ \E g \in Live : /\ gtgt[g].id = e
                                               /\ Carries(gtgt[g], est[e])
    BY DEF QuiescentConverged
  <2>1. CASE est[e] = None
    BY <2>1, AtRest DEF Done
  <2>2. CASE est[e] # None
    <3>1. cm[e] # None /\ SettingsSent(e)
      BY <2>2, AtRest DEF Done
    <3>2. PICK t \in estimateTargets : t.tgt.id = e /\ Carries(t.tgt, est[e])
      BY <3>1 DEF SettingsSent, Quiescent
    <3>3. t.g \in Live /\ gtgt[t.g] = t.tgt
      BY DEF ForecastInv, SenderInv, TargetsAreLive
    <3> QED
      BY <2>2, <3>1, <3>2, <3>3
  <2> QED
    BY <2>1, <2>2
<1> QED
  BY <1>1, RestInvariant, PTL

(* At rest the last forecast pushed to an Estimator's goroutines is the    *)
(* one its ConfigMap holds.                                                *)
THEOREM LastPushIsNewest == Spec => []LastPushedIsCurrent
<1>1. ForecastInv /\ RestInv => LastPushedIsCurrent
  <2> SUFFICES ASSUME ForecastInv, RestInv, Quiescent, NEW g \in Live,
                      cm[gtgt[g].id] \in Forecasts
               PROVE  pushed[gtgt[g].ch] = cm[gtgt[g].id]
    BY DEF LastPushedIsCurrent
  <2> QED
    BY AtRest DEF Done
<1> QED
  BY <1>1, RestInvariant, PTL
=============================================================================
