--------------------- MODULE EstimatorController_proofs ---------------------
(***************************************************************************)
(* Theorems about EstimatorController, for every value of its constants:   *)
(* who works on an Estimator, and where forecasts get to.  They reach no   *)
(* goroutine of another Estimator, and no goroutine an older one after a   *)
(* newer one.                                                              *)
(***************************************************************************)
EXTENDS EstimatorController, TLAPS

(* The initial state is well typed. *)
LEMMA InitTypeOK == ASSUME Init PROVE TypeOK
  BY ConstantsAssumption DEF Init, MemoryInit, TypeOK, ConstantsAssumption

(* A patched spec is a spec (updateEstimateTarget). *)
LEMMA PatchType ==
  ASSUME NEW base \in Specs, NEW patch \in Specs
  PROVE  Patch(base, patch) \in Specs
  BY DEF Specs, Patch

(* Receiving from a channel that is not empty gives an element and leaves   *)
(* a sequence of them.                                                      *)
LEMMA ReceiveType ==
  ASSUME NEW S, NEW q \in Seq(S), q # <<>>
  PROVE  Head(q) \in S /\ Tail(q) \in Seq(S)
  OBVIOUS

(* A step keeps the types, given what the worker and the handler know.      *)
LEMMA TypeStep ==
  ASSUME TypeOK, RunningHaveTarget, WorkerKnows, OperationWellFormed, [Next]_vars
  PROVE  TypeOK'
<1> USE ConstantsAssumption DEF ConstantsAssumption, TypeOK,
   RunningHaveTarget, WorkerKnows, OperationWellFormed, apiVars, recVars,
   handVars, chanVars, gorVars
<1>1. ASSUME NEW e \in Estimators, ApplyEstimator(e) PROVE TypeOK'
  BY <1>1 DEF ApplyEstimator
<1>2. ASSUME NEW e \in Estimators, DeleteEstimator(e) PROVE TypeOK'
  BY <1>2 DEF DeleteEstimator
<1>3. ASSUME NEW e \in Estimators, DeleteConfigMap(e) PROVE TypeOK'
  BY <1>3 DEF DeleteConfigMap
<1>4. ASSUME NEW e \in Estimators, StoreForecast(e) PROVE TypeOK'
  <2>1. [est |-> e, ver |-> version'] \in Forecasts
    BY <1>4 DEF StoreForecast, Forecasts
  <2> QED
    BY <1>4, <2>1 DEF StoreForecast
<1>5. ASSUME NEW e \in Estimators, Begin(e) PROVE TypeOK'
  BY <1>5 DEF Begin, Forget
<1>6. ASSUME ReadConfigMap PROVE TypeOK'
  BY <1>6 DEF ReadConfigMap
<1>7. ASSUME CreateConfigMap PROVE TypeOK'
  BY <1>7 DEF CreateConfigMap
<1>8. ASSUME ConfigMapFails PROVE TypeOK'
  BY <1>8 DEF ConfigMapFails, ReturnError, Return
<1>9. ASSUME SendRemove PROVE TypeOK'
  BY <1>9 DEF SendRemove, ReturnIgnoringNotFound, Return, Operations
<1>10. ASSUME SendAdd PROVE TypeOK'
  BY <1>10 DEF SendAdd, AfterOperation, Return, Locals, Operations
<1>11. ASSUME SendUpdate PROVE TypeOK'
  BY <1>11 DEF SendUpdate, AfterOperation, Return, Locals, Operations
<1>12. ASSUME PushData PROVE TypeOK'
  BY <1>12 DEF PushData, Return, Pushed
<1>13. ASSUME NEW g \in Goroutines, HandleAdd(g) PROVE TypeOK'
  BY <1>13 DEF HandleAdd, StartGoroutine, Operations, Targets
<1>14. ASSUME NEW g \in Goroutines, HandleUpdate(g) PROVE TypeOK'
  <2>1. ope.spec \in Specs
    BY <1>14 DEF HandleUpdate, Operations
  <2>2. PICK t \in estimateTargets :
             /\ CloseStopCh(t)
             /\ StartGoroutine(g, Updated(t.tgt))
             /\ StoreTarget(t, [g |-> g, tgt |-> Updated(t.tgt)])
    BY <1>14 DEF HandleUpdate
  <2>3. Updated(t.tgt) \in Targets
    <3>1. t.tgt \in Targets
      OBVIOUS
    <3>2. Patch(t.tgt.spec, ope.spec) \in Specs
      BY <2>1, <3>1, PatchType DEF Targets
    <3> QED
      BY <3>1, <3>2 DEF Updated, Targets
  <2>4. estimateTargets' \in SUBSET [g : Goroutines, tgt : Targets]
    BY <2>2, <2>3 DEF StoreTarget
  <2>5. gtgt' \in [Goroutines -> Targets \cup {None}]
    BY <2>2, <2>3 DEF StartGoroutine
  <2>6. gpc' \in [Goroutines -> {"none", "select", "body"}]
    BY <2>2 DEF StartGoroutine
  <2>7. stopped' \in SUBSET Goroutines
    BY <2>2 DEF CloseStopCh
  <2> QED
    BY <1>14, <2>4, <2>5, <2>6, <2>7 DEF HandleUpdate
<1>15. ASSUME HandleRemove PROVE TypeOK'
  BY <1>15 DEF HandleRemove, CloseStopCh
<1>16. ASSUME HandleUnmatched PROVE TypeOK'
  BY <1>16 DEF HandleUnmatched
<1>17. ASSUME NEW g \in Goroutines, Timer(g) PROVE TypeOK'
  BY <1>17 DEF Timer
<1>18. ASSUME NEW g \in Goroutines, CheckData(g) PROVE TypeOK'
  <2> DEFINE ch == gtgt[g].ch
  <2>1. ch \in Channels
    BY <1>18 DEF CheckData, Targets
  <2>2. CASE buf[ch] = <<>>
    BY <1>18, <2>2 DEF CheckData
  <2>3. CASE buf[ch] # <<>>
    <3>1. Head(buf[ch]) \in Forecasts /\ Tail(buf[ch]) \in Seq(Forecasts)
      BY <2>1, <2>3, ReceiveType
    <3>2. /\ data' = [data EXCEPT ![g] = Head(buf[ch])]
          /\ buf' = [buf EXCEPT ![ch] = Tail(buf[ch])]
      BY <1>18, <2>1, <2>3 DEF CheckData
    <3> QED
      BY <1>18, <2>1, <3>1, <3>2 DEF CheckData
  <2> QED
    BY <2>2, <2>3
<1>19. ASSUME NEW g \in Goroutines, StopReceived(g) PROVE TypeOK'
  BY <1>19 DEF StopReceived, EndGoroutine
<1>20. ASSUME Crash PROVE TypeOK'
  BY <1>20 DEF Crash, Return
<1>21. CASE UNCHANGED vars
  BY <1>21 DEF vars
<1>q. QED
  BY <1>1, <1>2, <1>3, <1>4, <1>5, <1>6, <1>7, <1>8, <1>9, <1>10, <1>11,
     <1>12, <1>13, <1>14, <1>15, <1>16, <1>17, <1>18, <1>19, <1>20, <1>21 DEF
     Next, Environment, Worker, Handler, Goroutine
(* Every step preserves the inductive invariant.  Two actions carry the     *)
(* argument: SendAdd, which may only add when no target of the key is left, *)
(* and HandleUpdate, which swaps one live goroutine for another.            *)
LEMMA SenderStep == ASSUME SenderInv, [Next]_vars PROVE SenderInv'
<1> USE ConstantsAssumption DEF ConstantsAssumption, SenderInv, apiVars,
   recVars, handVars, chanVars, gorVars
<1> DEFINE Rest == UniqueTargets /\ RunningHaveTarget /\ TargetsAreLive
                     /\ WorkerKnows /\ OperationWellFormed /\ MapsAgree
<1>t. TypeOK'
  BY TypeStep
<1>1. ASSUME NEW e \in Estimators,
             ApplyEstimator(e) \/ DeleteEstimator(e) \/ DeleteConfigMap(e)
               \/ StoreForecast(e)
      PROVE  Rest'
  BY <1>1 DEF ApplyEstimator, DeleteEstimator, DeleteConfigMap, StoreForecast,
     UniqueTargets, RunningHaveTarget, TargetsAreLive, Live, Running,
     WorkerKnows, OperationWellFormed, MapsAgree, TargetOf, RemovalPending,
     OperationPending
<1>2. ASSUME NEW e \in Estimators, Begin(e) PROVE Rest'
  <2>1. UniqueTargets'
    BY <1>2, <1>t DEF Begin, Forget, UniqueTargets, TargetsAreLive, Live,
       Running, MapsAgree, TargetOf, OperationPending, RemovalPending, TypeOK
  <2>2. RunningHaveTarget'
    BY <1>2, <1>t DEF Begin, Forget, RunningHaveTarget, TargetsAreLive, Live,
       Running, TypeOK, Targets, OperationWellFormed, Operations
  <2>3. TargetsAreLive'
    BY <1>2, <1>t DEF Begin, Forget, TargetsAreLive, Live, Running, TypeOK,
       RunningHaveTarget, UniqueTargets
  <2>4. WorkerKnows'
    BY <1>2, <1>t DEF Begin, Forget, WorkerKnows, TypeOK
  <2>5. OperationWellFormed'
    <3>1. \A f \in Estimators :
             estimatorChs[f] = None => estimatorChs'[f] = None
      BY <1>2 DEF Begin, Forget, TypeOK
    <3>2. ope # None => ope.id \in Estimators
      BY DEF TypeOK, Operations
    <3>3. UNCHANGED ope
      BY <1>2 DEF Begin
    <3> QED
      BY <3>1, <3>2, <3>3 DEF OperationWellFormed
  <2>6. MapsAgree'
    <3>1. /\ rpc = "idle" /\ rkey' = e
          /\ UNCHANGED <<ope, estimateTargets>>
      BY <1>2 DEF Begin
    <3>2. \A f \in Estimators : RemovalPending(f) => RemovalPending(f)'
      BY <3>1 DEF RemovalPending
    <3>3. CASE est[e] = None
      <4>1. /\ RemovalPending(e)' /\ estimatorChs'[e] = None
            /\ \A f \in Estimators \ {e} : estimatorChs'[f] = estimatorChs[f]
        BY <1>2, <3>3 DEF Begin, Forget, RemovalPending, TypeOK
      <4> QED
        BY <3>1, <3>2, <4>1 DEF MapsAgree, TargetOf, OperationPending
    <3>4. CASE est[e] # None
      <4>1. UNCHANGED estimatorChs
        BY <1>2, <3>4 DEF Begin
      <4> QED
        BY <3>1, <3>2, <4>1 DEF MapsAgree, TargetOf, OperationPending
    <3> QED
      BY <3>3, <3>4
  <2> QED
    BY <2>1, <2>2, <2>3, <2>4, <2>5, <2>6
<1>3. ASSUME ReadConfigMap PROVE Rest'
  <2>1. UniqueTargets'
    BY <1>3, <1>t DEF ReadConfigMap, UniqueTargets, TargetsAreLive, Live,
       Running, MapsAgree, TargetOf, OperationPending, RemovalPending, TypeOK
  <2>2. RunningHaveTarget'
    BY <1>3, <1>t DEF ReadConfigMap, RunningHaveTarget, TargetsAreLive, Live,
       Running, TypeOK, Targets, OperationWellFormed, Operations
  <2>3. TargetsAreLive'
    BY <1>3, <1>t DEF ReadConfigMap, TargetsAreLive, Live, Running, TypeOK,
       RunningHaveTarget, UniqueTargets
  <2>4. WorkerKnows'
    BY <1>3, <1>t DEF ReadConfigMap, WorkerKnows, TypeOK
  <2>5. OperationWellFormed'
    BY <1>3, <1>t DEF ReadConfigMap, OperationWellFormed, WorkerKnows, TypeOK
  <2>6. MapsAgree'
    BY <1>3, <1>t DEF ReadConfigMap, MapsAgree, TargetOf, RemovalPending,
       OperationPending, OperationWellFormed, WorkerKnows, UniqueTargets,
       TypeOK, Operations
  <2> QED
    BY <2>1, <2>2, <2>3, <2>4, <2>5, <2>6
<1>4. ASSUME CreateConfigMap PROVE Rest'
  <2>1. UniqueTargets'
    BY <1>4, <1>t DEF CreateConfigMap, UniqueTargets, TargetsAreLive, Live,
       Running, MapsAgree, TargetOf, OperationPending, RemovalPending, TypeOK
  <2>2. RunningHaveTarget'
    BY <1>4, <1>t DEF CreateConfigMap, RunningHaveTarget, TargetsAreLive,
       Live, Running, TypeOK, Targets, OperationWellFormed, Operations
  <2>3. TargetsAreLive'
    BY <1>4, <1>t DEF CreateConfigMap, TargetsAreLive, Live, Running, TypeOK,
       RunningHaveTarget, UniqueTargets
  <2>4. WorkerKnows'
    BY <1>4, <1>t DEF CreateConfigMap, WorkerKnows, TypeOK
  <2>5. OperationWellFormed'
    BY <1>4, <1>t DEF CreateConfigMap, OperationWellFormed, WorkerKnows, TypeOK
  <2>6. MapsAgree'
    BY <1>4, <1>t DEF CreateConfigMap, MapsAgree, TargetOf, RemovalPending,
       OperationPending, OperationWellFormed, WorkerKnows, UniqueTargets,
       TypeOK, Operations
  <2> QED
    BY <2>1, <2>2, <2>3, <2>4, <2>5, <2>6
<1>5. ASSUME ConfigMapFails PROVE Rest'
  <2>1. UniqueTargets'
    BY <1>5, <1>t DEF ConfigMapFails, ReturnError, Return, UniqueTargets,
       TargetsAreLive, Live, Running, MapsAgree, TargetOf, OperationPending,
       RemovalPending, TypeOK
  <2>2. RunningHaveTarget'
    BY <1>5, <1>t DEF ConfigMapFails, ReturnError, Return, RunningHaveTarget,
       TargetsAreLive, Live, Running, TypeOK, Targets, OperationWellFormed,
       Operations
  <2>3. TargetsAreLive'
    BY <1>5, <1>t DEF ConfigMapFails, ReturnError, Return, TargetsAreLive,
       Live, Running, TypeOK, RunningHaveTarget, UniqueTargets
  <2>4. WorkerKnows'
    BY <1>5, <1>t DEF ConfigMapFails, ReturnError, Return, WorkerKnows, TypeOK
  <2>5. OperationWellFormed'
    BY <1>5, <1>t DEF ConfigMapFails, ReturnError, Return,
       OperationWellFormed, WorkerKnows, TypeOK
  <2>6. MapsAgree'
    BY <1>5, <1>t DEF ConfigMapFails, ReturnError, Return, MapsAgree,
       TargetOf, RemovalPending, OperationPending, OperationWellFormed,
       WorkerKnows, UniqueTargets, TypeOK, Operations
  <2> QED
    BY <2>1, <2>2, <2>3, <2>4, <2>5, <2>6
<1>6. ASSUME SendRemove PROVE Rest'
  <2>1. UniqueTargets'
    BY <1>6, <1>t DEF SendRemove, ReturnIgnoringNotFound, Return,
       UniqueTargets, TargetsAreLive, Live, Running, MapsAgree, TargetOf,
       OperationPending, RemovalPending, TypeOK
  <2>2. RunningHaveTarget'
    BY <1>6, <1>t DEF SendRemove, ReturnIgnoringNotFound, Return,
       RunningHaveTarget, TargetsAreLive, Live, Running, TypeOK, Targets,
       OperationWellFormed, Operations
  <2>3. TargetsAreLive'
    BY <1>6, <1>t DEF SendRemove, ReturnIgnoringNotFound, Return,
       TargetsAreLive, Live, Running, TypeOK, RunningHaveTarget, UniqueTargets
  <2>4. WorkerKnows'
    BY <1>6, <1>t DEF SendRemove, ReturnIgnoringNotFound, Return, WorkerKnows,
       TypeOK
  <2>5. OperationWellFormed'
    BY <1>6, <1>t DEF SendRemove, ReturnIgnoringNotFound, Return,
       OperationWellFormed, WorkerKnows, TypeOK
  <2>6. MapsAgree'
    <3>1. /\ ope = None /\ rpc = "ope" /\ rspec = None /\ rpc' = "idle"
          /\ ope'.op = "remove" /\ ope'.id = rkey
          /\ UNCHANGED <<estimatorChs, estimateTargets>>
      BY <1>6 DEF SendRemove, ReturnIgnoringNotFound, Return
    <3>2. estimatorChs[rkey] = None
      BY <3>1 DEF WorkerKnows
    <3>3. ope' # None
      BY <1>t, <1>6, NothingAssumption DEF SendRemove, WorkerKnows, Operations
    <3> QED
      BY <3>1, <3>2, <3>3 DEF MapsAgree, TargetOf, RemovalPending,
         OperationPending
  <2> QED
    BY <2>1, <2>2, <2>3, <2>4, <2>5, <2>6
<1>7. ASSUME SendAdd PROVE Rest'
  <2>1. UniqueTargets'
    BY <1>7, <1>t DEF SendAdd, AfterOperation, Return, Locals, Fresh,
       UniqueTargets, TargetsAreLive, Live, Running, MapsAgree, TargetOf,
       OperationPending, RemovalPending, TypeOK
  <2>2. RunningHaveTarget'
    BY <1>7, <1>t DEF SendAdd, AfterOperation, Return, Locals, Fresh,
       RunningHaveTarget, TargetsAreLive, Live, Running, TypeOK, Targets,
       OperationWellFormed, Operations
  <2>3. TargetsAreLive'
    BY <1>7, <1>t DEF SendAdd, AfterOperation, Return, Locals, Fresh,
       TargetsAreLive, Live, Running, TypeOK, RunningHaveTarget, UniqueTargets
  <2>4. WorkerKnows'
    BY <1>7, <1>t DEF SendAdd, AfterOperation, Return, Locals, Fresh,
       WorkerKnows, TypeOK
  <2>5. OperationWellFormed'
    BY <1>7, <1>t DEF SendAdd, AfterOperation, Return, Locals, Fresh,
       OperationWellFormed, WorkerKnows, TypeOK
  <2>6. MapsAgree'
    <3>1. PICK ch \in Channels :
             /\ ope' = [op |-> "add", id |-> rkey, ch |-> ch, spec |-> rspec]
             /\ estimatorChs' = [estimatorChs EXCEPT ![rkey] = ch]
      BY <1>7 DEF SendAdd
    <3>2. /\ ope = None /\ rpc = "ope" /\ rspec # None /\ rkey \in Estimators
          /\ estimatorChs[rkey] = None /\ UNCHANGED estimateTargets
          /\ rpc' \in {"idle", "push"}
      BY <1>7 DEF SendAdd, AfterOperation, Return, WorkerKnows
    <3>3. \A t \in estimateTargets : t.tgt.id # rkey
      BY <3>2 DEF MapsAgree, RemovalPending
    <3>4. /\ ope' # None /\ ope'.op = "add" /\ ope'.id = rkey /\ ope'.ch = ch
          /\ estimatorChs'[rkey] = ch
          /\ \A f \in Estimators \ {rkey} : estimatorChs'[f] = estimatorChs[f]
      <4>1. ope' \in Operations
        BY <3>1, <3>2 DEF Operations, TypeOK
      <4> QED
        BY <1>t, <3>1, <3>2, <4>1, NothingAssumption DEF TypeOK
    <3>5. ASSUME NEW f \in Estimators \ {rkey} PROVE ~RemovalPending(f)
      BY <3>2 DEF RemovalPending
    <3>6. \A f \in Estimators : ~RemovalPending(f)'
      BY <3>2, <3>4 DEF RemovalPending
    <3>7. \A f \in Estimators \ {rkey} : \A kind : ~OperationPending(f, kind)'
      BY <3>4 DEF OperationPending
    <3>8. ASSUME NEW f \in Estimators \ {rkey}
          PROVE  /\ estimatorChs'[f] # None => TargetOf(f, estimatorChs[f])'
                 /\ estimatorChs'[f] = None =>
                        \A t \in estimateTargets' : t.tgt.id # f
      BY <3>2, <3>4, <3>5 DEF MapsAgree, TargetOf, OperationPending
    <3>9. ch # None
      BY NothingAssumption
    <3> QED
      BY <3>2, <3>3, <3>4, <3>7, <3>8, <3>9 DEF MapsAgree, OperationPending
  <2> QED
    BY <2>1, <2>2, <2>3, <2>4, <2>5, <2>6
<1>8. ASSUME SendUpdate PROVE Rest'
  <2>1. UniqueTargets'
    BY <1>8, <1>t DEF SendUpdate, AfterOperation, Return, Locals,
       UniqueTargets, TargetsAreLive, Live, Running, MapsAgree, TargetOf,
       OperationPending, RemovalPending, TypeOK
  <2>2. RunningHaveTarget'
    BY <1>8, <1>t DEF SendUpdate, AfterOperation, Return, Locals,
       RunningHaveTarget, TargetsAreLive, Live, Running, TypeOK, Targets,
       OperationWellFormed, Operations
  <2>3. TargetsAreLive'
    BY <1>8, <1>t DEF SendUpdate, AfterOperation, Return, Locals,
       TargetsAreLive, Live, Running, TypeOK, RunningHaveTarget, UniqueTargets
  <2>4. WorkerKnows'
    BY <1>8, <1>t DEF SendUpdate, AfterOperation, Return, Locals, WorkerKnows,
       TypeOK
  <2>5. OperationWellFormed'
    BY <1>8, <1>t DEF SendUpdate, AfterOperation, Return, Locals,
       OperationWellFormed, WorkerKnows, TypeOK
  <2>6. MapsAgree'
    <3>1. /\ ope'.op = "update" /\ ope'.id = rkey
          /\ ope = None /\ estimatorChs[rkey] # None
          /\ rspec # None /\ rkey \in Estimators
          /\ rpc' \in {"idle", "push"}
          /\ UNCHANGED <<estimatorChs, estimateTargets>>
      BY <1>8 DEF SendUpdate, AfterOperation, Return, WorkerKnows
    <3>2. ASSUME NEW f \in Estimators PROVE ~RemovalPending(f)
      BY <3>1 DEF RemovalPending
    <3>3. TargetOf(rkey, estimatorChs[rkey])
      BY <3>1 DEF MapsAgree, OperationPending
    <3> QED
      BY <3>1, <3>2, <3>3 DEF MapsAgree, TargetOf, OperationPending
  <2> QED
    BY <2>1, <2>2, <2>3, <2>4, <2>5, <2>6
<1>9. ASSUME PushData PROVE Rest'
  <2>1. UniqueTargets'
    BY <1>9, <1>t DEF PushData, Return, UniqueTargets, TargetsAreLive, Live,
       Running, MapsAgree, TargetOf, OperationPending, RemovalPending, TypeOK
  <2>2. RunningHaveTarget'
    BY <1>9, <1>t DEF PushData, Return, RunningHaveTarget, TargetsAreLive,
       Live, Running, TypeOK, Targets, OperationWellFormed, Operations
  <2>3. TargetsAreLive'
    BY <1>9, <1>t DEF PushData, Return, TargetsAreLive, Live, Running, TypeOK,
       RunningHaveTarget, UniqueTargets
  <2>4. WorkerKnows'
    BY <1>9, <1>t DEF PushData, Return, WorkerKnows, TypeOK
  <2>5. OperationWellFormed'
    BY <1>9, <1>t DEF PushData, Return, OperationWellFormed, WorkerKnows,
       TypeOK
  <2>6. MapsAgree'
    BY <1>9, <1>t DEF PushData, Return, MapsAgree, TargetOf, RemovalPending,
       OperationPending, OperationWellFormed, WorkerKnows, UniqueTargets,
       TypeOK, Operations
  <2> QED
    BY <2>1, <2>2, <2>3, <2>4, <2>5, <2>6
<1>10. ASSUME NEW g \in Goroutines, HandleAdd(g) PROVE Rest'
  <2>1. UniqueTargets'
    <3>1. /\ ope # None /\ ope.id \in Estimators
          /\ \A t \in estimateTargets : t.tgt.id # ope.id
      BY <1>10 DEF HandleAdd, MapsAgree, OperationPending, TypeOK, Operations
    <3>2. estimateTargets' = estimateTargets \cup {[g |-> g,
             tgt |-> [id |-> ope.id, ch |-> ope.ch, spec |-> ope.spec]]}
      BY <1>10 DEF HandleAdd
    <3> QED
      BY <3>1, <3>2 DEF UniqueTargets
  <2>2. RunningHaveTarget'
    BY <1>10, <1>t DEF HandleAdd, StartGoroutine, RunningHaveTarget,
       TargetsAreLive, Live, Running, TypeOK, Targets, OperationWellFormed,
       Operations
  <2>3. TargetsAreLive'
    BY <1>10, <1>t DEF HandleAdd, StartGoroutine, TargetsAreLive, Live,
       Running, TypeOK, RunningHaveTarget, UniqueTargets
  <2>4. WorkerKnows'
    BY <1>10, <1>t DEF HandleAdd, StartGoroutine, WorkerKnows, TypeOK
  <2>5. OperationWellFormed'
    BY <1>10, <1>t DEF HandleAdd, StartGoroutine, OperationWellFormed,
       WorkerKnows, TypeOK
  <2>6. MapsAgree'
    <3>1. /\ ope # None /\ ope.op = "add" /\ ope.id \in Estimators
          /\ ope' = None
          /\ UNCHANGED <<rpc, rkey, rspec, estimatorChs>>
      BY <1>10 DEF HandleAdd, TypeOK, Operations
    <3> DEFINE new == [g |-> g,
                 tgt |-> [id |-> ope.id, ch |-> ope.ch, spec |-> ope.spec]]
    <3>2. estimateTargets' = estimateTargets \cup {new}
      BY <1>10 DEF HandleAdd
    <3>3. new.tgt.id = ope.id /\ new.tgt.ch = ope.ch
      OBVIOUS
    <3> HIDE DEF new
    <3> QED
      BY <3>1, <3>2, <3>3 DEF MapsAgree, TargetOf, RemovalPending,
         OperationPending
  <2> QED
    BY <2>1, <2>2, <2>3, <2>4, <2>5, <2>6
<1>11. ASSUME NEW g \in Goroutines, HandleUpdate(g) PROVE Rest'
  <2>1. PICK t \in estimateTargets :
             /\ t.tgt.id = ope.id
             /\ CloseStopCh(t)
             /\ StartGoroutine(g, Updated(t.tgt))
             /\ StoreTarget(t, [g |-> g, tgt |-> Updated(t.tgt)])
    BY <1>11 DEF HandleUpdate
  <2> DEFINE new == [g |-> g, tgt |-> Updated(t.tgt)]
  <2>2. t \in [g : Goroutines, tgt : Targets]
    BY DEF TypeOK
  <2>3. /\ new.tgt = Updated(t.tgt) /\ new.g = g
        /\ new.tgt.id = t.tgt.id /\ new.tgt.ch = t.tgt.ch
    BY <2>2 DEF Updated, Targets
  <2>4. /\ estimateTargets' = (estimateTargets \ {t}) \cup {new}
        /\ stopped' = stopped \cup {t.g}
        /\ gpc' = [gpc EXCEPT ![g] = "select"]
        /\ gtgt' = [gtgt EXCEPT ![g] = Updated(t.tgt)]
    BY <2>1 DEF StoreTarget, CloseStopCh, StartGoroutine
  <2>5. /\ ope # None /\ ope.op = "update" /\ ope.id \in Estimators
        /\ gpc[g] = "none" /\ g \notin stopped /\ ope' = None
        /\ UNCHANGED <<rpc, rkey, rspec, rdata, estimatorChs>>
    BY <1>11 DEF HandleUpdate, TypeOK, Operations, RunningHaveTarget
  <2>6. new \in estimateTargets'
    BY <2>4
  <2>7. Updated(t.tgt) \in Targets
    <3>1. new \in [g : Goroutines, tgt : Targets]
      BY <1>t, <2>6 DEF TypeOK
    <3> QED
      BY <2>3, <3>1
  <2>8. t.g # g /\ t.g \in Live
    BY <2>5 DEF TargetsAreLive, Live, Running
  <2> HIDE DEF new
  <2>9. UniqueTargets'
    BY <2>1, <2>3, <2>4 DEF UniqueTargets
  <2>10. RunningHaveTarget'
    BY <2>4, <2>5, <2>7, <2>8 DEF RunningHaveTarget, TypeOK, Live, Running
  <2>11. TargetsAreLive'
    <3>1. Live' = (Live \ {t.g}) \cup {g}
      BY <2>4, <2>5, <2>8 DEF Live, Running, TypeOK
    <3>2. \A h \in Live \ {t.g} : gtgt'[h] = gtgt[h]
      BY <2>4, <2>5 DEF Live, Running, TypeOK
    <3>3. gtgt'[g] = new.tgt
      BY <2>3, <2>4 DEF TypeOK
    <3>4. \A u \in estimateTargets \ {t} : u.g # t.g
      BY <2>2 DEF TargetsAreLive, UniqueTargets
    <3>5. \A u \in estimateTargets' : u.g \in Live' /\ gtgt'[u.g] = u.tgt
      BY <2>3, <2>4, <3>1, <3>2, <3>3, <3>4 DEF TargetsAreLive
    <3>6. \A h \in Live' : [g |-> h, tgt |-> gtgt'[h]] \in estimateTargets'
      <4>1. [g |-> g, tgt |-> gtgt'[g]] = new
        BY <2>3, <3>3 DEF new
      <4>2. ASSUME NEW h \in Live \ {t.g}
            PROVE  [g |-> h, tgt |-> gtgt'[h]] \in estimateTargets \ {t}
        BY <3>2 DEF TargetsAreLive
      <4> QED
        BY <2>4, <3>1, <4>1, <4>2
    <3> QED
      BY <3>5, <3>6 DEF TargetsAreLive
  <2>12. WorkerKnows'
    BY <2>5 DEF WorkerKnows
  <2>13. OperationWellFormed'
    BY <2>5 DEF OperationWellFormed
  <2>14. MapsAgree'
    <3>1. \A f \in Estimators, c \in Channels :
             TargetOf(f, c) => TargetOf(f, c)'
      BY <2>3, <2>4 DEF TargetOf
    <3>2. \A f \in Estimators : (\E u \in estimateTargets' : u.tgt.id = f)
             => \E u \in estimateTargets : u.tgt.id = f
      BY <2>3, <2>4
    <3>3. \A f \in Estimators : estimatorChs[f] # None => estimatorChs[f] \in Channels
      BY DEF TypeOK
    <3> QED
      BY <2>5, <3>1, <3>2, <3>3 DEF MapsAgree, RemovalPending, OperationPending
  <2> QED
    BY <2>9, <2>10, <2>11, <2>12, <2>13, <2>14
<1>12. ASSUME HandleRemove PROVE Rest'
  <2>1. UniqueTargets'
    BY <1>12, <1>t DEF HandleRemove, CloseStopCh, UniqueTargets,
       TargetsAreLive, Live, Running, MapsAgree, TargetOf, OperationPending,
       RemovalPending, TypeOK
  <2>2. RunningHaveTarget'
    BY <1>12, <1>t DEF HandleRemove, CloseStopCh, RunningHaveTarget,
       TargetsAreLive, Live, Running, TypeOK, Targets, OperationWellFormed,
       Operations
  <2>3. TargetsAreLive'
    BY <1>12, <1>t DEF HandleRemove, CloseStopCh, TargetsAreLive, Live,
       Running, TypeOK, RunningHaveTarget, UniqueTargets
  <2>4. WorkerKnows'
    BY <1>12, <1>t DEF HandleRemove, CloseStopCh, WorkerKnows, TypeOK
  <2>5. OperationWellFormed'
    BY <1>12, <1>t DEF HandleRemove, CloseStopCh, OperationWellFormed,
       WorkerKnows, TypeOK
  <2>6. MapsAgree'
    BY <1>12, <1>t DEF HandleRemove, CloseStopCh, MapsAgree, TargetOf,
       RemovalPending, OperationPending, OperationWellFormed, WorkerKnows,
       UniqueTargets, TypeOK, Operations
  <2> QED
    BY <2>1, <2>2, <2>3, <2>4, <2>5, <2>6
<1>13. ASSUME HandleUnmatched PROVE Rest'
  <2>1. UniqueTargets'
    BY <1>13, <1>t DEF HandleUnmatched, UniqueTargets, TargetsAreLive, Live,
       Running, MapsAgree, TargetOf, OperationPending, RemovalPending, TypeOK
  <2>2. RunningHaveTarget'
    BY <1>13, <1>t DEF HandleUnmatched, RunningHaveTarget, TargetsAreLive,
       Live, Running, TypeOK, Targets, OperationWellFormed, Operations
  <2>3. TargetsAreLive'
    BY <1>13, <1>t DEF HandleUnmatched, TargetsAreLive, Live, Running, TypeOK,
       RunningHaveTarget, UniqueTargets
  <2>4. WorkerKnows'
    BY <1>13, <1>t DEF HandleUnmatched, WorkerKnows, TypeOK
  <2>5. OperationWellFormed'
    BY <1>13, <1>t DEF HandleUnmatched, OperationWellFormed, WorkerKnows,
       TypeOK
  <2>6. MapsAgree'
    BY <1>13, <1>t DEF HandleUnmatched, MapsAgree, TargetOf, RemovalPending,
       OperationPending, OperationWellFormed, WorkerKnows, UniqueTargets,
       TypeOK, Operations
  <2> QED
    BY <2>1, <2>2, <2>3, <2>4, <2>5, <2>6
<1>14. ASSUME NEW g \in Goroutines, Timer(g) PROVE Rest'
  <2>1. UniqueTargets'
    BY <1>14, <1>t DEF Timer, UniqueTargets, TargetsAreLive, Live, Running,
       MapsAgree, TargetOf, OperationPending, RemovalPending, TypeOK
  <2>2. RunningHaveTarget'
    BY <1>14, <1>t DEF Timer, RunningHaveTarget, TargetsAreLive, Live,
       Running, TypeOK, Targets, OperationWellFormed, Operations
  <2>3. TargetsAreLive'
    BY <1>14, <1>t DEF Timer, TargetsAreLive, Live, Running, TypeOK,
       RunningHaveTarget, UniqueTargets
  <2>4. WorkerKnows'
    BY <1>14, <1>t DEF Timer, WorkerKnows, TypeOK
  <2>5. OperationWellFormed'
    BY <1>14, <1>t DEF Timer, OperationWellFormed, WorkerKnows, TypeOK
  <2>6. MapsAgree'
    BY <1>14, <1>t DEF Timer, MapsAgree, TargetOf, RemovalPending,
       OperationPending, OperationWellFormed, WorkerKnows, UniqueTargets,
       TypeOK, Operations
  <2> QED
    BY <2>1, <2>2, <2>3, <2>4, <2>5, <2>6
<1>15. ASSUME NEW g \in Goroutines, CheckData(g) PROVE Rest'
  <2>1. UniqueTargets'
    BY <1>15, <1>t DEF CheckData, UniqueTargets, TargetsAreLive, Live,
       Running, MapsAgree, TargetOf, OperationPending, RemovalPending, TypeOK
  <2>2. RunningHaveTarget'
    BY <1>15, <1>t DEF CheckData, RunningHaveTarget, TargetsAreLive, Live,
       Running, TypeOK, Targets, OperationWellFormed, Operations
  <2>3. TargetsAreLive'
    BY <1>15, <1>t DEF CheckData, TargetsAreLive, Live, Running, TypeOK,
       RunningHaveTarget, UniqueTargets
  <2>4. WorkerKnows'
    BY <1>15, <1>t DEF CheckData, WorkerKnows, TypeOK
  <2>5. OperationWellFormed'
    BY <1>15, <1>t DEF CheckData, OperationWellFormed, WorkerKnows, TypeOK
  <2>6. MapsAgree'
    BY <1>15, <1>t DEF CheckData, MapsAgree, TargetOf, RemovalPending,
       OperationPending, OperationWellFormed, WorkerKnows, UniqueTargets,
       TypeOK, Operations
  <2> QED
    BY <2>1, <2>2, <2>3, <2>4, <2>5, <2>6
<1>16. ASSUME NEW g \in Goroutines, StopReceived(g) PROVE Rest'
  <2>1. UniqueTargets'
    BY <1>16, <1>t DEF StopReceived, EndGoroutine, UniqueTargets,
       TargetsAreLive, Live, Running, MapsAgree, TargetOf, OperationPending,
       RemovalPending, TypeOK
  <2>2. RunningHaveTarget'
    BY <1>16, <1>t DEF StopReceived, EndGoroutine, RunningHaveTarget,
       TargetsAreLive, Live, Running, TypeOK, Targets, OperationWellFormed,
       Operations
  <2>3. TargetsAreLive'
    BY <1>16, <1>t DEF StopReceived, EndGoroutine, TargetsAreLive, Live,
       Running, TypeOK, RunningHaveTarget, UniqueTargets
  <2>4. WorkerKnows'
    BY <1>16, <1>t DEF StopReceived, EndGoroutine, WorkerKnows, TypeOK
  <2>5. OperationWellFormed'
    BY <1>16, <1>t DEF StopReceived, EndGoroutine, OperationWellFormed,
       WorkerKnows, TypeOK
  <2>6. MapsAgree'
    BY <1>16, <1>t DEF StopReceived, EndGoroutine, MapsAgree, TargetOf,
       RemovalPending, OperationPending, OperationWellFormed, WorkerKnows,
       UniqueTargets, TypeOK, Operations
  <2> QED
    BY <2>1, <2>2, <2>3, <2>4, <2>5, <2>6
<1>17. ASSUME Crash PROVE Rest'
  <2>1. UniqueTargets'
    BY <1>17, <1>t DEF Crash, Return, UniqueTargets, TargetsAreLive, Live,
       Running, MapsAgree, TargetOf, OperationPending, RemovalPending, TypeOK
  <2>2. RunningHaveTarget'
    BY <1>17, <1>t DEF Crash, Return, RunningHaveTarget, TargetsAreLive, Live,
       Running, TypeOK, Targets, OperationWellFormed, Operations
  <2>3. TargetsAreLive'
    BY <1>17, <1>t DEF Crash, Return, TargetsAreLive, Live, Running, TypeOK,
       RunningHaveTarget, UniqueTargets
  <2>4. WorkerKnows'
    BY <1>17, <1>t DEF Crash, Return, WorkerKnows, TypeOK
  <2>5. OperationWellFormed'
    BY <1>17, <1>t DEF Crash, Return, OperationWellFormed, WorkerKnows, TypeOK
  <2>6. MapsAgree'
    BY <1>17, <1>t DEF Crash, Return, MapsAgree, TargetOf, RemovalPending,
       OperationPending, OperationWellFormed, WorkerKnows, UniqueTargets,
       TypeOK, Operations
  <2> QED
    BY <2>1, <2>2, <2>3, <2>4, <2>5, <2>6
<1>18. CASE UNCHANGED vars
  BY <1>18, <1>t DEF vars, UniqueTargets, RunningHaveTarget, TargetsAreLive,
     Live, Running, WorkerKnows, OperationWellFormed, MapsAgree, TargetOf,
     RemovalPending, OperationPending
<1>q. QED
  BY <1>t, <1>1, <1>2, <1>3, <1>4, <1>5, <1>6, <1>7, <1>8, <1>9, <1>10, <1>11,
     <1>12, <1>13, <1>14, <1>15, <1>16, <1>17, <1>18 DEF Next, Environment,
     Worker, Handler, Goroutine

(* The inductive invariant holds when the controller has just started. *)
LEMMA InitSenderInv == ASSUME Init PROVE SenderInv
<1>1. TypeOK
  BY InitTypeOK
<1> QED
  BY <1>1 DEF Init, MemoryInit, SenderInv, UniqueTargets, RunningHaveTarget,
     TargetsAreLive, Live, Running, WorkerKnows, OperationWellFormed, MapsAgree,
     OperationPending

(* The inductive invariant holds of the specification. *)
THEOREM SenderInvariant == Spec => []SenderInv
<1>1. Init => SenderInv
  BY InitSenderInv
<1>2. SenderInv /\ [Next]_vars => SenderInv'
  BY SenderStep
<1> QED
  BY <1>1, <1>2, PTL DEF Spec

(* Every variable keeps its type and every counter its bound. *)
THEOREM TypeCorrect == Spec => []TypeOK
<1>1. SenderInv => TypeOK
  BY DEF SenderInv
<1> QED
  BY <1>1, SenderInvariant, PTL

(* No interleaving of reconciles, operations, stops and crashes lets two    *)
(* goroutines that were not told to stop send the metric of one Estimator.  *)
THEOREM SingleSender == Spec => []OneSender
<1>1. SenderInv => OneSender
  <2> SUFFICES ASSUME SenderInv, NEW g \in Live, NEW h \in Live,
                      gtgt[g].id = gtgt[h].id
               PROVE  g = h
    BY DEF OneSender
  <2> DEFINE t == [g |-> g, tgt |-> gtgt[g]]
             u == [g |-> h, tgt |-> gtgt[h]]
  <2>1. t \in estimateTargets /\ u \in estimateTargets
    BY DEF SenderInv, TargetsAreLive
  <2>2. t = u
    BY <2>1 DEF SenderInv, UniqueTargets
  <2> QED
    BY <2>2
<1> QED
  BY <1>1, SenderInvariant, PTL

(* The handler's slice is exactly the set of live goroutines: none leaks.   *)
THEOREM NoGoroutineLeaks == Spec => []TargetsAreLive
<1>1. SenderInv => TargetsAreLive
  BY DEF SenderInv
<1> QED
  BY <1>1, SenderInvariant, PTL

(* The reconciler's map agrees with the handler's slice up to the one       *)
(* operation under way, at every step of the two threads.                   *)
THEOREM MapsStayInStep == Spec => []MapsAgree
<1>1. SenderInv => MapsAgree
  BY DEF SenderInv
<1> QED
  BY <1>1, SenderInvariant, PTL

(***************************************************************************)
(* The inductive invariant for forecasts                                   *)
(***************************************************************************)
(* A variable of the program refers to the data channel for an Estimator.  *)
Refers(e, ch) ==
    \/ estimatorChs[e] = ch
    \/ OperationPending(e, "add") /\ ope.ch = ch
    \/ TargetOf(e, ch)
    \/ \E g \in Running : gtgt[g].id = e /\ gtgt[g].ch = ch

(* A forecast is in a channel or in a goroutine of an Estimator.           *)
InFlight(e, f) ==
    \/ \E ch \in Channels : /\ Refers(e, ch)
                            /\ \E i \in DOMAIN buf[ch] : buf[ch][i] = f
    \/ \E g \in Running : gtgt[g].id = e /\ data[g] = f

(* A channel serves one Estimator, even after all have changed.            *)
OwnChannels == \A ch \in Channels : \A e, f \in Estimators :
    Refers(e, ch) /\ Refers(f, ch) => e = f

(* The ConfigMap has the newest forecast, and what the worker has read is  *)
(* the newest but for that.                                                *)
Stored == \A e \in Estimators :
    cm[e] \in Forecasts => cm[e].est = e /\ cm[e].ver <= version

ReadFrom == rdata # Empty =>
    /\ rdata.est = rkey /\ rdata.ver <= version
    /\ cm[rkey] \in Forecasts => rdata.ver <= cm[rkey].ver

NotAhead(e, f) ==
    /\ f.est = e /\ f.ver <= version
    /\ cm[e] \in Forecasts => f.ver <= cm[e].ver
    /\ rdata # Empty /\ rkey = e => f.ver <= rdata.ver

Flights == \A e \in Estimators, f \in Forecasts :
    InFlight(e, f) => NotAhead(e, f)

(* The channels are in order, and behind what their readers have.          *)
ChannelOrder == \A e \in Estimators, ch \in Channels : Refers(e, ch) =>
    \A i, j \in DOMAIN buf[ch] : i < j => buf[ch][i].ver <= buf[ch][j].ver

ReaderOrder == \A g \in Running : data[g] # None =>
    \A i \in DOMAIN buf[gtgt[g].ch] : data[g].ver <= buf[gtgt[g].ch][i].ver

(* A goroutine is started without data.                                    *)
EndedHoldNothing == \A g \in Goroutines \ Running : data[g] = None

FlightInv ==
    /\ OwnChannels
    /\ Stored /\ ReadFrom /\ Flights
    /\ ChannelOrder /\ ReaderOrder
    /\ EndedHoldNothing

ForecastInv == SenderInv /\ FlightInv

(***************************************************************************)
(* Steps that move no forecast                                             *)
(***************************************************************************)
(* All but making a channel, pushing, receiving and crashing.              *)
Quiet == \/ Environment \/ \E e \in Estimators : Begin(e)
         \/ ReadConfigMap \/ CreateConfigMap \/ ConfigMapFails
         \/ SendRemove \/ SendUpdate \/ Handler
         \/ \E g \in Goroutines : Timer(g) \/ StopReceived(g)

(* They create no reference to a channel that was not there: a started     *)
(* goroutine has its channel from the operation or from its predecessor.   *)
LEMMA QuietRefers ==
  ASSUME SenderInv, Quiet, NEW e \in Estimators, NEW ch \in Channels, Refers(e, ch)'
  PROVE  Refers(e, ch)
<1> USE DEF apiVars, recVars, handVars, chanVars, gorVars
<1>t. TypeOK /\ TargetsAreLive
  BY DEF SenderInv
<1>1. CASE UNCHANGED <<estimatorChs, ope, estimateTargets, gpc, gtgt>>
  BY <1>1 DEF Refers, OperationPending, TargetOf, Running
<1>2. ASSUME NEW d \in Estimators, Begin(d) PROVE Refers(e, ch)
  <2>1. UNCHANGED <<ope, estimateTargets, gpc, gtgt>>
    BY <1>2 DEF Begin
  <2>2. estimatorChs'[e] = ch => estimatorChs[e] = ch
    <3>1. ch # None
      BY NothingAssumption
    <3> QED
      BY <1>2, <1>t, <3>1 DEF Begin, Forget, TypeOK
  <2> QED
    BY <2>1, <2>2 DEF Refers, OperationPending, TargetOf, Running
<1>3. ASSUME SendRemove \/ SendUpdate PROVE Refers(e, ch)
  <2>1. UNCHANGED <<estimatorChs, estimateTargets, gpc, gtgt>> /\ ope'.op # "add"
    BY <1>3 DEF SendRemove, SendUpdate, ReturnIgnoringNotFound
  <2> QED
    BY <2>1 DEF Refers, OperationPending, TargetOf, Running
<1>4. ASSUME NEW g \in Goroutines, HandleAdd(g) PROVE Refers(e, ch)
  <2>1. PICK tgt : tgt = [id |-> ope.id, ch |-> ope.ch, spec |-> ope.spec]
    OBVIOUS
  <2>2. /\ ope # None /\ ope.op = "add" /\ ope' = None
        /\ gpc' = [gpc EXCEPT ![g] = "select"] /\ gtgt' = [gtgt EXCEPT ![g] = tgt]
        /\ estimateTargets' = estimateTargets \cup {[g |-> g, tgt |-> tgt]}
        /\ UNCHANGED estimatorChs
    BY <1>4, <2>1 DEF HandleAdd, StartGoroutine
  <2>3. Running' = Running \cup {g} /\ gtgt'[g] = tgt
        /\ \A h \in Running \ {g} : gtgt'[h] = gtgt[h]
    BY <1>t, <2>2 DEF Running, TypeOK
  <2>4. tgt.id = e /\ tgt.ch = ch => Refers(e, ch)
    BY <2>1, <2>2 DEF Refers, OperationPending
  <2> QED
    BY <2>2, <2>3, <2>4 DEF Refers, OperationPending, TargetOf
<1>5. ASSUME NEW g \in Goroutines, HandleUpdate(g) PROVE Refers(e, ch)
  <2>1. PICK t \in estimateTargets :
             /\ StartGoroutine(g, Updated(t.tgt))
             /\ StoreTarget(t, [g |-> g, tgt |-> Updated(t.tgt)])
    BY <1>5 DEF HandleUpdate
  <2>2. PICK tgt : tgt = Updated(t.tgt)
    OBVIOUS
  <2>3. tgt.id = t.tgt.id /\ tgt.ch = t.tgt.ch
    <3>1. t \in [g : Goroutines, tgt : Targets]
      BY <1>t DEF TypeOK
    <3> QED
      BY <2>2, <3>1 DEF Updated, Targets
  <2>4. /\ ope' = None /\ UNCHANGED estimatorChs
        /\ gpc' = [gpc EXCEPT ![g] = "select"] /\ gtgt' = [gtgt EXCEPT ![g] = tgt]
        /\ estimateTargets' = (estimateTargets \ {t}) \cup {[g |-> g, tgt |-> tgt]}
    BY <1>5, <2>1, <2>2 DEF HandleUpdate, StartGoroutine, StoreTarget
  <2>5. Running' = Running \cup {g} /\ gtgt'[g] = tgt
        /\ \A h \in Running \ {g} : gtgt'[h] = gtgt[h]
    BY <1>t, <2>4 DEF Running, TypeOK
  <2>6. tgt.id = e /\ tgt.ch = ch => Refers(e, ch)
    BY <2>3 DEF Refers, TargetOf
  <2> QED
    BY <2>4, <2>5, <2>6 DEF Refers, OperationPending, TargetOf
<1>6. ASSUME HandleRemove \/ HandleUnmatched PROVE Refers(e, ch)
  <2>1. /\ ope' = None /\ UNCHANGED <<estimatorChs, gpc, gtgt>>
        /\ estimateTargets' \subseteq estimateTargets
    BY <1>6 DEF HandleRemove, HandleUnmatched
  <2> QED
    BY <2>1 DEF Refers, OperationPending, TargetOf, Running
<1>7. ASSUME NEW g \in Goroutines, Timer(g) \/ StopReceived(g) PROVE Refers(e, ch)
  <2>1. /\ UNCHANGED <<estimatorChs, ope, estimateTargets>>
        /\ \A h \in Running' : h \in Running /\ gtgt'[h] = gtgt[h]
    BY <1>7, <1>t DEF Timer, StopReceived, EndGoroutine, Running, TypeOK
  <2> QED
    BY <2>1 DEF Refers, OperationPending, TargetOf
<1>8. ASSUME \/ Environment \/ ReadConfigMap \/ CreateConfigMap \/ ConfigMapFails
      PROVE  UNCHANGED <<estimatorChs, ope, estimateTargets, gpc, gtgt>>
  BY <1>8 DEF Environment, ApplyEstimator, DeleteEstimator, DeleteConfigMap,
              StoreForecast, ReadConfigMap, CreateConfigMap, ConfigMapFails
<1> QED
  BY <1>1, <1>2, <1>3, <1>4, <1>5, <1>6, <1>7, <1>8 DEF Quiet, Handler

(* They leave the channels and the data of goroutines alone.               *)
LEMMA QuietData ==
  ASSUME SenderInv, EndedHoldNothing, Quiet
  PROVE  /\ buf' = buf
         /\ \A g \in Running' : \/ data'[g] = None
                                \/ /\ g \in Running /\ gtgt'[g] = gtgt[g]
                                   /\ data'[g] = data[g]
         /\ EndedHoldNothing'
<1> USE DEF apiVars, recVars, handVars, chanVars, gorVars
<1>t. TypeOK
  BY DEF SenderInv
<1>1. ASSUME UNCHANGED <<buf, gpc, gtgt, data>>
      PROVE  /\ buf' = buf
             /\ \A g \in Running' : /\ g \in Running /\ gtgt'[g] = gtgt[g]
                                    /\ data'[g] = data[g]
             /\ EndedHoldNothing'
  BY <1>1 DEF Running, EndedHoldNothing
<1>2. ASSUME NEW g \in Goroutines, NEW tgt, gpc[g] = "none",
             StartGoroutine(g, tgt), UNCHANGED <<buf, data>>
      PROVE  /\ \A h \in Running' : \/ data'[h] = None
                                    \/ /\ h \in Running /\ gtgt'[h] = gtgt[h]
                                       /\ data'[h] = data[h]
             /\ EndedHoldNothing'
  <2>1. Running' = Running \cup {g} /\ data[g] = None
        /\ \A h \in Running \ {g} : gtgt'[h] = gtgt[h]
    BY <1>2, <1>t DEF StartGoroutine, Running, TypeOK, EndedHoldNothing
  <2> QED
    BY <1>2, <2>1 DEF EndedHoldNothing
<1>3. ASSUME NEW g \in Goroutines, Timer(g) \/ StopReceived(g)
      PROVE  /\ buf' = buf
             /\ \A h \in Running' : \/ data'[h] = None
                                    \/ /\ h \in Running /\ gtgt'[h] = gtgt[h]
                                       /\ data'[h] = data[h]
             /\ EndedHoldNothing'
  <2>1. CASE Timer(g)
    <3>1. Running' = Running /\ UNCHANGED <<buf, gtgt, data>>
      BY <2>1, <1>t DEF Timer, Running, TypeOK
    <3> QED
      BY <3>1 DEF EndedHoldNothing
  <2>2. CASE StopReceived(g)
    <3>1. /\ Running' = Running \ {g} /\ UNCHANGED buf
          /\ data'[g] = None
          /\ \A h \in Goroutines \ {g} : gtgt'[h] = gtgt[h] /\ data'[h] = data[h]
      BY <2>2, <1>t DEF StopReceived, EndGoroutine, Running, TypeOK
    <3>2. Running \subseteq Goroutines
      BY DEF Running
    <3> QED
      BY <3>1, <3>2 DEF EndedHoldNothing
  <2> QED
    BY <1>3, <2>1, <2>2
<1>4. ASSUME NEW g \in Goroutines, HandleAdd(g) \/ HandleUpdate(g)
      PROVE  /\ gpc[g] = "none" /\ UNCHANGED <<buf, data>>
             /\ \E tgt : StartGoroutine(g, tgt)
  BY <1>4 DEF HandleAdd, HandleUpdate
<1>5. ASSUME \/ Environment \/ \E e \in Estimators : Begin(e)
             \/ ReadConfigMap \/ CreateConfigMap \/ ConfigMapFails
             \/ SendRemove \/ SendUpdate \/ HandleRemove \/ HandleUnmatched
      PROVE  UNCHANGED <<buf, gpc, gtgt, data>>
  BY <1>5 DEF Environment, ApplyEstimator, DeleteEstimator, DeleteConfigMap,
              StoreForecast, Begin, ReadConfigMap, CreateConfigMap, ConfigMapFails,
              SendRemove, SendUpdate, HandleRemove, HandleUnmatched
<1> QED
  BY <1>1, <1>2, <1>3, <1>4, <1>5 DEF Quiet, Handler

(* So they put no forecast in flight and disorder none.                    *)
LEMMA QuietFlights ==
  ASSUME ForecastInv, Quiet
  PROVE  /\ OwnChannels' /\ ChannelOrder' /\ ReaderOrder' /\ EndedHoldNothing'
         /\ \A e \in Estimators, f \in Forecasts : InFlight(e, f)' => InFlight(e, f)
<1>1. \A e \in Estimators, ch \in Channels : Refers(e, ch)' => Refers(e, ch)
  BY QuietRefers DEF ForecastInv
<1>2. /\ buf' = buf
      /\ \A g \in Running' : \/ data'[g] = None
                             \/ /\ g \in Running /\ gtgt'[g] = gtgt[g]
                                /\ data'[g] = data[g]
      /\ EndedHoldNothing'
  BY QuietData DEF ForecastInv, FlightInv
<1>3. OwnChannels'
  BY <1>1 DEF ForecastInv, FlightInv, OwnChannels
<1>4. ChannelOrder'
  BY <1>1, <1>2 DEF ForecastInv, FlightInv, ChannelOrder
<1>5. ReaderOrder'
  BY <1>2 DEF ForecastInv, FlightInv, ReaderOrder
<1>6. ASSUME NEW e \in Estimators, NEW f \in Forecasts, InFlight(e, f)'
      PROVE  InFlight(e, f)
  <2>1. f # None
    BY NothingAssumption
  <2> QED
    BY <1>1, <1>2, <1>6, <2>1 DEF InFlight
<1> QED
  BY <1>2, <1>3, <1>4, <1>5, <1>6

(***************************************************************************)
(* The order of versions                                                   *)
(***************************************************************************)
LEMMA Versions ==
  ASSUME TypeOK
  PROVE  /\ \A f \in Forecasts : f.ver \in Int /\ f.est \in Estimators
         /\ version \in Int
         /\ Empty \notin Forecasts /\ None \notin Forecasts
  BY ConstantsAssumption, NothingAssumption
     DEF ConstantsAssumption, TypeOK, Forecasts

(* Nothing in flight becomes newer than the ConfigMap: a stored forecast   *)
(* is newer than all, and the worker reads what is stored.                 *)
LEMMA BoundsStep ==
  ASSUME ForecastInv, Next
  PROVE  /\ Stored' /\ ReadFrom'
         /\ \A e \in Estimators, f \in Forecasts : NotAhead(e, f) => NotAhead(e, f)'
<1> USE DEF apiVars, recVars, handVars, chanVars, gorVars
<1>t. TypeOK /\ WorkerKnows /\ Stored /\ ReadFrom
  BY DEF ForecastInv, SenderInv, FlightInv
<1>v. /\ \A f \in Forecasts : f.ver \in Int /\ f.est \in Estimators
      /\ version \in Int /\ Empty \notin Forecasts /\ None \notin Forecasts
  BY <1>t, Versions
<1> DEFINE Bounded == /\ Stored' /\ ReadFrom'
                      /\ \A e \in Estimators, f \in Forecasts :
                            NotAhead(e, f) => NotAhead(e, f)'
<1>1. ASSUME UNCHANGED <<cm, version>>,
             UNCHANGED <<rkey, rdata>> \/ rdata' = Empty
      PROVE  Bounded
  BY <1>1, <1>t DEF Stored, ReadFrom, NotAhead
<1>2. ASSUME ReadConfigMap PROVE Bounded
  <2>1. /\ rkey \in Estimators /\ rdata' = cm[rkey]
        /\ cm[rkey] \in Forecasts \cup {Empty}
        /\ UNCHANGED <<cm, version, rkey>>
    BY <1>2, <1>t DEF ReadConfigMap, WorkerKnows, TypeOK
  <2> QED
    BY <1>t, <1>v, <2>1 DEF Stored, ReadFrom, NotAhead
<1>3. ASSUME CreateConfigMap PROVE Bounded
  <2>1. /\ rdata' = Empty /\ UNCHANGED version
        /\ \A e \in Estimators : cm'[e] \in Forecasts => cm'[e] = cm[e]
    BY <1>3, <1>t, <1>v DEF CreateConfigMap, WorkerKnows, TypeOK
  <2> QED
    BY <1>t, <2>1 DEF Stored, ReadFrom, NotAhead
<1>4. ASSUME NEW d \in Estimators, DeleteConfigMap(d) PROVE Bounded
  <2>1. /\ UNCHANGED <<rkey, rdata, version>>
        /\ \A e \in Estimators : cm'[e] \in Forecasts => cm'[e] = cm[e]
    BY <1>4, <1>t, <1>v DEF DeleteConfigMap, TypeOK
  <2>2. rdata # Empty => rkey \in Estimators
    BY <1>t, <1>v DEF ReadFrom, TypeOK
  <2> QED
    BY <1>t, <2>1, <2>2 DEF Stored, ReadFrom, NotAhead
<1>5. ASSUME NEW d \in Estimators, StoreForecast(d) PROVE Bounded
  <2>1. /\ UNCHANGED <<rkey, rdata>> /\ version' = version + 1
        /\ cm'[d].est = d /\ cm'[d].ver = version + 1
        /\ \A e \in Estimators \ {d} : cm'[e] = cm[e]
    BY <1>5, <1>t DEF StoreForecast, TypeOK
  <2>2. rdata # Empty => rkey \in Estimators /\ rdata \in Forecasts
    BY <1>t, <1>v DEF ReadFrom, TypeOK
  <2>3. Stored'
    BY <1>t, <1>v, <2>1 DEF Stored
  <2>4. ReadFrom'
    BY <1>t, <1>v, <2>1, <2>2 DEF ReadFrom
  <2>5. ASSUME NEW e \in Estimators, NEW f \in Forecasts, NotAhead(e, f)
        PROVE  NotAhead(e, f)'
    BY <1>v, <2>1, <2>5 DEF NotAhead
  <2> QED
    BY <2>3, <2>4, <2>5
<1>6. ASSUME \/ \E e \in Estimators : \/ ApplyEstimator(e) \/ DeleteEstimator(e)
                                      \/ Begin(e)
             \/ SendRemove \/ SendAdd \/ SendUpdate \/ PushData \/ ConfigMapFails
             \/ Handler \/ Crash \/ \E g \in Goroutines : Goroutine(g)
      PROVE  UNCHANGED <<cm, version>> /\ (UNCHANGED <<rkey, rdata>> \/ rdata' = Empty)
  BY <1>6 DEF ApplyEstimator, DeleteEstimator, Begin, SendRemove, SendAdd,
       SendUpdate, PushData, ConfigMapFails, ReturnError, ReturnIgnoringNotFound,
       Return, AfterOperation, Locals, Handler, HandleAdd, HandleUpdate,
       HandleRemove, HandleUnmatched, Crash, Goroutine, Timer, CheckData,
       StopReceived, EndGoroutine
<1> QED
  BY <1>1, <1>2, <1>3, <1>4, <1>5, <1>6 DEF Next, Environment, Worker

(***************************************************************************)
(* Steps that move forecasts                                               *)
(***************************************************************************)
(* A channel is made: nothing refers to it, and it is empty.               *)
LEMMA SendAddFlights ==
  ASSUME ForecastInv, SendAdd
  PROVE  /\ OwnChannels' /\ ChannelOrder' /\ ReaderOrder' /\ EndedHoldNothing'
         /\ \A e \in Estimators, f \in Forecasts : InFlight(e, f)' => InFlight(e, f)
<1> USE DEF apiVars, recVars, handVars, chanVars, gorVars
<1>t. /\ TypeOK /\ rkey \in Estimators
      /\ OwnChannels /\ ChannelOrder /\ ReaderOrder /\ EndedHoldNothing
  BY DEF ForecastInv, SenderInv, WorkerKnows, FlightInv, SendAdd
<1>1. PICK ch \in Channels :
         /\ Fresh(ch)
         /\ ope' = [op |-> "add", id |-> rkey, ch |-> ch, spec |-> rspec]
         /\ estimatorChs' = [estimatorChs EXCEPT ![rkey] = ch]
         /\ buf' = [buf EXCEPT ![ch] = <<>>]
  BY DEF SendAdd
<1>2. ope = None /\ UNCHANGED <<estimateTargets, gpc, gtgt, data>>
  BY DEF SendAdd
<1>3. /\ ope'.id = rkey /\ ope'.ch = ch
      /\ estimatorChs'[rkey] = ch
      /\ \A e \in Estimators \ {rkey} : estimatorChs'[e] = estimatorChs[e]
      /\ buf'[ch] = <<>>
      /\ \A c \in Channels \ {ch} : buf'[c] = buf[c]
  BY <1>1, <1>t DEF TypeOK
<1>4. \A e \in Estimators : ~Refers(e, ch)
  BY <1>1, <1>2 DEF Fresh, Refers, OperationPending, TargetOf
<1>5. ASSUME NEW e \in Estimators, NEW c \in Channels, Refers(e, c)'
      PROVE  Refers(e, c) \/ (e = rkey /\ c = ch)
  <2>1. CASE estimatorChs'[e] = c
    BY <1>3, <2>1 DEF Refers
  <2>2. CASE OperationPending(e, "add")' /\ ope'.ch = c
    BY <1>3, <2>2 DEF OperationPending
  <2>3. CASE TargetOf(e, c)' \/ \E g \in Running' : gtgt'[g].id = e /\ gtgt'[g].ch = c
    BY <1>2, <2>3 DEF TargetOf, Running, Refers
  <2> QED
    BY <1>5, <2>1, <2>2, <2>3 DEF Refers
<1>6. OwnChannels'
  BY <1>t, <1>4, <1>5 DEF OwnChannels
<1>7. ChannelOrder'
  BY <1>t, <1>3, <1>5 DEF ChannelOrder
<1>8. Running' = Running /\ EndedHoldNothing'
  BY <1>t, <1>2 DEF Running, EndedHoldNothing
<1>9. ReaderOrder'
  <2> SUFFICES ASSUME NEW g \in Running, data[g] # None,
                      NEW i \in DOMAIN buf'[gtgt[g].ch]
               PROVE  data[g].ver <= buf'[gtgt[g].ch][i].ver
    BY <1>2, <1>8 DEF ReaderOrder
  <2>1. gtgt[g] \in Targets
    BY DEF ForecastInv, SenderInv, RunningHaveTarget, Running
  <2>2. gtgt[g].ch \in Channels \ {ch}
    BY <1>1, <2>1 DEF Fresh, Targets
  <2> QED
    BY <1>t, <1>3, <2>2 DEF ReaderOrder
<1>10. ASSUME NEW e \in Estimators, NEW f \in Forecasts, InFlight(e, f)'
       PROVE  InFlight(e, f)
  <2>1. CASE \E g \in Running' : gtgt'[g].id = e /\ data'[g] = f
    BY <1>2, <1>8, <2>1 DEF InFlight
  <2>2. CASE \E c \in Channels : Refers(e, c)' /\ \E i \in DOMAIN buf'[c] : buf'[c][i] = f
    <3>1. PICK c \in Channels : Refers(e, c)' /\ \E i \in DOMAIN buf'[c] : buf'[c][i] = f
      BY <2>2
    <3>2. c # ch
      BY <1>3, <3>1
    <3> QED
      BY <1>3, <1>5, <3>1, <3>2 DEF InFlight
  <2> QED
    BY <1>10, <2>1, <2>2 DEF InFlight
<1> QED
  BY <1>6, <1>7, <1>8, <1>9, <1>10

(* Sending appends to a channel, receiving takes its first element.        *)
LEMMA ChannelFacts ==
  ASSUME NEW S, NEW q \in Seq(S), NEW x \in S
  PROVE  /\ \A i \in DOMAIN Append(q, x) :
               \/ i \in DOMAIN q /\ Append(q, x)[i] = q[i]
               \/ i = Len(q) + 1 /\ Append(q, x)[i] = x
         /\ DOMAIN q = 1..Len(q) /\ Len(q) \in Nat
         /\ q # <<>> =>
               /\ 1 \in DOMAIN q /\ Head(q) = q[1]
               /\ \A i \in DOMAIN Tail(q) : /\ i \in Int /\ 1 < i + 1
                                            /\ i + 1 \in DOMAIN q
                                            /\ Tail(q)[i] = q[i + 1]
  OBVIOUS

(* What a goroutine holds or can receive is in flight.                     *)
LEMMA RunningFlights ==
  ASSUME SenderInv, NEW g \in Running
  PROVE  /\ gtgt[g].id \in Estimators /\ gtgt[g].ch \in Channels
         /\ Refers(gtgt[g].id, gtgt[g].ch)
         /\ data[g] # None => /\ data[g] \in Forecasts
                              /\ InFlight(gtgt[g].id, data[g])
         /\ \A i \in DOMAIN buf[gtgt[g].ch] :
               /\ buf[gtgt[g].ch][i] \in Forecasts
               /\ InFlight(gtgt[g].id, buf[gtgt[g].ch][i])
<1>1. gtgt[g] \in Targets /\ TypeOK /\ g \in Goroutines
  BY DEF SenderInv, RunningHaveTarget, Running
<1>2. gtgt[g].id \in Estimators /\ gtgt[g].ch \in Channels
  BY <1>1 DEF Targets
<1>3. Refers(gtgt[g].id, gtgt[g].ch)
  BY DEF Refers
<1>4. buf[gtgt[g].ch] \in Seq(Forecasts) /\ data[g] \in Forecasts \cup {None}
  BY <1>1, <1>2 DEF TypeOK
<1>5. \A i \in DOMAIN buf[gtgt[g].ch] : buf[gtgt[g].ch][i] \in Forecasts
  BY <1>4
<1> QED
  BY <1>2, <1>3, <1>4, <1>5 DEF InFlight

(* A push: what is pushed is newer than all that is in flight for it.      *)
LEMMA PushFlights ==
  ASSUME ForecastInv, PushData
  PROVE  /\ OwnChannels' /\ ChannelOrder' /\ ReaderOrder' /\ EndedHoldNothing'
         /\ \A e \in Estimators, f \in Forecasts :
               InFlight(e, f)' => InFlight(e, f) \/ NotAhead(e, f)
<1> USE DEF apiVars, recVars, handVars, chanVars, gorVars
<1> DEFINE ch == estimatorChs[rkey]
<1>t. /\ TypeOK /\ rkey \in Estimators /\ ch \in Channels /\ rdata \in Forecasts
      /\ OwnChannels /\ ChannelOrder /\ ReaderOrder /\ EndedHoldNothing
      /\ Flights /\ ReadFrom /\ rdata # Empty
  BY DEF ForecastInv, SenderInv, WorkerKnows, FlightInv, PushData, TypeOK
<1>v. \A f \in Forecasts : f.ver \in Int
  BY <1>t, Versions
<1>1. /\ buf' = [buf EXCEPT ![ch] = Append(buf[ch], rdata)]
      /\ UNCHANGED <<estimatorChs, ope, estimateTargets, gpc, gtgt, data>>
  BY DEF PushData, Pushed
<1>2. /\ Running' = Running
      /\ \A e \in Estimators, c \in Channels : Refers(e, c)' <=> Refers(e, c)
  BY <1>1 DEF Refers, OperationPending, TargetOf, Running
<1>3. Refers(rkey, ch)
  BY DEF Refers
<1>4. buf[ch] \in Seq(Forecasts)
  BY <1>t DEF TypeOK
<1>5. /\ \A c \in Channels \ {ch} : buf'[c] = buf[c]
      /\ buf'[ch] = Append(buf[ch], rdata)
  BY <1>1, <1>t DEF TypeOK
<1>6. /\ \A i \in DOMAIN buf'[ch] : \/ i \in DOMAIN buf[ch] /\ buf'[ch][i] = buf[ch][i]
                                    \/ i = Len(buf[ch]) + 1 /\ buf'[ch][i] = rdata
      /\ DOMAIN buf[ch] = 1..Len(buf[ch]) /\ Len(buf[ch]) \in Nat
  <2> HIDE DEF ch
  <2> QED
    BY <1>t, <1>4, <1>5, ChannelFacts
<1>7. \A i \in DOMAIN buf[ch] : buf[ch][i] \in Forecasts
  BY <1>4
<1> HIDE DEF ch
<1>8. \A f \in Forecasts : InFlight(rkey, f) => f.ver <= rdata.ver
  BY <1>t DEF Flights, NotAhead
<1>9. \A i \in DOMAIN buf[ch] : buf[ch][i].ver <= rdata.ver
  BY <1>t, <1>3, <1>7, <1>8 DEF InFlight
<1>10. OwnChannels' /\ EndedHoldNothing'
  BY <1>t, <1>1, <1>2 DEF OwnChannels, EndedHoldNothing
<1>11. ChannelOrder'
  <2> SUFFICES ASSUME NEW e \in Estimators, NEW c \in Channels, Refers(e, c),
                      NEW i \in DOMAIN buf'[c], NEW j \in DOMAIN buf'[c], i < j
               PROVE  buf'[c][i].ver <= buf'[c][j].ver
    BY <1>2 DEF ChannelOrder
  <2>1. CASE c # ch
    BY <1>t, <1>5, <2>1 DEF ChannelOrder
  <2>2. CASE c = ch
    <3>1. i \in DOMAIN buf[ch] /\ buf'[ch][i] = buf[ch][i]
      BY <1>6, <2>2
    <3>2. CASE j \in DOMAIN buf[ch] /\ buf'[ch][j] = buf[ch][j]
      BY <1>t, <2>2, <3>1, <3>2 DEF ChannelOrder
    <3>3. CASE buf'[ch][j] = rdata
      BY <1>9, <2>2, <3>1, <3>3
    <3> QED
      BY <1>6, <2>2, <3>2, <3>3
  <2> QED
    BY <2>1, <2>2
<1>12. ReaderOrder'
  <2> SUFFICES ASSUME NEW g \in Running, data[g] # None,
                      NEW i \in DOMAIN buf'[gtgt[g].ch]
               PROVE  data[g].ver <= buf'[gtgt[g].ch][i].ver
    BY <1>1, <1>2 DEF ReaderOrder
  <2>1. /\ gtgt[g].id \in Estimators /\ gtgt[g].ch \in Channels
        /\ Refers(gtgt[g].id, gtgt[g].ch)
        /\ data[g] \in Forecasts /\ InFlight(gtgt[g].id, data[g])
    BY RunningFlights DEF ForecastInv
  <2>2. CASE gtgt[g].ch # ch
    BY <1>t, <1>5, <2>1, <2>2 DEF ReaderOrder
  <2>3. CASE gtgt[g].ch = ch
    <3>1. gtgt[g].id = rkey
      BY <1>t, <1>3, <2>1, <2>3 DEF OwnChannels
    <3>2. data[g].ver <= rdata.ver
      BY <1>8, <2>1, <3>1
    <3> QED
      BY <1>t, <1>6, <2>3, <3>2 DEF ReaderOrder
  <2> QED
    BY <2>2, <2>3
<1>13. ASSUME NEW e \in Estimators, NEW f \in Forecasts, InFlight(e, f)'
       PROVE  InFlight(e, f) \/ NotAhead(e, f)
  <2>1. CASE \E g \in Running' : gtgt'[g].id = e /\ data'[g] = f
    BY <1>1, <1>2, <2>1 DEF InFlight
  <2>2. CASE \E c \in Channels : Refers(e, c)' /\ \E i \in DOMAIN buf'[c] : buf'[c][i] = f
    <3>1. PICK c \in Channels : /\ Refers(e, c)
                              /\ \E i \in DOMAIN buf'[c] : buf'[c][i] = f
      BY <1>2, <2>2
    <3>2. CASE c # ch \/ f # rdata
      BY <1>5, <1>6, <3>1, <3>2 DEF InFlight
    <3>3. CASE c = ch /\ f = rdata
      <4>1. e = rkey
        BY <1>t, <1>3, <3>1, <3>3 DEF OwnChannels
      <4> QED
        BY <1>t, <1>v, <3>3, <4>1 DEF NotAhead, ReadFrom
    <3> QED
      BY <3>2, <3>3
  <2> QED
    BY <1>13, <2>1, <2>2 DEF InFlight
<1> QED
  BY <1>10, <1>11, <1>12, <1>13

(* A receipt: the oldest forecast of the channel goes to the goroutine.    *)
LEMMA ReceiveFlights ==
  ASSUME ForecastInv, NEW g \in Goroutines, CheckData(g)
  PROVE  /\ OwnChannels' /\ ChannelOrder' /\ ReaderOrder' /\ EndedHoldNothing'
         /\ \A e \in Estimators, f \in Forecasts : InFlight(e, f)' => InFlight(e, f)
         /\ data[g] # None /\ data'[g] # None => data'[g].ver >= data[g].ver
<1> USE DEF apiVars, recVars, handVars, chanVars, gorVars
<1> DEFINE ch == gtgt[g].ch
<1>t. /\ TypeOK /\ g \in Running
      /\ OwnChannels /\ ChannelOrder /\ ReaderOrder /\ EndedHoldNothing
  BY DEF ForecastInv, SenderInv, FlightInv, CheckData, Running
<1>1. /\ Running' = Running
      /\ UNCHANGED <<estimatorChs, ope, estimateTargets, gtgt>>
  BY <1>t DEF CheckData, Running, TypeOK
<1>2. \A e \in Estimators, c \in Channels : Refers(e, c)' <=> Refers(e, c)
  BY <1>1 DEF Refers, OperationPending, TargetOf
<1>3. /\ gtgt[g].id \in Estimators /\ ch \in Channels /\ Refers(gtgt[g].id, ch)
      /\ \A i \in DOMAIN buf[ch] : buf[ch][i] \in Forecasts
      /\ data[g] # None => data[g] \in Forecasts
  BY <1>t, RunningFlights DEF ForecastInv
<1>v. \A f \in Forecasts : f.ver \in Int
  BY <1>t, Versions
<1>4. CASE buf[ch] = <<>>
  <2>1. UNCHANGED <<buf, data>>
    BY <1>4 DEF CheckData
  <2>2. OwnChannels' /\ ChannelOrder' /\ ReaderOrder' /\ EndedHoldNothing'
    BY <1>t, <1>1, <1>2, <2>1
       DEF OwnChannels, ChannelOrder, ReaderOrder, EndedHoldNothing
  <2>3. \A e \in Estimators, f \in Forecasts : InFlight(e, f)' => InFlight(e, f)
    BY <1>1, <1>2, <2>1 DEF InFlight
  <2> QED
    BY <1>3, <1>v, <2>1, <2>2, <2>3
<1>5. CASE buf[ch] # <<>>
  <2>1. /\ data' = [data EXCEPT ![g] = Head(buf[ch])]
        /\ buf' = [buf EXCEPT ![ch] = Tail(buf[ch])]
    BY <1>5 DEF CheckData
  <2>2. /\ data'[g] = Head(buf[ch])
        /\ \A h \in Goroutines \ {g} : data'[h] = data[h]
        /\ buf'[ch] = Tail(buf[ch])
        /\ \A c \in Channels \ {ch} : buf'[c] = buf[c]
    BY <1>t, <1>3, <2>1 DEF TypeOK
  <2>3. buf[ch] \in Seq(Forecasts)
    BY <1>t, <1>3 DEF TypeOK
  <2> HIDE DEF ch
  <2>4. Head(buf[ch]) \in Forecasts
    BY <1>5, <2>3, ReceiveType
  <2>5. /\ 1 \in DOMAIN buf[ch] /\ data'[g] = buf[ch][1]
        /\ \A i \in DOMAIN buf'[ch] : /\ i \in Int /\ 1 < i + 1
                                      /\ i + 1 \in DOMAIN buf[ch]
                                      /\ buf'[ch][i] = buf[ch][i + 1]
    BY <1>5, <2>2, <2>3, <2>4, ChannelFacts
  <2>6. OwnChannels' /\ EndedHoldNothing'
    BY <1>t, <1>1, <1>2, <2>2 DEF OwnChannels, EndedHoldNothing
  <2>7. ChannelOrder'
    <3> SUFFICES ASSUME NEW e \in Estimators, NEW c \in Channels, Refers(e, c),
                        NEW i \in DOMAIN buf'[c], NEW j \in DOMAIN buf'[c], i < j
                 PROVE  buf'[c][i].ver <= buf'[c][j].ver
      BY <1>2 DEF ChannelOrder
    <3>1. CASE c # ch
      BY <1>t, <2>2, <3>1 DEF ChannelOrder
    <3>2. CASE c = ch
      <4>1. /\ buf'[c][i] = buf[ch][i + 1] /\ buf'[c][j] = buf[ch][j + 1]
            /\ i + 1 \in DOMAIN buf[ch] /\ j + 1 \in DOMAIN buf[ch] /\ i + 1 < j + 1
        BY <2>5, <3>2
      <4> QED
        BY <1>t, <3>2, <4>1 DEF ChannelOrder
    <3> QED
      BY <3>1, <3>2
  <2>8. ReaderOrder'
    <3> SUFFICES ASSUME NEW h \in Running, data'[h] # None,
                        NEW i \in DOMAIN buf'[gtgt[h].ch]
                 PROVE  data'[h].ver <= buf'[gtgt[h].ch][i].ver
      BY <1>1 DEF ReaderOrder
    <3>1. gtgt[h].ch \in Channels /\ h \in Goroutines
      BY RunningFlights DEF ForecastInv, Running
    <3>2. CASE h = g
      <4>1. buf[ch][1].ver <= buf[ch][i + 1].ver
        BY <1>t, <1>3, <2>5, <3>2 DEF ChannelOrder, ch
      <4> QED
        BY <2>5, <3>2, <4>1 DEF ch
    <3>3. CASE h # g /\ gtgt[h].ch = ch
      BY <1>t, <2>2, <2>5, <3>1, <3>3 DEF ReaderOrder
    <3>4. CASE h # g /\ gtgt[h].ch # ch
      BY <1>t, <2>2, <3>1, <3>4 DEF ReaderOrder
    <3> QED
      BY <3>2, <3>3, <3>4
  <2>9. ASSUME NEW e \in Estimators, NEW f \in Forecasts, InFlight(e, f)'
        PROVE  InFlight(e, f)
    <3>1. CASE \E h \in Running' : gtgt'[h].id = e /\ data'[h] = f
      <4>1. PICK h \in Running : gtgt[h].id = e /\ data'[h] = f
        BY <1>1, <3>1
      <4>2. CASE h # g
        <5>1. data[h] = f
          BY <2>2, <4>1, <4>2 DEF Running
        <5> QED
          BY <4>1, <5>1 DEF InFlight
      <4>3. CASE h = g
        BY <1>3, <2>5, <4>1, <4>3 DEF InFlight
      <4> QED
        BY <4>2, <4>3
    <3>2. CASE \E c \in Channels : Refers(e, c)' /\ \E i \in DOMAIN buf'[c] : buf'[c][i] = f
      <4>1. PICK c \in Channels : /\ Refers(e, c)
                              /\ \E i \in DOMAIN buf'[c] : buf'[c][i] = f
        BY <1>2, <3>2
      <4>2. \E j \in DOMAIN buf[c] : buf[c][j] = f
        <5>1. PICK i \in DOMAIN buf'[c] : buf'[c][i] = f
          BY <4>1
        <5>2. CASE c # ch
          BY <2>2, <5>1, <5>2
        <5>3. CASE c = ch
          BY <2>5, <5>1, <5>3
        <5> QED
          BY <5>2, <5>3
      <4> QED
        BY <4>1, <4>2 DEF InFlight
    <3> QED
      BY <2>9, <3>1, <3>2 DEF InFlight
  <2>10. data[g] # None => data[g].ver <= data'[g].ver
    BY <1>t, <2>5 DEF ReaderOrder, ch
  <2> QED
    BY <1>3, <1>v, <2>2, <2>4, <2>6, <2>7, <2>8, <2>9, <2>10
<1> QED
  BY <1>4, <1>5

(* A crash: the memory of the new process holds no forecast.               *)
LEMMA CrashFlights ==
  ASSUME ForecastInv, Crash
  PROVE  /\ OwnChannels' /\ ChannelOrder' /\ ReaderOrder' /\ EndedHoldNothing'
         /\ \A e \in Estimators, f \in Forecasts : ~InFlight(e, f)'
<1>1. /\ estimatorChs' = [e \in Estimators |-> None] /\ ope' = None
      /\ estimateTargets' = {} /\ gpc' = [g \in Goroutines |-> "none"]
      /\ data' = [g \in Goroutines |-> None]
  BY DEF Crash
<1>2. Running' = {} /\ \A e \in Estimators : \A ch \in Channels : ~Refers(e, ch)'
  BY <1>1, NothingAssumption DEF Running, Refers, OperationPending, TargetOf
<1> QED
  BY <1>1, <1>2
     DEF OwnChannels, ChannelOrder, ReaderOrder, EndedHoldNothing, InFlight

(***************************************************************************)
(* The theorems                                                            *)
(***************************************************************************)
LEMMA FlightStep == ASSUME ForecastInv, Next PROVE FlightInv'
<1>1. /\ Stored' /\ ReadFrom'
      /\ \A e \in Estimators, f \in Forecasts : NotAhead(e, f) => NotAhead(e, f)'
  BY BoundsStep
<1>2. /\ OwnChannels' /\ ChannelOrder' /\ ReaderOrder' /\ EndedHoldNothing'
      /\ \A e \in Estimators, f \in Forecasts :
            InFlight(e, f)' => InFlight(e, f) \/ NotAhead(e, f)
  <2>1. CASE Quiet
    BY <2>1, QuietFlights
  <2>2. CASE SendAdd
    BY <2>2, SendAddFlights
  <2>3. CASE PushData
    BY <2>3, PushFlights
  <2>4. CASE \E g \in Goroutines : CheckData(g)
    BY <2>4, ReceiveFlights
  <2>5. CASE Crash
    BY <2>5, CrashFlights
  <2> QED
    BY <2>1, <2>2, <2>3, <2>4, <2>5 DEF Next, Worker, Goroutine, Quiet
<1>3. Flights'
  BY <1>1, <1>2 DEF ForecastInv, FlightInv, Flights
<1> QED
  BY <1>1, <1>2, <1>3 DEF FlightInv

LEMMA FlightStutter == ASSUME FlightInv, UNCHANGED vars PROVE FlightInv'
<1> USE DEF vars, apiVars, recVars, handVars, chanVars, gorVars
<1>1. /\ Running' = Running
      /\ \A e, ch : Refers(e, ch)' <=> Refers(e, ch)
  BY DEF Refers, OperationPending, TargetOf, Running
<1>2. \A e, f : InFlight(e, f)' <=> InFlight(e, f)
  BY <1>1 DEF InFlight
<1> QED
  BY <1>1, <1>2 DEF FlightInv, OwnChannels, Stored, ReadFrom, Flights,
     NotAhead,
     ChannelOrder, ReaderOrder, EndedHoldNothing

(* Channels serve one Estimator each, and forecasts pass through them in   *)
(* the order of their versions, behind the ConfigMap.                      *)
THEOREM ForecastInvariant == Spec => []ForecastInv
<1>1. Init => ForecastInv
  <2> SUFFICES ASSUME Init PROVE FlightInv
    BY InitSenderInv DEF ForecastInv
  <2>1. Running = {} /\ \A e \in Estimators : \A ch \in Channels : ~Refers(e, ch)
    BY NothingAssumption
       DEF Init, MemoryInit, Running, Refers, OperationPending, TargetOf
  <2>2. Stored /\ ReadFrom /\ EndedHoldNothing
    BY NothingAssumption DEF Init, MemoryInit, Stored, ReadFrom,
       EndedHoldNothing
  <2> QED
    BY <2>1, <2>2 DEF FlightInv, OwnChannels, ChannelOrder, ReaderOrder,
       Flights,
       InFlight
<1>2. ForecastInv /\ [Next]_vars => ForecastInv'
  BY SenderStep, FlightStep, FlightStutter DEF ForecastInv
<1> QED
  BY <1>1, <1>2, PTL DEF Spec

(* No forecast reaches a goroutine of another Estimator, in the channel or *)
(* beyond it, for any number of Estimators, goroutines and channels.       *)
THEOREM ForecastsStayApart == Spec => []DataIsolation
<1>1. ForecastInv => DataIsolation
  BY RunningFlights
     DEF ForecastInv, FlightInv, Flights, NotAhead, DataIsolation
<1> QED
  BY <1>1, ForecastInvariant, PTL

(* The send dataCh <- data, which the only worker may wait in, has a reader *)
(* that was not told to stop or that the add under way is about to start,  *)
(* and whoever else reads the channel belongs to the same Estimator.       *)
PushIsRead == rpc = "push" =>
    /\ FeedOf(rkey, estimatorChs[rkey])
    /\ \A g \in Running : gtgt[g].ch = estimatorChs[rkey] => gtgt[g].id = rkey

(* No interleaving leaves the worker of EstimatorReconciler waiting on a    *)
(* data channel that nobody reads: the safety half of ReconcileReturns.    *)
THEOREM PushHasReader == Spec => []PushIsRead
<1>1. ForecastInv => PushIsRead
  <2> SUFFICES ASSUME ForecastInv, rpc = "push"
               PROVE  PushIsRead
    BY DEF PushIsRead
  <2> DEFINE ch == estimatorChs[rkey]
  <2>1. rkey \in Estimators /\ ch \in Channels
    BY DEF ForecastInv, SenderInv, WorkerKnows, TypeOK
  <2>2. \/ TargetOf(rkey, ch)
        \/ OperationPending(rkey, "add") /\ ope.ch = ch
    BY <2>1, NothingAssumption DEF ForecastInv, SenderInv, MapsAgree
  <2>3. TargetOf(rkey, ch) => \E g \in Senders(rkey) : gtgt[g].ch = ch
    BY DEF TargetOf, Senders, ForecastInv, SenderInv, TargetsAreLive
  <2>4. ASSUME NEW g \in Running, gtgt[g].ch = ch
        PROVE  gtgt[g].id = rkey
    <3>1. gtgt[g].id \in Estimators /\ Refers(gtgt[g].id, ch)
      BY <2>4, RunningFlights DEF ForecastInv
    <3> QED
      BY <2>1, <3>1 DEF Refers, ForecastInv, FlightInv, OwnChannels
  <2> QED
    BY <2>2, <2>3, <2>4 DEF PushIsRead, FeedOf
<1> QED
  BY <1>1, ForecastInvariant, PTL

(* A goroutine never goes back to an older forecast.                       *)
THEOREM NoForecastGoesBack == Spec => ForecastsInOrder
<1> DEFINE InOrder == \A g \in Goroutines :
      /\ data[g] # None /\ data'[g] # None
      => data'[g].ver >= data[g].ver
<1>1. ForecastInv /\ [Next]_vars => [InOrder]_vars
  <2> SUFFICES ASSUME ForecastInv, Next, NEW g \in Goroutines,
                      data[g] # None, data'[g] # None
               PROVE  data'[g].ver >= data[g].ver
    OBVIOUS
  <2>1. TypeOK /\ data[g].ver \in Int
    BY Versions DEF ForecastInv, SenderInv, TypeOK
  <2>2. CASE data'[g] = data[g]
    BY <2>1, <2>2
  <2>3. CASE CheckData(g)
    BY <2>3, ReceiveFlights
  <2>4. data'[g] = data[g] \/ data'[g] = None \/ CheckData(g)
    BY <2>1 DEF Next, Environment, ApplyEstimator, DeleteEstimator,
       DeleteConfigMap, StoreForecast, Worker, Begin, ReadConfigMap,
       CreateConfigMap, ConfigMapFails, SendRemove, SendAdd, SendUpdate, PushData,
       Handler, HandleAdd, HandleUpdate, HandleRemove, HandleUnmatched, Goroutine,
       Timer, CheckData, StopReceived, EndGoroutine, Crash, gorVars, TypeOK
  <2> QED
    BY <2>2, <2>3, <2>4
<1> QED
  BY <1>1, ForecastInvariant, PTL DEF Spec, ForecastsInOrder
=============================================================================
