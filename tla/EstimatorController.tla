------------------------ MODULE EstimatorController ------------------------
(***************************************************************************)
(* The part of ihpa-controller that starts, restarts and stops the         *)
(* estimator goroutines and feeds them forecasts:                          *)
(*                                                                         *)
(*   - EstimatorReconciler.Reconcile, one worker draining a workqueue;     *)
(*   - estimatorHandler, the goroutine that owns the slice of targets and  *)
(*     receives operations over the unbuffered channel opeCh;              *)
(*   - one estimator() goroutine per start, each ended by its own stop     *)
(*     channel, all those of one Estimator sharing one buffered DataCh.    *)
(*                                                                         *)
(* The API server, the users and the fitting jobs are the environment:     *)
(* they change Estimator objects and data ConfigMaps, and every change     *)
(* puts the Estimator's key on the workqueue.  The controller may crash    *)
(* between any two steps; its memory is lost and every object is listed    *)
(* again.  What a goroutine does with a forecast is in EstimatorLoop.      *)
(***************************************************************************)
EXTENDS Integers, Sequences, FiniteSets

CONSTANTS
    Estimators,    \* names of Estimator objects: the keys of the workqueue
    SpecFields,    \* fields of an EstimatorSpec copied to an EstimateTarget
    FieldValues,   \* values of a field that is set
    Zero,          \* the zero value of a field: "", 0 or nil
    Channels,      \* identities of data channels
    Goroutines,    \* identities of estimator goroutines
    None,          \* absence of an object, a channel, an operation
    Empty,         \* a data ConfigMap without the forecast's key
    ChanCap,       \* capacity of a data channel (5 in the code)
    MaxEdits,      \* bound: changes and deletions of objects by users
    MaxForecasts,  \* bound: forecasts stored by fitting jobs
    MaxFailures,   \* bound: failed creations of a ConfigMap
    MaxCrashes     \* bound: crashes of the controller

ASSUME ConstantsAssumption ==
    /\ ChanCap \in Nat \ {0}
    /\ {MaxEdits, MaxForecasts, MaxFailures, MaxCrashes} \subseteq Nat
    /\ Zero \notin FieldValues

(***************************************************************************)
(* Values                                                                  *)
(***************************************************************************)
Specs     == [SpecFields -> FieldValues \cup {Zero}]
Forecasts == [est : Estimators, ver : 1..MaxForecasts]

(* Mutant: a field that the patch leaves empty is cleared. *)
Patch_Whole(base, patch) == patch

(* updateEstimateTarget: only the fields set in the patch overwrite. *)
Patch(base, patch) ==
    [f \in SpecFields |-> IF patch[f] = Zero THEN base[f] ELSE patch[f]]

Operations == [op : {"add", "update", "remove"}, id : Estimators,
               ch : Channels \cup {None}, spec : Specs \cup {None}]

(* What a goroutine carries in its own copy of the EstimateTarget. *)
Targets == [id : Estimators, ch : Channels, spec : Specs]

ASSUME NothingAssumption ==
    /\ None \notin Estimators \cup Channels \cup Specs \cup Forecasts
    /\ None \notin Operations \cup Targets
    /\ Empty \notin Forecasts \cup {None}

VARIABLES
    est,             \* Estimator objects, as the informer shows them
    cm,              \* data ConfigMap of each Estimator
    queue,           \* workqueue: a set, it removes duplicates
    rpc,             \* where the worker is in Reconcile
    rkey,            \* the request being reconciled
    rspec,           \* the spec read at the start of Reconcile
    rdata,           \* the forecast in the ConfigMap read by Reconcile
    estimatorChs,    \* the reconciler's map from key to data channel
    ope,             \* operation received by the handler, not yet applied
    estimateTargets, \* the handler's slice: targets with their goroutine
    buf,             \* contents of each data channel
    pushed,          \* history: the last forecast pushed on each channel
    gpc,             \* where each goroutine is in estimator()
    gtgt,            \* the EstimateTarget each goroutine works with
    stopped,         \* goroutines whose stop channel is closed
    data,            \* the forecast each goroutine holds
    edits, version, failures, crashes   \* counters of the bounds

apiVars    == <<est, cm, edits, version>>
recVars    == <<rpc, rkey, rspec, rdata, estimatorChs>>
handVars   == <<ope, estimateTargets>>
chanVars   == <<buf, pushed>>
gorVars    == <<gpc, gtgt, stopped, data>>
vars == <<apiVars, queue, recVars, handVars, chanVars, gorVars,
          failures, crashes>>

Running == {g \in Goroutines : gpc[g] # "none"}

(* Mutant: a pool of channels, given back when the key is removed. *)
Fresh_Pooled(ch) == \A e \in Estimators : estimatorChs[e] # ch

(* make(chan): a channel no variable of the program refers to. *)
Fresh(ch) ==
    /\ \A e \in Estimators : estimatorChs[e] # ch
    /\ \A t \in estimateTargets : t.tgt.ch # ch
    /\ \A g \in Running : gtgt[g].ch # ch

(***************************************************************************)
(* Memory of a controller process that has just started                    *)
(***************************************************************************)
MemoryInit ==
    /\ rpc = "idle"
    /\ rkey = None
    /\ rspec = None
    /\ rdata = Empty
    /\ estimatorChs = [e \in Estimators |-> None]
    /\ ope = None
    /\ estimateTargets = {}
    /\ buf = [c \in Channels |-> <<>>]
    /\ pushed = [c \in Channels |-> None]
    /\ gpc = [g \in Goroutines |-> "none"]
    /\ gtgt = [g \in Goroutines |-> None]
    /\ stopped = {}
    /\ data = [g \in Goroutines |-> None]

Init ==
    /\ est = [e \in Estimators |-> None]
    /\ cm = [e \in Estimators |-> None]
    /\ queue = {}
    /\ edits = 0 /\ version = 0 /\ failures = 0 /\ crashes = 0
    /\ MemoryInit

(***************************************************************************)
(* Environment                                                             *)
(***************************************************************************)
(* The IHPA controller or a user creates an Estimator or changes it. *)
ApplyEstimator(e) ==
    /\ edits < MaxEdits
    /\ edits' = edits + 1
    /\ \E s \in Specs \ {est[e]} : est' = [est EXCEPT ![e] = s]
    /\ queue' = queue \cup {e}
    /\ UNCHANGED <<cm, version, recVars, handVars, chanVars, gorVars,
                   failures, crashes>>

DeleteEstimator(e) ==
    /\ edits < MaxEdits
    /\ edits' = edits + 1
    /\ est[e] # None
    /\ est' = [est EXCEPT ![e] = None]
    /\ queue' = queue \cup {e}
    /\ UNCHANGED <<cm, version, recVars, handVars, chanVars, gorVars,
                   failures, crashes>>

(* A user, or the garbage collector after the Estimator is gone. *)
DeleteConfigMap(e) ==
    /\ edits < MaxEdits
    /\ edits' = edits + 1
    /\ cm[e] # None
    /\ cm' = [cm EXCEPT ![e] = None]
    /\ queue' = queue \cup {e}
    /\ UNCHANGED <<est, version, recVars, handVars, chanVars, gorVars,
                   failures, crashes>>

(* A fitting job patches an existing ConfigMap with a new forecast. *)
StoreForecast(e) ==
    /\ version < MaxForecasts
    /\ version' = version + 1
    /\ cm[e] # None
    /\ cm' = [cm EXCEPT ![e] = [est |-> e, ver |-> version']]
    /\ queue' = queue \cup {e}
    /\ UNCHANGED <<est, edits, recVars, handVars, chanVars, gorVars,
                   failures, crashes>>

(***************************************************************************)
(* EstimatorReconciler.Reconcile                                           *)
(***************************************************************************)
(* Reconcile returns: its local variables are gone. *)
Return ==
    /\ rpc' = "idle"
    /\ rkey' = None
    /\ rspec' = None
    /\ rdata' = Empty

Locals == <<rkey, rspec, rdata>>

(* Mutant: the error is logged and nil is returned. *)
ReturnError_Swallowed == Return /\ UNCHANGED queue

(* Reconcile returns an error: the request goes back to the workqueue. *)
ReturnError == Return /\ queue' = queue \cup {rkey}

(* client.IgnoreNotFound *)
ReturnIgnoringNotFound == Return /\ UNCHANGED queue

(* Mutant: the entry of a deleted Estimator stays in the map. *)
Forget_Kept(e) == UNCHANGED estimatorChs

(* delete(r.estimatorChs, key) *)
Forget(e) == estimatorChs' = [estimatorChs EXCEPT ![e] = None]

(* r.Get(Estimator): if it is gone, forget its channel and go on to send   *)
(* the remove operation.                                                   *)
Begin(e) ==
    /\ rpc = "idle"
    /\ e \in queue
    /\ queue' = queue \ {e}
    /\ rkey' = e
    /\ rspec' = est[e]
    /\ IF est[e] = None
       THEN /\ Forget(e)
            /\ rpc' = "ope"
       ELSE /\ rpc' = "getcm"
            /\ UNCHANGED estimatorChs
    /\ rdata' = Empty
    /\ UNCHANGED <<apiVars, handVars, chanVars, gorVars, failures, crashes>>

(* The ConfigMap exists: it is the fitting job's, it is only read. *)
ReadConfigMap ==
    /\ rpc = "getcm"
    /\ cm[rkey] # None
    /\ rdata' = cm[rkey]
    /\ rpc' = "ope"
    /\ UNCHANGED <<apiVars, queue, rkey, rspec, estimatorChs, handVars,
                   chanVars, gorVars, failures, crashes>>

(* It does not: create an empty one, whose creation is an event itself. *)
CreateConfigMap ==
    /\ rpc = "getcm"
    /\ cm[rkey] = None
    /\ cm' = [cm EXCEPT ![rkey] = Empty]
    /\ queue' = queue \cup {rkey}
    /\ rdata' = Empty
    /\ rpc' = "ope"
    /\ UNCHANGED <<est, edits, version, rkey, rspec, estimatorChs, handVars,
                   chanVars, gorVars, failures, crashes>>

(* The creation or the read fails: the error puts the request back. *)
ConfigMapFails ==
    /\ failures < MaxFailures
    /\ failures' = failures + 1
    /\ rpc = "getcm"
    /\ ReturnError
    /\ UNCHANGED <<apiVars, estimatorChs, handVars, chanVars, gorVars,
                   crashes>>

(* opeCh is unbuffered: a send completes when the handler receives. *)
SendRemove ==
    /\ rpc = "ope" /\ rspec = None
    /\ ope = None
    /\ ope' = [op |-> "remove", id |-> rkey, ch |-> None, spec |-> None]
    /\ ReturnIgnoringNotFound
    /\ UNCHANGED <<apiVars, estimatorChs, estimateTargets, chanVars,
                   gorVars, failures, crashes>>

(* The data is looked up after the operation: nothing to push if absent. *)
AfterOperation ==
    IF rdata = Empty THEN Return ELSE rpc' = "push" /\ UNCHANGED Locals

(* No channel for this key: make one and add the target. *)
SendAdd ==
    /\ rpc = "ope" /\ rspec # None
    /\ ope = None
    /\ estimatorChs[rkey] = None
    /\ \E ch \in {c \in Channels : Fresh(c)} :
          /\ ope' = [op |-> "add", id |-> rkey, ch |-> ch, spec |-> rspec]
          /\ estimatorChs' = [estimatorChs EXCEPT ![rkey] = ch]
          /\ buf' = [buf EXCEPT ![ch] = <<>>]
          /\ pushed' = [pushed EXCEPT ![ch] = None]
    /\ AfterOperation
    /\ UNCHANGED <<apiVars, queue, estimateTargets, gorVars, failures,
                   crashes>>

SendUpdate ==
    /\ rpc = "ope" /\ rspec # None
    /\ ope = None
    /\ estimatorChs[rkey] # None
    /\ ope' = [op |-> "update", id |-> rkey, ch |-> None, spec |-> rspec]
    /\ AfterOperation
    /\ UNCHANGED <<apiVars, queue, estimatorChs, estimateTargets, chanVars,
                   gorVars, failures, crashes>>

(* Mutant: the push is done in a goroutine of its own and may overtake. *)
Pushed_Overtaking(ch) == <<rdata>> \o buf[ch]

Pushed(ch) == Append(buf[ch], rdata)

(* Mutant: select with a default, the data is dropped when there is no room. *)
PushData_NonBlocking ==
    /\ rpc = "push"
    /\ LET ch == estimatorChs[rkey] IN
          IF Len(buf[ch]) < ChanCap
          THEN /\ buf' = [buf EXCEPT ![ch] = Pushed(ch)]
               /\ pushed' = [pushed EXCEPT ![ch] = rdata]
          ELSE UNCHANGED chanVars
    /\ Return
    /\ UNCHANGED <<apiVars, queue, estimatorChs, handVars, gorVars, failures,
                   crashes>>

(* dataCh <- data: blocks the only worker while the channel is full. *)
PushData ==
    /\ rpc = "push"
    /\ LET ch == estimatorChs[rkey] IN
          /\ Len(buf[ch]) < ChanCap
          /\ buf' = [buf EXCEPT ![ch] = Pushed(ch)]
          /\ pushed' = [pushed EXCEPT ![ch] = rdata]
    /\ Return
    /\ UNCHANGED <<apiVars, queue, estimatorChs, handVars, gorVars, failures,
                   crashes>>

(***************************************************************************)
(* estimatorHandler                                                        *)
(***************************************************************************)
StartGoroutine(g, tgt) ==
    /\ gpc' = [gpc EXCEPT ![g] = "select"]
    /\ gtgt' = [gtgt EXCEPT ![g] = tgt]

(* Mutant: the old stop channel is overwritten, not closed. *)
CloseStopCh_Forgotten(t) == UNCHANGED stopped

CloseStopCh(t) == stopped' = stopped \cup {t.g}

(* Mutant: the patch replaces the target, which loses its data channel. *)
Updated_Replaced(tgt) == [id |-> ope.id, ch |-> ope.ch, spec |-> ope.spec]

Updated(tgt) == [tgt EXCEPT !.spec = Patch(@, ope.spec)]

(* Mutant: the patched copy is not stored in the slice. *)
StoreTarget_Forgotten(t, new) == UNCHANGED estimateTargets

(* estimateTargets[i] = et *)
StoreTarget(t, new) ==
    estimateTargets' = (estimateTargets \ {t}) \cup {new}

HandleAdd(g) ==
    /\ ope # None /\ ope.op = "add"
    /\ gpc[g] = "none"
    /\ LET tgt == [id |-> ope.id, ch |-> ope.ch, spec |-> ope.spec] IN
          /\ StartGoroutine(g, tgt)
          /\ estimateTargets' = estimateTargets \cup {[g |-> g, tgt |-> tgt]}
    /\ ope' = None
    /\ UNCHANGED <<apiVars, queue, recVars, chanVars, stopped, data,
                   failures, crashes>>

(* Patch a copy of the target, close the old stop channel, start a new     *)
(* goroutine that shares the data channel and has no data, store the copy. *)
HandleUpdate(g) ==
    /\ ope # None /\ ope.op = "update"
    /\ gpc[g] = "none"
    /\ \E t \in {x \in estimateTargets : x.tgt.id = ope.id} :
          /\ CloseStopCh(t)
          /\ StartGoroutine(g, Updated(t.tgt))
          /\ StoreTarget(t, [g |-> g, tgt |-> Updated(t.tgt)])
    /\ ope' = None
    /\ UNCHANGED <<apiVars, queue, recVars, chanVars, data,
                   failures, crashes>>

HandleRemove ==
    /\ ope # None /\ ope.op = "remove"
    /\ \E t \in {x \in estimateTargets : x.tgt.id = ope.id} :
          /\ CloseStopCh(t)
          /\ estimateTargets' = estimateTargets \ {t}
    /\ ope' = None
    /\ UNCHANGED <<apiVars, queue, recVars, chanVars, gpc, gtgt, data,
                   failures, crashes>>

(* The search loop finds no target with the operation's ID. *)
HandleUnmatched ==
    /\ ope # None /\ ope.op \in {"update", "remove"}
    /\ \A t \in estimateTargets : t.tgt.id # ope.id
    /\ ope' = None
    /\ UNCHANGED <<apiVars, queue, recVars, estimateTargets, chanVars,
                   gorVars, failures, crashes>>

(***************************************************************************)
(* estimator(): the select statements of one goroutine                     *)
(***************************************************************************)
(* The timer case.  It may win against a closed stop channel: select       *)
(* chooses at random among the cases that are ready.                       *)
Timer(g) ==
    /\ gpc[g] = "select"
    /\ gpc' = [gpc EXCEPT ![g] = "body"]
    /\ UNCHANGED <<apiVars, queue, recVars, handVars, chanVars, gtgt,
                   stopped, data, failures, crashes>>

(* After the sends, the non-blocking receive from the data channel. *)
CheckData(g) ==
    /\ gpc[g] = "body"
    /\ gpc' = [gpc EXCEPT ![g] = "select"]
    /\ LET ch == gtgt[g].ch IN
          IF buf[ch] = <<>>
          THEN UNCHANGED <<buf, data>>
          ELSE /\ data' = [data EXCEPT ![g] = Head(buf[ch])]
               /\ buf' = [buf EXCEPT ![ch] = Tail(@)]
    /\ UNCHANGED <<apiVars, queue, recVars, handVars, pushed, gtgt,
                   stopped, failures, crashes>>

(* estimator() returns: its data and its copy of the target are gone. *)
EndGoroutine(g) ==
    /\ gpc' = [gpc EXCEPT ![g] = "none"]
    /\ gtgt' = [gtgt EXCEPT ![g] = None]
    /\ data' = [data EXCEPT ![g] = None]
    /\ stopped' = stopped \ {g}
    /\ UNCHANGED <<apiVars, queue, recVars, handVars, chanVars,
                   failures, crashes>>

(* Mutant: a goroutine that still has data to send does not stop. *)
StopReceived_WithoutData(g) ==
    /\ gpc[g] = "select"
    /\ g \in stopped
    /\ data[g] = None
    /\ EndGoroutine(g)

(* The stop case of the select. *)
StopReceived(g) ==
    /\ gpc[g] = "select"
    /\ g \in stopped
    /\ EndGoroutine(g)

(***************************************************************************)
(* The controller dies and is restarted; its informers list every object.  *)
(***************************************************************************)
Crash ==
    /\ crashes < MaxCrashes
    /\ crashes' = crashes + 1
    /\ Return
    /\ estimatorChs' = [e \in Estimators |-> None]
    /\ ope' = None
    /\ estimateTargets' = {}
    /\ buf' = [c \in Channels |-> <<>>]
    /\ pushed' = [c \in Channels |-> None]
    /\ gpc' = [g \in Goroutines |-> "none"]
    /\ gtgt' = [g \in Goroutines |-> None]
    /\ stopped' = {}
    /\ data' = [g \in Goroutines |-> None]
    /\ queue' = {e \in Estimators : est[e] # None \/ cm[e] # None}
    /\ UNCHANGED <<apiVars, failures>>

(***************************************************************************)
(* The specification                                                       *)
(***************************************************************************)
Environment == \E e \in Estimators :
    ApplyEstimator(e) \/ DeleteEstimator(e) \/ DeleteConfigMap(e)
    \/ StoreForecast(e)

Worker == \/ \E e \in Estimators : Begin(e)
          \/ ReadConfigMap \/ CreateConfigMap
          \/ SendRemove \/ SendAdd \/ SendUpdate
          \/ PushData

Handler == \/ \E g \in Goroutines : HandleAdd(g) \/ HandleUpdate(g)
           \/ HandleRemove \/ HandleUnmatched

Goroutine(g) == Timer(g) \/ CheckData(g) \/ StopReceived(g)

Next == \/ Environment \/ Worker \/ Handler \/ ConfigMapFails \/ Crash
        \/ \E g \in Goroutines : Goroutine(g)

Spec == Init /\ [][Next]_vars

(* The scheduler runs the worker and the handler, timers fire and provider *)
(* calls return; a closed stop channel that is ready again and again is    *)
(* chosen by select in the end.  Nothing is assumed of the environment.    *)
Fairness ==
    /\ WF_vars(Worker)
    /\ WF_vars(Handler)
    /\ \A g \in Goroutines : WF_vars(Timer(g)) /\ WF_vars(CheckData(g))
    /\ \A g \in Goroutines : SF_vars(StopReceived(g))

FairSpec == Spec /\ Fairness

(***************************************************************************)
(* Invariants                                                              *)
(***************************************************************************)
TypeOK ==
    /\ est \in [Estimators -> Specs \cup {None}]
    /\ cm \in [Estimators -> Forecasts \cup {Empty, None}]
    /\ queue \in SUBSET Estimators
    /\ rpc \in {"idle", "getcm", "ope", "push"}
    /\ rkey \in Estimators \cup {None}
    /\ rspec \in Specs \cup {None}
    /\ rdata \in Forecasts \cup {Empty}
    /\ estimatorChs \in [Estimators -> Channels \cup {None}]
    /\ ope \in Operations \cup {None}
    /\ estimateTargets \in SUBSET [g : Goroutines, tgt : Targets]
    /\ buf \in [Channels -> Seq(Forecasts)]
    /\ pushed \in [Channels -> Forecasts \cup {None}]
    /\ gpc \in [Goroutines -> {"none", "select", "body"}]
    /\ gtgt \in [Goroutines -> Targets \cup {None}]
    /\ stopped \in SUBSET Goroutines
    /\ data \in [Goroutines -> Forecasts \cup {None}]
    /\ edits \in 0..MaxEdits
    /\ version \in 0..MaxForecasts
    /\ failures \in 0..MaxFailures
    /\ crashes \in 0..MaxCrashes

(* Goroutines that nobody has told to stop. *)
Live == Running \ stopped

(* Two live goroutines never work for the same Estimator: only one sends   *)
(* its metric, whatever restarts, removals and re-creations happened       *)
(* (close of the old stop channel in estimatorHandler).                    *)
OneSender ==
    \A g, h \in Live : gtgt[g].id = gtgt[h].id => g = h

(* The handler's slice and the live goroutines are the same thing: every   *)
(* live goroutine can still be stopped, through the one target that refers *)
(* to it, and works with that target's settings (estimatorHandler stores   *)
(* the copy whose address it gave to the goroutine).                       *)
TargetsAreLive ==
    /\ \A t \in estimateTargets : t.g \in Live /\ gtgt[t.g] = t.tgt
    /\ \A g \in Live : [g |-> g, tgt |-> gtgt[g]] \in estimateTargets

RemovalPending(e) ==
    \/ rpc = "ope" /\ rkey = e /\ rspec = None
    \/ ope # None /\ ope.op = "remove" /\ ope.id = e

OperationPending(e, kind) == ope # None /\ ope.op = kind /\ ope.id = e

TargetOf(e, ch) == \E t \in estimateTargets : t.tgt.id = e /\ t.tgt.ch = ch

(* The reconciler's map and the handler's slice, which two threads keep    *)
(* without a lock, tell the same story up to the operation under way: the  *)
(* reconciler never pushes on a channel nobody will read, never updates a  *)
(* target that does not exist, never adds a second one.                    *)
MapsAgree == \A e \in Estimators :
    /\ estimatorChs[e] # None =>
          \/ TargetOf(e, estimatorChs[e])
          \/ OperationPending(e, "add") /\ ope.ch = estimatorChs[e]
    /\ estimatorChs[e] = None =>
          \/ RemovalPending(e)
          \/ /\ \A t \in estimateTargets : t.tgt.id # e
             /\ ~OperationPending(e, "add")
    /\ OperationPending(e, "update") => \E t \in estimateTargets : t.tgt.id = e
    /\ OperationPending(e, "add") => \A t \in estimateTargets : t.tgt.id # e

(* What Reconcile and the handler know at each point, the part of the      *)
(* inductive invariant that the properties above leave unsaid.             *)
UniqueTargets ==
    \A t, u \in estimateTargets : t.tgt.id = u.tgt.id => t = u

RunningHaveTarget == \A g \in Goroutines :
    /\ gpc[g] # "none" => gtgt[g] \in Targets
    /\ g \in stopped => gpc[g] # "none"

WorkerKnows ==
    /\ rpc # "idle" => rkey \in Estimators
    /\ rpc \in {"getcm", "push"} => rspec # None
    /\ rpc = "ope" /\ rspec = None => estimatorChs[rkey] = None
    /\ rpc = "push" => rdata # Empty /\ estimatorChs[rkey] # None

OperationWellFormed == ope # None =>
    /\ ope.op = "add" => ope.ch # None
    /\ ope.op \in {"add", "update"} => ope.spec # None
    /\ ope.op = "remove" => estimatorChs[ope.id] = None

(* The inductive invariant behind OneSender, TargetsAreLive, MapsAgree.    *)
SenderInv ==
    /\ TypeOK
    /\ UniqueTargets
    /\ RunningHaveTarget
    /\ TargetsAreLive
    /\ WorkerKnows
    /\ OperationWellFormed
    /\ MapsAgree

(* A forecast only reaches a goroutine of the Estimator it was made for,   *)
(* on the way through the channel too, although channels outlive the       *)
(* goroutines that read them and goroutines outlive their Estimators.      *)
DataIsolation == \A g \in Running :
    /\ data[g] # None => data[g].est = gtgt[g].id
    /\ \A i \in DOMAIN buf[gtgt[g].ch] : buf[gtgt[g].ch][i].est = gtgt[g].id

(* Nothing is left to do for the reconciler and the handler. *)
Quiescent == queue = {} /\ rpc = "idle" /\ ope = None

(* A target carries what the spec sets. *)
Carries(tgt, spec) ==
    \A f \in SpecFields : spec[f] # Zero => tgt.spec[f] = spec[f]

(* When the controller is at rest, after any changes, failures and crashes *)
(* in any order, the Estimators that exist are the ones estimated, each    *)
(* with the settings of its spec and a ConfigMap to receive forecasts.     *)
QuiescentConverged == Quiescent => \A e \in Estimators :
    IF est[e] = None
    THEN \A g \in Live : gtgt[g].id # e
    ELSE /\ cm[e] # None
         /\ \E g \in Live : gtgt[g].id = e /\ Carries(gtgt[g], est[e])

(* When the controller is at rest, the last thing pushed to an Estimator's *)
(* goroutines is the forecast its ConfigMap holds: no reconcile ended with *)
(* an older snapshot.                                                      *)
LastPushedIsCurrent == Quiescent => \A g \in Live :
    cm[gtgt[g].id] \in Forecasts => pushed[gtgt[g].ch] = cm[gtgt[g].id]

(* What docs/architecture.md says of the EstimatorController: on a change  *)
(* of the data it passes the data to the Estimator goroutine.  At rest the *)
(* goroutine that sends the metric has the ConfigMap's forecast, or will   *)
(* read it from its channel.                                               *)
ForecastDelivered == Quiescent => \A g \in Live :
    LET e == gtgt[g].id IN
       cm[e] \in Forecasts =>
          \/ data[g] = cm[e]
          \/ \E i \in DOMAIN buf[gtgt[g].ch] : buf[gtgt[g].ch][i] = cm[e]

(***************************************************************************)
(* Action properties                                                       *)
(***************************************************************************)
(* A goroutine never replaces the forecast it holds by an older one: the   *)
(* single worker and the channel keep the order of the fitting job.        *)
ForecastsInOrder == [][\A g \in Goroutines :
    /\ data[g] # None /\ data'[g] # None
    => data'[g].ver >= data[g].ver]_vars

(***************************************************************************)
(* Refinement                                                              *)
(***************************************************************************)
Senders(e) == {g \in Live : gtgt[g].id = e}

Pending(e) == ope # None /\ ope.id = e

(* An operation takes effect when the handler receives it. *)
Sending(e) ==
    LET specs == {gtgt[g].spec : g \in Senders(e)} IN
    IF ~Pending(e) THEN specs
    ELSE CASE ope.op = "add" -> specs \cup {ope.spec}
           [] ope.op = "update" -> {Patch(s, ope.spec) : s \in specs}
           [] ope.op = "remove" -> {}

Held(e) == IF Pending(e) THEN {} ELSE {data[g] : g \in Senders(e)} \ {None}

(* The channel of a sender, or of one that is about to be started. *)
FeedOf(e, ch) == \/ OperationPending(e, "add") /\ ope.ch = ch
                 \/ \E g \in Senders(e) : gtgt[g].ch = ch

Feed(e) == IF Sending(e) = {} THEN <<>>
           ELSE buf[CHOOSE ch \in Channels : FeedOf(e, ch)]

(* A goroutine that was replaced still reads the channel of its successor. *)
Leaving(e) == /\ Sending(e) # {}
              /\ \/ OperationPending(e, "update")
                 \/ \E g \in stopped : FeedOf(e, gtgt[g].ch)

Service == INSTANCE EstimatorService WITH
    Capacity <- ChanCap,
    objects  <- est,
    request  <- IF rpc \in {"getcm", "ope"}
                THEN {[id |-> rkey, spec |-> rspec]} ELSE {},
    sending  <- [e \in Estimators |-> Sending(e)],
    feed     <- [e \in Estimators |-> Feed(e)],
    held     <- [e \in Estimators |-> Held(e)],
    leaving  <- {e \in Estimators : Leaving(e)}

(* The reconciler, the handler and the goroutines, which share a map, a    *)
(* slice and channels without a lock, do together what one thread would:   *)
(* each Estimator read is carried out at once, on one sender at most, with *)
(* the settings it leaves open unchanged, and forecasts reach it in order. *)
ImplementsService == Service!Spec

(***************************************************************************)
(* Liveness                                                                *)
(***************************************************************************)
(* Every Reconcile returns: neither the rendezvous with the handler nor    *)
(* the bounded data channel blocks the only worker for ever.               *)
ReconcileReturns == rpc # "idle" ~> rpc = "idle"

(* A goroutine told to stop ends. *)
StoppedGoroutineEnds == \A g \in Goroutines : g \in stopped ~> g \notin stopped

(* Once the environment leaves it alone the controller comes to rest, in a *)
(* state that satisfies QuiescentConverged.                                *)
EventuallyAtRest == <>[]Quiescent
=============================================================================
