--------------------------- MODULE IHPAController ---------------------------
(***************************************************************************)
(* IntelligentHorizontalPodAutoscalerReconciler.Reconcile: one worker that *)
(* turns an IHPA object into an HPA, a ServiceAccount, a Role and a        *)
(* RoleBinding, and one FittingJob and one Estimator per metric, through   *)
(* one call of the API server after the other.                             *)
(*                                                                         *)
(* The only memory of what was created is an annotation of the IHPA, the   *)
(* ids of its fitting jobs, written by the last call of a reconcile; the   *)
(* next reconcile deletes what the annotation names and the spec does not. *)
(* Any call may fail, the user may change the IHPA between any two calls,  *)
(* the garbage collector deletes the objects of an IHPA that is gone, and  *)
(* the informer caches the reconciler lists from may lag behind.           *)
(*                                                                         *)
(* fittingJobMap is left out: the code writes it and never reads it.       *)
(***************************************************************************)
EXTENDS Naturals, FiniteSets

CONSTANTS
    IHPAs,            \* names of IHPA objects, in one namespace
    Metrics,          \* metric names
    Targets,          \* scale targets
    None,             \* absence of an object
    Lagging,          \* may the FittingJob and Estimator caches lag?
    MaxEdits,         \* bound: creations, changes, deletions by users
    MaxIncarnations,  \* bound: creations of an IHPA of one name
    MaxFailures,      \* bound: failed calls
    MaxCrashes        \* bound: crashes of the controller

ASSUME ConstantsAssumption ==
    /\ Lagging \in BOOLEAN
    /\ {MaxEdits, MaxIncarnations, MaxFailures, MaxCrashes} \subseteq Nat

(***************************************************************************)
(* Values                                                                  *)
(***************************************************************************)
Uids == 1..MaxIncarnations   \* of the IHPAs of one name

(* uniqueMetricID: a hash of the metric and the target, not of the IHPA. *)
Ids == Metrics \X Targets

IdsOf(obj) == {<<m, obj.target>> : m \in obj.metrics}

(* The annotation ids is the empty set before its first write, too. *)
IHPASpecs == [uid : Uids, metrics : SUBSET Metrics, target : Targets,
              ids : SUBSET Ids]

HPASpecs == [uid : Uids, metrics : SUBSET Metrics, target : Targets]

RBACKinds == {"sa", "role", "rb"}
Grants == [uid : Uids, names : SUBSET Metrics]

(* FittingJobs and Estimators.  The id is an annotation set on creation;   *)
(* the target stands for the spec, which every reconcile replaces.         *)
ChildKinds == {"fj", "est"}
Names == [kind : ChildKinds, ihpa : IHPAs, metric : Metrics]
Children == [uid : Uids, id : Ids, target : Targets]

ASSUME NothingAssumption ==
    /\ None \notin IHPAs \cup IHPASpecs \cup HPASpecs \cup Grants
    /\ None \notin Children

VARIABLES
    ihpa,    \* IHPA objects
    born,    \* how many IHPAs of each name were created
    hpa,     \* HPA of each IHPA
    rbac,    \* ServiceAccount, Role and RoleBinding of each IHPA
    child,   \* FittingJobs and Estimators
    hidden,  \* names of children created and not yet in the cache
    queue,   \* workqueue
    rpc,     \* where the worker is in Reconcile
    rkey,    \* the request being reconciled
    robj,    \* the IHPA read at the start of Reconcile
    rfresh,  \* the IHPA has not changed since
    rtodo,   \* names of children the current loop has still to visit
    rmade,   \* history: this reconcile has created a child
    cut,     \* history: IHPAs a reconcile of which created a child and
             \* ended before the annotation
    missed,  \* history: children that were to be deleted and that the
             \* cache did not show, until they are gone or named again
    lost,    \* history: IHPAs that since their last reconcile began took
             \* over an object of a predecessor, which will be collected,
             \* or lost a child to another IHPA with the same target
    edits, failures, crashes   \* counters of the bounds

apiVars  == <<hpa, rbac, child, hidden>>
userVars == <<ihpa, born, edits>>
recVars  == <<rpc, rkey, robj, rfresh, rtodo, rmade>>
history  == <<cut, missed, lost>>
faults   == <<failures, crashes>>
vars == <<userVars, apiVars, queue, recVars, history, faults>>

Alive(i, uid) == ihpa[i] # None /\ ihpa[i].uid = uid

Init ==
    /\ ihpa = [i \in IHPAs |-> None]
    /\ born = [i \in IHPAs |-> 0]
    /\ hpa = [i \in IHPAs |-> None]
    /\ rbac = [k \in RBACKinds |-> [i \in IHPAs |-> None]]
    /\ child = [n \in Names |-> None]
    /\ hidden = {}
    /\ queue = {}
    /\ rpc = "idle" /\ rkey = None /\ robj = None
    /\ rfresh = FALSE /\ rtodo = {} /\ rmade = FALSE
    /\ cut = {} /\ missed = {} /\ lost = {}
    /\ edits = 0 /\ failures = 0 /\ crashes = 0

(***************************************************************************)
(* Environment: users, the informers' resync, the garbage collector        *)
(***************************************************************************)
(* A user's write: an event for the queue, and a new resource version. *)
Write(i, obj) ==
    /\ edits < MaxEdits
    /\ edits' = edits + 1
    /\ ihpa' = [ihpa EXCEPT ![i] = obj]
    /\ queue' = queue \cup {i}
    /\ rfresh' = (rfresh /\ rkey # i)
    /\ UNCHANGED <<apiVars, rpc, rkey, robj, rtodo, rmade, history, faults>>

CreateIHPA(i) ==
    /\ ihpa[i] = None
    /\ born[i] < MaxIncarnations
    /\ born' = [born EXCEPT ![i] = @ + 1]
    /\ \E ms \in SUBSET Metrics, t \in Targets :
          Write(i, [uid |-> born'[i], metrics |-> ms, target |-> t,
                    ids |-> {}])

EditIHPA(i) ==
    /\ ihpa[i] # None
    /\ \E ms \in SUBSET Metrics, t \in Targets :
          /\ <<ms, t>> # <<ihpa[i].metrics, ihpa[i].target>>
          /\ Write(i, [uid |-> ihpa[i].uid, metrics |-> ms, target |-> t,
                       ids |-> ihpa[i].ids])
    /\ UNCHANGED born

DeleteIHPA(i) ==
    /\ ihpa[i] # None
    /\ Write(i, None)
    /\ UNCHANGED born

Existing == {i \in IHPAs : ihpa[i] # None}

(* Every ten hours the informers deliver every object again. *)
Resync ==
    /\ queue' = queue \cup Existing
    /\ UNCHANGED <<userVars, apiVars, recVars, history, faults>>

(* The garbage collector deletes an object whose owner is gone. *)
CollectHPA(i) ==
    /\ hpa[i] # None /\ ~Alive(i, hpa[i].uid)
    /\ hpa' = [hpa EXCEPT ![i] = None]
    /\ UNCHANGED <<userVars, rbac, child, hidden, queue, recVars, history, faults>>

CollectRBAC(k, i) ==
    /\ rbac[k][i] # None /\ ~Alive(i, rbac[k][i].uid)
    /\ rbac' = [rbac EXCEPT ![k][i] = None]
    /\ UNCHANGED <<userVars, hpa, child, hidden, queue, recVars, history, faults>>

CollectChild(n) ==
    /\ child[n] # None /\ ~Alive(n.ihpa, child[n].uid)
    /\ child' = [child EXCEPT ![n] = None]
    /\ hidden' = hidden \ {n} /\ missed' = missed \ {n}
    /\ UNCHANGED <<userVars, hpa, rbac, queue, recVars, cut, lost, faults>>

(* The watch event of a created child reaches the cache. *)
Observe(n) ==
    /\ n \in hidden
    /\ hidden' = hidden \ {n}
    /\ UNCHANGED <<userVars, hpa, rbac, child, queue, recVars, history, faults>>

(***************************************************************************)
(* Reconcile                                                               *)
(***************************************************************************)
Return ==
    /\ rpc' = "idle" /\ rkey' = None /\ robj' = None
    /\ rfresh' = FALSE /\ rtodo' = {} /\ rmade' = FALSE

(* The history of reconciles cut short. *)
CutShort ==
    /\ cut' = IF rmade THEN cut \cup {rkey} ELSE cut
    /\ UNCHANGED <<missed, lost>>

(* Mutant: the error is logged and nil returned. *)
ReturnError_Swallowed == Return /\ CutShort /\ UNCHANGED queue

(* The error puts the request back on the queue. *)
ReturnError == Return /\ CutShort /\ queue' = queue \cup {rkey}

(* r.Get(IHPA): nothing to do if it is gone. *)
Begin(i) ==
    /\ rpc = "idle"
    /\ i \in queue
    /\ queue' = queue \ {i}
    /\ lost' = lost \ {i}
    /\ IF ihpa[i] = None
       THEN UNCHANGED recVars
       ELSE /\ rpc' = "hpa" /\ rkey' = i /\ robj' = ihpa[i]
            /\ rfresh' = TRUE /\ rtodo' = {} /\ rmade' = FALSE
    /\ UNCHANGED <<userVars, apiVars, cut, missed, faults>>

(* A call fails: the API server is unavailable, somebody else has changed  *)
(* the object, the scale target does not exist.                            *)
Fail ==
    /\ rpc # "idle"
    /\ failures < MaxFailures
    /\ failures' = failures + 1
    /\ ReturnError
    /\ UNCHANGED <<userVars, apiVars, crashes>>

(* The history of objects taken over: they keep their former owner. *)
TakeOver(obj) == lost' = IF obj # None /\ obj.uid # robj.uid
                         THEN lost \cup {rkey} ELSE lost

Goto(pc) == rpc' = pc /\ UNCHANGED <<rkey, robj, rfresh, rmade>>

(* Mutant: only created, like the RBAC objects. *)
EnsureHPA_Once ==
    /\ rpc = "hpa"
    /\ hpa' = IF hpa[rkey] # None THEN hpa
              ELSE [hpa EXCEPT ![rkey] =
                      [uid |-> robj.uid, metrics |-> robj.metrics,
                       target |-> robj.target]]
    /\ TakeOver(hpa[rkey])
    /\ Goto("sa")
    /\ UNCHANGED <<userVars, rbac, child, hidden, queue, rtodo, cut, missed,
                   faults>>

(* Create the HPA, or replace its spec. *)
EnsureHPA ==
    /\ rpc = "hpa"
    /\ hpa' = [hpa EXCEPT ![rkey] =
                 [uid |-> IF @ = None THEN robj.uid ELSE @.uid,
                  metrics |-> robj.metrics, target |-> robj.target]]
    /\ TakeOver(hpa[rkey])
    /\ Goto("sa")
    /\ UNCHANGED <<userVars, rbac, child, hidden, queue, rtodo, cut, missed,
                   faults>>

(* Mutant: no owner reference. *)
GrantOf_Unowned(k, obj) ==
    [uid |-> 0, names |-> IF k = "role" THEN obj.metrics ELSE {}]

(* RBACResources: the Role names the ConfigMaps of the metrics. *)
GrantOf(k, obj) ==
    [uid |-> obj.uid, names |-> IF k = "role" THEN obj.metrics ELSE {}]

(* The names of the resources generated for the metrics of the IHPA. *)
Generated(k) == [kind : {k}, ihpa : {rkey}, metric : robj.metrics]

(* Create the object unless there is one: it is never updated. *)
EnsureRBAC(k) ==
    /\ rpc = k
    /\ rbac' = IF rbac[k][rkey] = None
               THEN [rbac EXCEPT ![k][rkey] = GrantOf(k, robj)]
               ELSE rbac
    /\ \/ k = "sa" /\ Goto("role") /\ UNCHANGED rtodo
       \/ k = "role" /\ Goto("rb") /\ UNCHANGED rtodo
       \/ k = "rb" /\ Goto("fj") /\ rtodo' = Generated("fj")
    /\ TakeOver(rbac[k][rkey])
    /\ UNCHANGED <<userVars, hpa, child, hidden, queue, cut, missed, faults>>

(* Not in the cache, and not there: create it with its id and its owner. *)
CreateChild(n) ==
    /\ rpc \in ChildKinds
    /\ n \in rtodo
    /\ child[n] = None
    /\ child' = [child EXCEPT ![n] =
                   [uid |-> robj.uid, id |-> <<n.metric, robj.target>>,
                    target |-> robj.target]]
    /\ hidden' = IF Lagging THEN hidden \cup {n} ELSE hidden
    /\ rtodo' = rtodo \ {n}
    /\ rmade' = TRUE
    /\ UNCHANGED <<userVars, hpa, rbac, queue, rpc, rkey, robj, rfresh, history,
                   faults>>

(* Not in the cache, but there: AlreadyExists. *)
CreateFails(n) ==
    /\ rpc \in ChildKinds
    /\ n \in rtodo \cap hidden
    /\ ReturnError
    /\ UNCHANGED <<userVars, apiVars, faults>>

(* Mutant: what exists is left as it is. *)
Replaced_Kept(n) == child[n]

(* The spec is replaced; the annotations and the owner are not. *)
Replaced(n) == [child[n] EXCEPT !.target = robj.target]

UpdateChild(n) ==
    /\ rpc \in ChildKinds
    /\ n \in rtodo \ hidden
    /\ child[n] # None
    /\ child' = [child EXCEPT ![n] = Replaced(n)]
    /\ rtodo' = rtodo \ {n}
    /\ TakeOver(child[n])
    /\ UNCHANGED <<userVars, hpa, rbac, hidden, queue, rpc, rkey, robj,
                   rfresh, rmade, cut, missed, faults>>

FittingJobsDone ==
    /\ rpc = "fj" /\ rtodo = {}
    /\ Goto("est")
    /\ rtodo' = Generated("est")
    /\ UNCHANGED <<userVars, apiVars, queue, history, faults>>

(* Mutant: the ids that are still wanted are not taken out. *)
DeleteIds_AllOld == robj.ids

(* deleteIds: what the annotation names and the spec no longer does. *)
DeleteIds == robj.ids \ IdsOf(robj)

(* Mutant: only the FittingJobs are deleted, the Estimators stay. *)
Doomed_FittingJobs(k) ==
    {n \in Names \ hidden : n.kind = "fj" /\ n.kind = k /\ child[n] # None
                            /\ child[n].id \in DeleteIds}

(* The children with one of these ids, whoever they belong to, as the      *)
(* cache shows them.                                                       *)
Doomed(k) == {n \in Names \ hidden : n.kind = k /\ child[n] # None
                                     /\ child[n].id \in DeleteIds}

(* Those that the cache does not show yet. *)
Missed(k) == {n \in hidden : n.kind = k /\ child[n] # None
                              /\ child[n].id \in DeleteIds}

ListDoomed(k, pc) ==
    /\ rtodo' = Doomed(k)
    /\ Goto(pc)
    /\ missed' = missed \cup Missed(k)
    /\ UNCHANGED <<userVars, apiVars, queue, cut, lost, faults>>

ListFittingJobs == rpc = "est" /\ rtodo = {} /\ ListDoomed("fj", "delfj")

ListEstimators == rpc = "delfj" /\ rtodo = {} /\ ListDoomed("est", "delest")

DeleteChild(n) ==
    /\ rpc \in {"delfj", "delest"}
    /\ n \in rtodo
    /\ child[n] # None
    /\ child' = [child EXCEPT ![n] = None]
    /\ hidden' = hidden \ {n} /\ missed' = missed \ {n}
    /\ rtodo' = rtodo \ {n}
    /\ lost' = lost \cup ({n.ihpa} \ {rkey})
    /\ UNCHANGED <<userVars, hpa, rbac, queue, rpc, rkey, robj, rfresh,
                   rmade, cut, faults>>

(* The garbage collector was faster: NotFound. *)
DeleteFails(n) ==
    /\ rpc \in {"delfj", "delest"}
    /\ n \in rtodo
    /\ child[n] = None
    /\ ReturnError
    /\ UNCHANGED <<userVars, apiVars, faults>>

(* r.Update(IHPA): the annotation is the ids in the order of a map, random *)
(* each time; writing what is there is no event, another order is one.     *)
Annotate ==
    /\ rpc = "delest" /\ rtodo = {}
    /\ rfresh
    /\ ihpa' = [ihpa EXCEPT ![rkey].ids = IdsOf(robj)]
    /\ Return
    /\ missed' = {n \in missed : n.ihpa = rkey => child[n].id \notin IdsOf(robj)}
    /\ UNCHANGED <<born, edits, apiVars, cut, lost, faults>>

AnnotateSame ==
    /\ Annotate
    /\ robj.ids = IdsOf(robj)
    /\ UNCHANGED queue

AnnotateOther ==
    /\ Annotate
    /\ \/ robj.ids # IdsOf(robj)
       \/ \E x, y \in IdsOf(robj) : x # y
    /\ queue' = queue \cup {rkey}

(* The API server refuses an update of a version that is not the last. *)
AnnotateConflicts ==
    /\ rpc = "delest" /\ rtodo = {}
    /\ ~rfresh
    /\ ReturnError
    /\ UNCHANGED <<userVars, apiVars, faults>>

(* The controller dies and starts again: its informers list everything. *)
Crash ==
    /\ crashes < MaxCrashes
    /\ crashes' = crashes + 1
    /\ Return
    /\ CutShort
    /\ queue' = Existing
    /\ hidden' = {}
    /\ UNCHANGED <<userVars, hpa, rbac, child, failures>>

(***************************************************************************)
(* The specification                                                       *)
(***************************************************************************)
User == \E i \in IHPAs : CreateIHPA(i) \/ EditIHPA(i) \/ DeleteIHPA(i)

Collector == \/ \E i \in IHPAs : CollectHPA(i)
             \/ \E k \in RBACKinds, i \in IHPAs : CollectRBAC(k, i)
             \/ \E n \in Names : CollectChild(n)

Step == \/ EnsureHPA
        \/ \E k \in RBACKinds : EnsureRBAC(k)
        \/ \E n \in Names : \/ CreateChild(n) \/ UpdateChild(n)
                            \/ CreateFails(n)
                            \/ DeleteChild(n) \/ DeleteFails(n)
        \/ FittingJobsDone \/ ListFittingJobs \/ ListEstimators
        \/ AnnotateSame \/ AnnotateOther \/ AnnotateConflicts

Next == \/ User \/ Resync \/ Collector
        \/ \E n \in Names : Observe(n)
        \/ \E i \in IHPAs : Begin(i)
        \/ Step \/ Fail \/ Crash

Spec == Init /\ [][Next]_vars

(* The worker runs, the queue is first-in first-out, caches catch up, the  *)
(* garbage collector and the resync come round, and a random order of the  *)
(* ids is in the end the one already written.  Nothing is assumed of users.*)
Fairness ==
    /\ WF_vars(Step)
    /\ \A i \in IHPAs : SF_vars(Begin(i))
    /\ SF_vars(AnnotateSame)
    /\ WF_vars(Collector)
    /\ WF_vars(Resync)
    /\ \A n \in Names : WF_vars(Observe(n))

FairSpec == Spec /\ Fairness

(***************************************************************************)
(* Invariants                                                              *)
(***************************************************************************)
TypeOK ==
    /\ ihpa \in [IHPAs -> IHPASpecs \cup {None}]
    /\ born \in [IHPAs -> 0..MaxIncarnations]
    /\ hpa \in [IHPAs -> HPASpecs \cup {None}]
    /\ rbac \in [RBACKinds -> [IHPAs -> Grants \cup {None}]]
    /\ child \in [Names -> Children \cup {None}]
    /\ hidden \in SUBSET Names
    /\ queue \in SUBSET IHPAs
    /\ rpc \in {"idle", "hpa", "sa", "role", "rb", "fj", "est", "delfj",
                "delest"}
    /\ rkey \in IHPAs \cup {None}
    /\ robj \in IHPASpecs \cup {None}
    /\ rfresh \in BOOLEAN
    /\ rtodo \in SUBSET Names
    /\ rmade \in BOOLEAN
    /\ cut \in SUBSET IHPAs
    /\ missed \in SUBSET Names
    /\ lost \in SUBSET IHPAs
    /\ edits \in 0..MaxEdits
    /\ failures \in 0..MaxFailures
    /\ crashes \in 0..MaxCrashes

NoGarbage ==
    /\ \A i \in IHPAs : hpa[i] # None => Alive(i, hpa[i].uid)
    /\ \A k \in RBACKinds, i \in IHPAs :
          rbac[k][i] # None => Alive(i, rbac[k][i].uid)
    /\ \A n \in Names : child[n] # None => Alive(n.ihpa, child[n].uid)

(* Nothing is left to do until a user or the resync comes. *)
Resting == queue = {} /\ rpc = "idle" /\ hidden = {} /\ NoGarbage

(* Everything the spec of an IHPA asks for exists and is up to date. *)
Complete(i) ==
    /\ hpa[i] # None
    /\ hpa[i].metrics = ihpa[i].metrics /\ hpa[i].target = ihpa[i].target
    /\ \A k \in RBACKinds : rbac[k][i] # None
    /\ \A k \in ChildKinds, m \in ihpa[i].metrics :
          LET c == child[[kind |-> k, ihpa |-> i, metric |-> m]] IN
             c # None /\ c.target = ihpa[i].target

(* When there is nothing left to do every IHPA has all its resources, with *)
(* its current spec, whatever was edited, failed or crashed in between     *)
(* (the order of the calls of Reconcile, and the requeue on every error),  *)
(* except one that since its last reconcile began took over an object of a *)
(* predecessor or lost a child to another IHPA: nothing wakes the          *)
(* reconciler when these are gone, until the next resync.                  *)
RestComplete == Resting => \A i \in Existing \ lost : Complete(i)

(* The child is one the spec of its IHPA asks for. *)
Wanted(n) ==
    LET i == n.ihpa IN
       /\ ihpa[i] # None
       /\ n.metric \in ihpa[i].metrics
       /\ child[n].id = <<n.metric, ihpa[i].target>>

(* When there is nothing left to do no FittingJob or Estimator remains of  *)
(* a metric that was removed or a target that was left, except of an IHPA  *)
(* a reconcile of which was cut short after it had created a child, and    *)
(* except the very children a stale cache did not show to the deletion     *)
(* (List, lines 220 and 235): cleaning up by the annotation fails in no    *)
(* other way.                                                              *)
NoStrays == Resting => \A n \in Names \ missed :
    child[n] # None /\ n.ihpa \notin cut => Wanted(n)

(* What Reconcile knows at each point. *)
WorkerKnows ==
    /\ rpc = "idle" => rkey = None /\ ~rmade
    /\ rpc # "idle" => rkey \in IHPAs /\ robj \in IHPASpecs
    /\ rpc # "idle" /\ rkey \notin queue => rfresh
    /\ rfresh => rpc # "idle" /\ ihpa[rkey] = robj
    /\ rpc \in ChildKinds => \A n \in rtodo :
          n.ihpa = rkey /\ n.metric \in robj.metrics

(* Nothing belongs to an IHPA that is still to be created. *)
UidsAreNew ==
    /\ \A i \in IHPAs : ihpa[i] # None => ihpa[i].uid <= born[i]
    /\ rpc # "idle" => robj.uid <= born[rkey]
    /\ \A n \in Names : child[n] # None =>
          /\ child[n].uid <= born[n.ihpa]
          /\ child[n].id[1] = n.metric

(* The annotation, or the reconcile under way, knows every child. *)
Traceable == \A n \in Names \ missed :
    child[n] # None /\ Alive(n.ihpa, child[n].uid) /\ n.ihpa \notin cut =>
       \/ child[n].id \in ihpa[n.ihpa].ids
       \/ rmade /\ rkey = n.ihpa /\ child[n].id \in IdsOf(robj)

(* An IHPA nobody has still to reconcile is annotated with its ids. *)
AnnotationCurrent == \A i \in Existing \ (queue \cup {rkey}) :
    ihpa[i].ids = IdsOf(ihpa[i])

(* What was to be deleted is deleted, or next to be, or was not listed. *)
Pruned == \A n \in Names \ missed :
    /\ child[n] # None
    /\ \/ rpc = "delest"
       \/ rpc = "delfj" /\ n.kind = "fj"
    /\ child[n].id \in DeleteIds
    => n \in rtodo /\ (rpc = "delest" => n.kind = "est")

(* The inductive invariant behind NoStrays and ForgetsOnlyTheDeleted.      *)
CleanupInv ==
    /\ TypeOK
    /\ WorkerKnows
    /\ UidsAreNew
    /\ Traceable
    /\ AnnotationCurrent
    /\ Pruned

(* What the comment on fittingJobMap says of the cleanup: any fitting job  *)
(* of a removed metric can be deleted by comparing the annotation.         *)
NoOrphans == Resting => \A n \in Names : child[n] # None => Wanted(n)

(***************************************************************************)
(* Action properties                                                       *)
(***************************************************************************)
(* While an IHPA lives its annotation forgets an id only when no FittingJob *)
(* and no Estimator with that id is left, wherever a reconcile was         *)
(* interrupted (deletion comes before the annotation in Reconcile).  The   *)
(* exception is a child that was there when Reconcile listed (lines 220    *)
(* and 235) and that the informer cache did not show yet: its id is        *)
(* forgotten while it exists, and no later reconcile deletes it.           *)
ForgetsOnlyTheDeleted == [][\A i \in IHPAs :
    ihpa[i] # None /\ ihpa'[i] # None =>
       \A n \in Names : child'[n] # None /\ n \notin missed' =>
          child'[n].id \notin ihpa[i].ids \ ihpa'[i].ids]_vars

(***************************************************************************)
(* Liveness                                                                *)
(***************************************************************************)
(* Once users leave the IHPAs alone, each has all its resources for good,  *)
(* and nothing remains of those that are gone, even after an IHPA was      *)
(* re-created under the eyes of the garbage collector or two IHPAs with    *)
(* one target deleted each other's children: the resync heals them.        *)
Heals == <>[](NoGarbage /\ \A i \in Existing : Complete(i))
=============================================================================
