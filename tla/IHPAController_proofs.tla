----------------------- MODULE IHPAController_proofs -----------------------
(***************************************************************************)
(* Theorems about IHPAController, for every value of its constants.        *)
(***************************************************************************)
EXTENDS IHPAController, TLAPS

(* The initial state satisfies the invariant: there is nothing yet.        *)
LEMMA InitCleanupInv == ASSUME Init PROVE CleanupInv
<1>1. TypeOK
  <2>1. /\ 0 \in 0..MaxIncarnations /\ 0 \in 0..MaxEdits
        /\ 0 \in 0..MaxFailures /\ 0 \in 0..MaxCrashes
    BY ConstantsAssumption DEF ConstantsAssumption
  <2>2. /\ born \in [IHPAs -> 0..MaxIncarnations] /\ edits \in 0..MaxEdits
        /\ failures \in 0..MaxFailures /\ crashes \in 0..MaxCrashes
    BY <2>1, Zenon DEF Init
  <2> QED
    BY <2>2 DEF Init, TypeOK
<1>2. WorkerKnows
  BY DEF Init, WorkerKnows, ChildKinds
<1>3. UidsAreNew /\ Traceable /\ AnnotationCurrent /\ Pruned
  BY DEF Init, UidsAreNew, Traceable, AnnotationCurrent, Existing, Pruned
<1> QED
  BY <1>1, <1>2, <1>3 DEF CleanupInv

(* The ids of an IHPA are ids.                                             *)
LEMMA IdsOfType == ASSUME NEW obj \in IHPASpecs PROVE IdsOf(obj) \subseteq Ids
  BY DEF IHPASpecs, IdsOf, Ids

(* The history of what is taken over names the IHPA being reconciled.      *)
LEMMA TakeOverType ==
  ASSUME NEW obj, TakeOver(obj), rkey \in IHPAs, lost \subseteq IHPAs
  PROVE  lost' \subseteq IHPAs
  BY Zenon DEF TakeOver

(* A step keeps the types, given what the worker knows.                    *)
LEMMA TypeStep == ASSUME TypeOK, WorkerKnows, [Next]_vars PROVE TypeOK'
<1> USE ConstantsAssumption
    DEF ConstantsAssumption, TypeOK, vars, userVars, apiVars, recVars, history, faults
<1>1. ASSUME NEW i \in IHPAs, CreateIHPA(i) PROVE TypeOK'
  <2>1. born[i] + 1 \in Uids
    BY <1>1 DEF CreateIHPA, Uids
  <2>2. PICK ms \in SUBSET Metrics, t \in Targets :
           Write(i, [uid |-> born'[i], metrics |-> ms, target |-> t,
                     ids |-> {}])
    BY <1>1 DEF CreateIHPA
  <2>3. [uid |-> born'[i], metrics |-> ms, target |-> t, ids |-> {}]
           \in IHPASpecs
    BY <1>1, <2>1 DEF CreateIHPA, IHPASpecs
  <2>4. born' \in [IHPAs -> 0..MaxIncarnations]
    BY <1>1, <2>1 DEF CreateIHPA, Uids
  <2>5. ihpa' \in [IHPAs -> IHPASpecs \cup {None}]
    BY <2>2, <2>3 DEF Write
  <2> QED
    BY <2>2, <2>4, <2>5 DEF Write
<1>2. ASSUME NEW i \in IHPAs, EditIHPA(i) PROVE TypeOK'
  <2>1. PICK ms \in SUBSET Metrics, t \in Targets :
           Write(i, [uid |-> ihpa[i].uid, metrics |-> ms, target |-> t,
                     ids |-> ihpa[i].ids])
    BY <1>2 DEF EditIHPA
  <2>2. [uid |-> ihpa[i].uid, metrics |-> ms, target |-> t,
         ids |-> ihpa[i].ids] \in IHPASpecs
    BY <1>2 DEF EditIHPA, IHPASpecs
  <2> QED
    BY <1>2, <2>1, <2>2 DEF EditIHPA, Write
<1>3. ASSUME NEW i \in IHPAs, DeleteIHPA(i) PROVE TypeOK'
  BY <1>3 DEF DeleteIHPA, Write
<1>4. ASSUME Resync PROVE TypeOK'
  BY <1>4 DEF Resync, Existing
<1>5. ASSUME NEW i \in IHPAs, CollectHPA(i) PROVE TypeOK'
  BY <1>5 DEF CollectHPA
<1>6. ASSUME NEW k \in RBACKinds, NEW i \in IHPAs, CollectRBAC(k, i) PROVE TypeOK'
  BY <1>6 DEF CollectRBAC
<1>7. ASSUME NEW n \in Names, CollectChild(n) PROVE TypeOK'
  BY <1>7 DEF CollectChild
<1>8. ASSUME NEW n \in Names, Observe(n) PROVE TypeOK'
  BY <1>8 DEF Observe
<1>9. ASSUME NEW i \in IHPAs, Begin(i) PROVE TypeOK'
  BY <1>9 DEF Begin
<1>10. ASSUME rpc # "idle", ReturnError,
              UNCHANGED <<userVars, apiVars, crashes>>,
              failures' \in 0..MaxFailures
       PROVE  TypeOK'
  BY <1>10 DEF ReturnError, Return, CutShort, WorkerKnows
<1>11. ASSUME Fail PROVE TypeOK'
  <2>1. failures' \in 0..MaxFailures
    BY <1>11 DEF Fail
  <2> QED
    BY <1>10, <1>11, <2>1 DEF Fail
<1>12. ASSUME EnsureHPA PROVE TypeOK'
  <2>1. rkey \in IHPAs /\ robj \in IHPASpecs
    BY <1>12 DEF EnsureHPA, WorkerKnows
  <2>2. lost' \subseteq IHPAs
    BY <1>12, <2>1, TakeOverType DEF EnsureHPA
  <2>3. hpa' \in [IHPAs -> HPASpecs \cup {None}]
    BY <1>12, <2>1 DEF EnsureHPA, HPASpecs, IHPASpecs
  <2> QED
    BY <1>12, <2>2, <2>3 DEF EnsureHPA, Goto
<1>13. ASSUME NEW k \in RBACKinds, EnsureRBAC(k) PROVE TypeOK'
  <2>1. rkey \in IHPAs /\ robj \in IHPASpecs
    BY <1>13 DEF EnsureRBAC, WorkerKnows, RBACKinds
  <2>2. GrantOf(k, robj) \in Grants
    BY <2>1 DEF GrantOf, Grants, IHPASpecs
  <2>3. rbac' \in [RBACKinds -> [IHPAs -> Grants \cup {None}]]
    BY <1>13, <2>1, <2>2 DEF EnsureRBAC
  <2>4. Generated("fj") \subseteq Names
    BY <2>1 DEF Generated, Names, ChildKinds, IHPASpecs
  <2>5. lost' \subseteq IHPAs
    BY <1>13, <2>1, TakeOverType DEF EnsureRBAC
  <2>6. rpc' \in {"role", "rb", "fj"} /\ rtodo' \in {rtodo, Generated("fj")}
    BY <1>13 DEF EnsureRBAC, Goto
  <2> QED
    BY <1>13, <2>3, <2>4, <2>5, <2>6 DEF EnsureRBAC, Goto
<1>14. ASSUME NEW n \in Names, CreateChild(n) PROVE TypeOK'
  <2>1. n.metric \in Metrics /\ robj \in IHPASpecs
    BY <1>14 DEF Names, CreateChild, WorkerKnows, ChildKinds
  <2>2. [uid |-> robj.uid, id |-> <<n.metric, robj.target>>,
         target |-> robj.target] \in Children
    BY <2>1 DEF Children, Ids, IHPASpecs
  <2> QED
    BY <1>14, <2>2 DEF CreateChild
<1>15. ASSUME NEW n \in Names, UpdateChild(n) PROVE TypeOK'
  <2>1. robj \in IHPASpecs
    BY <1>15 DEF UpdateChild, WorkerKnows, ChildKinds
  <2>2. Replaced(n) \in Children
    BY <1>15, <2>1 DEF UpdateChild, Replaced, Children, IHPASpecs
  <2>3. lost' \subseteq IHPAs
    BY <1>15, TakeOverType DEF UpdateChild, WorkerKnows, ChildKinds
  <2> QED
    BY <1>15, <2>2, <2>3 DEF UpdateChild
<1>16. ASSUME NEW n \in Names, CreateFails(n) PROVE TypeOK'
  BY <1>10, <1>16 DEF CreateFails, ChildKinds
<1>17. ASSUME NEW n \in Names, DeleteChild(n) PROVE TypeOK'
  <2>1. lost' \subseteq IHPAs
    BY <1>17 DEF DeleteChild, Names
  <2> QED
    BY <1>17, <2>1 DEF DeleteChild
<1>18. ASSUME NEW n \in Names, DeleteFails(n) PROVE TypeOK'
  BY <1>10, <1>18 DEF DeleteFails
<1>19. ASSUME FittingJobsDone PROVE TypeOK'
  <2>1. Generated("est") \subseteq Names
    BY <1>19 DEF FittingJobsDone, WorkerKnows, Generated, Names, ChildKinds,
                 IHPASpecs
  <2> QED
    BY <1>19, <2>1 DEF FittingJobsDone, Goto
<1>20. ASSUME NEW k, NEW pc \in {"delfj", "delest"}, ListDoomed(k, pc) PROVE TypeOK'
  BY <1>20 DEF ListDoomed, Goto, Doomed, Missed, Names
<1>21. ASSUME ListFittingJobs \/ ListEstimators PROVE TypeOK'
  BY <1>20, <1>21 DEF ListFittingJobs, ListEstimators
<1>22. ASSUME Annotate, queue' \in SUBSET IHPAs PROVE TypeOK'
  <2>1. IdsOf(robj) \subseteq Ids /\ rkey \in IHPAs /\ ihpa[rkey] \in IHPASpecs
    BY <1>22, IdsOfType DEF Annotate, WorkerKnows
  <2>2. [ihpa[rkey] EXCEPT !.ids = IdsOf(robj)] \in IHPASpecs
    BY <2>1 DEF IHPASpecs
  <2> QED
    BY <1>22, <2>1, <2>2 DEF Annotate, Return
<1>23. ASSUME AnnotateSame \/ AnnotateOther PROVE TypeOK'
  <2>1. rkey \in IHPAs
    BY <1>23 DEF AnnotateSame, AnnotateOther, Annotate, WorkerKnows
  <2> QED
    BY <1>22, <1>23, <2>1 DEF AnnotateSame, AnnotateOther
<1>24. ASSUME AnnotateConflicts PROVE TypeOK'
  BY <1>10, <1>24 DEF AnnotateConflicts
<1>25. ASSUME Crash PROVE TypeOK'
  <2>1. cut' \in SUBSET IHPAs
    BY <1>25 DEF Crash, CutShort, WorkerKnows
  <2>2. queue' \in SUBSET IHPAs
    BY <1>25 DEF Crash, Existing
  <2>3. crashes' \in 0..MaxCrashes
    BY <1>25 DEF Crash
  <2>4. /\ rpc' = "idle" /\ rkey' = None /\ robj' = None /\ rfresh' = FALSE
        /\ rtodo' = {} /\ rmade' = FALSE /\ hidden' = {}
        /\ UNCHANGED <<ihpa, born, edits, hpa, rbac, child, missed, lost, failures>>
    BY <1>25 DEF Crash, Return, CutShort
  <2> QED
    BY <2>1, <2>2, <2>3, <2>4
<1>26. CASE UNCHANGED vars
  BY <1>26
<1>27. ASSUME User \/ Collector PROVE TypeOK'
  BY ONLY <1>1, <1>2, <1>3, <1>5, <1>6, <1>7, <1>27 DEF User, Collector
<1>28. ASSUME Step PROVE TypeOK'
  BY ONLY <1>12, <1>13, <1>14, <1>15, <1>16, <1>17, <1>18, <1>19, <1>21,
     <1>23, <1>24, <1>28
  DEF Step
<1> QED
  BY ONLY [Next]_vars, <1>4, <1>8, <1>9, <1>11, <1>25, <1>26, <1>27, <1>28
  DEF Next

(* What names, uids and counters are.                                      *)
LEMMA TypedNames ==
  /\ \A n \in Names : n.ihpa \in IHPAs /\ n.kind \in ChildKinds
  /\ \A c \in Children : c.uid \in Nat
  /\ TypeOK => \A i \in IHPAs : born[i] \in Nat
<1>1. \A n \in Names : n.ihpa \in IHPAs /\ n.kind \in ChildKinds
  BY DEF Names
<1>2. \A c \in Children : c.uid \in Nat
  BY ConstantsAssumption DEF Children, Uids, ConstantsAssumption
<1>3. TypeOK => \A i \in IHPAs : born[i] \in Nat
  BY ConstantsAssumption DEF TypeOK, ConstantsAssumption
<1> QED
  BY <1>1, <1>2, <1>3

(* A user's write does not change what the worker knows: if it is a write  *)
(* of the IHPA being reconciled, the worker's copy is no longer fresh.     *)
LEMMA WriteKnows ==
  ASSUME TypeOK, WorkerKnows, NEW i \in IHPAs, NEW obj, Write(i, obj)
  PROVE  WorkerKnows'
<1>1. rfresh' => rfresh /\ rkey # i
  BY Zenon DEF Write
<1>2. UNCHANGED <<rpc, rkey, robj, rtodo, rmade, hidden>>
  BY DEF Write, apiVars
<1>3. queue' = queue \cup {i} /\ \A j \in IHPAs \ {i} : ihpa'[j] = ihpa[j]
  BY DEF Write, TypeOK
<1>4. rfresh' => rpc # "idle" /\ ihpa'[rkey] = robj
  BY <1>1, <1>3 DEF WorkerKnows
<1>5. rpc # "idle" /\ rkey \notin queue' => rfresh'
  <2>1. rpc # "idle" /\ rkey \notin queue' => rfresh /\ rkey # i
    BY <1>3 DEF WorkerKnows
  <2> QED
    BY <2>1, Zenon DEF Write
<1> QED
  BY <1>2, <1>4, <1>5 DEF WorkerKnows

(* A step keeps what the worker knows, the traces of the children, the     *)
(* annotations and the progress of the deletion.                           *)
LEMMA CleanupStep == ASSUME CleanupInv, [Next]_vars PROVE CleanupInv'
<1> USE DEF CleanupInv, userVars, apiVars, recVars, history, faults
<1> TypeOK'
  BY TypeStep
<1> /\ ihpa \in [IHPAs -> IHPASpecs \cup {None}]
    /\ rtodo \subseteq Names
    /\ \A n \in Names : n.ihpa \in IHPAs /\ n.kind \in ChildKinds
    /\ \A i \in IHPAs : born[i] \in Nat
    /\ \A n \in Names : child[n] # None => child[n] \in Children
    /\ \A c \in Children : c.uid \in Nat
  BY TypedNames DEF TypeOK
<1>1. ASSUME NEW i \in IHPAs, CreateIHPA(i) PROVE CleanupInv'
  <2>1. WorkerKnows'
    BY <1>1, WriteKnows DEF CreateIHPA
  <2>2. UidsAreNew'
    <3>1. /\ born'[i] = born[i] + 1 /\ ihpa'[i].uid = born[i] + 1
          /\ \A j \in IHPAs \ {i} : born'[j] = born[j] /\ ihpa'[j] = ihpa[j]
          /\ UNCHANGED <<rpc, rkey, robj, child>>
      BY <1>1 DEF CreateIHPA, Write, TypeOK
    <3>2. \A j \in IHPAs : born[j] <= born'[j]
      BY <3>1
    <3>3. \A j \in IHPAs : ihpa'[j] # None => ihpa'[j].uid <= born'[j]
      BY <3>1 DEF UidsAreNew
    <3>4. rpc' # "idle" => robj'.uid <= born'[rkey']
      <4>1. SUFFICES ASSUME rpc # "idle" PROVE robj.uid <= born'[rkey]
        BY <3>1
      <4>2. robj.uid \in Nat /\ rkey \in IHPAs
        BY <4>1, ConstantsAssumption
        DEF WorkerKnows, IHPASpecs, Uids, ConstantsAssumption
      <4> QED
        BY <3>1, <4>1, <4>2 DEF UidsAreNew
    <3>5. \A n \in Names : child[n] # None => child[n].uid <= born'[n.ihpa]
      BY <3>1 DEF UidsAreNew
    <3> QED
      BY <3>1, <3>3, <3>4, <3>5 DEF UidsAreNew
  <2>3. Traceable'
    <3>1. /\ ihpa'[i].uid = born[i] + 1
          /\ \A j \in IHPAs \ {i} : ihpa'[j] = ihpa[j]
          /\ UNCHANGED <<rpc, rkey, robj, child, rmade, cut, missed>>
      BY <1>1 DEF CreateIHPA, Write, TypeOK
    <3>2. \A n \in Names : child[n] # None /\ n.ihpa = i =>
             child[n].uid # ihpa'[i].uid
      BY <3>1 DEF UidsAreNew
    <3> QED
      BY <3>1, <3>2 DEF Traceable, Alive, IdsOf
  <2>4. AnnotationCurrent'
    BY <1>1 DEF CreateIHPA, Write, AnnotationCurrent, Existing, IdsOf
  <2>5. Pruned'
    BY <1>1 DEF CreateIHPA, Write, Pruned, DeleteIds, IdsOf
  <2> QED
    BY <2>1, <2>2, <2>3, <2>4, <2>5
<1>2. ASSUME NEW i \in IHPAs, EditIHPA(i) PROVE CleanupInv'
  <2>1. WorkerKnows'
    BY <1>2, WriteKnows DEF EditIHPA
  <2>2. UidsAreNew'
    BY <1>2 DEF EditIHPA, Write, UidsAreNew
  <2>3. Traceable'
    BY <1>2 DEF EditIHPA, Write, Traceable, Alive, IdsOf
  <2>4. AnnotationCurrent'
    BY <1>2 DEF EditIHPA, Write, AnnotationCurrent, Existing, IdsOf
  <2>5. Pruned'
    BY <1>2 DEF EditIHPA, Write, Pruned, DeleteIds, IdsOf
  <2> QED
    BY <2>1, <2>2, <2>3, <2>4, <2>5
<1>3. ASSUME NEW i \in IHPAs, DeleteIHPA(i) PROVE CleanupInv'
  <2>1. WorkerKnows'
    BY <1>3, WriteKnows DEF DeleteIHPA
  <2>2. UidsAreNew'
    BY <1>3 DEF DeleteIHPA, Write, UidsAreNew
  <2>3. Traceable'
    BY <1>3 DEF DeleteIHPA, Write, Traceable, Alive, IdsOf
  <2>4. AnnotationCurrent'
    BY <1>3 DEF DeleteIHPA, Write, AnnotationCurrent, Existing, IdsOf
  <2>5. Pruned'
    BY <1>3 DEF DeleteIHPA, Write, Pruned, DeleteIds, IdsOf
  <2> QED
    BY <2>1, <2>2, <2>3, <2>4, <2>5
<1>4. ASSUME Resync PROVE CleanupInv'
  <2>1. WorkerKnows'
    BY <1>4 DEF Resync, WorkerKnows, ChildKinds
  <2>2. UidsAreNew'
    BY <1>4 DEF Resync, UidsAreNew
  <2>3. Traceable'
    BY <1>4 DEF Resync, Traceable, Alive, IdsOf
  <2>4. AnnotationCurrent'
    BY <1>4 DEF Resync, AnnotationCurrent, Existing, IdsOf
  <2>5. Pruned'
    BY <1>4 DEF Resync, Pruned, DeleteIds, IdsOf
  <2> QED
    BY <2>1, <2>2, <2>3, <2>4, <2>5
<1>5. ASSUME NEW i \in IHPAs, CollectHPA(i) PROVE CleanupInv'
  <2>1. WorkerKnows'
    BY <1>5 DEF CollectHPA, WorkerKnows, ChildKinds
  <2>2. UidsAreNew'
    BY <1>5 DEF CollectHPA, UidsAreNew
  <2>3. Traceable'
    BY <1>5 DEF CollectHPA, Traceable, Alive, IdsOf
  <2>4. AnnotationCurrent'
    BY <1>5 DEF CollectHPA, AnnotationCurrent, Existing, IdsOf
  <2>5. Pruned'
    BY <1>5 DEF CollectHPA, Pruned, DeleteIds, IdsOf
  <2> QED
    BY <2>1, <2>2, <2>3, <2>4, <2>5
<1>6. ASSUME NEW k \in RBACKinds, NEW i \in IHPAs, CollectRBAC(k, i) PROVE CleanupInv'
  <2>1. WorkerKnows'
    BY <1>6 DEF CollectRBAC, WorkerKnows, ChildKinds
  <2>2. UidsAreNew'
    BY <1>6 DEF CollectRBAC, UidsAreNew
  <2>3. Traceable'
    BY <1>6 DEF CollectRBAC, Traceable, Alive, IdsOf
  <2>4. AnnotationCurrent'
    BY <1>6 DEF CollectRBAC, AnnotationCurrent, Existing, IdsOf
  <2>5. Pruned'
    BY <1>6 DEF CollectRBAC, Pruned, DeleteIds, IdsOf
  <2> QED
    BY <2>1, <2>2, <2>3, <2>4, <2>5
<1>7. ASSUME NEW n \in Names, CollectChild(n) PROVE CleanupInv'
  <2>1. WorkerKnows'
    BY <1>7 DEF CollectChild, WorkerKnows, ChildKinds
  <2>2. UidsAreNew'
    BY <1>7 DEF CollectChild, UidsAreNew
  <2>a. /\ child'[n] = None
        /\ \A x \in Names \ {n} : child'[x] = child[x]
        /\ missed' = missed \ {n}
        /\ UNCHANGED <<ihpa, rkey, robj, rmade, cut, rtodo, rpc>>
    BY <1>7 DEF CollectChild, TypeOK
  <2>3. Traceable'
    BY <2>a DEF Traceable, Alive
  <2>4. AnnotationCurrent'
    BY <1>7 DEF CollectChild, AnnotationCurrent, Existing, IdsOf
  <2>5. Pruned'
    BY <2>a DEF Pruned, DeleteIds, IdsOf
  <2> QED
    BY <2>1, <2>2, <2>3, <2>4, <2>5
<1>8. ASSUME NEW n \in Names, Observe(n) PROVE CleanupInv'
  <2>1. WorkerKnows'
    BY <1>8 DEF Observe, WorkerKnows, ChildKinds
  <2>2. UidsAreNew'
    BY <1>8 DEF Observe, UidsAreNew
  <2>3. Traceable'
    BY <1>8 DEF Observe, Traceable, Alive, IdsOf
  <2>4. AnnotationCurrent'
    BY <1>8 DEF Observe, AnnotationCurrent, Existing, IdsOf
  <2>5. Pruned'
    BY <1>8 DEF Observe, Pruned, DeleteIds, IdsOf
  <2> QED
    BY <2>1, <2>2, <2>3, <2>4, <2>5
<1>9. ASSUME NEW i \in IHPAs, Begin(i) PROVE CleanupInv'
  <2>1. WorkerKnows'
    BY <1>9 DEF Begin, WorkerKnows, ChildKinds
  <2>2. UidsAreNew'
    BY <1>9 DEF Begin, UidsAreNew
  <2>3. Traceable'
    <3>1. UNCHANGED <<ihpa, child, cut, missed>> /\ ~rmade
      BY <1>9 DEF Begin, WorkerKnows
    <3> QED
      BY <3>1 DEF Traceable, Alive
  <2>4. AnnotationCurrent'
    <3>1. ihpa' = ihpa /\ queue' = queue \ {i}
          /\ (ihpa[i] # None => rkey' = i) /\ rkey = None
      BY <1>9 DEF Begin, WorkerKnows
    <3>2. None \notin IHPAs
      BY NothingAssumption DEF NothingAssumption
    <3> QED
      BY <3>1, <3>2 DEF AnnotationCurrent, Existing, IdsOf
  <2>5. Pruned'
    BY <1>9 DEF Begin, Pruned, DeleteIds, IdsOf
  <2> QED
    BY <2>1, <2>2, <2>3, <2>4, <2>5
<1>10. ASSUME rpc # "idle", ReturnError, UNCHANGED <<userVars, apiVars>> PROVE CleanupInv'
  <2>1. WorkerKnows'
    BY <1>10 DEF ReturnError, Return, CutShort, WorkerKnows, ChildKinds
  <2>2. UidsAreNew'
    BY <1>10 DEF ReturnError, Return, CutShort, UidsAreNew
  <2>3. Traceable'
    BY <1>10 DEF ReturnError, Return, CutShort, Traceable, Alive, IdsOf
  <2>4. AnnotationCurrent'
    BY <1>10 DEF ReturnError, Return, CutShort, AnnotationCurrent, Existing, IdsOf
  <2>5. Pruned'
    BY <1>10 DEF ReturnError, Return, CutShort, Pruned, DeleteIds, IdsOf
  <2> QED
    BY <2>1, <2>2, <2>3, <2>4, <2>5
<1>11. ASSUME EnsureHPA PROVE CleanupInv'
  <2>1. WorkerKnows'
    BY <1>11 DEF EnsureHPA, Goto, WorkerKnows, ChildKinds
  <2>2. UidsAreNew'
    BY <1>11 DEF EnsureHPA, Goto, UidsAreNew
  <2>3. Traceable'
    BY <1>11 DEF EnsureHPA, Goto, Traceable, Alive, IdsOf
  <2>4. AnnotationCurrent'
    BY <1>11 DEF EnsureHPA, Goto, AnnotationCurrent, Existing, IdsOf
  <2>5. Pruned'
    BY <1>11 DEF EnsureHPA, Goto, Pruned, DeleteIds, IdsOf
  <2> QED
    BY <2>1, <2>2, <2>3, <2>4, <2>5
<1>12. ASSUME NEW k \in RBACKinds, EnsureRBAC(k) PROVE CleanupInv'
  <2>1. WorkerKnows'
    <3>1. UNCHANGED <<ihpa, queue, rkey, robj, rfresh, rmade, hidden>>
      BY <1>12 DEF EnsureRBAC, Goto
    <3>2. \A n \in Generated("fj") : n.ihpa = rkey /\ n.metric \in robj.metrics
      BY DEF Generated
    <3>3. \/ rpc' \in {"role", "rb"}
          \/ rpc' = "fj" /\ rtodo' = Generated("fj")
      BY <1>12 DEF EnsureRBAC, Goto
    <3>4. rpc # "idle"
      BY <1>12 DEF EnsureRBAC, RBACKinds
    <3> QED
      BY <3>1, <3>2, <3>3, <3>4 DEF WorkerKnows, ChildKinds
  <2>2. UidsAreNew'
    BY <1>12 DEF EnsureRBAC, Goto, RBACKinds, Generated, UidsAreNew
  <2>3. Traceable'
    BY <1>12 DEF EnsureRBAC, Goto, RBACKinds, Generated, Traceable, Alive, IdsOf
  <2>4. AnnotationCurrent'
    BY <1>12 DEF EnsureRBAC, Goto, RBACKinds, Generated, AnnotationCurrent, Existing, IdsOf
  <2>5. Pruned'
    BY <1>12 DEF EnsureRBAC, Goto, RBACKinds, Generated, Pruned, DeleteIds, IdsOf
  <2> QED
    BY <2>1, <2>2, <2>3, <2>4, <2>5
<1>13. ASSUME NEW n \in Names, CreateChild(n) PROVE CleanupInv'
  <2>0. /\ child' = [child EXCEPT ![n] =
                       [uid |-> robj.uid, id |-> <<n.metric, robj.target>>,
                        target |-> robj.target]]
        /\ rmade' = TRUE
        /\ UNCHANGED <<ihpa, born, rpc, rkey, robj, cut, missed, queue>>
        /\ rpc \in {"fj", "est"}
        /\ n.ihpa = rkey /\ n.metric \in robj.metrics
    BY <1>13 DEF CreateChild, WorkerKnows, ChildKinds
  <2>a. /\ child'[n] = [uid |-> robj.uid, id |-> <<n.metric, robj.target>>,
                        target |-> robj.target]
        /\ \A x \in Names \ {n} : child'[x] = child[x]
    BY <2>0 DEF TypeOK
  <2>1. WorkerKnows'
    BY <1>13 DEF CreateChild, WorkerKnows, ChildKinds
  <2>2. UidsAreNew'
    BY <2>0, <2>a DEF UidsAreNew
  <2>3. Traceable'
    <3>1. child'[n].id \in IdsOf(robj)
      BY <2>0, <2>a DEF IdsOf
    <3> QED
      BY <2>0, <2>a, <3>1 DEF Traceable, Alive
  <2>4. AnnotationCurrent'
    BY <2>0 DEF AnnotationCurrent, Existing, IdsOf
  <2>5. Pruned'
    BY <2>0 DEF Pruned
  <2> QED
    BY <2>1, <2>2, <2>3, <2>4, <2>5
<1>14. ASSUME NEW n \in Names, UpdateChild(n) PROVE CleanupInv'
  <2>1. WorkerKnows'
    BY <1>14 DEF UpdateChild, Replaced, WorkerKnows, ChildKinds
  <2>2. UidsAreNew'
    BY <1>14 DEF UpdateChild, Replaced, UidsAreNew
  <2>3. Traceable'
    BY <1>14 DEF UpdateChild, Replaced, Traceable, Alive, IdsOf
  <2>4. AnnotationCurrent'
    BY <1>14 DEF UpdateChild, Replaced, AnnotationCurrent, Existing, IdsOf
  <2>5. Pruned'
    <3>1. rpc' \in {"fj", "est"}
      BY <1>14 DEF UpdateChild, ChildKinds
    <3> QED
      BY <3>1 DEF Pruned
  <2> QED
    BY <2>1, <2>2, <2>3, <2>4, <2>5
<1>15. ASSUME NEW n \in Names, DeleteChild(n) PROVE CleanupInv'
  <2>1. WorkerKnows'
    BY <1>15 DEF DeleteChild, WorkerKnows, ChildKinds
  <2>2. UidsAreNew'
    BY <1>15 DEF DeleteChild, UidsAreNew
  <2>a. /\ child'[n] = None
        /\ \A x \in Names \ {n} : child'[x] = child[x]
        /\ missed' = missed \ {n}
        /\ UNCHANGED <<ihpa, rkey, robj, rmade, cut>>
    BY <1>15 DEF DeleteChild, TypeOK
  <2>3. Traceable'
    BY <2>a DEF Traceable, Alive
  <2>4. AnnotationCurrent'
    BY <1>15 DEF DeleteChild, AnnotationCurrent, Existing, IdsOf
  <2>5. Pruned'
    <3>1. rtodo' = rtodo \ {n} /\ rpc' = rpc
      BY <1>15 DEF DeleteChild
    <3> QED
      BY <2>a, <3>1 DEF Pruned, DeleteIds, IdsOf
  <2> QED
    BY <2>1, <2>2, <2>3, <2>4, <2>5
<1>16. ASSUME FittingJobsDone PROVE CleanupInv'
  <2>1. WorkerKnows'
    BY <1>16 DEF FittingJobsDone, Goto, Generated, WorkerKnows, ChildKinds
  <2>2. UidsAreNew'
    BY <1>16 DEF FittingJobsDone, Goto, Generated, UidsAreNew
  <2>3. Traceable'
    BY <1>16 DEF FittingJobsDone, Goto, Generated, Traceable, Alive, IdsOf
  <2>4. AnnotationCurrent'
    BY <1>16 DEF FittingJobsDone, Goto, Generated, AnnotationCurrent, Existing, IdsOf
  <2>5. Pruned'
    BY <1>16 DEF FittingJobsDone, Goto, Generated, Pruned, DeleteIds, IdsOf
  <2> QED
    BY <2>1, <2>2, <2>3, <2>4, <2>5
<1>17. ASSUME ListFittingJobs PROVE CleanupInv'
  <2>1. WorkerKnows'
    BY <1>17 DEF ListFittingJobs, ListDoomed, Doomed, Goto, WorkerKnows, ChildKinds
  <2>2. UidsAreNew'
    BY <1>17 DEF ListFittingJobs, ListDoomed, Doomed, Goto, UidsAreNew
  <2>3. Traceable'
    BY <1>17 DEF ListFittingJobs, ListDoomed, Doomed, Goto, Traceable, Alive, IdsOf
  <2>4. AnnotationCurrent'
    BY <1>17 DEF ListFittingJobs, ListDoomed, Doomed, Goto, AnnotationCurrent, Existing, IdsOf
  <2>5. Pruned'
    <3>1. /\ rpc' = "delfj" /\ UNCHANGED <<child, robj>>
          /\ rtodo' = Doomed("fj")
          /\ missed' = missed \cup Missed("fj")
      BY <1>17 DEF ListFittingJobs, ListDoomed, Goto
    <3>2. SUFFICES ASSUME NEW n \in Names \ missed', child[n] # None,
                          n.kind = "fj", child[n].id \in DeleteIds
                   PROVE  n \in rtodo'
      BY <3>1 DEF Pruned, DeleteIds, IdsOf
    <3>3. CASE n \in hidden
      BY <3>1, <3>2, <3>3 DEF Missed
    <3>4. CASE n \notin hidden
      BY <3>1, <3>2, <3>4 DEF Doomed
    <3> QED
      BY <3>3, <3>4
  <2> QED
    BY <2>1, <2>2, <2>3, <2>4, <2>5
<1>18. ASSUME ListEstimators PROVE CleanupInv'
  <2>1. WorkerKnows'
    BY <1>18 DEF ListEstimators, ListDoomed, Doomed, Goto, WorkerKnows, ChildKinds
  <2>2. UidsAreNew'
    BY <1>18 DEF ListEstimators, ListDoomed, Doomed, Goto, UidsAreNew
  <2>3. Traceable'
    BY <1>18 DEF ListEstimators, ListDoomed, Doomed, Goto, Traceable, Alive, IdsOf
  <2>4. AnnotationCurrent'
    BY <1>18 DEF ListEstimators, ListDoomed, Doomed, Goto, AnnotationCurrent, Existing, IdsOf
  <2>5. Pruned'
    <3>1. /\ rpc = "delfj" /\ rtodo = {} /\ rpc' = "delest"
          /\ UNCHANGED <<child, robj>>
          /\ rtodo' = Doomed("est")
          /\ missed' = missed \cup Missed("est")
      BY <1>18 DEF ListEstimators, ListDoomed, Goto
    <3>2. SUFFICES ASSUME NEW n \in Names \ missed', child[n] # None,
                          child[n].id \in DeleteIds
                   PROVE  n \in rtodo' /\ n.kind = "est"
      BY <3>1 DEF Pruned, DeleteIds, IdsOf
    <3>3. n.kind # "fj"
      BY <3>1, <3>2 DEF Pruned
    <3>4. CASE n.kind = "est" /\ n \in hidden
      BY <3>1, <3>2, <3>4 DEF Missed
    <3>5. CASE n.kind = "est" /\ n \notin hidden
      BY <3>1, <3>2, <3>5 DEF Doomed
    <3> QED
      BY <3>3, <3>4, <3>5 DEF ChildKinds
  <2> QED
    BY <2>1, <2>2, <2>3, <2>4, <2>5
<1>19. ASSUME Annotate, queue \subseteq queue' PROVE CleanupInv'
  <2>0. /\ rpc = "delest" /\ rtodo = {} /\ rfresh
        /\ rkey \in IHPAs /\ ihpa[rkey] = robj /\ robj \in IHPASpecs
        /\ ihpa' = [ihpa EXCEPT ![rkey].ids = IdsOf(robj)]
        /\ missed' = {n \in missed : n.ihpa = rkey => child[n].id \notin IdsOf(robj)}
        /\ UNCHANGED <<born, child, cut, hidden>>
        /\ rpc' = "idle" /\ rkey' = None /\ rmade' = FALSE /\ rfresh' = FALSE
    BY <1>19 DEF Annotate, Return, WorkerKnows
  <2>a. /\ ihpa'[rkey] = [robj EXCEPT !.ids = IdsOf(robj)]
        /\ \A j \in IHPAs \ {rkey} : ihpa'[j] = ihpa[j]
    BY <2>0
  <2>b. /\ ihpa'[rkey].uid = robj.uid /\ ihpa'[rkey].ids = IdsOf(robj)
        /\ ihpa'[rkey].metrics = robj.metrics
        /\ ihpa'[rkey].target = robj.target
    BY <2>0, <2>a DEF IHPASpecs
  <2>c. ihpa[rkey] # None
    BY <2>0, NothingAssumption DEF NothingAssumption
  <2>1. WorkerKnows'
    BY <2>0 DEF WorkerKnows, ChildKinds
  <2>2. UidsAreNew'
    BY <2>0, <2>a, <2>b, <2>c DEF UidsAreNew
  <2>3. Traceable'
    <3>1. SUFFICES ASSUME NEW n \in Names \ missed', child[n] # None,
                          n.ihpa \notin cut, ihpa'[n.ihpa] # None, ihpa'[n.ihpa].uid = child[n].uid
                   PROVE  child[n].id \in ihpa'[n.ihpa].ids
      BY <2>0 DEF Traceable, Alive
    <3>2. CASE n.ihpa # rkey
      BY <2>0, <2>a, <3>1, <3>2 DEF Traceable, Alive
    <3>3. CASE n.ihpa = rkey /\ n \in missed
      BY <2>0, <2>b, <3>1, <3>3
    <3>4. CASE n.ihpa = rkey /\ n \notin missed
      <4>1. child[n].id \in robj.ids \/ child[n].id \in IdsOf(robj)
        BY <2>0, <2>b, <2>c, <3>1, <3>4 DEF Traceable, Alive
      <4>2. child[n].id \notin DeleteIds
        BY <2>0, <3>1, <3>4 DEF Pruned
      <4> QED
        BY <2>b, <3>4, <4>1, <4>2 DEF DeleteIds
    <3> QED
      BY <3>2, <3>3, <3>4
  <2>4. AnnotationCurrent'
    <3>1. SUFFICES ASSUME NEW i \in IHPAs, ihpa'[i] # None, i \notin queue'
                   PROVE  ihpa'[i].ids = IdsOf(ihpa'[i])
      BY DEF AnnotationCurrent, Existing
    <3>2. CASE i = rkey
      BY <2>b, <3>2 DEF IdsOf
    <3>3. CASE i # rkey
      BY <1>19, <2>a, <3>1, <3>3 DEF AnnotationCurrent, Existing
    <3> QED
      BY <3>2, <3>3
  <2>5. Pruned'
    BY <2>0 DEF Pruned
  <2> QED
    BY <2>1, <2>2, <2>3, <2>4, <2>5
<1>20. ASSUME Crash PROVE CleanupInv'
  <2>1. WorkerKnows'
    BY <1>20 DEF Crash, Return, CutShort, WorkerKnows, ChildKinds
  <2>2. UidsAreNew'
    BY <1>20 DEF Crash, Return, CutShort, UidsAreNew
  <2>3. Traceable'
    BY <1>20 DEF Crash, Return, CutShort, Traceable, Alive, IdsOf
  <2>4. AnnotationCurrent'
    BY <1>20 DEF Crash, Return, CutShort, AnnotationCurrent, Existing, IdsOf
  <2>5. Pruned'
    BY <1>20 DEF Crash, Return, CutShort, Pruned, DeleteIds, IdsOf
  <2> QED
    BY <2>1, <2>2, <2>3, <2>4, <2>5
<1>21. ASSUME UNCHANGED vars PROVE CleanupInv'
  <2>1. WorkerKnows'
    BY <1>21 DEF vars, WorkerKnows, ChildKinds
  <2>2. UidsAreNew'
    BY <1>21 DEF vars, UidsAreNew
  <2>3. Traceable'
    BY <1>21 DEF vars, Traceable, Alive, IdsOf
  <2>4. AnnotationCurrent'
    BY <1>21 DEF vars, AnnotationCurrent, Existing, IdsOf
  <2>5. Pruned'
    BY <1>21 DEF vars, Pruned, DeleteIds, IdsOf
  <2> QED
    BY <2>1, <2>2, <2>3, <2>4, <2>5
<1>22. ASSUME User \/ Collector PROVE CleanupInv'
  BY ONLY <1>1, <1>2, <1>3, <1>5, <1>6, <1>7, <1>22 DEF User, Collector
<1>23. ASSUME Step PROVE CleanupInv'
  <2>1. ASSUME NEW n \in Names, CreateFails(n) \/ DeleteFails(n)
        PROVE  CleanupInv'
    BY <1>10, <2>1 DEF CreateFails, DeleteFails, ChildKinds
  <2>2. ASSUME AnnotateConflicts PROVE CleanupInv'
    BY <1>10, <2>2 DEF AnnotateConflicts
  <2>3. ASSUME AnnotateSame \/ AnnotateOther PROVE CleanupInv'
    BY <1>19, <2>3 DEF AnnotateSame, AnnotateOther
  <2> QED
    BY ONLY <1>11, <1>12, <1>13, <1>14, <1>15, <1>16, <1>17, <1>18, <1>23,
       <2>1, <2>2, <2>3
    DEF Step
<1>24. ASSUME Fail PROVE CleanupInv'
  BY <1>10, <1>24 DEF Fail
<1> QED
  BY ONLY [Next]_vars, <1>4, <1>8, <1>9, <1>20, <1>21, <1>22, <1>23, <1>24
  DEF Next

(* The inductive invariant holds of the specification.                     *)
THEOREM CleanupInvariant == Spec => []CleanupInv
<1>1. Init => CleanupInv
  BY InitCleanupInv
<1>2. CleanupInv /\ [Next]_vars => CleanupInv'
  BY CleanupStep
<1> QED
  BY <1>1, <1>2, PTL DEF Spec

(* Every variable keeps its type.                                          *)
THEOREM TypeCorrect == Spec => []TypeOK
<1>1. CleanupInv => TypeOK
  BY DEF CleanupInv
<1> QED
  BY <1>1, CleanupInvariant, PTL

(* At rest, the children that remain of IHPAs no reconcile of which was    *)
(* cut short are those of their specs and those a stale listing missed:    *)
(* comparing the annotation with the spec (Reconcile, lines 193 to 266)    *)
(* finds everything else.                                                  *)
THEOREM NothingStrays == Spec => []NoStrays
<1>1. CleanupInv => NoStrays
  <2>1. SUFFICES ASSUME CleanupInv, Resting, NEW n \in Names,
                        n \notin missed, child[n] # None, n.ihpa \notin cut
                 PROVE  Wanted(n)
    BY DEF NoStrays
  <2> DEFINE i == n.ihpa
  <2>2. i \in IHPAs
    BY DEF Names
  <2>3. Alive(i, child[n].uid)
    BY <2>1 DEF Resting, NoGarbage
  <2>4. queue = {} /\ rkey = None /\ ~rmade
    BY <2>1 DEF Resting, CleanupInv, WorkerKnows
  <2>5. i # None
    BY <2>2, NothingAssumption DEF NothingAssumption
  <2>6. child[n].id \in ihpa[i].ids
    BY <2>1, <2>3, <2>4 DEF CleanupInv, Traceable
  <2>7. ihpa[i].ids = IdsOf(ihpa[i])
    BY <2>1, <2>2, <2>3, <2>4, <2>5
    DEF CleanupInv, AnnotationCurrent, Existing, Alive
  <2>8. PICK m \in ihpa[i].metrics : child[n].id = <<m, ihpa[i].target>>
    BY <2>6, <2>7 DEF IdsOf
  <2>9. m = n.metric
    BY <2>1, <2>8 DEF CleanupInv, UidsAreNew
  <2> QED
    BY <2>3, <2>8, <2>9 DEF Wanted, Alive
<1> QED
  BY <1>1, CleanupInvariant, PTL

(* The annotation forgets no id a child still has, whatever fails and      *)
(* however the caches lag, except of a child its listings (lines 220 and   *)
(* 235) did not show: the deletion of all others is complete before the    *)
(* annotation is written, and nothing with a deleted id is created between *)
(* the two.                                                                *)
THEOREM AnnotationRemembers == Spec => ForgetsOnlyTheDeleted
<1> DEFINE Remembers == \A i \in IHPAs :
      ihpa[i] # None /\ ihpa'[i] # None =>
         \A n \in Names : child'[n] # None /\ n \notin missed' =>
            child'[n].id \notin ihpa[i].ids \ ihpa'[i].ids
<1>1. CleanupInv /\ [Next]_vars => [Remembers]_vars
  <2>1. SUFFICES ASSUME CleanupInv, [Next]_vars, NEW i \in IHPAs,
                        ihpa[i] # None, ihpa'[i] # None,
                        ~(ihpa[i].ids \subseteq ihpa'[i].ids),
                        NEW n \in Names, child'[n] # None, n \notin missed'
                 PROVE  child'[n].id \notin ihpa[i].ids \ ihpa'[i].ids
    OBVIOUS
  <2>2. ihpa \in [IHPAs -> IHPASpecs \cup {None}]
    BY <2>1 DEF CleanupInv, TypeOK
  <2>3. \A j \in IHPAs : ~CreateIHPA(j) /\ ~EditIHPA(j) /\ ~DeleteIHPA(j)
    BY <2>1, <2>2 DEF CreateIHPA, EditIHPA, DeleteIHPA, Write
  <2>4. ihpa' # ihpa
    BY <2>1
  <2>5. Annotate
    BY <2>1, <2>3, <2>4
    DEF Next, User, Resync, Collector, CollectHPA, CollectRBAC, CollectChild,
        Observe, Begin, Step, Fail, Crash, EnsureHPA, EnsureRBAC, CreateChild,
        UpdateChild, CreateFails, DeleteChild, DeleteFails, FittingJobsDone,
        ListFittingJobs, ListEstimators, ListDoomed, AnnotateSame,
        AnnotateOther, AnnotateConflicts, vars, userVars
  <2>6. /\ rpc = "delest" /\ rtodo = {} /\ ihpa[rkey] = robj
        /\ rkey \in IHPAs
        /\ ihpa' = [ihpa EXCEPT ![rkey].ids = IdsOf(robj)] /\ child' = child
        /\ missed' = {x \in missed : x.ihpa = rkey => child[x].id \notin IdsOf(robj)}
    BY <2>1, <2>5 DEF Annotate, CleanupInv, WorkerKnows, apiVars
  <2>7. i = rkey
    BY <2>1, <2>2, <2>6
  <2>8. ihpa[i].ids = robj.ids /\ ihpa'[i].ids = IdsOf(robj)
    BY <2>1, <2>2, <2>6, <2>7 DEF IHPASpecs
  <2>9. n \in missed => child[n].id \in IdsOf(robj)
    BY <2>1, <2>6
  <2>10. n \notin missed => child[n].id \notin DeleteIds
    BY <2>1, <2>6 DEF CleanupInv, Pruned
  <2> QED
    BY <2>6, <2>8, <2>9, <2>10 DEF DeleteIds
<1> QED
  BY <1>1, CleanupInvariant, PTL DEF Spec, ForgetsOnlyTheDeleted

(***************************************************************************)
(* What is complete at rest                                                *)
(***************************************************************************)
(* The resources of an IHPA are there, as the spec has them, and its own.  *)
MainDone(i, obj) ==
    hpa[i] = [uid |-> obj.uid, metrics |-> obj.metrics, target |-> obj.target]

GrantDone(k, i, obj) == rbac[k][i] # None /\ rbac[k][i].uid = obj.uid

ChildDone(n, obj) ==
    child[n] # None /\ child[n].uid = obj.uid /\ child[n].target = obj.target

AskedFor(n, i, obj) == n.ihpa = i /\ n.metric \in obj.metrics

(* The children Reconcile has been at, unless it is to delete some again.  *)
Visited(n) ==
    \/ rpc = "fj" /\ n.kind = "fj" /\ n \notin rtodo
    \/ rpc = "est" /\ (n.kind = "fj" \/ n \notin rtodo)
    \/ rpc \in {"delfj", "delest"} /\ DeleteIds = {}

(* The calls a reconcile has made have had their effect, and it lasts.     *)
Effects ==
    /\ rpc # "hpa" => MainDone(rkey, robj)
    /\ rpc \notin {"hpa", "sa"} => GrantDone("sa", rkey, robj)
    /\ rpc \notin {"hpa", "sa", "role"} => GrantDone("role", rkey, robj)
    /\ rpc \notin {"hpa", "sa", "role", "rb"} => GrantDone("rb", rkey, robj)
    /\ \A n \in Names :
          AskedFor(n, rkey, robj) /\ Visited(n) => ChildDone(n, robj)

Progress == rpc # "idle" /\ rkey \notin queue \cup lost => Effects

(* Without an id to delete nothing is deleted.                             *)
NothingDoomed == rpc \in {"delfj", "delest"} /\ DeleteIds = {} => rtodo = {}

(* An IHPA that is neither queued nor being reconciled has its resources.  *)
Finished == \A i \in Existing \ (queue \cup lost \cup {rkey}) :
    /\ MainDone(i, ihpa[i])
    /\ \A k \in RBACKinds : GrantDone(k, i, ihpa[i])
    /\ \A n \in Names : AskedFor(n, i, ihpa[i]) => ChildDone(n, ihpa[i])

Completion == Progress /\ NothingDoomed /\ Finished

CompletionInv == CleanupInv /\ Completion

(* A step that leaves the resources and the worker alone, and queues every *)
(* IHPA that it changes.                                                   *)
LEMMA WorkerStands ==
  ASSUME Completion, queue \subseteq queue',
         UNCHANGED <<hpa, rbac, child, lost, rpc, rkey, robj, rtodo>>,
         \A i \in IHPAs \ queue' : ihpa'[i] = ihpa[i]
  PROVE  Completion'
<1>1. Progress' /\ NothingDoomed'
  BY DEF Completion, Progress, NothingDoomed, Effects, Visited, MainDone,
         GrantDone, ChildDone, AskedFor, DeleteIds, IdsOf
<1>2. Finished'
  BY DEF Completion, Finished, Existing, MainDone, GrantDone, ChildDone, AskedFor
<1> QED
  BY <1>1, <1>2 DEF Completion

(* A reconcile ends, and its IHPA is queued, or it was complete.           *)
LEMMA WorkerReturns ==
  ASSUME Completion, rpc' = "idle", UNCHANGED <<ihpa, hpa, rbac, child, lost>>,
         \A i \in Existing \ queue' : i \notin queue \cup {rkey}
  PROVE  Completion'
<1>1. Progress' /\ NothingDoomed'
  BY DEF Progress, NothingDoomed
<1>2. Finished'
  BY DEF Completion, Finished, Existing, MainDone, GrantDone, ChildDone, AskedFor
<1> QED
  BY <1>1, <1>2 DEF Completion

(* The garbage collector takes only what is nobody's: the worker's copy is *)
(* fresh or its IHPA is queued.                                            *)
LEMMA CollectorSpares ==
  ASSUME CompletionInv, UNCHANGED <<ihpa, queue, lost, rpc, rkey, robj, rtodo>>,
         \A i \in IHPAs : hpa'[i] = hpa[i] \/ ~Alive(i, hpa[i].uid),
         \A k \in RBACKinds, i \in IHPAs :
            rbac'[k][i] = rbac[k][i] \/ ~Alive(i, rbac[k][i].uid),
         \A n \in Names : child'[n] = child[n] \/ ~Alive(n.ihpa, child[n].uid)
  PROVE  Completion'
<1>t. /\ \A k \in {"sa", "role", "rb"} : k \in RBACKinds
      /\ rpc # "idle" /\ rkey \notin queue => rkey \in IHPAs /\ ihpa[rkey] = robj
      /\ rpc # "idle" => robj # None
  BY NothingAssumption
  DEF CompletionInv, CleanupInv, WorkerKnows, RBACKinds, NothingAssumption
<1>1. ASSUME NEW i \in IHPAs, ihpa[i] # None, MainDone(i, ihpa[i])
      PROVE  MainDone(i, ihpa[i])'
  BY <1>1 DEF MainDone, Alive
<1>2. ASSUME NEW i \in IHPAs, ihpa[i] # None, NEW k \in RBACKinds,
             GrantDone(k, i, ihpa[i])
      PROVE  GrantDone(k, i, ihpa[i])'
  BY <1>2 DEF GrantDone, Alive
<1>3. ASSUME NEW i \in IHPAs, ihpa[i] # None, NEW n \in Names,
             AskedFor(n, i, ihpa[i]), ChildDone(n, ihpa[i])
      PROVE  ChildDone(n, ihpa[i])'
  BY <1>3 DEF ChildDone, Alive, AskedFor
<1>4. Progress'
  <2>1. SUFFICES ASSUME rpc # "idle", rkey \notin queue, rkey \notin lost
                 PROVE  Effects'
    BY DEF Progress
  <2>2. Effects /\ rkey \in IHPAs /\ ihpa[rkey] = robj /\ ihpa[rkey] # None
    BY <1>t, <2>1 DEF CompletionInv, Completion, Progress
  <2>3. /\ MainDone(rkey, robj) => MainDone(rkey, robj)'
        /\ \A k \in RBACKinds :
              GrantDone(k, rkey, robj) => GrantDone(k, rkey, robj)'
    BY <1>1, <1>2, <2>2 DEF MainDone, GrantDone
  <2>4. \A n \in Names : AskedFor(n, rkey, robj) /\ ChildDone(n, robj)
                         => ChildDone(n, robj)'
    BY <1>3, <2>2 DEF ChildDone
  <2>5. \A n \in Names : /\ AskedFor(n, rkey, robj)' = AskedFor(n, rkey, robj)
                         /\ Visited(n)' = Visited(n)
    BY DEF AskedFor, Visited, DeleteIds, IdsOf
  <2> QED
    BY <1>t, <2>2, <2>3, <2>4, <2>5 DEF Effects
<1>5. NothingDoomed'
  BY DEF CompletionInv, Completion, NothingDoomed, DeleteIds, IdsOf
<1>6. Finished'
  BY <1>1, <1>2, <1>3
  DEF CompletionInv, Completion, Finished, Existing, AskedFor, MainDone,
      GrantDone, ChildDone
<1> QED
  BY <1>4, <1>5, <1>6 DEF Completion

(* A step that touches only the resources of the IHPA being reconciled, or *)
(* children it marks as lost, leaves all others complete.                  *)
LEMMA OthersFinished ==
  ASSUME Completion, UNCHANGED <<ihpa, queue, rkey>>, lost \subseteq lost',
         \A i \in IHPAs \ {rkey} : hpa'[i] = hpa[i],
         \A k \in RBACKinds, i \in IHPAs \ {rkey} : rbac'[k][i] = rbac[k][i],
         \A n \in Names : child'[n] = child[n] \/ n.ihpa \in lost' \cup {rkey}
  PROVE  Finished'
  BY DEF Completion, Finished, Existing, MainDone, GrantDone, ChildDone, AskedFor

(* What is taken over is lost, or the IHPA's own.                          *)
LEMMA TakeOverOwn ==
  ASSUME NEW obj, TakeOver(obj)
  PROVE  /\ lost \subseteq lost'
         /\ rkey \notin lost' => obj = None \/ obj.uid = robj.uid
  BY Zenon DEF TakeOver

(* One call after the other.                                               *)
LEMMA CompletionStep == ASSUME CompletionInv, [Next]_vars PROVE Completion'
<1> USE DEF CompletionInv, userVars, apiVars, recVars, history
<1>t. /\ TypeOK /\ WorkerKnows /\ Completion
      /\ \A n \in Names : n.ihpa \in IHPAs /\ n.kind \in ChildKinds
  BY TypedNames DEF CleanupInv
<1>n. /\ \A i \in IHPAs : i # None
      /\ \A o \in IHPASpecs \cup HPASpecs \cup Grants \cup Children : o # None
  BY NothingAssumption DEF NothingAssumption
<1>1. ASSUME User PROVE Completion'
  <2>1. PICK i \in IHPAs : \E obj : Write(i, obj)
    BY <1>1 DEF User, CreateIHPA, EditIHPA, DeleteIHPA
  <2>2. /\ queue' = queue \cup {i} /\ \A j \in IHPAs \ {i} : ihpa'[j] = ihpa[j]
        /\ UNCHANGED <<hpa, rbac, child, lost, rpc, rkey, robj, rtodo>>
    BY <2>1, <1>t DEF Write, TypeOK
  <2> QED
    BY <1>t, <2>2, WorkerStands
<1>2. ASSUME Resync \/ (\E n \in Names : Observe(n)) \/ UNCHANGED vars PROVE Completion'
  BY <1>2, <1>t, WorkerStands DEF Resync, Observe, vars
<1>3. ASSUME Collector PROVE Completion'
  BY <1>3, <1>t, CollectorSpares
  DEF Collector, CollectHPA, CollectRBAC, CollectChild, TypeOK
<1>4. ASSUME NEW i \in IHPAs, Begin(i) PROVE Completion'
  <2>1. /\ UNCHANGED <<ihpa, hpa, rbac, child>>
        /\ queue' = queue \ {i} /\ lost' = lost \ {i} /\ rkey = None
        /\ \/ ihpa[i] = None /\ rpc' = "idle" /\ rkey' = None
           \/ ihpa[i] # None /\ rpc' = "hpa" /\ rkey' = i
    BY <1>4, <1>t DEF Begin, WorkerKnows
  <2>2. Progress' /\ NothingDoomed'
    BY <2>1 DEF Progress, Effects, Visited, NothingDoomed
  <2>3. Finished'
    BY <1>t, <1>n, <2>1
    DEF Completion, Finished, Existing, MainDone, GrantDone, ChildDone, AskedFor
  <2> QED
    BY <2>2, <2>3 DEF Completion
<1>5. ASSUME ReturnError, UNCHANGED <<userVars, apiVars>> PROVE Completion'
  BY <1>5, <1>t, WorkerReturns DEF ReturnError, Return, CutShort
<1>6. ASSUME Crash PROVE Completion'
  BY <1>6, <1>t, WorkerReturns DEF Crash, Return, CutShort
<1>7. ASSUME EnsureHPA PROVE Completion'
  <2>1. /\ rpc = "hpa" /\ rpc' = "sa" /\ rkey \in IHPAs
        /\ UNCHANGED <<ihpa, rbac, child, queue, rkey, robj, rtodo>>
        /\ TakeOver(hpa[rkey])
    BY <1>7, <1>t DEF EnsureHPA, Goto, WorkerKnows
  <2>2. /\ \A j \in IHPAs \ {rkey} : hpa'[j] = hpa[j]
        /\ rkey \notin lost' => MainDone(rkey, robj)'
    BY <1>7, <1>t, <2>1, TakeOverOwn DEF EnsureHPA, MainDone, TypeOK
  <2>3. Progress' /\ NothingDoomed'
    BY <2>1, <2>2 DEF Progress, Effects, Visited, NothingDoomed
  <2>4. Finished'
    BY <1>t, <2>1, <2>2, TakeOverOwn, OthersFinished
  <2> QED
    BY <2>3, <2>4 DEF Completion
<1>8. ASSUME NEW k \in RBACKinds, EnsureRBAC(k) PROVE Completion'
  <2>1. /\ rpc = k /\ rkey \in IHPAs
        /\ \/ k = "sa" /\ rpc' = "role"
           \/ k = "role" /\ rpc' = "rb"
           \/ k = "rb" /\ rpc' = "fj" /\ rtodo' = Generated("fj")
        /\ UNCHANGED <<ihpa, hpa, child, queue, rkey, robj>>
        /\ TakeOver(rbac[k][rkey])
    BY <1>8, <1>t DEF EnsureRBAC, Goto, WorkerKnows, RBACKinds
  <2>2. /\ \A l \in RBACKinds, j \in IHPAs :
              l # k \/ j # rkey => rbac'[l][j] = rbac[l][j]
        /\ rkey \notin lost' => GrantDone(k, rkey, robj)'
    <3>1. CASE rbac[k][rkey] = None
      <4>1. rbac' = [rbac EXCEPT ![k][rkey] = GrantOf(k, robj)]
        BY <1>8, <3>1 DEF EnsureRBAC
      <4>2. GrantOf(k, robj) \in Grants /\ GrantOf(k, robj).uid = robj.uid
        BY <1>t, <2>1 DEF GrantOf, Grants, IHPASpecs, WorkerKnows, RBACKinds
      <4>3. rbac'[k][rkey] = GrantOf(k, robj)
        BY <1>t, <2>1, <4>1 DEF TypeOK
      <4> QED
        BY <1>t, <1>n, <2>1, <4>1, <4>2, <4>3 DEF TypeOK, GrantDone
    <3>2. CASE rbac[k][rkey] # None
      BY <1>8, <2>1, <3>2, TakeOverOwn DEF EnsureRBAC, GrantDone
    <3> QED
      BY <3>1, <3>2
  <2>3. lost \subseteq lost'
    BY <2>1, TakeOverOwn
  <2>4. Progress'
    <3>1. SUFFICES ASSUME rkey \notin queue, rkey \notin lost' PROVE Effects'
      BY <2>1 DEF Progress
    <3>2. Effects
      BY <1>t, <2>1, <2>3, <3>1 DEF Completion, Progress, RBACKinds
    <3>3. \A l \in RBACKinds : l # k => (GrantDone(l, rkey, robj)' <=> GrantDone(l, rkey, robj))
      BY <2>1, <2>2 DEF GrantDone
    <3>4. MainDone(rkey, robj)
      BY <2>1, <3>2 DEF Effects, RBACKinds
    <3>5. MainDone(rkey, robj)'
      BY <2>1, <3>4 DEF MainDone
    <3>6. \A n \in Names : AskedFor(n, rkey, robj)' => ~Visited(n)'
      BY <2>1 DEF Visited, AskedFor, Generated, Names, RBACKinds
    <3>7. /\ rpc' \notin {"hpa", "sa"} => GrantDone("sa", rkey, robj)'
          /\ rpc' \notin {"hpa", "sa", "role"} => GrantDone("role", rkey, robj)'
          /\ rpc' \notin {"hpa", "sa", "role", "rb"} => GrantDone("rb", rkey, robj)'
      BY <2>1, <2>2, <3>1, <3>2, <3>3 DEF Effects, RBACKinds
    <3> QED
      BY <2>1, <3>5, <3>6, <3>7 DEF Effects
  <2>5. NothingDoomed'
    BY <2>1 DEF NothingDoomed
  <2>6. Finished'
    BY <1>t, <2>1, <2>2, <2>3, OthersFinished
  <2> QED
    BY <2>4, <2>5, <2>6 DEF Completion
<1>9. ASSUME NEW n \in Names, CreateChild(n) \/ UpdateChild(n) PROVE Completion'
  <2>1. /\ rpc \in {"fj", "est"} /\ n \in rtodo /\ n.ihpa = rkey
        /\ rtodo' = rtodo \ {n}
        /\ robj \in IHPASpecs /\ n.metric \in Metrics
        /\ UNCHANGED <<ihpa, hpa, rbac, queue, rpc, rkey, robj>>
    BY <1>9, <1>t
    DEF CreateChild, UpdateChild, WorkerKnows, ChildKinds, Names
  <2>2. /\ \A x \in Names \ {n} : child'[x] = child[x]
        /\ lost \subseteq lost'
        /\ rkey \notin lost' => ChildDone(n, robj)'
    <3>1. CASE CreateChild(n)
      <4>1. PICK c : c = [uid |-> robj.uid, id |-> <<n.metric, robj.target>>,
                          target |-> robj.target]
        OBVIOUS
      <4>2. c \in Children
        BY <2>1, <4>1 DEF Children, IHPASpecs, Ids
      <4>3. child' = [child EXCEPT ![n] = c] /\ lost' = lost
        BY <3>1, <4>1 DEF CreateChild
      <4>4. child'[n] = c /\ c # None /\ c.uid = robj.uid /\ c.target = robj.target
        BY <1>t, <1>n, <4>1, <4>2, <4>3 DEF TypeOK
      <4> QED
        BY <1>t, <2>1, <4>3, <4>4 DEF TypeOK, ChildDone
    <3>2. CASE UpdateChild(n)
      <4>1. child[n] \in Children /\ child' = [child EXCEPT ![n] = Replaced(n)]
            /\ TakeOver(child[n])
        BY <1>t, <3>2 DEF UpdateChild, TypeOK
      <4>2. /\ Replaced(n) \in Children /\ Replaced(n).uid = child[n].uid
            /\ Replaced(n).target = robj.target
        BY <2>1, <4>1 DEF Replaced, Children, IHPASpecs
      <4>3. child'[n] = Replaced(n) /\ Replaced(n) # None
        BY <1>t, <1>n, <4>1, <4>2 DEF TypeOK
      <4>4. rkey \notin lost' => child[n].uid = robj.uid
        BY <1>n, <4>1, TakeOverOwn
      <4> QED
        BY <1>t, <2>1, <4>1, <4>2, <4>3, <4>4, TakeOverOwn DEF TypeOK, ChildDone
    <3> QED
      BY <1>9, <3>1, <3>2
  <2>3. Progress'
    <3>1. SUFFICES ASSUME rkey \notin queue, rkey \notin lost' PROVE Effects'
      BY <2>1 DEF Progress
    <3>2. Effects
      BY <1>t, <2>1, <2>2, <3>1 DEF Completion, Progress
    <3>3. \A x \in Names : AskedFor(x, rkey, robj) /\ Visited(x)' => ChildDone(x, robj)'
      <4>1. SUFFICES ASSUME NEW x \in Names, x # n, AskedFor(x, rkey, robj), Visited(x)'
                     PROVE  ChildDone(x, robj)'
        BY <2>2, <3>1
      <4>2. Visited(x)
        BY <2>1, <4>1 DEF Visited, DeleteIds, IdsOf
      <4>3. ChildDone(x, robj)
        BY <3>2, <4>1, <4>2 DEF Effects
      <4> QED
        BY <2>1, <2>2, <4>1, <4>3 DEF ChildDone
    <3> QED
      BY <2>1, <3>2, <3>3 DEF Effects, MainDone, GrantDone, AskedFor
  <2>4. NothingDoomed'
    BY <2>1 DEF NothingDoomed
  <2>5. Finished'
    BY <1>t, <2>1, <2>2, OthersFinished
  <2> QED
    BY <2>3, <2>4, <2>5 DEF Completion
<1>10. ASSUME NEW n \in Names, DeleteChild(n) PROVE Completion'
  <2>1. /\ rpc \in {"delfj", "delest"} /\ n \in rtodo
        /\ \A x \in Names \ {n} : child'[x] = child[x]
        /\ lost' = lost \cup ({n.ihpa} \ {rkey})
        /\ UNCHANGED <<ihpa, hpa, rbac, queue, rpc, rkey, robj>>
    BY <1>10, <1>t DEF DeleteChild, TypeOK
  <2>2. DeleteIds # {} /\ DeleteIds' = DeleteIds
    BY <1>t, <2>1 DEF Completion, NothingDoomed, DeleteIds, IdsOf
  <2>3. Progress' /\ NothingDoomed'
    BY <1>t, <2>1, <2>2
    DEF Completion, Progress, Effects, Visited, NothingDoomed, MainDone, GrantDone
  <2>4. Finished'
    BY <1>t, <2>1, OthersFinished
  <2> QED
    BY <2>3, <2>4 DEF Completion
<1>11. ASSUME FittingJobsDone \/ ListFittingJobs \/ ListEstimators PROVE Completion'
  <2>1. /\ UNCHANGED <<ihpa, hpa, rbac, child, queue, lost, rkey, robj>>
        /\ rtodo = {}
        /\ \/ rpc = "fj" /\ rpc' = "est" /\ rtodo' = Generated("est")
           \/ rpc = "est" /\ rpc' = "delfj" /\ rtodo' = Doomed("fj")
           \/ rpc = "delfj" /\ rpc' = "delest" /\ rtodo' = Doomed("est")
    BY <1>11 DEF FittingJobsDone, ListFittingJobs, ListEstimators, ListDoomed, Goto
  <2>2. DeleteIds' = DeleteIds
    BY <2>1 DEF DeleteIds, IdsOf
  <2>3. \A n \in Names : AskedFor(n, rkey, robj) /\ Visited(n)' => Visited(n)
    <3>1. SUFFICES ASSUME NEW n \in Names, AskedFor(n, rkey, robj), Visited(n)'
                   PROVE  Visited(n)
      OBVIOUS
    <3>2. n.kind = "est" => n \in Generated("est")
      BY <3>1 DEF Names, AskedFor, Generated
    <3>3. n.kind \in {"fj", "est"}
      BY <1>t DEF ChildKinds
    <3> QED
      BY <2>1, <2>2, <3>1, <3>2, <3>3 DEF Visited
  <2>4. Progress'
    BY <1>t, <2>1, <2>3
    DEF Completion, Progress, Effects, MainDone, GrantDone, ChildDone, AskedFor
  <2>5. NothingDoomed'
    BY <2>1, <2>2 DEF NothingDoomed, Doomed
  <2>6. Finished'
    BY <1>t, <2>1, OthersFinished
  <2> QED
    BY <2>4, <2>5, <2>6 DEF Completion
<1>12. ASSUME AnnotateOther PROVE Completion'
  <2>1. /\ rpc' = "idle" /\ queue' = queue \cup {rkey} /\ rkey \in IHPAs
        /\ \A i \in IHPAs \ {rkey} : ihpa'[i] = ihpa[i]
        /\ UNCHANGED <<hpa, rbac, child, lost>>
    BY <1>12, <1>t DEF AnnotateOther, Annotate, Return, WorkerKnows, TypeOK
  <2>2. Progress' /\ NothingDoomed'
    BY <2>1 DEF Progress, NothingDoomed
  <2>3. Finished'
    BY <1>t, <2>1
    DEF Completion, Finished, Existing, MainDone, GrantDone, ChildDone, AskedFor
  <2> QED
    BY <2>2, <2>3 DEF Completion
<1>13. ASSUME AnnotateSame PROVE Completion'
  <2>1. /\ rpc = "delest" /\ rpc' = "idle" /\ rkey' = None /\ rkey \in IHPAs
        /\ ihpa[rkey] = robj /\ robj \in IHPASpecs /\ robj.ids = IdsOf(robj)
        /\ ihpa' = [ihpa EXCEPT ![rkey].ids = IdsOf(robj)]
        /\ UNCHANGED <<hpa, rbac, child, lost, queue>>
    BY <1>13, <1>t DEF AnnotateSame, Annotate, Return, WorkerKnows
  <2>2. ihpa' = ihpa
    BY <1>t, <2>1 DEF TypeOK, IHPASpecs
  <2>3. DeleteIds = {}
    BY <2>1 DEF DeleteIds
  <2>4. Progress' /\ NothingDoomed'
    BY <2>1 DEF Progress, NothingDoomed
  <2>5. rkey \notin queue \cup lost =>
           /\ MainDone(rkey, robj)
           /\ \A k \in RBACKinds : GrantDone(k, rkey, robj)
           /\ \A n \in Names : AskedFor(n, rkey, robj) => ChildDone(n, robj)
    BY <1>t, <2>1, <2>3 DEF Completion, Progress, Effects, Visited, RBACKinds
  <2>6. Finished'
    BY <1>t, <2>1, <2>2, <2>5
    DEF Completion, Finished, Existing, MainDone, GrantDone, ChildDone, AskedFor
  <2> QED
    BY <2>4, <2>6 DEF Completion
<1>14. ASSUME Step PROVE Completion'
  <2>1. ASSUME NEW n \in Names, CreateFails(n) \/ DeleteFails(n) PROVE Completion'
    BY <1>5, <2>1 DEF CreateFails, DeleteFails
  <2>2. ASSUME AnnotateConflicts PROVE Completion'
    BY <1>5, <2>2 DEF AnnotateConflicts
  <2> QED
    BY ONLY <1>7, <1>8, <1>9, <1>10, <1>11, <1>12, <1>13, <1>14, <2>1, <2>2 DEF Step
<1>15. ASSUME Fail PROVE Completion'
  BY <1>5, <1>15 DEF Fail
<1> QED
  BY ONLY [Next]_vars, <1>1, <1>2, <1>3, <1>4, <1>6, <1>14, <1>15 DEF Next

(* What the calls of a reconcile have done lasts until it ends, and what   *)
(* has ended is complete.                                                  *)
THEOREM CompletionInvariant == Spec => []CompletionInv
<1>1. Init => CompletionInv
  <2>1. Init => Completion
    BY DEF Init, Completion, Progress, NothingDoomed, Finished, Existing
  <2> QED
    BY <2>1, InitCleanupInv DEF CompletionInv
<1>2. CompletionInv /\ [Next]_vars => CompletionInv'
  BY CompletionStep, CleanupStep DEF CompletionInv
<1> QED
  BY <1>1, <1>2, PTL DEF Spec

(* At rest every IHPA has all resources its spec asks for, up to date, for *)
(* any number of IHPAs, edits, failures, crashes and stale caches, except  *)
(* those that took over what the garbage collector takes or lost a child   *)
(* to another (Reconcile, lines 99 to 268).                                *)
THEOREM RestIsComplete == Spec => []RestComplete
<1>1. CompletionInv => RestComplete
  <2>1. SUFFICES ASSUME CompletionInv, Resting, NEW i \in Existing \ lost
                 PROVE  Complete(i)
    BY DEF RestComplete
  <2>2. i \in IHPAs /\ ihpa[i] # None /\ i # None
    BY NothingAssumption DEF Existing, NothingAssumption
  <2>3. ihpa[i] \in IHPASpecs /\ queue = {} /\ rkey = None
    BY <2>1, <2>2 DEF CompletionInv, CleanupInv, WorkerKnows, TypeOK, Resting
  <2>4. /\ MainDone(i, ihpa[i])
        /\ \A k \in RBACKinds : GrantDone(k, i, ihpa[i])
        /\ \A n \in Names : AskedFor(n, i, ihpa[i]) => ChildDone(n, ihpa[i])
    BY <2>1, <2>2, <2>3 DEF CompletionInv, Completion, Finished
  <2>5. hpa[i] # None
    BY <2>3, <2>4, NothingAssumption
    DEF MainDone, HPASpecs, IHPASpecs, NothingAssumption
  <2>6. \A k \in ChildKinds, m \in ihpa[i].metrics :
           LET c == child[[kind |-> k, ihpa |-> i, metric |-> m]] IN
              c # None /\ c.target = ihpa[i].target
    <3>1. SUFFICES ASSUME NEW k \in ChildKinds, NEW m \in ihpa[i].metrics
                   PROVE  ChildDone([kind |-> k, ihpa |-> i, metric |-> m], ihpa[i])
      BY DEF ChildDone
    <3>2. m \in Metrics
      BY <2>3 DEF IHPASpecs
    <3>3. [kind |-> k, ihpa |-> i, metric |-> m] \in Names
      BY <2>2, <3>2 DEF Names
    <3>4. AskedFor([kind |-> k, ihpa |-> i, metric |-> m], i, ihpa[i])
      BY DEF AskedFor
    <3> QED
      BY <2>4, <3>3, <3>4
  <2>7. hpa[i].metrics = ihpa[i].metrics /\ hpa[i].target = ihpa[i].target
    BY <2>4 DEF MainDone
  <2>8. \A k \in RBACKinds : rbac[k][i] # None
    BY <2>4 DEF GrantDone
  <2> QED
    BY <2>5, <2>6, <2>7, <2>8 DEF Complete
<1> QED
  BY <1>1, CompletionInvariant, PTL
=============================================================================
