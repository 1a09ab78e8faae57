------------------------- MODULE TrainingJob_proofs -------------------------
(***************************************************************************)
(* Theorems about FittingJobController, ChangePoint and TrainingJob, for   *)
(* any FittingJob, parameters of the detection and lengths of the data.    *)
(***************************************************************************)
EXTENDS TrainingJob, TLAPS

(***************************************************************************)
(* The inductive invariant                                                 *)
(***************************************************************************)
(* Nothing is newer than the FittingJob, nothing that is there newer than  *)
(* what Reconcile has got, and the config never older than the CronJob.    *)
Versions ==
    /\ fj # None => fj.ver = version
    /\ cm # None => cm.ver <= version
    /\ cj # None => /\ cj.ver <= version
                    /\ cm # None => cj.ver <= cm.ver
    /\ ctl # None => /\ ctl.fj.ver <= version
                     /\ cm # None => cm.ver <= ctl.fj.ver
                     /\ cj # None => cj.ver <= ctl.fj.ver
                     /\ ctl.at = "cj" /\ cm # None => cm.ver = ctl.fj.ver

ConfigWritten == cm # None /\ cm.owner = fj.uid /\ cm.ver = fj.ver

ScheduleWritten ==
    /\ cj # None /\ cj.owner = fj.uid /\ cj.ver = fj.ver
    /\ cj.at \in Schedules(Specs[fj.ver].executeOn)

(* Without a request in the queue Reconcile works for the FittingJob as it *)
(* is; what it has written belongs to it and is out of the reach of the    *)
(* garbage collector, unless it has adopted an object.                     *)
Progress ==
    fj # None /\ ~queue =>
        /\ ctl # None => ctl.fj = fj
        /\ ctl # None /\ ctl.at = "cj" /\ ~adopted => ConfigWritten
        /\ ctl = None /\ ~adopted => ConfigWritten /\ ScheduleWritten

CtlInv == CtlTypeOK /\ Versions /\ Progress

(* The template of the job is not newer than the config, whether it is     *)
(* there or still to be written, and what the job has loaded is as new.    *)
JobVersions ==
    job # None =>
        /\ job.tmpl <= version
        /\ cm # None => job.tmpl <= cm.ver
        /\ ctl # None => job.tmpl <= ctl.fj.ver
        /\ ~At("load") => job.conf \in Nat /\ job.tmpl <= job.conf

(* What the job has read is the newest forecast, unless it was outdated.   *)
ReadKnows == unchanged /\ outdated => belated

JobInv == TypeOK /\ JobVersions /\ ReadKnows

IInv == CtlInv /\ JobInv

(***************************************************************************)
(* The calendar and the arithmetic of the detection                        *)
(***************************************************************************)
LEMMA ConstantsType ==
    /\ MinutesPerHour \in Nat \ {0} /\ HoursPerDay \in Nat \ {0}
    /\ MaxVersion \in Nat
    /\ None \notin ConfigMaps /\ None \notin CronJobs /\ None \notin Reconciles
    /\ \A v \in 1..MaxVersion : /\ Specs[v].executeOn \in Int
                                /\ Specs[v].detection \in Detections
<1> DEFINE R == [executeOn : Int, detection : Detections]
<1>1. Specs \in Seq(R)
  BY ControllerAssumption DEF ControllerAssumption
<1>2. MaxVersion \in Nat /\ \A v \in 1..MaxVersion : Specs[v] \in R
  <2> HIDE DEF R
  <2> QED
    BY <1>1 DEF MaxVersion
<1> QED
  BY <1>2, ControllerAssumption DEF ControllerAssumption

(* Whatever minute is drawn, the schedule is a minute of the day.          *)
LEMMA SchedulesInDay ==
  ASSUME NEW e \in Int
  PROVE  MinutesPerDay \in Nat \ {0} /\ Schedules(e) \subseteq Minutes
<1>1. MinutesPerHour \in Nat \ {0} /\ HoursPerDay \in Nat \ {0}
  BY ConstantsType
<1>2. Hour(e) \in 0..(HoursPerDay - 1)
  BY <1>1 DEF Hour
<1>3. ASSUME NEW h \in 0..(HoursPerDay - 1), NEW m \in 0..(MinutesPerHour - 1)
      PROVE  h * MinutesPerHour + m \in 0..(MinutesPerHour * HoursPerDay - 1)
  <2>1. h * MinutesPerHour \in Nat
    BY <1>1
  <2>2. (h + 1) * MinutesPerHour <= HoursPerDay * MinutesPerHour
    BY <1>1
  <2>3. (h + 1) * MinutesPerHour = h * MinutesPerHour + MinutesPerHour
    BY <1>1
  <2>4. HoursPerDay * MinutesPerHour = MinutesPerHour * HoursPerDay
    BY <1>1
  <2> QED
    BY <1>1, <2>1, <2>2, <2>3, <2>4
<1>4. MinutesPerHour * HoursPerDay \in Nat \ {0}
  BY <1>1
<1> QED
  BY <1>2, <1>3, <1>4 DEF Schedules, Minutes, MinutesPerDay

(* The slices of an eligible row lie within the data.                      *)
LEMMA WindowsFit ==
  ASSUME NEW n \in Nat, NEW d \in DetectionConfigs, Workable(d)
  PROVE  WindowsInRange(n, d)
<1>1. /\ d.windowSize \in Nat /\ d.trajectoryRows \in Nat
      /\ d.trajectoryFeatures \in Nat /\ d.testRows \in Nat /\ d.lag \in Nat
      /\ d.lag >= 1
  BY DEF DetectionConfigs
<1>2. d.trajectoryRows <= d.lag + d.testRows + 1
  BY DEF Workable
<1> SUFFICES ASSUME NEW t \in Eligible(n, d)
             PROVE  /\ Fits(n, TrajectoryAt(t, d), d.trajectoryRows, d)
                    /\ Fits(n, TestAt(t, d), d.testRows, d)
  BY DEF WindowsInRange
<1>3. /\ t \in Nat /\ TrajectoryAt(t, d) \in Nat
      /\ TestAt(t, d) = TrajectoryAt(t, d) + d.lag - 1
      /\ TestAt(t, d) + d.windowSize + d.testRows < n
  BY <1>1 DEF Eligible, TestAt, TrajectoryAt
<1>4. ASSUME NEW start \in Int, start + d.windowSize <= n
      PROVE  SliceLength(n, start, d) = d.windowSize
  BY <1>4 DEF SliceLength
<1>5. ASSUME NEW i \in 0..(d.trajectoryRows - 1)
      PROVE  TrajectoryAt(t, d) + i + d.windowSize <= n
  BY <1>1, <1>2, <1>3
<1>6. ASSUME NEW i \in 0..(d.testRows - 1)
      PROVE  TestAt(t, d) + i + d.windowSize <= n
  BY <1>1, <1>3
<1> QED
  BY <1>1, <1>3, <1>4, <1>5, <1>6 DEF Fits

(***************************************************************************)
(* The FittingJob controller                                               *)
(***************************************************************************)
LEMMA CtlInitInv == ASSUME CtlInit PROVE CtlInv
<1>1. 0 \in Minutes /\ MaxVersion \in Nat
  BY ConstantsType, SchedulesInDay DEF Minutes
<1>2. 0 \in 0..MaxVersion /\ 0 \in Nat
  BY <1>1
<1>3. CtlTypeOK
  BY <1>1, <1>2, Zenon DEF CtlInit, CtlTypeOK
<1>4. Versions /\ Progress
  BY DEF CtlInit, Versions, Progress
<1> QED
  BY <1>3, <1>4 DEF CtlInv

LEMMA UsersKeepCtlInv ==
  ASSUME CtlInv, ApplyFittingJob \/ DeleteFittingJob \/ Resync PROVE CtlInv'
<1>1. CASE ApplyFittingJob
  BY <1>1, ConstantsType
     DEF CtlInv, CtlTypeOK, Versions, Progress, ApplyFittingJob, FittingJobs,
         ConfigMaps, CronJobs, Reconciles
<1>2. CASE DeleteFittingJob
  BY <1>2 DEF CtlInv, CtlTypeOK, Versions, Progress, DeleteFittingJob
<1>3. CASE Resync
  BY <1>3 DEF CtlInv, CtlTypeOK, Versions, Progress, Resync
<1> QED
  BY <1>1, <1>2, <1>3

LEMMA BeginKeepsCtlInv == ASSUME CtlInv, Begin PROVE CtlInv'
<1>1. CASE fj = None
  BY <1>1 DEF CtlInv, CtlTypeOK, Versions, Progress, Begin, Return
<1>2. CASE fj # None
  <2>1. /\ fj \in FittingJobs /\ ctl' = [at |-> "cm", fj |-> fj]
        /\ UNCHANGED <<version, fj, cm, cj, now, mishaps>>
        /\ queue' = FALSE /\ adopted' = FALSE
    BY <1>2 DEF CtlInv, CtlTypeOK, Begin
  <2>2. ctl' \in Reconciles /\ ctl'.fj = fj /\ ctl'.at = "cm"
    BY <2>1 DEF Reconciles
  <2>3. ctl' # None
    BY <2>2, ConstantsType
  <2>4. CtlTypeOK'
    BY <2>1, <2>2 DEF CtlInv, CtlTypeOK
  <2>5. fj.ver = version /\ version \in Nat
    BY <1>2, ConstantsType DEF CtlInv, CtlTypeOK, Versions
  <2>6. Versions'
    BY <1>2, <2>1, <2>2, <2>5 DEF CtlInv, Versions
  <2>7. Progress'
    BY <2>1, <2>2, <2>3 DEF Progress
  <2> QED
    BY <2>4, <2>6, <2>7 DEF CtlInv
<1> QED
  BY <1>1, <1>2

LEMMA WriteConfigMapKeepsCtlInv == ASSUME CtlInv, WriteConfigMap PROVE CtlInv'
<1>1. /\ ctl \in Reconciles /\ ctl # None /\ ctl.fj \in FittingJobs
      /\ ctl.fj.uid \in 1..MaxVersion /\ ctl.fj.ver \in 1..MaxVersion
  BY DEF CtlInv, CtlTypeOK, WriteConfigMap, Reconciles, FittingJobs
<1>2. OwnerOf(cm) \in 1..MaxVersion
  BY <1>1 DEF OwnerOf, CtlInv, CtlTypeOK, ConfigMaps
<1>3. /\ cm' \in ConfigMaps /\ cm'.ver = ctl.fj.ver /\ cm'.owner = OwnerOf(cm)
  BY <1>1, <1>2 DEF WriteConfigMap, ConfigOf, ConfigMaps
<1>4. cm' # None
  BY <1>3, ConstantsType
<1>5. /\ ctl' \in Reconciles /\ ctl'.fj = ctl.fj /\ ctl'.at = "cj"
  BY <1>1 DEF WriteConfigMap, Reconciles
<1>6. ctl' # None
  BY <1>5, ConstantsType
<1>7. UNCHANGED <<version, fj, cj, queue, now, mishaps>>
  BY DEF WriteConfigMap
<1>8. adopted' \in BOOLEAN /\ (~adopted' => OwnerOf(cm) = ctl.fj.uid)
  BY DEF WriteConfigMap, Adopts, OwnerOf, CtlInv, CtlTypeOK
<1>9. CtlTypeOK'
  BY <1>3, <1>5, <1>7, <1>8 DEF CtlInv, CtlTypeOK
<1>10. ctl.fj.ver <= version
  BY <1>1 DEF CtlInv, Versions
<1> QED
  BY <1>1, <1>3, <1>4, <1>5, <1>6, <1>7, <1>8, <1>9, <1>10
     DEF CtlInv, Versions, Progress, ConfigWritten
LEMMA WriteCronJobKeepsCtlInv == ASSUME CtlInv, WriteCronJob PROVE CtlInv'
<1>1. /\ ctl \in Reconciles /\ ctl # None /\ ctl.at = "cj"
      /\ ctl.fj \in FittingJobs
      /\ ctl.fj.uid \in 1..MaxVersion /\ ctl.fj.ver \in 1..MaxVersion
  BY DEF CtlInv, CtlTypeOK, WriteCronJob, Reconciles, FittingJobs
<1>2. OwnerOf(cj) \in 1..MaxVersion
  BY <1>1 DEF OwnerOf, CtlInv, CtlTypeOK, CronJobs
<1>3. SinceOf \in 0..MinutesPerDay
  BY SchedulesInDay DEF SinceOf, CtlInv, CtlTypeOK, CronJobs
<1>4. PICK m \in Schedules(Specs[ctl.fj.ver].executeOn) : cj' = CronJobOf(ctl.fj, m)
  BY DEF WriteCronJob
<1>5. m \in Minutes
  BY <1>1, <1>4, ConstantsType, SchedulesInDay
<1>6. /\ cj' \in CronJobs /\ cj'.ver = ctl.fj.ver /\ cj'.owner = OwnerOf(cj)
      /\ cj'.at \in Schedules(Specs[ctl.fj.ver].executeOn)
  BY <1>1, <1>2, <1>3, <1>4, <1>5 DEF CronJobOf, CronJobs
<1>7. cj' # None
  BY <1>6, ConstantsType
<1>8. ctl' = None /\ UNCHANGED <<version, fj, cm, queue, now, mishaps>>
  BY DEF WriteCronJob, Return
<1>9. /\ adopted' \in BOOLEAN
      /\ ~adopted' => ~adopted /\ OwnerOf(cj) = ctl.fj.uid
  BY DEF WriteCronJob, Adopts, OwnerOf, CtlInv, CtlTypeOK
<1>10. CtlTypeOK'
  BY <1>6, <1>8, <1>9 DEF CtlInv, CtlTypeOK
<1>11. Versions'
  BY <1>1, <1>6, <1>8 DEF CtlInv, Versions
<1>12. Progress'
  BY <1>1, <1>6, <1>7, <1>8, <1>9
     DEF CtlInv, Progress, ConfigWritten, ScheduleWritten
<1> QED
  BY <1>10, <1>11, <1>12 DEF CtlInv

LEMMA MishapsKeepCtlInv ==
  ASSUME CtlInv, CallFails \/ Crash PROVE CtlInv'
<1>1. ctl' = None /\ UNCHANGED <<version, fj, cm, cj, adopted, now>>
  BY DEF CallFails, Crash, ReturnError, Return
<1>2. fj # None => queue'
  BY Zenon DEF CallFails, Crash, ReturnError
<1>3. {queue, adopted}' \subseteq BOOLEAN
  BY Zenon DEF CtlInv, CtlTypeOK, CallFails, Crash, ReturnError
<1>4. mishaps' \in Nat
  BY DEF CtlInv, CtlTypeOK, CallFails, Crash
<1>5. CtlTypeOK'
  BY <1>1, <1>3, <1>4 DEF CtlInv, CtlTypeOK
<1>6. Versions' /\ Progress'
  BY <1>1, <1>2 DEF CtlInv, Versions, Progress
<1> QED
  BY <1>5, <1>6 DEF CtlInv

LEMMA CollectorKeepsCtlInv == ASSUME CtlInv, Collect PROVE CtlInv'
<1>1. ASSUME CollectConfigMap PROVE CtlInv'
  BY <1>1 DEF CtlInv, CtlTypeOK, Versions, Progress, ConfigWritten,
              ScheduleWritten, CollectConfigMap, Ownerless
<1>2. ASSUME CollectCronJob PROVE CtlInv'
  BY <1>2 DEF CtlInv, CtlTypeOK, Versions, Progress, ConfigWritten,
              ScheduleWritten, CollectCronJob, Ownerless
<1> QED
  BY <1>1, <1>2 DEF Collect

(* Only the status of the CronJob changes.                                 *)
LEMMA StatusKeepsCtlInv ==
  ASSUME CtlInv, NEW since \in 0..MinutesPerDay, cj # None,
         cj' = [cj EXCEPT !.since = since], now' \in Minutes,
         UNCHANGED <<version, fj, cm, queue, ctl, adopted, mishaps>>
  PROVE  CtlInv'
<1>1. cj \in CronJobs
  BY DEF CtlInv, CtlTypeOK
<1>2. /\ cj' \in CronJobs /\ cj'.ver = cj.ver /\ cj'.owner = cj.owner
      /\ cj'.at = cj.at
  BY <1>1 DEF CronJobs
<1>3. cj' # None
  BY <1>2, ConstantsType
<1>4. CtlTypeOK'
  BY <1>2 DEF CtlInv, CtlTypeOK
<1>5. Versions'
  BY <1>2 DEF CtlInv, Versions
<1>6. Progress'
  BY <1>2, <1>3 DEF CtlInv, Progress, ConfigWritten, ScheduleWritten
<1> QED
  BY <1>4, <1>5, <1>6 DEF CtlInv

LEMMA ClockKeepsCtlInv == ASSUME CtlInv, Tick \/ StartJob PROVE CtlInv'
<1>1. MinutesPerDay \in Nat \ {0} /\ now \in Minutes
  BY SchedulesInDay DEF CtlInv, CtlTypeOK
<1>2. CASE Tick
  <2>1. now' \in Minutes
    BY <1>1, <1>2 DEF Tick, Minutes
  <2>2. CASE cj' = cj
    BY <1>2, <2>1, <2>2 DEF CtlInv, CtlTypeOK, Versions, Progress, ConfigWritten,
                            ScheduleWritten, Tick
  <2>3. CASE cj' # cj
    <3>1. /\ cj # None /\ cj.since # MinutesPerDay
          /\ cj' = [cj EXCEPT !.since = cj.since + 1]
      BY <1>2, <2>3 DEF Tick
    <3>2. cj.since + 1 \in 0..MinutesPerDay
      BY <1>1, <3>1 DEF CtlInv, CtlTypeOK, CronJobs
    <3> QED
      BY <1>2, <2>1, <3>1, <3>2, StatusKeepsCtlInv DEF Tick
  <2> QED
    BY <2>2, <2>3
<1>3. CASE StartJob
  <2>1. cj # None /\ cj.at \in Int
    BY <1>3 DEF StartJob, Due, CtlInv, CtlTypeOK, CronJobs, Minutes
  <2>2. Elapsed \in 0..MinutesPerDay
    BY <1>1, <2>1 DEF Elapsed, Minutes
  <2> QED
    BY <1>1, <1>3, <2>1, <2>2, StatusKeepsCtlInv DEF StartJob
<1> QED
  BY <1>2, <1>3

LEMMA StutterKeepsCtlInv == ASSUME CtlInv, UNCHANGED ctlVars PROVE CtlInv'
  BY DEF ctlVars, CtlInv, CtlTypeOK, Versions, Progress, ConfigWritten,
         ScheduleWritten

LEMMA CtlStepKeepsInv ==
  ASSUME CtlInv, [CtlNext \/ StartJob]_ctlVars PROVE CtlInv'
  BY UsersKeepCtlInv, BeginKeepsCtlInv, WriteConfigMapKeepsCtlInv,
     WriteCronJobKeepsCtlInv, MishapsKeepCtlInv, CollectorKeepsCtlInv,
     ClockKeepsCtlInv, StutterKeepsCtlInv DEF CtlNext, Reconcile

(* At rest what Progress says of the last Reconcile is RestComplete.       *)
LEMMA InvRests == ASSUME CtlInv PROVE RestComplete
  BY DEF CtlInv, Progress, ConfigWritten, ScheduleWritten, RestComplete, UpToDate
(***************************************************************************)
(* The job                                                                 *)
(***************************************************************************)
(* The types of the job's variables, without those of the controller.      *)
JobTypeOK ==
    /\ job \in Jobs \cup {None}
    /\ job # None => /\ At("load") <=> job.conf = None
                     /\ job.step \in {"detect", "fit"} <=> job.rows # None
    /\ data \in 0..MaxVersion \cup {None}
    /\ {unchanged, outdated, belated} \subseteq BOOLEAN

LEMMA TypeParts == TypeOK <=> CtlTypeOK /\ JobTypeOK
  BY DEF TypeOK, JobTypeOK

LEMMA ConstantsOfJobs ==
  /\ BackoffLimit \in Nat /\ Rows \subseteq Nat /\ None \notin Nat
  /\ Detections \subseteq DetectionConfigs
  BY JobAssumption DEF JobAssumption

(* A new pod of a job, be it the first or another try.                     *)
LEMMA CreatedIsJob ==
  ASSUME NEW tmpl \in 1..MaxVersion, NEW tries \in 0..BackoffLimit
  PROVE  LET j == Created(tmpl, tries)
         IN  /\ j \in Jobs /\ j.step = "load" /\ j.tmpl = tmpl
             /\ j.conf = None /\ j.rows = None
  BY DEF Created, Jobs

LEMMA JobInitInv == ASSUME Init PROVE JobInv
<1>1. 0 \in 0..MaxVersion
  BY ConstantsType
<1>2. JobTypeOK
  BY <1>1, Zenon DEF Init, JobTypeOK
<1>3. CtlTypeOK
  BY CtlInitInv DEF Init, CtlInv
<1> QED
  BY <1>2, <1>3, TypeParts DEF Init, JobInv, JobVersions, ReadKnows

(* The controller replaces the config by newer ones only.                  *)
LEMMA CtlKeepsJobInv ==
  ASSUME CtlInv, CtlInv', JobInv, CtlNext, UNCHANGED jobVars PROVE JobInv'
<1>1. JobTypeOK' /\ ReadKnows'
  BY TypeParts DEF JobInv, JobTypeOK, ReadKnows, jobVars, At
<1>2. ASSUME job # None
      PROVE  /\ job.tmpl <= version'
             /\ cm' # None => job.tmpl <= cm'.ver
             /\ ctl' # None => job.tmpl <= ctl'.fj.ver
  <2>1. /\ job.tmpl <= version
        /\ cm # None => job.tmpl <= cm.ver
        /\ ctl # None => job.tmpl <= ctl.fj.ver
    BY <1>2 DEF JobInv, JobVersions
  <2>2. job.tmpl \in Nat /\ version \in Nat
    BY <1>2, ConstantsType, TypeParts DEF JobInv, JobTypeOK, Jobs, CtlInv, CtlTypeOK
  <2>3. CASE ApplyFittingJob
    BY <2>1, <2>2, <2>3 DEF ApplyFittingJob
  <2>4. CASE Begin
    <3>1. CASE fj = None
      BY <2>1, <2>4, <3>1 DEF Begin, Return
    <3>2. CASE fj # None
      BY <2>1, <2>4, <3>2 DEF Begin, CtlInv, Versions
    <3> QED
      BY <3>1, <3>2
  <2>5. CASE WriteConfigMap
    <3>1. ctl \in Reconciles
      BY <2>5 DEF WriteConfigMap, CtlInv, CtlTypeOK
    <3>2. cm'.ver = ctl.fj.ver /\ ctl'.fj = ctl.fj /\ version' = version /\ ctl # None
      BY <2>5, <3>1 DEF WriteConfigMap, ConfigOf, Reconciles
    <3> QED
      BY <2>1, <3>2
  <2>6. CASE DeleteFittingJob \/ Resync \/ WriteCronJob \/ CallFails \/ Crash
             \/ Collect \/ Tick
    <3>1. version' = version /\ cm' \in {cm, None} /\ ctl' \in {ctl, None}
      BY <2>6 DEF DeleteFittingJob, Resync, WriteCronJob, CallFails, Crash,
                  ReturnError, Return, Collect, CollectConfigMap,
                  CollectCronJob, Tick
    <3> QED
      BY <2>1, <3>1
  <2> QED
    BY <2>3, <2>4, <2>5, <2>6 DEF CtlNext, Reconcile
<1>3. JobVersions'
  BY <1>2 DEF JobInv, JobVersions, jobVars, At
<1>4. CtlTypeOK'
  BY DEF CtlInv
<1>5. TypeOK'
  BY <1>1, <1>4 DEF TypeOK, JobTypeOK
<1> QED
  BY <1>1, <1>3, <1>5 DEF JobInv

LEMMA StartKeepsJobInv ==
  ASSUME CtlInv, CtlInv', JobInv, Start PROVE JobInv'
<1>1. /\ cj # None /\ cj \in CronJobs /\ cj.ver \in 1..MaxVersion
      /\ 0 \in 0..BackoffLimit
  BY ConstantsOfJobs DEF Start, StartJob, Due, CtlInv, CtlTypeOK, CronJobs
<1>2. /\ job' \in Jobs /\ job'.step = "load" /\ job'.tmpl = cj.ver
      /\ job'.conf = None /\ job'.rows = None
  BY <1>1, CreatedIsJob DEF Start
<1>3. UNCHANGED <<version, cm, ctl, data, unchanged, outdated, belated>>
  BY DEF Start, StartJob
<1>4. JobTypeOK'
  BY <1>2, <1>3, TypeParts DEF JobInv, JobTypeOK, At
<1>5. JobVersions'
  BY <1>1, <1>2, <1>3 DEF JobVersions, At, CtlInv, Versions
<1>6. ReadKnows'
  BY <1>3 DEF JobInv, ReadKnows
<1>7. CtlTypeOK'
  BY DEF CtlInv
<1>8. TypeOK'
  BY <1>4, <1>7 DEF TypeOK, JobTypeOK
<1> QED
  BY <1>5, <1>6, <1>8 DEF JobInv
(* A pod that fails, wherever it is, forgets what it has read.             *)
LEMMA RestartKeepsJobInv ==
  ASSUME CtlInv, JobInv, job # None, Restart,
         UNCHANGED <<version, fj, cm, cj, queue, ctl, adopted, now>>,
         mishaps' \in Nat
  PROVE  CtlInv' /\ JobInv'
<1>1. CtlInv'
  BY DEF CtlInv, CtlTypeOK, Versions, Progress, ConfigWritten, ScheduleWritten
<1>2. job \in Jobs /\ job.tmpl \in 1..MaxVersion /\ job.tries \in 0..BackoffLimit
  BY TypeParts DEF JobInv, JobTypeOK, Jobs
<1>3. \/ job' = None
      \/ /\ job' \in Jobs /\ job'.step = "load" /\ job'.tmpl = job.tmpl
         /\ job'.conf = None /\ job'.rows = None
  <2>1. CASE job.tries < BackoffLimit
    <3>1. job.tries + 1 \in 0..BackoffLimit
      BY <1>2, <2>1, ConstantsOfJobs
    <3> QED
      BY <1>2, <2>1, <3>1, CreatedIsJob DEF Restart
  <2>2. CASE ~(job.tries < BackoffLimit)
    BY <2>2 DEF Restart
  <2> QED
    BY <2>1, <2>2
<1>4. data' = data /\ ~unchanged' /\ {unchanged, outdated, belated}' \subseteq BOOLEAN
  BY Zenon DEF Restart, Reading
<1>5. JobTypeOK'
  BY <1>3, <1>4, TypeParts DEF JobInv, JobTypeOK, At
<1>6. JobVersions'
  BY <1>3 DEF JobInv, JobVersions, At
<1>7. CtlTypeOK'
  BY <1>1 DEF CtlInv
<1>8. TypeOK'
  BY <1>5, <1>7 DEF TypeOK, JobTypeOK
<1> QED
  BY <1>1, <1>4, <1>6, <1>8 DEF JobInv, ReadKnows

LEMMA FailuresKeepInv ==
  ASSUME IInv, PodFails \/ DetectFails \/ StoreFails PROVE IInv'
<1>1. job # None /\ Restart /\ UNCHANGED <<version, fj, cm, cj, queue, ctl, adopted, now>>
  BY DEF PodFails, DetectFails, StoreFails, At, ctlVars
<1>2. mishaps' \in Nat
  BY DEF IInv, CtlInv, CtlTypeOK, PodFails, DetectFails, StoreFails, ctlVars
<1> QED
  BY <1>1, <1>2, RestartKeepsJobInv DEF IInv

(* A step within a job leaves its template and, once loaded, its config.   *)
LEMMA StepsKeepInv ==
  ASSUME IInv, Fetch \/ Detect \/ Fit \/ Read PROVE IInv'
<1>1. job # None /\ job \in Jobs /\ UNCHANGED <<ctlVars, data>>
  BY TypeParts DEF IInv, JobInv, JobTypeOK, Fetch, Detect, Fit, Read, At
<1>2. CtlInv'
  BY <1>1, StutterKeepsCtlInv DEF IInv
<1>3. CtlTypeOK'
  BY <1>2 DEF CtlInv
<1>4. CASE Fetch
  <2>1. cm # None /\ cm.ver \in 1..MaxVersion /\ job.tmpl <= cm.ver
    BY <1>1, <1>4 DEF Fetch, IInv, CtlInv, CtlTypeOK, ConfigMaps, JobInv, JobVersions
  <2>2. PICK n \in Rows : job' = [Loaded EXCEPT !.step = "detect", !.rows = n]
    BY <1>4 DEF Fetch
  <2>3. Loaded \in Jobs /\ Loaded.conf = cm.ver /\ Loaded.tmpl = job.tmpl
    BY <1>1, <2>1 DEF Loaded, Jobs
  <2>4. /\ job' \in Jobs /\ job'.step = "detect" /\ job'.rows \in Rows
        /\ job'.conf = cm.ver /\ job'.tmpl = job.tmpl
    BY <2>2, <2>3 DEF Jobs
  <2>5. job'.conf # None /\ job'.rows # None
    <3>1. job'.conf \in Nat
      BY <2>1, <2>4, ConstantsType
    <3>2. job'.rows \in Nat
      BY <2>4, ConstantsOfJobs
    <3> QED
      BY <3>1, <3>2, ConstantsOfJobs
  <2>6. JobTypeOK'
    BY <1>1, <1>4, <2>4, <2>5, TypeParts DEF IInv, JobInv, JobTypeOK, At, Fetch
  <2>7. JobVersions'
    BY <1>1, <2>1, <2>4, ConstantsType DEF IInv, JobInv, JobVersions, At, ctlVars
  <2>8. ReadKnows'
    BY <1>4 DEF IInv, JobInv, ReadKnows, Fetch
  <2> QED
    BY <1>2, <1>3, <2>6, <2>7, <2>8 DEF IInv, JobInv, TypeOK, JobTypeOK
<1>5. CASE Fit
  <2>1. /\ job' \in Jobs /\ job'.step = "read" /\ job'.rows = None
        /\ job'.conf = job.conf /\ job'.tmpl = job.tmpl
    BY <1>1, <1>5 DEF Fit, Jobs
  <2>2. job.step = "fit" /\ job.conf # None
    BY <1>1, <1>5, TypeParts DEF Fit, At, IInv, JobInv, JobTypeOK
  <2>3. JobTypeOK'
    BY <1>1, <1>5, <2>1, <2>2, TypeParts DEF IInv, JobInv, JobTypeOK, At, Fit
  <2>4. JobVersions'
    BY <1>1, <2>1, <2>2 DEF IInv, JobInv, JobVersions, At, ctlVars
  <2>5. ReadKnows'
    BY <1>5 DEF IInv, JobInv, ReadKnows, Fit
  <2> QED
    BY <1>2, <1>3, <2>3, <2>4, <2>5 DEF IInv, JobInv, TypeOK, JobTypeOK
<1>6. CASE Detect
  <2>1. job.step = "detect" /\ job.rows \in Rows /\ job.conf # None
    BY <1>1, <1>6, TypeParts DEF Detect, At, IInv, JobInv, JobTypeOK, Jobs
  <2>2. PICK c \in Eligible(job.rows, Detection) \cup {None} :
          LET idx == IF c = None THEN 0 ELSE CutIndex(job.rows, c)
          IN  job' = [job EXCEPT !.step = "fit", !.change = c,
                                 !.start = TrainingStart(job.rows, idx)]
    BY <1>6 DEF Detect
  <2>3. c \in Nat \cup {None} /\ job'.start \in Nat
    <3>1. job.rows \in Nat
      BY <2>1, ConstantsOfJobs
    <3>2. c = None \/ c \in 0..(job.rows - 1)
      BY <2>2 DEF Eligible
    <3>3. job'.start = TrainingStart(job.rows, IF c = None THEN 0
                                               ELSE CutIndex(job.rows, c))
      BY <1>1, <2>2 DEF Jobs
    <3> QED
      BY <3>1, <3>2, <3>3 DEF TrainingStart, CutIndex
  <2>4. /\ job' \in Jobs /\ job'.step = "fit" /\ job'.rows = job.rows
        /\ job'.conf = job.conf /\ job'.tmpl = job.tmpl
    BY <1>1, <2>2, <2>3 DEF Jobs
  <2>5. job.rows # None
    BY <2>1, ConstantsOfJobs
  <2>6. UNCHANGED <<unchanged, outdated, belated>>
    BY <1>6 DEF Detect
  <2>7. JobTypeOK'
    BY <1>1, <2>1, <2>4, <2>5, <2>6, TypeParts DEF IInv, JobInv, JobTypeOK, At
  <2>8. JobVersions'
    BY <1>1, <2>1, <2>4 DEF IInv, JobInv, JobVersions, At, ctlVars
  <2>9. ReadKnows'
    BY <2>6 DEF IInv, JobInv, ReadKnows
  <2> QED
    BY <1>2, <1>3, <2>7, <2>8, <2>9 DEF IInv, JobInv, TypeOK, JobTypeOK
<1>7. CASE Read
  <2>1. /\ job' \in Jobs /\ job'.step = "patch" /\ job'.rows = job.rows
        /\ job'.conf = job.conf /\ job'.tmpl = job.tmpl
    BY <1>1, <1>7 DEF Read, Jobs
  <2>2. job.step = "read" /\ job.conf # None /\ job.rows = None
    BY <1>1, <1>7, TypeParts DEF Read, At, IInv, JobInv, JobTypeOK
  <2>3. {unchanged, outdated, belated}' \subseteq BOOLEAN
    BY <1>7, TypeParts, Zenon DEF Read, IInv, JobInv, JobTypeOK
  <2>4. JobTypeOK'
    BY <1>1, <2>1, <2>2, <2>3, TypeParts DEF IInv, JobInv, JobTypeOK, At
  <2>5. JobVersions'
    BY <1>1, <2>1, <2>2 DEF IInv, JobInv, JobVersions, At, ctlVars
  <2>6. ReadKnows'
    BY <1>7 DEF ReadKnows, Read
  <2> QED
    BY <1>2, <1>3, <2>4, <2>5, <2>6 DEF IInv, JobInv, TypeOK, JobTypeOK
<1> QED
  BY <1>4, <1>5, <1>6, <1>7

(* The job ends, with its forecast stored or taken away.                   *)
LEMMA EndsKeepInv == ASSUME IInv, Patch \/ CollectJob PROVE IInv'
<1>1. job # None /\ job \in Jobs /\ UNCHANGED ctlVars /\ job' = None
  BY TypeParts DEF IInv, JobInv, JobTypeOK, Patch, CollectJob, At
<1>2. CtlInv'
  BY <1>1, StutterKeepsCtlInv DEF IInv
<1>3. CtlTypeOK'
  BY <1>2 DEF CtlInv
<1>4. ASSUME Patch PROVE job.conf \in 1..MaxVersion
  BY <1>1, <1>4, TypeParts DEF IInv, JobInv, JobTypeOK, Jobs, Patch, At
<1>5. data' \in 0..MaxVersion \cup {None}
  BY <1>4, ConstantsType, TypeParts DEF IInv, JobInv, JobTypeOK, Patch, CollectJob
<1>6. ~unchanged' /\ {unchanged, outdated, belated}' \subseteq BOOLEAN
  BY Zenon DEF Patch, CollectJob, Reading
<1>7. JobTypeOK'
  BY <1>1, <1>5, <1>6 DEF JobTypeOK, At
<1> QED
  BY <1>1, <1>2, <1>3, <1>6, <1>7
     DEF IInv, JobInv, JobVersions, ReadKnows, TypeOK, JobTypeOK

(* Others at the ConfigMap: what the job has read is no longer what it is. *)
LEMMA DataKeepsInv ==
  ASSUME IInv, CreateData \/ DeleteData \/ OtherStores PROVE IInv'
<1>1. /\ UNCHANGED <<version, fj, cm, cj, queue, ctl, adopted, now, job, belated>>
      /\ mishaps' \in Nat
  BY DEF IInv, CtlInv, CtlTypeOK, CreateData, DeleteData, OtherStores, EditData, ctlVars
<1>2. CtlInv'
  BY <1>1 DEF IInv, CtlInv, CtlTypeOK, Versions, Progress, ConfigWritten,
              ScheduleWritten
<1>3. CtlTypeOK'
  BY <1>2 DEF CtlInv
<1>4. data' \in 0..MaxVersion \cup {None}
  BY ConstantsType
     DEF IInv, CtlInv, CtlTypeOK, CreateData, DeleteData, OtherStores
<1>5. {unchanged, outdated, belated}' \subseteq BOOLEAN
  BY TypeParts, Zenon
     DEF IInv, JobInv, JobTypeOK, CreateData, DeleteData, OtherStores, EditData
<1>6. ReadKnows'
  BY DEF IInv, JobInv, ReadKnows, CreateData, DeleteData, OtherStores, EditData
<1>7. JobTypeOK'
  BY <1>1, <1>4, <1>5, TypeParts DEF IInv, JobInv, JobTypeOK, At
<1>8. JobVersions'
  BY <1>1 DEF IInv, JobInv, JobVersions, At
<1> QED
  BY <1>2, <1>3, <1>6, <1>7, <1>8 DEF IInv, JobInv, TypeOK, JobTypeOK
(***************************************************************************)
(* The theorems                                                            *)
(***************************************************************************)
LEMMA InitInv == ASSUME Init PROVE IInv
  BY CtlInitInv, JobInitInv DEF Init, IInv

LEMMA StepKeepsInv == ASSUME IInv, [Next]_vars PROVE IInv'
<1>1. ASSUME CtlNext, UNCHANGED jobVars PROVE IInv'
  BY <1>1, CtlStepKeepsInv, CtlKeepsJobInv DEF IInv
<1>2. ASSUME Start PROVE IInv'
  BY <1>2, CtlStepKeepsInv, StartKeepsJobInv DEF IInv, Start
<1>3. ASSUME UNCHANGED vars PROVE IInv'
  <2>1. CtlInv'
    BY <1>3, StutterKeepsCtlInv DEF IInv, vars
  <2>2. UNCHANGED jobVars
    BY <1>3 DEF vars
  <2>3. UNCHANGED <<version, cm, ctl>>
    BY <1>3 DEF vars, ctlVars
  <2>4. JobTypeOK'
    BY <2>2, TypeParts DEF IInv, JobInv, JobTypeOK, jobVars, At
  <2>5. JobVersions'
    BY <2>2, <2>3 DEF IInv, JobInv, JobVersions, jobVars, At
  <2>6. ReadKnows'
    BY <2>2 DEF IInv, JobInv, ReadKnows, jobVars
  <2> QED
    BY <2>1, <2>4, <2>5, <2>6
       DEF IInv, CtlInv, JobInv, TypeOK, JobTypeOK
<1> QED
  BY <1>1, <1>2, <1>3, StepsKeepInv, EndsKeepInv, FailuresKeepInv, DataKeepsInv
     DEF Next, Run

(* The versions that controller and job work with are in order, and what   *)
(* Reconcile has written belongs to the FittingJob, in every state.        *)
THEOREM JobInvariant == Spec => []IInv
<1>1. Init => IInv
  BY InitInv
<1>2. IInv /\ [Next]_vars => IInv'
  BY StepKeepsInv
<1> QED
  BY <1>1, <1>2, PTL DEF Spec

(* The variables of controller and job have the values listed for them, at *)
(* each step of a job those it needs.                                      *)
THEOREM TypeCorrect == Spec => []TypeOK
<1>1. IInv => TypeOK
  BY DEF IInv, JobInv
<1> QED
  BY <1>1, JobInvariant, PTL

(* Whatever call of Reconcile fails, and however users, resyncs, crashes   *)
(* and the garbage collector interleave with it, config and schedule are   *)
(* those of the FittingJob when nothing is left to be done.                *)
THEOREM ScheduleFollows == Spec => []RestComplete
<1>1. IInv => RestComplete
  BY InvRests DEF IInv
<1> QED
  BY <1>1, JobInvariant, PTL

(* A job trains by a config that is at least as new as its own template.   *)
THEOREM ConfigIsFresh == Spec => []ConfigNotOlder
<1>1. IInv => ConfigNotOlder
  <2> SUFFICES ASSUME IInv, job # None, ~At("load") PROVE job.conf >= job.tmpl
    BY DEF ConfigNotOlder
  <2>1. job.tmpl <= job.conf
    BY DEF IInv, JobInv, JobVersions
  <2>2. job.tmpl \in Nat /\ job.conf \in Nat
    BY ConstantsType, TypeParts DEF IInv, JobInv, JobVersions, JobTypeOK, Jobs
  <2> QED
    BY <2>1, <2>2
<1> QED
  BY <1>1, JobInvariant, PTL

(* What the detection is given: rows and parameters.                       *)
LEMMA DetectionGiven ==
  ASSUME IInv, At("detect")
  PROVE  job.rows \in Nat /\ Detection \in DetectionConfigs
<1>1. job # None /\ job \in Jobs /\ job.rows \in Rows /\ job.conf \in 1..MaxVersion
  BY TypeParts DEF IInv, JobInv, JobTypeOK, Jobs, At
<1> QED
  BY <1>1, ConstantsType, ConstantsOfJobs DEF Detection

(* With parameters that fit together, no slice of the data is too short.   *)
THEOREM DetectionStaysInRange == Spec => []SlicesInRange
<1>1. IInv => SlicesInRange
  BY DetectionGiven, WindowsFit DEF SlicesInRange
<1> QED
  BY <1>1, JobInvariant, PTL

(* No forecast that was stored between read and patch is overwritten.      *)
THEOREM NothingUnseenOverwritten == Spec => OverwritesOnlyWhatItRead
<1>1. IInv /\ [Next]_vars => [Patch /\ outdated => belated]_vars
  BY DEF IInv, JobInv, ReadKnows, Patch, MayPatch
<1> QED
  BY <1>1, JobInvariant, PTL DEF Spec, OverwritesOnlyWhatItRead
=============================================================================
