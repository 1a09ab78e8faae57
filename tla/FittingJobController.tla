------------------------ MODULE FittingJobController ------------------------
(***************************************************************************)
(* FittingJobReconciler: keeps the ConfigMap and the CronJob of one        *)
(* FittingJob.  The CronJob controller, the garbage collector and the      *)
(* users of the API are external.  The clock is that of one day: an hour   *)
(* of MinutesPerHour after the other, then the first again.                *)
(*                                                                         *)
(* Get and Create or Update of an object are one step here: Update carries *)
(* the resourceVersion of Get, and either nobody has changed the object in *)
(* between or it fails (CallFails).                                        *)
(***************************************************************************)
EXTENDS Integers, Sequences

CONSTANTS
    Detections,   \* values of changePointDetectionConfig
    MinutesPerHour, HoursPerDay,  \* 60 and 24
    Specs,        \* what the FittingJob says, one time after the other:
                  \* executeOn and changePointDetectionConfig
    MaxMishaps,   \* bound: failed calls, crashes, failed pods and changes
                  \* of the data ConfigMap by others
    None

MaxVersion == Len(Specs)

MinutesPerDay == MinutesPerHour * HoursPerDay

Minutes == 0..(MinutesPerDay - 1)

FittingJobs == [uid : 1..MaxVersion, ver : 1..MaxVersion]

ConfigMaps == [owner : 1..MaxVersion, ver : 1..MaxVersion]

CronJobs == [owner : 1..MaxVersion, ver : 1..MaxVersion, at : Minutes,
             since : 0..MinutesPerDay]

(* Reconcile: the call it is at, the FittingJob it has got. *)
Reconciles == [at : {"cm", "cj"}, fj : FittingJobs]

ASSUME ControllerAssumption ==
    /\ {MinutesPerHour, HoursPerDay} \subseteq Nat \ {0}
    /\ MaxMishaps \in Nat
    /\ Specs \in Seq([executeOn : Int, detection : Detections])
    /\ None \notin ConfigMaps \cup CronJobs \cup Reconciles

VARIABLES
    version,   \* creations and changes of the FittingJob so far
    fj,        \* the FittingJob: its uid is the version it was created as
    cm,        \* the ConfigMap config.json is mounted from
    cj,        \* the CronJob
    queue,     \* the workqueue holds the request
    ctl,       \* the Reconcile under way
    adopted,   \* history: it has updated an object of a former FittingJob
    now,       \* the minute of the day
    mishaps

ctlVars == <<version, fj, cm, cj, queue, ctl, adopted, now, mishaps>>

CtlInit ==
    /\ version = 0 /\ mishaps = 0
    /\ fj = None /\ cm = None /\ cj = None /\ ctl = None
    /\ queue = FALSE /\ adopted = FALSE
    /\ now = 0

(***************************************************************************)
(* The FittingJob, written by the IHPA controller or by a user             *)
(***************************************************************************)
ApplyFittingJob ==
    /\ version < MaxVersion
    /\ version' = version + 1
    /\ fj' = [uid |-> IF fj = None THEN version' ELSE fj.uid,
              ver |-> version']
    /\ queue' = TRUE
    /\ UNCHANGED <<cm, cj, ctl, adopted, now, mishaps>>

DeleteFittingJob ==
    /\ fj # None
    /\ fj' = None
    /\ queue' = TRUE
    /\ UNCHANGED <<version, cm, cj, ctl, adopted, now, mishaps>>

(* Every SyncPeriod of the cache, ten hours, all objects are events again. *)
Resync ==
    /\ fj # None /\ ~queue
    /\ queue' = TRUE
    /\ UNCHANGED <<version, fj, cm, cj, ctl, adopted, now, mishaps>>

(***************************************************************************)
(* Reconcile                                                               *)
(***************************************************************************)
Return == ctl' = None

Begin ==
    /\ queue /\ ctl = None
    /\ queue' = FALSE
    /\ adopted' = FALSE
    /\ IF fj = None THEN Return ELSE ctl' = [at |-> "cm", fj |-> fj]
    /\ UNCHANGED <<version, fj, cm, cj, now, mishaps>>

(* Owner references are set on creation; an update keeps those it finds.   *)
OwnerOf(object) == IF object = None THEN ctl.fj.uid ELSE object.owner

Adopts(object) == adopted \/ (object # None /\ object.owner # ctl.fj.uid)

(* Mutant: written once, like the Role of an IHPA. *)
ConfigOf_Once(f) == IF cm # None THEN cm
                    ELSE [owner |-> f.uid, ver |-> f.ver]

(* ConfigMapResource: config.json has what this version says. *)
ConfigOf(f) == [owner |-> OwnerOf(cm), ver |-> f.ver]

WriteConfigMap ==
    /\ ctl # None /\ ctl.at = "cm"
    /\ cm' = ConfigOf(ctl.fj)
    /\ adopted' = Adopts(cm)
    /\ ctl' = [ctl EXCEPT !.at = "cj"]
    /\ UNCHANGED <<version, fj, cj, queue, now, mishaps>>

Hour(executeOn) == (IF executeOn < 0 THEN 0 ELSE executeOn) % HoursPerDay

(* Mutant: one minute too many. *)
Schedules_OffByOne(executeOn) ==
    {Hour(executeOn) * MinutesPerHour + m : m \in 0..MinutesPerHour}

(* randomMinuteCronFormat: some minute of the hour, another one each time. *)
Schedules(executeOn) ==
    {Hour(executeOn) * MinutesPerHour + m : m \in 0..(MinutesPerHour - 1)}

(* Mutant: the CronJob is replaced with its status. *)
SinceOf_Reset == 0

(* The status, where the last start is noted, is not part of the update.   *)
SinceOf == IF cj = None THEN 0 ELSE cj.since

(* CronJobResource: schedule and template are what this version says. *)
CronJobOf(f, minute) == [owner |-> OwnerOf(cj), ver |-> f.ver,
                         at |-> minute, since |-> SinceOf]

WriteCronJob ==
    /\ ctl # None /\ ctl.at = "cj"
    /\ \E m \in Schedules(Specs[ctl.fj.ver].executeOn) :
          cj' = CronJobOf(ctl.fj, m)
    /\ adopted' = Adopts(cj)
    /\ Return
    /\ UNCHANGED <<version, fj, cm, queue, now, mishaps>>

(* Mutant: the error is logged only, Reconcile goes on. *)
ReturnError_Logged ==
    /\ ctl' = IF ctl.at = "cm" THEN [ctl EXCEPT !.at = "cj"] ELSE None
    /\ UNCHANGED queue

(* Mutant: no error is returned, the request does not come back. *)
ReturnError_Dropped == Return /\ UNCHANGED queue

ReturnError == Return /\ queue' = TRUE

CallFails ==
    /\ mishaps < MaxMishaps
    /\ mishaps' = mishaps + 1
    /\ ctl # None
    /\ ReturnError
    /\ UNCHANGED <<version, fj, cm, cj, adopted, now>>

(* The manager restarts: every FittingJob is an event again. *)
Crash ==
    /\ mishaps < MaxMishaps
    /\ mishaps' = mishaps + 1
    /\ ctl' = None
    /\ queue' = (fj # None)
    /\ UNCHANGED <<version, fj, cm, cj, adopted, now>>

(***************************************************************************)
(* Kubernetes                                                              *)
(***************************************************************************)
(* The owner the object was created for is gone; 0 is nobody's uid. *)
Ownerless(object) ==
    object # None /\ object.owner # (IF fj = None THEN 0 ELSE fj.uid)

CollectConfigMap ==
    /\ Ownerless(cm)
    /\ cm' = None
    /\ UNCHANGED <<version, fj, cj, queue, ctl, adopted, now, mishaps>>

CollectCronJob ==
    /\ Ownerless(cj)
    /\ cj' = None
    /\ UNCHANGED <<version, fj, cm, queue, ctl, adopted, now, mishaps>>

(* Minutes since the last start or the creation, no more than a day. *)
Tick ==
    /\ now' = (now + 1) % MinutesPerDay
    /\ cj' = IF cj = None \/ cj.since = MinutesPerDay THEN cj
             ELSE [cj EXCEPT !.since = @ + 1]
    /\ UNCHANGED <<version, fj, cm, queue, ctl, adopted, mishaps>>

Elapsed == (now - cj.at) % MinutesPerDay

(* The schedule, as it is now, had a time after the last start: the        *)
(* CronJob controller starts one job for all such times.                   *)
Due == cj # None /\ Elapsed < cj.since

StartJob ==
    /\ Due
    /\ cj' = [cj EXCEPT !.since = Elapsed]
    /\ UNCHANGED <<version, fj, cm, queue, ctl, adopted, now, mishaps>>

Reconcile == Begin \/ WriteConfigMap \/ WriteCronJob

Collect == CollectConfigMap \/ CollectCronJob

CtlNext == \/ ApplyFittingJob \/ DeleteFittingJob \/ Resync
           \/ Reconcile \/ CallFails \/ Crash
           \/ Collect \/ Tick

(***************************************************************************)
(* Properties                                                              *)
(***************************************************************************)

CtlTypeOK ==
    /\ version \in 0..MaxVersion /\ mishaps \in Nat
    /\ fj \in FittingJobs \cup {None}
    /\ cm \in ConfigMaps \cup {None} /\ cj \in CronJobs \cup {None}
    /\ ctl \in Reconciles \cup {None}
    /\ {queue, adopted} \subseteq BOOLEAN
    /\ now \in Minutes

UpToDate ==
    /\ cm # None /\ cm.ver = fj.ver
    /\ cj # None /\ cj.ver = fj.ver
    /\ cj.at \in Schedules(Specs[fj.ver].executeOn)

(* When nothing is to be done, the config and the schedule are those of    *)
(* the FittingJob, whatever call failed or crashed, unless the last        *)
(* Reconcile updated an object that the garbage collector will take,       *)
(* because it belongs to a FittingJob of the same name before.             *)
RestComplete ==
    fj # None /\ ~queue /\ ctl = None /\ ~adopted => UpToDate
=============================================================================
