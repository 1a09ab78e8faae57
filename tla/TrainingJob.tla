----------------------------- MODULE TrainingJob -----------------------------
(***************************************************************************)
(* A job that the CronJob of a FittingJob starts, composed with the        *)
(* FittingJob controller: train.py loads config.json, fetches a week of    *)
(* the metric, cuts the data at a change point, fits, and stores the       *)
(* forecast in the ConfigMap the Estimator reads.  A pod that fails starts *)
(* again from the beginning, up to backoffLimit.                           *)
(*                                                                         *)
(* One job is followed step by step.  Jobs that overlap it (the policy of  *)
(* the CronJob is to allow it, and README.md has them started by hand too) *)
(* appear by what they store.                                              *)
(***************************************************************************)
EXTENDS FittingJobController, ChangePoint

CONSTANTS
    BackoffLimit,  \* restarts of a job's pod
    Rows           \* lengths of the data a fetch yields

ASSUME JobAssumption ==
    /\ BackoffLimit \in Nat
    /\ Rows \subseteq Nat \ {0, 1} /\ None \notin Nat
    /\ Detections \subseteq DetectionConfigs

VARIABLES
    job,        \* the job at work or None
    data,       \* the data ConfigMap: the version its forecast is of, or 0
    unchanged,  \* data is as the job has read it
    outdated,   \* history: a forecast of later measurements was stored
                \* since the job fetched
    belated     \* history: it was outdated when it read

jobVars == <<job, data, unchanged, outdated, belated>>
vars == <<ctlVars, jobVars>>

Init ==
    /\ CtlInit
    /\ job = None /\ data = None
    /\ unchanged = FALSE /\ outdated = FALSE /\ belated = FALSE

(* rows: the length of the data fetched; change: the first row whose rate  *)
(* is beyond the threshold, None without one; start: the first row of the  *)
(* training data.                                                          *)
Jobs == [step : {"load", "detect", "fit", "read", "patch"},
         tmpl : 1..MaxVersion, tries : 0..BackoffLimit,
         conf : 1..MaxVersion \cup {None}, rows : Rows \cup {None},
         change : Nat \cup {None}, start : Nat]

At(step) == job # None /\ job.step = step

Reading == unchanged' = FALSE /\ outdated' = FALSE /\ belated' = FALSE

Created(tmpl, tries) == [step |-> "load", tmpl |-> tmpl, tries |-> tries,
                         conf |-> None, rows |-> None, change |-> None,
                         start |-> 0]

Start ==
    /\ job = None
    /\ StartJob
    /\ job' = Created(cj.ver, 0)
    /\ UNCHANGED <<data, unchanged, outdated, belated>>

(* RestartPolicyOnFailure: the container starts again, within the limit.   *)
Restart ==
    /\ job' = IF job.tries < BackoffLimit
              THEN Created(job.tmpl, job.tries + 1) ELSE None
    /\ Reading
    /\ UNCHANGED <<data>>

(* Any of the requests fails, the answers have less than the two rows that *)
(* Prophet fits, or the pod is evicted.                                    *)
PodFails ==
    /\ job # None
    /\ mishaps < MaxMishaps
    /\ mishaps' = mishaps + 1
    /\ Restart
    /\ UNCHANGED <<version, fj, cm, cj, queue, ctl, adopted, now>>

(* The job's CronJob is gone, or already replaced by that of a FittingJob  *)
(* created after the job's template: the garbage collector takes the job.  *)
CollectJob ==
    /\ job # None
    /\ cj # None => job.tmpl < cj.owner
    /\ job' = None
    /\ Reading
    /\ UNCHANGED <<ctlVars, data>>

(* config.load. *)
Loaded == [job EXCEPT !.conf = cm.ver]

(* Once the pod has the ConfigMap it mounts; fetch_metrics yields what     *)
(* there is of a week.                                                     *)
Fetch ==
    /\ At("load")
    /\ cm # None
    /\ \E n \in Rows :
          job' = [Loaded EXCEPT !.step = "detect", !.rows = n]
    /\ UNCHANGED <<ctlVars, data, unchanged, outdated, belated>>

Detection == Specs[job.conf].detection

Detectable == HasWindow(Detection) /\ WindowsInRange(job.rows, Detection)

(* Fewer rows than a day are reported as skipped, and go on all the same.  *)
(* Any row whose rate was computed may be the first beyond the threshold,  *)
(* or none is; the data are cut accordingly.                               *)
Detect ==
    /\ At("detect")
    /\ Detectable
    /\ \E c \in Eligible(job.rows, Detection) \cup {None} :
          LET idx == IF c = None THEN 0 ELSE CutIndex(job.rows, c)
          IN  job' = [job EXCEPT !.step = "fit", !.change = c,
                                 !.start = TrainingStart(job.rows, idx)]
    /\ UNCHANGED <<ctlVars, data, unchanged, outdated, belated>>

(* The model is fitted to the rows from start on, and the forecast made.   *)
Fit ==
    /\ At("fit")
    /\ job' = [job EXCEPT !.step = "read", !.rows = None, !.change = None,
                          !.start = 0]
    /\ UNCHANGED <<ctlVars, data, unchanged, outdated, belated>>

(* SingularSpectrumTransformation has no window_size, or a row of a matrix *)
(* is not filled by the slice that is assigned to it.                      *)
DetectFails ==
    /\ At("detect")
    /\ ~Detectable
    /\ Restart
    /\ UNCHANGED ctlVars

(* store_dataframe_to_configmap: read_namespaced_config_map. *)
Read ==
    /\ At("read")
    /\ data # None
    /\ job' = [job EXCEPT !.step = "patch"]
    /\ unchanged' = TRUE
    /\ belated' = outdated
    /\ UNCHANGED <<ctlVars, data, outdated>>

(* Mutant: the patch is made of the data alone. *)
MayPatch_Always == data # None

(* The patch is the object that was read, its resourceVersion included.    *)
MayPatch == unchanged

(* patch_namespaced_config_map, and the job is complete. *)
Patch ==
    /\ At("patch")
    /\ MayPatch
    /\ data' = job.conf
    /\ job' = None
    /\ Reading
    /\ UNCHANGED <<ctlVars>>

(* Not found, or a conflict. *)
StoreFails ==
    /\ \/ At("read") /\ data = None
       \/ At("patch") /\ ~MayPatch
    /\ Restart
    /\ UNCHANGED ctlVars

(* The Estimator controller creates the ConfigMap; it goes with its owner. *)
CreateData ==
    /\ data = None
    /\ data' = 0
    /\ UNCHANGED <<ctlVars, job, unchanged, outdated, belated>>

EditData ==
    /\ data # None
    /\ mishaps < MaxMishaps
    /\ mishaps' = mishaps + 1
    /\ unchanged' = FALSE
    /\ UNCHANGED <<version, fj, cm, cj, queue, ctl, adopted, now, job, belated>>

DeleteData ==
    /\ EditData
    /\ data' = None
    /\ outdated' = FALSE

(* Another job stores its forecast; it has fetched after this one. *)
OtherStores ==
    /\ EditData
    /\ data' \in 1..version
    /\ outdated' = (job # None /\ job.step # "load")

Run == Fetch \/ Detect \/ DetectFails \/ Fit \/ Read \/ Patch \/ StoreFails

Next == \/ CtlNext /\ UNCHANGED jobVars
        \/ Start \/ Run \/ PodFails \/ CollectJob
        \/ CreateData \/ DeleteData \/ OtherStores

Spec == Init /\ [][Next]_vars

(* Time passes, the controllers work and resync, pods are scheduled.       *)
Fairness ==
    /\ WF_vars(Tick /\ UNCHANGED jobVars)
    /\ WF_vars(Resync /\ UNCHANGED jobVars)
    /\ WF_vars(Reconcile /\ UNCHANGED jobVars)
    /\ WF_vars(Collect /\ UNCHANGED jobVars)
    /\ WF_vars(Start \/ Run \/ CollectJob)
    /\ WF_vars(CreateData)

FairSpec == Spec /\ Fairness

(***************************************************************************)
(* Properties                                                              *)
(***************************************************************************)
TypeOK ==
    /\ CtlTypeOK
    /\ job \in Jobs \cup {None}
    /\ job # None =>
          /\ At("load") <=> job.conf = None
          /\ job.step \in {"detect", "fit"} <=> job.rows # None
    /\ data \in 0..MaxVersion \cup {None}
    /\ {unchanged, outdated, belated} \subseteq BOOLEAN

(* A job never trains by a config older than the CronJob that started it:  *)
(* whatever fails in Reconcile, the config is written before the schedule. *)
ConfigNotOlder ==
    job # None /\ ~At("load") => job.conf >= job.tmpl

(* "cutdown data before change point beyond thredhold", as the docstring   *)
(* of cutdown has it: the model is not fitted to rows before a change      *)
(* point, if at least a day of data follows it.                            *)
ChangesAreCut ==
    /\ At("fit")
    /\ job.change # None
    /\ job.rows - job.change >= RowsPerDay
    => job.start >= job.change

(* Change point detection reads within the data, as long as the matrix of  *)
(* the past has not many more rows than lag and test matrix together.      *)
Workable(d) == d.trajectoryRows <= d.lag + d.testRows + 1

SlicesInRange ==
    At("detect") /\ Workable(Detection) => WindowsInRange(job.rows, Detection)

(* When jobs overlap, an older forecast replaces a newer one only if its   *)
(* job read the ConfigMap after that was stored: what is stored between    *)
(* read and patch is never overwritten.                                    *)
OverwritesOnlyWhatItRead == [][Patch /\ outdated => belated]_vars

(* As long as there is a FittingJob its jobs keep being started, however   *)
(* often the minute is drawn again and in whatever order objects of former *)
(* FittingJobs are collected.                                              *)
KeepsStarting == <>[](fj # None) => []<><<Start>>_vars

(* Once the FittingJob is no longer changed, the forecast comes to be one  *)
(* made by its last version and stays so, if its parameters fit together.  *)
ForecastsFollow ==
    <>[](IF fj = None THEN FALSE
         ELSE LET d == Specs[fj.ver].detection
              IN  HasWindow(d) /\ Workable(d))
        => <>[](IF fj = None THEN FALSE ELSE data = fj.ver)
=============================================================================
