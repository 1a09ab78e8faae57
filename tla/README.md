# Verification of intelligent-hpa

TLA+ modules, TLC runs and TLAPS proofs about the controller that turns
`IntelligentHorizontalPodAutoscaler` objects (IHPA) into autoscalers driven by
forecasts. Paths below are relative to the repository;
`controllers/` stands for `ihpa-controller/controllers/`.

## 1. The system

    user --> IHPA --> [IHPA controller] --> HPA, ServiceAccount, Role, RoleBinding
                                       \--> per metric: FittingJob, Estimator
             FittingJob --> [FittingJob controller] --> config ConfigMap, CronJob
             CronJob --> fitting job (Python, Prophet) --> data ConfigMap
             Estimator, data ConfigMap --> [Estimator controller]
                   --> one estimator() goroutine per Estimator --> metric provider --> HPA

| component | state it keeps | operations | what is hard |
|---|---|---|---|
| IHPA reconciler (`intelligenthorizontalpodautoscaler_controller.go`, `..._generator_impl.go`) | none but the annotation of the IHPA that lists the ids of its fitting jobs (`fittingJobMap` is written and never read) | one Reconcile: a dozen API calls in a fixed order, the annotation last | failure, conflict, crash or edit between any two calls; stale caches; garbage collection of a predecessor; ids shared by IHPAs |
| FittingJob reconciler (`fittingjob_controller.go`, `fittingjob_generator_impl.go`) | none | ConfigMap, then CronJob | the schedule is drawn at random by every reconcile; failure between the two; objects of a predecessor |
| Estimator reconciler and handler (`estimator_controller.go`, `estimator.go`) | map from key to data channel (reconciler), slice of targets (handler), both without a lock | Reconcile sends add, update, remove over `opeCh`, forecasts over a data channel; the handler starts and stops goroutines | rendezvous and bounded channels between three kinds of threads; one data channel shared by successive goroutines; crash and relisting |
| estimator goroutine (`estimator.go` 201-338, 374-463) | points, position, queue of past points | wait for the next point, send it, look for a new forecast, join it with the old one | time, slices that share an array, indices at the end of the data, a queue that lookups consume |
| Metric providers (`metricprovider/`) | none; the provider stores points and units | Send = POST + getUnit + setUnit; Fetch = query, sort, merge, search | partial failure; lost answers; empty series; indices of the search |
| Fitting job (`fittingjob/`) | none; reads, changes and patches the data ConfigMap | load, fetch, detect change points, fit, predict, store | little data, reversed index, short slices, read-modify-write, overlapping jobs, restarts |
| Manager (`main.go`) | none | starts one worker per controller | |

How they interact: only through API objects (watch events put keys on
workqueues), except inside the Estimator controller, where reconciler, handler
and goroutines communicate over channels. An Estimator's workqueue also receives
the events of the data ConfigMap it owns. The IHPA reconciler watches only IHPAs:
what happens to its children wakes nobody.

What makes each correct: at rest the children are those the spec asks for, no
more and no less, whatever happened on the way (IHPA); exactly one live goroutine
per Estimator with its settings, each forecast reaches the goroutine it is for,
in order, and nothing blocks for ever (Estimator controller); every point is sent
once, not before its time, new forecasts replacing old ones (goroutine), with a
value within the prediction's interval and the unit of the metric it forecasts
(delivery); a config never older than the CronJob, jobs that keep being started and
in the end store the forecast of the latest spec (FittingJob and job). The main
list of what can go wrong, each at its line, is `hazards` in `PROJECT.json`.

## 2. Modules

| module | models | abstracts |
|---|---|---|
| `EstimatorController` | `EstimatorReconciler.Reconcile`, `estimatorHandler`, start, stop and data reading of `estimator()` | what a forecast says and what is sent |
| `MCEstimatorController` | finite instances, symmetry | |
| `EstimatorService` | abstract specification: the same as if one thread did it | map, slice, operations under way, channels and goroutines |
| `EstimatorController_proofs` | senders, forecasts under way: invariants and theorems | |
| `EstimatorRest_proofs` | what holds at rest: invariant and theorems | |
| `EstimatorService_proofs` | the refinement | |
| `EstimatorLoop` | one `estimator()` goroutine: timer, `seekByUnixTime`, sends, `readEstimateDataAsCSV` (good or garbage), `joinEstimateData` with the cells of the slices' arrays, the cut at 312-322 and the index at 323 | the value a point is adjusted to; starting and stopping |
| `ForecastSchedule` | abstract specification: what docs/estimator.md promises of one metric | slices, positions, timers |
| `MCEstimatorLoop` | finite instances | |
| `EstimatorLoop_proofs` | inductive invariant, theorems, the refinement | |
| `IHPAController` | `IntelligentHorizontalPodAutoscalerReconciler.Reconcile`, one action per API call, and the generator's names, ids, owners, grants | metric and unit conversion of the HPA spec |
| `MCIHPAController` | finite instances, symmetry | |
| `IHPAController_proofs` | inductive invariant and theorems | |
| `DatadogFetch` | `Datadog.Fetch`: query, sort, `mergeAllSeriesDatapointToOne`, `binarySearchNearTimestamp`, with the indices of their slices | HTTP, JSON, names |
| `DatadogFetch_proofs` | inductive invariant and theorems | |
| `PointDelivery` | the timer case of `estimator()` in detail, on top of `DatadogFetch`: `adjustYHat`, and `Datadog.send`, `getUnit`, `setUnit` for each metric of a point | which earlier point is looked up (any) |
| `MCPointDelivery` | finite instances | |
| `PointDelivery_proofs` | inductive invariant and theorems | |
| `FittingJobController` | `FittingJobReconciler.Reconcile`, generator, `randomMinuteCronFormat`, `addOwnerReference`; CronJob controller and garbage collector as environment | what config.json and the pod template say: the version they are made of |
| `ChangePoint` | the index arithmetic of `SingularSpectrumTransformation` and of `cutdown` | the linear algebra: any row that is looked at may be the first beyond the threshold |
| `TrainingJob` | `train.py` step by step, composed with `FittingJobController` and `ChangePoint`; the data ConfigMap with concurrent writers | Prophet; overlapping jobs are what they store |
| `MCTrainingJob` | finite instances | |
| `TrainingJob_proofs` | inductive invariant and theorems | |

`EstimatorLoop` and `EstimatorController` are two views of one goroutine: the
controller model keeps *which* forecast a goroutine holds and *whether* it runs,
the loop model what it does between start and stop. `PointDelivery` is one step of
the loop, `Send`, in detail: there it is one action, here up to two dozen.

### EstimatorController

`rpc` is the worker's place in Reconcile (`idle`, reading the ConfigMap, sending
an operation on `opeCh`, pushing data). `opeCh` is unbuffered: `SendAdd`,
`SendUpdate` and `SendRemove` happen only when the handler is waiting
(`ope = None`), and hand `ope` over; `HandleAdd`, `HandleUpdate`, `HandleRemove`
and `HandleUnmatched` are the cases of the handler's loop. A goroutine is at its
`select`, or in the body of the timer case, where `CheckData` is the non-blocking
read of the data channel; `StopReceived` is the stop case, and both are possible
when both are ready. `stopped` are the goroutines whose stop channel is closed.
`Crash` loses everything but the API objects and lists them again.

It implements `EstimatorService`, in which one thread starts, changes and stops
senders. An operation takes effect there when it is *sent* (`Sending`), not when
the handler has applied it: what the handler does later changes nothing that can
be seen. The sender of an Estimator has the settings and the forecast of the live
goroutine, or those the operation under way will give it; `feed` is the channel of
that goroutine, and `leaving` says that a goroutine replaced by an update has not
ended and reads the same channel. So the specification names every way in which a
forecast can be lost: its sender is changed after it took it (`Change` empties
`held`) or stopped, a former sender takes it (`Lose`), the controller crashes.

Not in it: errors of cached reads other than NotFound; several keys in a data
ConfigMap (one forecast each, present or not).

### EstimatorLoop and ForecastSchedule

A point is a timestamp, the time to send it (`Gap` earlier) and the forecast it
came with. Slices are cells and a length, so that `append` on a prefix of the old
data overwrites the shared array exactly when the code does. The loop implements
`ForecastSchedule` under the mapping in `EstimatorLoop` (the plan is the data
after `position`): points are sent once, in order, on time, the new forecast over
the old one. `ForecastSchedule` excepts *expired* forecasts, those that leave no
point in the future: the code then keeps the old slice and its position although
the join may have overwritten the array, so points are lost or sent out of order,
a second expired forecast may even sort points of earlier forecasts back behind
the position, sent or replaced long ago, and the code panics when nothing is left
to send (section 5). The histories are `sent`, `forecast`, `heard` (the points of
all forecasts read) and `expired`.

### IHPAController

`rpc` names the next call: `hpa`, `sa`, `role`, `rb`, then the loops over
FittingJobs (`fj`) and Estimators (`est`), the deletion loops (`delfj`,
`delest`), whose end is the update of the annotation. `rtodo` is what the current
loop has left; the order of metrics is left open. `robj` is the IHPA read at the
start and `rfresh` says whether it is still the latest version: the API server
refuses the annotation otherwise (`AnnotateConflicts`). Writing the ids in the
order of a Go map makes the annotation new although the set is the same
(`AnnotateOther`), which is an event for the controller itself. `uid` is the
incarnation of an IHPA that owns an object; the garbage collector removes what
belongs to one that is gone. `hidden` are children the caches do not show yet.

Four history variables are not in the code: `rmade` (this reconcile has created a
child), `cut` (IHPAs one of whose reconciles ended between a creation and the
annotation), `missed` (children to be deleted that the cache did not show to the
listing, until they are gone or their id is in the annotation again) and `lost`
(IHPAs that since their last reconcile began took over an object of a predecessor,
or lost a child to another IHPA).

Not in it: a stale read of the IHPA itself and of the HPA and RBAC objects, which
ends in a failed call (`Fail`); errors other than NotFound of the Get of the RBAC
objects, which the code ignores (125-141); direct deletion of children by users;
metrics the generator rejects or dereferences as nil (252-269, 315); names that
sanitising makes equal.

### DatadogFetch and PointDelivery

`fpc` is the place in `Fetch`. An answer is any sequence of datapoints, in
milliseconds, of all hosts; `Sorts` yields every order an unstable sort may leave.
`mergedDps` is filled one round of the loop after the other (`Merge`), `lo` and
`hi` are the ends of the slice that the recursion is called with (`Halve`), and
each index that is out of range is a panic. `MergedIsTotals` and `FoundIsLatest` are
the reference definitions of merge and search as they are; `FoundIsNearest` is what
the comment on the search says of it, and is violated (section 5).

`pc` is the place in the timer case. Values are fractions with the denominator
that the code divides by, so that 0/0 is there and is not a number. `Post`,
`GetUnit` and `SetUnit` are the three requests of one `send`; `PostFails` and
`SetUnitFails` include requests that are carried out although the answer is lost.
The order in which the metrics are sent is that of a Go map: any. `outdated` is a
history variable: metrics whose unit was read before the unit last changed.

Not in it: tags, the conversion of names, `Prometheus`, whose methods return
constants; the modes `raw` and default are the point taken unadjusted.

### FittingJobController and TrainingJob

The FittingJob and all that is made of it are versions, numbers that grow with each
creation and change; the uid is the version an object's owner was created as.
`Reconcile` is three steps, `Begin`, `WriteConfigMap`, `WriteCronJob`, with
failure or a crash at each; Get and Update of one object are one step, for the
API server refuses an Update after a change in between, which is `CallFails`. Owner
references are set when an object is created and kept on update, so the objects of
a deleted FittingJob are adopted and then collected; the history variable `adopted`
marks a Reconcile that did so.

The clock `now` goes round one day; `since` are the minutes since the last start
recorded in the CronJob's status. `Due` is the rule of the CronJob controller: the
schedule, as it is now, had a time after the last start.

`TrainingJob` follows one job: `Fetch` (config and data), `Detect` (look for a change
point and cut the data) or `DetectFails`, `Fit`, `Read`, `Patch` or `StoreFails`. The ConfigMap is mounted when the pod starts, which
is taken to be when the config is loaded. A pod that fails starts again up to
`BackoffLimit` times. `OtherStores` is the patch of an overlapping job or one
started by hand. `outdated` and `belated` are history variables: a forecast of
later measurements was stored since this job fetched, and already when it read.

Not in it: jobs of other metrics whose patches conflict (as `EditData`, they count
as a mishap); the days each query spans; cross validation, which is only printed.

## 3. Runs

All cfgs set `CHECK_DEADLOCK FALSE`: users and fitting jobs have budgets, and a
controller with nothing to do legitimately stops.

| run | instance | shows |
|---|---|---|
| `two_estimators` | 2 Estimators, 3 edits, 2 forecasts | one live goroutine per Estimator (`OneSender`), none leaks (`TargetsAreLive`), map and slice agree (`MapsAgree`), no forecast crosses over (`DataIsolation`), forecasts arrive in order (`ForecastsInOrder`), at rest the last push is the current forecast (`LastPushedIsCurrent`) |
| `estimator_liveness` | 1 Estimator, 3 edits, a failed call, a crash, full channel of 1 | `ReconcileReturns`, `StoppedGoroutineEnds`, `EventuallyAtRest`; at rest the controller estimates what the objects say (`QuiescentConverged`); the threads together do what one would (`ImplementsService`) |
| `loop` | 3 forecasts, any set of timestamps or garbage, any delays | `ImplementsSchedule`, `NeverEarly`, `PrevIsLatest`; every planned point is sent or replaced (`PlanIsCarriedOut`) |
| `ihpa_one` | 1 IHPA, 2 metrics, 2 targets, 3 edits, lagging caches, a failure | `RestComplete`, `NoStrays`, `ForgetsOnlyTheDeleted` |
| `ihpa_liveness` | 2 IHPAs with one target, re-created, a crash, caches that do not lag | `RestComplete` and `NoStrays` when they delete each other's children and take over those of a predecessor; `Heals` |
| `delivery` | answers of up to 4 datapoints, 3 places, 3 predictions, 2 metrics, any request failing any number of times, a change of unit | `MergedIsTotals`, `FoundIsLatest`, `PanicsOnlyOutOfRange`, `FetchEnds`; the value sent is in the interval (`AdjustedInBand`) and raised only for a reason (`RaisedOnEvidence`); no failure is taken for success (`SilenceMeansDone`), units settle (`UnitSettles`) |
| `fitting` | 2 versions of a FittingJob, deletion, resyncs, a mishap anywhere, a day of 2 minutes | `RestComplete`, `ConfigNotOlder`, `SlicesInRange`, `OverwritesOnlyWhatItRead`, `KeepsStarting`, `ForecastsFollow` |

The remaining runs are disagreements between code and documentation (section 5).

### Bounds

- Edits, forecasts, failures and crashes are budgets. `two_estimators` leaves
  failures and crashes to `estimator_liveness` and to the theorems. Three edits allow create,
  change, delete or delete, re-create; each hazard listed needs at most that many
  events of the environment.
- `Goroutines` and `Channels` bound what exists at one time, not in all: an
  identity is used again when nothing refers to it. The handler waits for a free
  identity, which the code does not: the runs cover up to three goroutines at once,
  so one live and two that still have to end; the theorems hold for any number.
  In `estimator_liveness` there is one channel, so an Estimator that is re-created
  waits until the goroutines of its predecessor have let go of theirs; with two
  channels in `two_estimators` it does not. Three edits never need a third.
- `FieldValues` has one value besides `Zero` where convergence is checked: a stale
  setting shows as `Zero` where the spec has the value.
- `ChanCap` is 1 or 2 instead of 5: a full channel is what matters.
- `MaxNow` stands for all later times: nothing is due after it
  (`LoopAssumption`), and waits are clamped to it (`After`).
- Three forecasts of up to four points (`MaxReads`, `MCShort`): the third joins a
  slice whose array a join has already overwritten, two expired ones can bring back
  a point of the first, and two sent points can have matured when the next is sent.
- `MaxIncarnations = 2` suffices for "the predecessor's objects still exist".
- `Places` is 3 instead of 300, and there are answers of three and of four times:
  full and one too many. Four datapoints make searches of both parities and depth
  two. Values repeat within a second, where the order of the sort matters.
- The predictions are one with an interval, a negative one with an interval of no
  width below, and one with its bounds in the wrong order.
- An hour has two minutes and a day one hour: the schedule can move forth, back
  and over midnight, and more hours only make days longer. A day is three rows;
  of seven one may be a change point, of the ten of `fitting_cut` those from 3 to 6.
  Less data, in which no row is looked at, go the way of data without a change.
- `MaxMishaps` is one budget for failed calls, crashes, failed pods and other
  writers: one of them at any place. Resyncs are not bounded.
- Two versions: changed, or deleted and re-created. The first has parameters that
  do not fit together, so its jobs fail, and the second must still get its turn.

### Fairness

- Worker, handler, timer and data read: weak fairness; Go schedules runnable
  goroutines, and `CheckData` assumes that provider calls return.
- `StopReceived`: strong fairness. The closed channel is ready every time the
  goroutine comes to its select, and Go chooses among ready cases at random.
- Loop: weak fairness of the clock and of the goroutine.
- `Begin(i)` of the IHPA reconciler: strong fairness, for the workqueue is
  first-in first-out and the worker takes one request at a time.
- `AnnotateSame`: strong fairness. The order of a Go map is drawn at random at
  each reconcile, so the one already written comes up in the end. `Heals` is checked
  with one metric, where there is one order; `ihpa_one`, with two, checks safety.
- `Collector`, `Resync`, `Observe`: weak fairness of the garbage collector, of the
  informers' resync (ten hours by default) and of watch events.
- `delivery`: weak fairness of the loop; strong fairness of the success of each
  request for each metric: the provider does not fail for ever.
- `fitting`: weak fairness of the clock, of Reconcile (one request, one worker),
  of resync, garbage collector and the creation of the data ConfigMap by the
  Estimator controller, of the job and of its start when it is due.
- Nothing is assumed of users, failures or crashes; in `EstimatorController`
  nothing of fitting jobs.

## 4. Proofs

For all sets of objects and all bounds, without the instance of the runs:

| theorem | of |
|---|---|
| `SenderInvariant`, `TypeCorrect`, `SingleSender`, `NoGoroutineLeaks`, `MapsStayInStep` | `EstimatorController` |
| `ForecastInvariant`, `ForecastsStayApart`, `NoForecastGoesBack`, `PushHasReader`; `RestInvariant`, `RestConverges`, `LastPushIsNewest` | `EstimatorController` |
| `ControllerImplementsService` | `EstimatorController` and `EstimatorService` |
| `CleanupInvariant`, `TypeCorrect`, `NothingStrays`, `AnnotationRemembers`; `CompletionInvariant`, `RestIsComplete` | `IHPAController` |
| `LoopInvariant`, `TypeCorrect`, `NothingEarly`, `LoopImplementsSchedule`, `AdjustsByLatest` | `EstimatorLoop` and `ForecastSchedule` |
| `FetchInvariant`, `SearchFindsLatest`, `PanicsOnlyThere`, `MergeTotals`, `FetchLoopsShrink` | `DatadogFetch` |
| `DeliveryInvariant`, `TypeCorrect`, `AdjustmentInBand`, `RaisesHaveEvidence`, `SilentMetricsAreDone`; `LoopMergesTotals`, `LoopFindsLatest`, `LoopPanicsOnlyThere`, `LoopReturnsLatestTotal`, `LoopFetchShrinks` | `PointDelivery` with `DatadogFetch` |
| `JobInvariant`, `TypeCorrect`, `ScheduleFollows`, `ConfigIsFresh`, `DetectionStaysInRange`, `NothingUnseenOverwritten` | `TrainingJob` with `FittingJobController` and `ChangePoint` |

Assumptions: only those named in the modules (budgets are natural numbers, the
capacity of a channel is positive, `None` and the like are none of the values).

*Estimator controller.* `OneSender` is not inductive: that an added goroutine is
the only one follows from the handler's slice having no target of that Estimator,
which follows from the reconciler's map having had no channel, seen at an earlier
step of another thread. `SenderInv` adds exactly that chain: what the worker
knows at each place (`WorkerKnows`), what an operation under way carries
(`OperationWellFormed`), that map and slice agree up to that operation
(`MapsAgree`), that targets are unique and are the live goroutines
(`TargetsAreLive`, which gives `OneSender`).

*Forecasts.* `DataIsolation` speaks of running goroutines only, but channels
outlive them: they are in the reconciler's map, in an operation and in the
handler's slice too. `FlightInv` therefore says of every place that refers to a
channel that no place of another Estimator does (`OwnChannels`), and that what is
in flight is of that Estimator and not newer than what the worker has read or the
ConfigMap holds (`ReadFrom`, `Flights`), so that a push extends a channel in order
(`ChannelOrder`) and what a goroutine receives is not older than what it has
(`ReaderOrder`); that several goroutines read one channel does no harm to that.
`PushHasReader` needs both invariants: a live goroutine, or one about to be started,
reads the channel the worker pushes to, and none of another Estimator does.

*Service.* `ControllerImplementsService` needs no stronger invariant than
`ForecastInv`, but a closed form of the mapping: `Views` says what the sender of an
Estimator is in each of four situations, with a target and no operation under way,
with an update, with an addition, and with a removal or nothing (`ViewsHold`; that
an update under way has a target and an addition none is `MapsAgree`). A step says
nothing of the Estimators it is not about, because no other refers to the channel
it touches (`ElsewhereStays`, from `OwnChannels`). The steps of the handler are
stutters: `HandleUpdateUnseen` goes from the second situation to the first, in
which the new goroutine has the patched settings and no data and the old one is
among those that leave. A goroutine that receives is the sender, or it was stopped
and then shares the channel of its successor (`CheckDataReceives`): a live one has a
target, and a target one sender (`TargetSender`).

*Rest.* `QuiescentConverged` and `LastPushedIsCurrent` hold only when the queue is
empty. `RestInv` says it before, of each Estimator apart: unless it was queued
again what the worker has read is as it is (`Snapshot`), its settings are in the
operation under way or in a target (`PushKnows`), and an Estimator that is neither
queued nor being reconciled is done (`Unqueued`). Every change puts its Estimator
into the queue, so the environment can only weaken what is claimed.

*Loop.* `LoopImplementsSchedule` maps each step of `EstimatorLoop` to a step of
`ForecastSchedule` or a stutter. The plan is a set, the data a slice in an array,
so `LoopInv` says what ties them: no point is held twice (`Filled`), they are in
order until a forecast has expired (`InOrder`), and those before `position` are due
(`Due`). A send then takes the earliest point and only that one out of the plan
(`SendEmits`). A read sorts, joins and cuts (`SortedMoves`, `JoinFacts`,
`FromFacts`): the points before the new forecast that are in the future are all of
the plan, because due points come first however the sort leaves equal ones
(`FirstAreDue`, a pigeonhole argument), so what is left is the plan merged with the
forecast (`FutureIsMerge`). Without a future point position and plan stay, and the
overwritten cells are of the new forecast; that nothing sent comes back needs the
order (`LastStayLast`), hence `heard` in the specification once it is lost.
`NeverEarly` follows from `Timed`: the wait set for a point ends at its time.
`PrevIsLatest` needs to know that what is sent is sent in order, across forecasts
too, and that the queue holds the last of it (`PastInv`): what a lookup drops is
then older than what it returns (`MaturedFirst`).

*IHPA controller.* `NoStrays` speaks of rest only. `CleanupInv` says why it comes
about: a child of a living IHPA that was not cut short has its id in the
annotation, or is of the reconcile under way, which has it among the current ids
(`Traceable`); an IHPA that is neither queued nor being reconciled is annotated
with exactly its current ids (`AnnotationCurrent`); during the deletion loops
everything to be deleted is deleted, still in the loop, or in `missed`, for the
cache did not show it to the listing (`Pruned`). At rest the second turns the first
into "is wanted". `ForgetsOnlyTheDeleted` follows from `Pruned` at the end of the
second loop, whether caches lag or not. Both except the missed children and no
others: their ids are out of the annotation, so they stay until the garbage
collector comes for the whole IHPA or their metric is wanted again.

`RestComplete` is about the opposite, what is missing. `Completion` follows the
calls of one reconcile: what it has made or updated is there, up to date and owned
by the IHPA as it is (`Progress`), so the garbage collector spares it
(`CollectorSpares`), and it ends without another request only through an annotation
that was right before, when there was nothing to delete (`NothingDoomed`). What a
reconcile takes over keeps its former owner, and what another IHPA deletes queues
nobody: those are the two exceptions (`lost`).

*Fetch.* `FoundIsLatest` is about the end of the search. `FetchInv` carries it
through the three loops: the datapoints are sorted, the merged series is strictly
ordered and not after the datapoint to merge next (`Merging`), and in the search
`lo` is not after the time asked for or is the first, `hi + 1` is after it or does
not exist, and the slice is never empty (`Searching`). `PanicsOnlyOutOfRange` counts:
the merged series has only times of the datapoints, each once (`RoomInv`), so
when its places are full and another time comes there are more times than places.

`MergedIsTotals` compares the merge with a sum over a set of datapoints, defined by
a fold. What the fold yields is not provable by the library's induction theorems,
which take an operator; the well-foundedness of strict inclusion is a first-order
fact, though, and a smallest counterexample of a property of sets is a set
(`SmallestSubset`). `SumExists` builds the sum this way, `TotalWithout` and
`TotalWith` are its equations. `TotalsInv` then says that the places filled so far
hold the totals of the datapoints merged so far, and a merge adds one datapoint to
one of them (`MergeKeepsTotals`): the sorted order is needed for no other place to
have its time.

`PointDelivery` calls `Fetch` again and again, between other steps, with another
answer each time. `LoopKeepsResults` says that a call starts as `FetchSpec` does and
goes on by its steps, so that what is proved of one call holds for each
(`LoopMergesTotals` and so on); `LoopReturnsLatestTotal` puts merge and search
together.

*Delivery.* `DeliveryInv` is `FetchInv` and what is known of the point. The value
is in its interval and justified when it is chosen, by `AdoptedInBand` (products of
unknown widths, reduced to the one fact that a product grows with its factor), and
stays so because the requests leave it alone (`ValueInv`, `Justified`). For
`SilenceMeansDone` one must know that the metric under way is stored, and that the
unit read for it is the present one or was changed since (`UnderWay`): between
reading and writing the unit the property says nothing of this metric.

*FittingJob and job.* `ConfigNotOlder` needs an order of versions over four pieces
of state: what Reconcile has got is not older than the config, nor the config than
the CronJob, nor any of them than the template of the job (`Versions`,
`JobVersions`), and the FittingJob itself is the newest, whence a Reconcile that
starts is in order again. `RestComplete` speaks of rest; `Progress` says what
leads to it: with no request in the queue Reconcile works for the FittingJob as it
is, and what it has written is owned by that, so the garbage collector cannot take
it. `ReadKnows` is the reason for `OverwritesOnlyWhatItRead`: as long as the
ConfigMap is as it was read, nothing newer was stored unseen. `SlicesInRange`
follows from a lemma about `ChangePoint` for all lengths and parameters
(`WindowsFit`), and the types of what the job has loaded.

All invariants were model-checked on the instances above before they were proved.

Only model-checked: the liveness properties (liveness under fairness and ENABLED
are out of the prover's reach). No invariant is. Of two of them the safety half is
proved: of `ReconcileReturns`, that a push has a reader (`PushHasReader`), and of
`FetchEnds`, that each round of the merge takes a datapoint and each call of the
search leaves at most half of its slice, never none (`FetchLoopsShrink`,
`LoopFetchShrinks`). These formulas are in the proof modules; no run lists them.

## 5. Where code and documentation disagree

| run | what TLC finds |
|---|---|
| `forecast_lost` | A change of the ConfigMap makes the reconciler restart the goroutine and then push; the stopped goroutine may be past its select, take the forecast and end. Its successor has nothing to send. |
| `loop_panic` | An expired forecast and nothing left to send: `data[position]` is out of range (`estimator.go` 323) and the controller dies. |
| `ihpa_orphan` | The user edits the IHPA during a reconcile that has created a child; the annotation conflicts, the next reconcile does not know the child: it is never deleted. |
| `fetch_nearest` | The search is commented as finding the "most near" datapoint (`datadog.go` 264); of datapoints at 2 and 5 seconds it returns the one at 2 for the time 4. |
| `fitting_cut` | `cutdown` says it cuts the data before the change point (`model.py` 164), as docs/fittingjob.md 31 does; the index is of the reversed list (180), so rows before a recent change stay: of 10 rows with a change at row 5 those from 4 on. |

`NoStrays` is what is true in place of `NoOrphans`, `FoundIsLatest` in place of
`FoundIsNearest`: the last datapoint that is not after the time. `cutdown` keeps as
many of the newest rows as there are up to the change, so few of a change long ago,
and the cut is then ignored although days of data follow the change.

More that the models show, or that was met in modelling, without a run of its own:

- `RestComplete` of the IHPA controller has two exceptions (`lost`). An IHPA
  deleted and re-created before the garbage collector has come finds the children
  of its predecessor and only replaces their spec (163, 185), so they are still
  owned by the predecessor and are collected; nothing wakes the reconciler.
  `Heals` shows that the resync brings them back.
- The id of a fitting job hashes the metric and the scale target, not the IHPA,
  and the deletion goes over all FittingJobs (225): an IHPA that drops a metric
  deletes the children of another with the same target. They too come back with
  the resync (`Heals`), and nothing stray remains: `NoStrays` is checked with one
  and with two IHPAs and proved for any number (`NothingStrays`).
- The deletion lists from the informer cache (220, 235). A child created shortly
  before may not be in it; it is not deleted, the annotation forgets its id, and no
  later reconcile finds it (`missed` in `NoStrays` and `ForgetsOnlyTheDeleted`).
- The Estimator controller restarts the goroutine before each push
  (`estimator_controller.go` 122-154), so the goroutine that reads a forecast mostly
  has no data yet:
  the merge of new with old data in `EstimatorLoop` is what the loop does when two
  forecasts reach one goroutine, as after a push that a former one did not take.
- A lookup of a past point consumes it (`Seek`), so a point may find none although
  one was sent and has matured, and is sent unadjusted; `PrevIsLatest` says only
  that what is found is the latest.
- The Role is created once and never updated (controller 133-139), though the
  generator gives it the ConfigMaps of the metrics (`..._generator_impl.go`
  478-484): the fitting job of a metric added later may not write its ConfigMap.
- `Fetch` panics instead of returning an error when the answer has no series or
  one without datapoints (`datadog.go` 270, 312) or more than 300 times (319):
  `PanicsOnlyOutOfRange` shows that it does so for nothing else.
- A negative prediction without an earlier point is raised, for it is compared with
  zero (`estimator.go` 247, `RaisedOnEvidence`).
- The parameters `windowSize`, `trajectoryRows`, `lag` and `testRows` are not
  checked against each other: with `trajectoryRows > lag + testRows + 1` a job may
  fail for some lengths of the data (`SlicesInRange`). A `windowSize` smaller than
  the features is only printed, and the job fails later (`HasWindow`).
- "This prediction job is skipped" is printed and the job goes on (`train.py` 31).
- The minute of a schedule meant to be daily (`util.go` 121) is drawn again at each
  reconcile: a job may be started twice in one hour; it is never given up
  (`KeepsStarting`).
- `RestComplete` of the FittingJob controller excepts a Reconcile that adopted an
  object of a predecessor: it is collected, and restored by the resync only
  (`ForecastsFollow`).
- The key in the data ConfigMap is the metric's name after `lstrip('sum:')`
  (`train.py` 68), which strips any of those characters: a metric whose name begins
  with one of them is stored under a key nobody reads.

## 6. Not modelled

HTTP, JSON, CSV syntax, Kubernetes quantities, Prophet and the linear algebra of
the change point detection: no state of the system depends on them. A body that is
JSON of another form panics in unchecked type assertions (`datadog.go` 162-171,
279-285), and a FittingJob without a `changePointDetectionConfig` is given an empty one in
config.json, with which its job ends in a `KeyError` (`train.py` 38): inputs the
runs do not have.
Requests are answered in the end: `http.DefaultClient` has no timeout, so a provider
that never answers holds its goroutine for ever. `metricUnitReference` (121) is taken
to be set, as it is for every point of the loop. Names are
records or model values, so collisions after sanitising (`..._generator_impl.go`
456), nil identifiers of unknown metrics (260) and the key of `train.py` 68 do not
occur. The conversion of metrics and units for the HPA (104-193) is a table. The
past queue grows without bound in raw mode, where nothing reads it (`estimator.go`
283): the loop is modelled in adjust mode. The Prometheus provider is a stub.
`main.go`, manifests, generated deep copies and tools: no logic of their own.

## 7. Plan

1. `Pipeline`: IHPA controller's Estimators driving `EstimatorController`, and
   `TrainingJob` its data ConfigMap, end to end: at rest each metric of each IHPA
   has one sender with the newest forecast.
2. An abstract specification of the IHPA controller (children as a function of the
   specs recorded) and of the FittingJob controller, each with its refinement.
3. Two jobs of one CronJob in full, instead of one and what the others store.
