# TLA+ verification of akasha-ingestion

`akasha-ingestion` ingests satellite scenes (Sentinel-2, Landsat, ResourceSat,
EOS-04, NISAR) for a set of areas of interest (AOIs), computes raster indices,
publishes them in pgSTAC and answers field analytics from them. PostgreSQL
holds the truth; Celery over Redis carries "run this job" messages; workers may
be lost at any time and messages may arrive twice. This directory holds TLA+
models of the parts where that matters, TLC configurations that check them on
small instances, and TLAPS proofs for every instance. Paths below are relative
to `src/akasha` unless they start with another directory of the repository.

## Inventory

| Part | State | Operations | Talks to | What makes it correct | Module |
| --- | --- | --- | --- | --- | --- |
| Job store `jobs/sql_store.py` | `processing_jobs`, partial unique index on the key | `create_or_get`, `mark_*`, `list` | everybody | one active job per idempotency key; a settled key is reusable only after a failure | JobStore, KeyLease |
| Stage store `jobs/stage_store.py` | `processing_job_stages`, two unique indexes | `start_stage`, `mark_*`, `list_for_job` | services | one running attempt per stage; none left by a settled job | StageStore |
| Dispatch and execution: `start_backfill`, `execute_backfill`, `recover_worker_lost` of the five services; `jobs/*_tasks.py`, `jobs/celery_app.py` | Celery messages, worker processes | insert, send, receive, recover, stages, settle | job and stage store | every job settles; one execution per key; a completed job ran all its stages | BackfillDelivery |
| Sentinel-2 sync `services/sentinel2_ingestion.py`, `jobs/sentinel2_tasks.py`, `catalog/sync_ledger_repository.py` | ledger row per day, scene rows | plan window, search day, process scene, close day | provider, catalog | a complete day is served; nothing known is forgotten; no day is left behind | Sentinel2Sync |
| Scene loops of Sentinel-2 and Landsat, `services/source_mirroring.py`, `catalog/*_repository.py`, `storage/object_store.py` | scene, asset, raster, tile-layer rows; objects; pgSTAC items | select, register, mirror, prepare, outputs, publish | provider, catalog | what is served is whole, of one making, and its pixels are of what is mirrored; the bound on new scenes starves nobody | SceneProcessing, SceneLifecycle |
| Scheduler `scheduler/*`, `jobs/*_tasks.py`, `ops_cli.py` | advisory locks, plans in memory | plan, gate, lock, dispatch | job store, services | a lock is never leaked; a window runs once; a slow job gathers no queue | SourceScheduler |
| Bhoonidhi client `providers/bhoonidhi.py` | session, token, part files | log in, refresh, search pages, download | HTTP | a search is exact; a refused token is not used again; a product file is whole | BhoonidhiClient |
| ResourceSat pipeline `services/resourcesat_*.py`, `processing/resourcesat_*.py`, readiness `services/readiness.py` | composites, masks, index files, rows | ten stages; four readings | Bhoonidhi, disk, catalog | a completed date is one composite; the readiness answer is true | ResourceSat |
| Optical field queries `services/analytics.py`, `processing/raster_stats.py` | none of their own | select, explain, measure | catalog, rasters | the best scene is selected; the reason given is true | FieldIndex |
| EOS-04 and NISAR `services/eos04_ingestion.py`, `nisar_ingestion.py`; SAR evidence `services/analytics.py`, `processing/sar_*.py`, `catalog/field_query_repository.py`, `services/signing.py`, `api/app.py` | objects, rows, items; query rows; signed links | register; answer, cache, compare, link, expire | Bhoonidhi, object store, pgSTAC | a completed backfill is whole; a live link opens; a reported change is of one profile | SarEvidence |
| Earth Search, Planetary Computer | none | search a day or a window | HTTP | the exhausted flag is right; an item without a required asset fails the search | in Sentinel2Sync, SceneProcessing |
| Tile serving, imagery, other raster processing, seeding, configuration, in-memory stores | none or static | | | numerics, rendering | not modelled |

The hard behaviours: requests for one window racing in `create_or_get`; a
process dying between two statements; a message delivered again because its
worker was lost, or because it was out for longer than the broker's visibility
timeout (nothing configures it) while the first worker is alive; failures in
the middle of a pipeline; a ledger row that is rewritten from zero on every
visit; objects and rows that are overwritten in place, one at a time, while
readers put an answer together from several of them; caches and links that
outlive what they were made of; checks (`has_active_backfill`, the plan of the
scheduler) that are stale when they are used. `PROJECT.json` lists each under
"hazards" with its line and the properties that would catch it, or why none does.

## Modules

```
JobStore -> StageStore -> BackfillDelivery -> MCBackfillDelivery        2 runs
                            |  INSTANCE KeyLease (abstract)
                            +-> BackfillDelivery_proofs                 TLAPS
SourceScheduler -> MCSourceScheduler                                    2 runs
                +-> SourceScheduler_proofs                              TLAPS
Sentinel2Sync   -> MCSentinel2Sync                                      2 runs
                +-> Sentinel2Sync_proofs                                TLAPS
SceneProcessing -> MCSceneProcessing                                    1 run
                |  INSTANCE SceneLifecycle (abstract)
                +-> SceneProcessing_proofs                              TLAPS
BhoonidhiClient -> MCBhoonidhiClient                                    1 run
                +-> BhoonidhiClient_proofs                              TLAPS
ResourceSat     -> MCResourceSat                                        1 run
                +-> ResourceSat_proofs                                  TLAPS
SarEvidence     -> MCSarEvidence                                        1 run
                +-> SarEvidence_proofs                                  TLAPS
FieldIndex      -> MCFieldIndex                                         2 runs
                +-> FieldIndex_proofs                                   TLAPS
```

The modules meet in the job table. BackfillDelivery has it in full and leaves
out what a stage computes; every other module has what its stages compute and
reduces the job table to what it needs: the latest status per key, and the rule
that a lost worker puts its job back in the queue.

**JobStore** is the job table. A row is named after the call of
`start_backfill` that may insert it (`"absent"` until then). Each `mark_*` is
one UPDATE and looks at no earlier status, as in the code; `IndexAdmits` is the
partial unique index, and an UPDATE it refuses raises in the caller.
**StageStore** keeps the attempts of each stage as a sequence: attempt number =
position. `close_stage` stands for `mark_completed` and `mark_failed`, which
look at the id only.

**BackfillDelivery** composes them with callers, Celery messages and workers.
`Lookup`, `Insert`, `Reselect` are the three statements of `create_or_get`;
`SendTask`, `SendTaskRaises`, `FailUndispatched` the dispatch. A worker runs
`Receive`, then, on a redelivery the task notices, `ListStages`,
`CloseLostStage`, `Requeue` (`recover_worker_lost`: the list is read first and
closed one row at a time), then `GetJob`, `MarkRunning`, the stages, and
`CompleteJob` or `FailJob`, and `Ack`. Between any two of these another process
runs. The five services share this control and differ in where the `try`
begins, whether the stage is in scope when the job is completed, the guard for
completed jobs, the summary row, the pipeline, and where the redelivery flag is
looked for; the record `Service` holds those differences. What a stage computes
is not here: it returns or raises. **KeyLease** is the abstract specification: a
key is free or held by one job, and is freed before another job takes it. The
mapping: the holder of a key is its active job.

**SourceScheduler** models everybody who starts jobs. `_run_scheduled_sources`
makes all plans from the job table, and each plan then passes `BlockPlan` or
`AcquireLock`, `DispatchPlan` or `DispatchRaises`, `ReleaseLock`
(`run_source_job`); `CheckActive` and `StartChecked` are the two halves of the
tasks that call `has_active_backfill`; `StartDirect`, `command_schedule_source` and
`sync` the other ways. A source stands for its one configured AOI, and
`create_or_get` with the dispatch is one step: their races are
BackfillDelivery's.

**Sentinel2Sync** models the planner of the daily beat task
(`ScheduledStart` is `_scheduled_date_window`), manual requests, and the worker:
`BeginDay` (read the row, write a zeroed one over it), `Search` / `SearchRaises`,
per scene `PickItem` (skip, only publish, or register), `RegisterScene`,
`WriteOutputs`, `PublishScene`, `ItemRaises`, then `CloseDay` and `FinishJob`.
A scene is reduced to what `_scene_is_complete` reads. pgSTAC is assumed
configured and every product to have a footprint, as in the deployed settings.
A database error between two statements of a day is not an action of its own: it
has the effect of a lost worker, with the job failed instead of queued.

**SceneProcessing** is the inside of one such scene, for Sentinel-2 and Landsat:
every row, object and item is written by a step of its own, by one worker that
may be lost between any two, while the provider republishes products and new
processing profiles are deployed. The content of an object is what it was made
from, which is also what its checksum tells apart. The two services differ in the
order of objects and rows, in the prepared assets, in the validation, in the bound
on new scenes and in the calibration: Sentinel-2 takes scale, offset and nodata from
the item of the run in hand, whichever run mirrored the file, and puts them in the
asset row (`described`) although the mirror stays; so pixels of an older version can
be served with the calibration of a newer one. A run begins with `search`, or with
`SearchRaises`: `normalize_item` raises for an item without a required asset, and the
whole day or window fails with it. The files an item links to are the item's own or
those put in their place since. The window is assumed to hold no more products than
the item cap. **SceneLifecycle** is what readers are promised: a product is
registered, then served with outputs that are chosen once. The mapping: a
product is served when its scene names its item, with the objects of its
indices.

**BhoonidhiClient** is one account's client: the session and token with their
lifetimes on both sides, requests with the retry policy, the search from page to
page with its filters, the download with its part file, integrity checks and
rename. A download declares its length, a checksum, both or neither, and each is
checked on its own: a length alone, the usual answer, shows a cut body but not an
altered one. What the server does (sessions, refusals, pages) is external.

**ResourceSat** runs jobs of several modes for windows of dates. The composite
and its mask are computed pixel by pixel from reflectances
(`build_threshold_mask`, `align_prepared_scene`, `BestAvailable`), then written one
object and one row at a time (`CompositeWrites`, `AllIndexWrites`), over what an
earlier job left. Thresholds are in percent; rounding of floats at a threshold is
left out. Beside it `ReadScenes`, `ReadIndexRows`, `ReadAllRows` and
`ReadJobsAndAnswer` are the queries of a readiness request. Rows of prepared
scenes are left out (readiness filters them), the completion time is kept of
jobs that produced outputs (the others' is not read), a job is started only
while the worker is free (a waiting row touches nothing), a search returns any
of the listed results (`Results`), and the validation of a composite never fails
because building it already verified the same files.

**FieldIndex** answers `field_index` and `field_dates`: the candidates are listed
in one query, each is read in its turn, the best is selected, and a date without
one is listed again for a reason. The order of the candidates leaves scenes of one
instant equal: which of them come before the cut the database decides, each time
anew (`FirstOf`). Meanwhile scenes are registered, get outputs, and objects become
unreadable. What a scene shows of the field is computed from
its mask and raster (`categorical_mask_stats`, `raster_stats`), in whole percents.

**SarEvidence** puts the SAR backfills (object, scene, asset, item name, item, in
that order) beside `field_sar`: the candidates, the selected scene, the cached or
computed statistics of earlier passes, the comparison by metadata, the saved
answer and its signed link, which runs out, like the rows, with the clock. What
was prepared is the version of the profile it was prepared with. There is one
field and one worker; whether a baseline is degenerate is left open (only numbers
tell).

Operators marked "Mutant" are not used by any specification. Each is a
plausible bug; putting it in the place of the definition after it makes a
property of a run fail, which shows that the property depends on the code.

## Runs

| Run | Question | Bounds |
| --- | --- | --- |
| `delivery` | Is execution per key exclusive, has every unsettled job a carrier, does a settled job leave no running stage, did a completed job run its pipeline, does every job settle for good? | 3 calls, 2 keys, 2 workers, 2 lost workers |
| `delivery_early` | With early redeliveries and dying callers, is a key still freed by one job before another takes it? | 2 calls of one key, 2 workers, 2 redeliveries, 2 stages |
| `sync` | Is a complete day published and does it stay so? Does a completed scheduled run leave no open day behind? Do retry counts only grow? | 3 days, seed 2, refresh 1, cap 2, 3 scenes, manual runs of two modes, 1 fault |
| `scheduler` | Are locks given back, do windows run once, does the beat not pile jobs up, does every scheduled source succeed? | 4 sources, 1 maintenance process, 1 operator, 1 worker, 2 days, 1 failure |
| `scenes` | Is what is served whole, of one making, with pixels of the sources that are mirrored, and for good? Is every product that can be served in the end, while searches succeed? | 3 products (one invalid, one that cannot be fetched, one that is published again and whose third version lacks an asset), 2 sources, 2 indices, 1 new scene per run, 3 faults |
| `bhoonidhi` | Are searches exact, files whole, refused tokens dropped, and does every call end? | 2 calls, 3 pages, 1 retry, 2 chunks, each combination of the two headers, 3 ticks, 2 faults |
| `resourcesat` | Is a completed date one composite, and a readiness answer true? | 3 products on 2 dates, 5 results of a search, 3 pixels, 2 indices, 2 jobs, 2 executions, 1 fault, 1 tick |
| `sar` | Does a live link open, is a completed backfill whole, is a reported change of one profile (but for requests during an overwrite, or begun while a row lags behind its object)? | 2 passes, 2 profiles, ticks 0..2, 2 jobs, 2 requests, 1 fault, row lifetime 2, link lifetime 1 |
| `index` | Is the answer the best of what a request cannot have missed, and the reason true? | 1 request at a time, 6 scenes on 2 days, 3 candidates, 1 outage |
| `sync_forgets` | Is a day never closed over a registered scene? Refuted | `sync` with 2 faults, no manual runs |
| `scheduler_exclusive` | Are two jobs of a source never executed together? Refuted | 2 workers, 1 day |
| `index_truncated` | Does "no scene within the window" mean that? Refuted | as `index` |

Why the bounds are enough. A key conflict needs two calls of one key, and the
third call shows that keys do not interfere; two workers are needed to execute
concurrently, and two lost workers for a recovery that is itself lost. In the
sync, two days make a window, the third lets the clock move on so that a new
window revisits an old day, and two products on a day are the least for counts and
sets to differ. Two products that fail in every run and a bound of one new scene
is the least for starvation. Two dates, two products of the later one and three
pixels bring out every rule of the composite; a second job on the same date is
what overwrites. Two passes and two profiles are the least for a comparison across
profiles, and the clock is just long enough for rows, links and cached statistics
to expire. The six scenes differ in every key of both orders; a list of three leaves
out one of the four scenes of the fuller day, all of different instants, and two
scenes of one instant can be on either side of its end for an index request of
two days (`NoTieAtCut`, below, holds). The scaled
parameters (the baseline of one observation, lifetimes of ticks) keep the order of
the settings' defaults, which is all the code compares.

`MaxRedeliveries`, `MaxFaults`, `MaxJobs`, `MaxRuns`, `MaxRequests`, `MaxCalls`,
`MaxOutages`, `LastDay` and `LastTick` only bound how often the environment acts.
`resourcesat` has CHECK_DEADLOCK FALSE: with its jobs, runs and clock used up the
bounded system stops. Elsewhere a step that stands for the quiet end, or an
environment that always acts, keeps the deadlock check meaningful.

The refuted runs are the "findings" of `PROJECT.json`:

1. *Forgotten scene.* Shortest trace: a day's search returns a scene, its
   processing raises, the day is partial with `scene_count` 1. The next run zeroes
   the row and its search raises: `scene_count` 0. The next search returns nothing:
   the day is complete, and once outside the refresh overlap is not visited again.
   `QuietDayForgetsNothing` is the same property where it does hold.
2. *Source/AOI locks.* The lock covers the dispatch of a job and the API takes none,
   so jobs of two windows of one source are executed together; the architecture
   document says they cannot be.
3. *Truncated candidates.* The candidates of the whole source are cut before the
   field, the area or the cloud limit is looked at, so an answer that there is no
   scene can be given with a good one past the cut.

Further disagreements, met while modelling and noted with the hazards: a process
that dies between the INSERT and `send_task` leaves a queued row for ever; after a
visibility timeout the recovery closes the stage of a worker that is still at
work; the NISAR task reads `request.redelivered`, which Celery does not set, so its
recovery never runs; a job with a day cut at the item cap is completed, against
the comment beside it.

## Fairness

`delivery`: weak fairness of the steps of each calling process and each worker
process that is alive: a worker that has nothing better to do receives a ready
message, and a running step returns or raises. `scheduler`: the beat fires again and
again (strong fairness of the tick, which competes with other tasks for its
process), and plans and jobs that have begun go on. `scenes`: a run goes on, and a
full run is begun again and again (strong, as runs of other modes come in
between); that searches succeed from some time on is a premise of the property.
`bhoonidhi`: a call that is in progress goes on. Nothing is assumed of
crashes, redeliveries, faults and requests, which are finitely many by their
bounds: under an endless sequence of lost workers no job would settle. All other
runs are safety only.

## Proofs

The theorems hold for every set of calls, keys, workers, sources, days, scenes,
products, pixels, indices, profiles and requests, for every `Service` and every bound. They
rest on the named assumptions about constants (`KeyOfAssumption`,
`ServiceAssumption`, `DeliveryAssumption`, `SchedulerAssumption`, `SyncAssumption`,
`SceneAssumption`, `TtlAssumption`, `BoundsAssumption`, `ClientAssumption`,
`ResourceSatAssumption`, `SeenAssumption`), which TLC evaluates on the runs; what is not true of every
deployment is a hypothesis of the theorems that need it.

**BackfillDelivery_proofs.** `Typing`: `Spec => []TypeOK`, one step per action.
`OneActiveJob`: `Spec => []OneActivePerKey`, from the lemma `JobStep` (every step leaves
the job table alone, fails a job, or gives one row an active status under
`IndexAdmits`). `Refinement`: `Spec => ImplementsKeyLease`, from the same two: the set of
active jobs of a key stays, becomes one (Acquire), or becomes empty (Release), so the
CHOOSE in the mapping has one answer. `MutualExclusion`: if `~EarlyRedelivery`,
`Spec => []NoConcurrentSameKey`; it is not inductive, a worker's job must be the active
one of its key and have no other worker (`EachTaskHasOneWorker`).

The second part of the module is about stages and carriers:

| theorem | hypotheses | strengthening |
|---|---|---|
| `OneWorkerPerTask` (`EachTaskHasOneWorker`) | `~EarlyRedelivery` | typing |
| `NoStageLeftRunning` (`SettledJobHasNoRunningStage`) | `~EarlyRedelivery`, `Service.readsDeliveryInfo` | `AttemptsOwned`: a running attempt is of a running job, and a worker minds it, lists it for closing, or its message is on its way back as redelivered. The property alone says nothing of who will close an attempt |
| `NoJobLost` (`UnsettledJobHasCarrier`) | `~EarlyRedelivery`, `~CallerMayCrash` | `AckSettled`: a task returns or raises only after its job is settled |
| `CompletedMeansDone` (`CompletedJobRanPipeline`) | `~EarlyRedelivery`, `Service.readsDeliveryInfo` | `PipelineInv`: the stages before the one a worker is at are done, it works at the last attempt of its stage, no stage occurs twice |

NISAR's task does not read the delivery information, so the theorems with
`Service.readsDeliveryInfo` say nothing of it.

**SourceScheduler_proofs.** `SchedulerTyping`; `LockDiscipline`
(`LockMatchesHolder`), which needs that plans are of registered sources;
`RunsOnce` (`WindowRunsOnce`), which needs that a running worker's job is running, that no
two workers run one key, and that a row that is not completed has had at most as many runs
as workers were lost. `NoPile` (`BeatNeverPilesUp`) has the hypothesis `OneMaintenance`: one
process serves the maintenance queue. That is the default of
`deploy/compose.staging.yml`; `deploy/docker-compose.yml` gives its worker no
concurrency, so that it has as many processes as the machine has cores. With two,
both look before either starts. Its invariant
`PileInv` counts the unsettled jobs of a source that checking tasks started (`Piled`): what
a task that is about to start has seen is still true, but for failed jobs that lost workers
brought back, of which there are no more than were lost.

**Sentinel2Sync_proofs.** `SyncTypes`, for any number of workers; the clock must stay at or above
`SeedDays`, or the scheduled window would leave the calendar. For one worker (`OneWorker`;
with two the properties are false, see "Not modelled"): `CompleteIsPublished`,
`PublishedForGood` and `RetriesKept`, from `SyncInv`: the ledger row of the day in hand is the
worker's and is not complete (`RowInHand`); there is one scene in hand, and it is not published
when it is about to be registered (`ItemInHand`); while nothing has failed in a full pipeline,
every scene of the search that is through is published (`ItemsThrough`). The proof shows that the
counts the code compares are not what makes `CompleteDayIsPublished` true: `failed = 0` in a full
pipeline is.

`NothingForgotten` (`QuietDayForgetsNothing`) is about what those counts are for. Beside
`OneWorker` it needs `OneDayPerScene` and `NestedAnswers`: of two answers for a day one
contains the other, the case the greater of the two counts is made for. `QuietInv` says
that, while no search has raised and no worker was lost, the count of a day's row covers
some answer that has every registered scene of the day; as no more scenes are served than
are registered, a processed count that reaches it leaves none out.
`NoDayLeftBehind` (`CompletedRunLeavesNoGap`) is proved from `GapInv`: a running job is in a
worker's hands; the days of its window before the worker's are closed (`ClosedSoFar`); one
scheduled run is active at a time (`OneScheduledRun`); and a day before the window of the
active one is closed, or has no row and is older than the seed, or will be visited by a
manual run (`WindowsCover`). A window that is also asked for by hand is not a scheduled one.

**SceneProcessing_proofs.** `Types`, `LineageAlways` (`LineageHolds`),
`ServedWholeAlways` (`ServedSceneIsWhole`), `OutputsAgreeAlways` (`OutputsAgree`), and
`Implements`: `Spec =>
ImplementsLifecycle`, each step a step of SceneLifecycle or a stutter. `IInv` is made
of what is true of every product whatever the worker does (`Catalog`): mirrors are what
their rows say and outputs were made of them (`Lineage`), for Sentinel-2 the row of the
last index vouches for the objects of all (`LastVouches`), a served product is whole
(`ServedIsWhole`); and of what the worker knows of the product in its hands (`InHand`,
one part for each phase of the loop). `LastVouches` is where the two services part:
a second run of Sentinel-2 skips what it finds and may only publish if a row means that
all objects are there, whatever worker wrote it and was lost. `OutputsAgreeAlways` has an
invariant of its own, `OneMaking`: the outputs of a product that can be served are of one
profile, one set of sources and one calibration (`Agreement`), and what the worker has
made so far of the product in its hands is of the making it is at (`Making`). Lineage is
about pixels only: that the calibration is the one of the mirrored file is not so for
Sentinel-2, and no theorem says it.

**SarEvidence_proofs.** `Types`, `LinksOpen` (`LiveLinkOpens`), `ChangesOfOneProfile`
(`ReportedChangeIsOfOneProfile`), `BackfillsAreWhole` (`CompletedBackfillIsWhole`). `IInv`
joins the tables, the job in hand (`JobOK`), what a job has stored so far
(`Progress`), saved statistics (`CachesOK`: they are those of the object, or of one
overwritten after they were computed), the links (`LinksOK`), what the request in
flight has read (`RequestOK`), and `Calm`: while nothing is overwritten, a row names the
version of its object. A link lives because it runs out before its row and no object is
ever removed: `LinksOpen` has the hypothesis `LinksEndFirst` (`SignedTtl < QueryTtl`), which
the defaults (900 s and 86400 s) meet and the settings do not enforce. With rows of 1 tick
and links of 2, TLC finds a good link that leads to nothing. `ChangesOfOneProfile` says
nothing of a request during which an object was overwritten, nor of one begun while a row
lagged behind its object: under a backfill between its two writes and, once one has failed
there, until the scene is stored again. In those requests the profiles do mix.

**BhoonidhiClient_proofs.** `Types`, `RefusedTokens` (`RefusedTokenNotSent`),
`ProductsAreWhole` (`ProductInPlaceIsWhole`), `SearchesAreExact`
(`SearchReturnsEveryItem`). `IInv` is `CallOK` (what a call in each phase holds),
`SessionsOK` (the client's token is not a refused one: it is given up when it is),
`FilesOK` (only a file that passed the checks its headers allow is put in place) and `BoundsOK`.
`SearchOK` says that while a search goes on nothing has been cut: what it has found, with
what the page in hand and those after it hold, is what there is. What the pages hold
(`ItemsFrom`) is a recursive function along the links; that there is one, and that its
values are sequences of candidates, is proved by the smallest place at which it would
fail (`ChainExists`, `ChainTyped`). It needs that links lead on, which is the assumption on
`PageLinks`: nothing in the client would stop it from going round in a circle.

**ResourceSat_proofs.** `Types`, `AnswersAreTrue` (`ReadinessIsTrue`), `CompletedDates`
(`CompletedDateIsOneComposite`). `IInv` follows the job from phase to phase
(`Preparing`, `Building`, `Composing`, `Indexing`): the writes of a composite, then of
the indices, are made in an order, those still pending are the rest of that order, and
the others have been made and not undone. `RequestOK` says of each reading of a
readiness request what still follows from it: rows and objects are never removed, so a
date that was whole stays whole, and what was incomplete was so when the request began.
That the overlay of the scenes in time order shows, in each pixel, the newest usable
product or else the oldest that covers it (`BestAvailableIsReference`) is proved for any
finite set of products, by the smallest number of products that would be a
counterexample.

**FieldIndex_proofs.** `TypesHold` (`TypeOK`), `AnswersAreBest` (`AnswerIsBest`),
`RejectionsAreTrue` (`RejectionIsTrue`). The properties say nothing of a request that is
still reading; `IInv` does. `CallOK` is what a request has in hand at each step, and that it
remembers every scene it can have met unreadable. `Best` is that a scene the request cannot
have missed (`Sure`) is still in the queue, or an option if it passes the gates
(`OptionsOK`), and that the days already settled have the best answer (`BestOf`), which
no later step of ingestion takes from them. All rests on one fact about the cut: a scene
with fewer than `MaxCandidates` others that may come before it is on every list `FirstOf`
allows, whichever scenes of one instant the database puts first.

A reason is put together from a second listing (`AllReasons`), and `RejectionsAreTrue` has the
hypothesis `NoTieAtCut`: a day with two scenes of one instant has no more scenes than a list
has room for (20 by default). It is needed: with a list of one and two scenes of one
instant, TLC finds the two listings of the day to differ: the first holds a scene that is
too cloudy, the second one that has nothing against it, so that no reason is found and the
day is called pending with all its scenes processed before the request began.

So every safety property a passing run checks is a theorem, under the hypotheses named.
Model-checked only is the
liveness (`EveryJobSettles`, `EveryScheduledSourceSucceeds`, `EveryProductServed`,
`EveryCallEnds`): liveness under fairness and ENABLED are out of the prover's reach.

## Not modelled, and why

Band calibration, reprojection, tile rendering, natural imagery, item layout,
class areas and histograms, seeding and configuration: no state, concurrency or
failure handling of their own, or floating point. The eager mode
(`task_always_eager`), dispatchers injected by tests, the in-memory stores: test
doubles. Message loss by Redis itself: no code of the repository handles it. The
lease columns of the stage table: nothing fills them. The Sentinel-2, Landsat and
SAR branches of readiness: other filters over the same readings. More than one
heavy-cpu worker in Sentinel2Sync, SceneProcessing, SarEvidence and ResourceSat: the
staging deployment starts one (`deploy/compose.staging.yml`). With two, a stale
read of a scene re-registers a published one, and the shared scratch directories of
EOS-04 and NISAR would be cleaned under a running job.

Smaller things the models leave out: database errors outside the `try`
(`resourcesat_ingestion.py:237`, `eos04_ingestion.py:184`) or in `mark_failed` inside the
`except` (`sentinel2_ingestion.py:221`), which leave a job that nobody carries on; a
rollback to an older processing profile (only newer ones are deployed); ResourceSat
products of one acquisition time; a 404 "no results" that the archive client takes for
an empty last page; in FieldIndex, the coverage and resolution in the order of
examination (`_candidate_prefilter_key`), which decide nothing but that order, and
fractions of a percent. The pipeline of `delivery` has one stage; that a completed job
has run every stage of a longer one is the theorem `CompletedMeansDone`.
`scheduler_exclusive` needs two heavy workers, of which the compose files start one.

## Plan

1. The other branches of readiness, as alternatives of the four readings.
2. A second worker for SceneProcessing, with the properties that then remain.
