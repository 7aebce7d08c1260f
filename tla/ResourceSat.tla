---------------------------- MODULE ResourceSat ----------------------------
(***************************************************************************)
(* The ResourceSat pipeline and the readiness answer that is computed from *)
(* what it leaves behind: ResourceSatIngestionService (search, download,   *)
(* prepare, composite, index generation), the output generator, the pixel  *)
(* compositing and AnalyticsReadinessService.  One heavy-cpu process runs  *)
(* the jobs; the readiness requests of the API read the tables meanwhile,  *)
(* one query at a time.                                                    *)
(***************************************************************************)
EXTENDS Integers, FiniteSets, Sequences, SequencesExt

CONSTANTS
    Products,       \* what the provider holds for the area of interest
    Pixels,         \* the pixels of the area of interest
    Dates,          \* the acquisition dates, numbers
    Indices,        \* profile.supported_indices, in the profile's order
    Required,       \* the indices the readiness policy requires, a subset
    TakenAt,        \* product |-> acquisition instant, all distinct
    DateOf,         \* product |-> acquisition date, in the order of TakenAt
    Overlap,        \* product |-> overlap area of its footprint
    Footprint,      \* product |-> the pixels its image covers
    Bands,          \* product |-> pixel |-> [green, red, nir, swir], in percent
    HasSwir,        \* profile.band_roles has SWIR1
    Results,        \* what a search may find on line
    MaxDownloads,   \* resourcesat_max_downloads_for_source
    Submissions,    \* the windows and modes jobs are started with
    MaxAge,         \* freshness_max_age_hours
    MaxJobs,        \* bound on the jobs started
    MaxRuns,        \* bound on the executions of jobs
    MaxFaults,      \* bound on raised exceptions and lost workers together
    LastTick,       \* bound on the clock
    None            \* no value

Modes == {"metadata_only", "download_only", "prepare_only", "composite_only", "full_pipeline"}

ASSUME ResourceSatAssumption ==
    /\ MaxDownloads \in Nat \ {0} /\ MaxAge \in Nat
    /\ {MaxJobs, MaxRuns, MaxFaults, LastTick} \subseteq Nat
    /\ IsFiniteSet(Products) /\ Dates \subseteq Int
    /\ Indices \in Seq(ToSet(Indices))
    /\ Required # {} /\ Required \subseteq ToSet(Indices)
    /\ TakenAt \in [Products -> Nat] /\ DateOf \in [Products -> Dates]
    /\ \A p, q \in Products :
          /\ p # q => TakenAt[p] # TakenAt[q]
          /\ TakenAt[p] <= TakenAt[q] => DateOf[p] <= DateOf[q]
    /\ HasSwir \in BOOLEAN /\ Results \subseteq SUBSET Products
    /\ Submissions \subseteq [window : SUBSET Dates, mode : Modes]
    /\ Bands \in [Products -> [Pixels -> [{"green", "red", "nir", "swir"} -> 0..100]]]
    /\ Footprint \in [Products -> SUBSET Pixels]
    /\ None \notin Products \cup 0..LastTick \cup [Pixels -> Products \cup {None}]
    /\ None \notin [of : [Pixels -> Products \cup {None}], created : 0..LastTick]
    /\ None \notin [of : SUBSET Products, item : BOOLEAN]

VARIABLES
    jobs,       \* the job rows, in the order they were started
    worker,     \* the one process of the heavy-cpu queue
    object,     \* date |-> composite object |-> what it holds
    scene,      \* date |-> the composite's scene row
    asset,      \* date |-> asset |-> what its row's checksum is of
    cog,        \* date |-> index |-> what the derived object holds
    raster,     \* date |-> index |-> its raster row
    layer,      \* date |-> indices that have a tile layer
    item,       \* date |-> the pgSTAC item
    request,    \* a readiness request in progress
    begun,      \* what was so when it began (history, read by properties only)
    now, faults, runs

catalog == <<object, scene, asset, cog, raster, layer, item>>
reading == <<request, begun>>
vars == <<jobs, worker, catalog, reading, now, faults, runs>>

CompositeAssets == {"analytic", "mask", "manifest"}
Idle == [job |-> 0, stage |-> "idle", composite |-> None, left |-> <<>>]
NoRequest == [step |-> "idle", left |-> {}, dates |-> {}, found |-> <<>>]

Init ==
    /\ jobs = <<>> /\ worker = Idle
    /\ object = [d \in Dates |-> [a \in CompositeAssets |-> None]]
    /\ scene = [d \in Dates |-> None]
    /\ asset = [d \in Dates |-> [a \in {"analytic", "mask"} |-> None]]
    /\ cog = [d \in Dates |-> [i \in ToSet(Indices) |-> None]]
    /\ raster = [d \in Dates |-> [i \in ToSet(Indices) |-> None]]
    /\ layer = [d \in Dates |-> {}]
    /\ item = [d \in Dates |-> None]
    /\ request = NoRequest /\ begun = None
    /\ now = 0 /\ faults = 0 /\ runs = 0

-----------------------------------------------------------------------------
(* Preparing a product: the mask that goes with its bands.                 *)

\* Some band has no value there.
Gap(b) == \E role \in (IF HasSwir THEN DOMAIN b ELSE DOMAIN b \ {"swir"}) : b[role] = 0

Water(b) == 5 * (b.green - b.nir) >= b.green + b.nir /\ b.nir <= 20

Bright(b) == b.green + b.red + b.nir >= 96

Cloud(b) == IF HasSwir THEN Bright(b) /\ b.swir >= 20
            ELSE Bright(b) /\ 5 * (b.nir - b.red) <= b.nir + b.red /\ ~Water(b)

Shadow(b) == /\ b.nir <= 8 /\ b.red <= 8 /\ ~Water(b)
             /\ IF HasSwir THEN b.swir <= 8 ELSE b.green <= 8 /\ ~Cloud(b)

\* What is written last stands: water over shadow over cloud.
build_threshold_mask(b) ==
    CASE Gap(b) -> "uncovered"
      [] ~Gap(b) /\ Water(b) -> "water"
      [] ~Gap(b) /\ ~Water(b) /\ Shadow(b) -> "shadow"
      [] ~Gap(b) /\ ~Water(b) /\ ~Shadow(b) /\ Cloud(b) -> "cloud"
      [] OTHER -> "clear"

write_prepared_scene_cogs(p) ==
    [analytic |-> Bands[p],
     mask |-> [x \in Footprint[p] |-> build_threshold_mask(Bands[p][x])]]

\* RESOURCESAT_VALID_MASK_CLASSES
ValidMaskClasses == {"clear", "water"}

-----------------------------------------------------------------------------
(* The composite: align_prepared_scene, build_best_available_composite.    *)

\* On the grid of the area a scene is uncovered outside its image.
align_prepared_scene(prepared) ==
    [x \in Pixels |-> IF x \in DOMAIN prepared.mask THEN prepared.mask[x] ELSE "uncovered"]

MaskOf == [p \in Products |-> align_prepared_scene(write_prepared_scene_cogs(p))]

Newest(S) == CHOOSE p \in S : \A q \in S : TakenAt[q] <= TakenAt[p]

Blank == [x \in Pixels |-> [from |-> None, class |-> "uncovered"]]

\* covered & ~has_any, or valid: a scene covers what nothing covers yet, and
\* its valid pixels go over whatever an earlier scene left.
Takes(picture, p, x) ==
    \/ MaskOf[p][x] # "uncovered" /\ picture[x].class = "uncovered"
    \/ MaskOf[p][x] \in ValidMaskClasses

Overlay(picture, p) ==
    [x \in Pixels |->
        IF Takes(picture, p, x) THEN [from |-> p, class |-> MaskOf[p][x]]
                                ELSE picture[x]]

\* The scenes are laid over one another in the order they were taken.
BestAvailable[S \in SUBSET Products] ==
    IF S = {} THEN Blank ELSE Overlay(BestAvailable[S \ {Newest(S)}], Newest(S))

\* The index is calculated where the mask is valid, and is nodata elsewhere.
IndexOf(picture) ==
    [x \in Pixels |-> IF picture[x].class \in ValidMaskClasses THEN picture[x].from ELSE None]

Covered(picture) == \E x \in Pixels : picture[x].class # "uncovered"

-----------------------------------------------------------------------------
(* Jobs.  A window and a mode that are being run or have been completed    *)
(* are answered with the job that exists; after a failure there is a new   *)
(* one.  A waiting job touches nothing, so one that is started while the   *)
(* worker is busy is taken as started when the worker is free again.       *)

JobRow(window, mode) ==
    [window |-> window, mode |-> mode, status |-> "queued",
     produced |-> FALSE, completedAt |-> 0]

\* compute_resourcesat_backfill_idempotency_key
SameKey(j, other) == j.window = other.window /\ j.mode = other.mode

Active == worker.job # 0
CurrentMode == jobs[worker.job].mode

StartBackfill(window, mode) ==
    /\ Len(jobs) < MaxJobs
    /\ ~Active
    /\ \A j \in DOMAIN jobs :
          SameKey(jobs[j], JobRow(window, mode)) => jobs[j].status = "failed"
    /\ jobs' = Append(jobs, JobRow(window, mode))
    /\ UNCHANGED <<worker, catalog, reading, now, faults, runs>>

ExecuteBackfill(j) ==
    /\ ~Active
    /\ jobs[j].status = "queued"
    /\ runs < MaxRuns
    /\ runs' = runs + 1
    /\ jobs' = [jobs EXCEPT ![j].status = "running"]
    /\ worker' = [Idle EXCEPT !.job = j, !.stage = "search"]
    /\ UNCHANGED <<catalog, reading, now, faults>>

\* mark_completed: the summary counts a processed product only when the
\* index outputs were written, and a failure is never in a completed job's.
\* The time is kept of the jobs whose time is read.
CompleteJob(produced) ==
    /\ jobs' = [jobs EXCEPT ![worker.job].status = "completed",
                            ![worker.job].produced = produced,
                            ![worker.job].completedAt = IF produced THEN now ELSE 0]
    /\ worker' = Idle

Selected(S) ==
    {p \in S : Cardinality({q \in S : \/ Overlap[q] > Overlap[p]
                                      \/ /\ Overlap[q] = Overlap[p]
                                         /\ TakenAt[q] > TakenAt[p]}) < MaxDownloads}

\* Search and download.  What the search finds on line differs from one time
\* to the next; neither stage writes anything the catalogue reads, and a
\* download that fails raises at the end of its stage (StageRaises).
SearchAndDownload(found) ==
    /\ worker.stage = "search"
    /\ \A p \in found : DateOf[p] \in jobs[worker.job].window
    /\ IF CurrentMode \in {"metadata_only", "download_only"}
          THEN CompleteJob(FALSE)
          ELSE /\ worker' = [worker EXCEPT !.stage = "prepare",
                                           !.composite = [of |-> Selected(found)]]
               /\ UNCHANGED jobs
    /\ UNCHANGED <<catalog, reading, now, faults, runs>>

\* _latest_exact_date_manifests: of the prepared products, those of the
\* latest date; the earlier dates of the window are not composited.
LatestDate(S) == CHOOSE d \in {DateOf[p] : p \in S} : \A p \in S : DateOf[p] <= d
LatestExactDate(S) == {p \in S : DateOf[p] = LatestDate(S)}

CompositeWrites ==
    << <<"object", "analytic">>, <<"object", "mask">>, <<"object", "manifest">>,
       <<"scene", None>>, <<"asset", "analytic">>, <<"asset", "mask">> >>

\* Prepare, validate and build.  The rows of a prepared product have the
\* status "prepared", which readiness filters out; they are not part of this
\* catalogue.  A composite of nothing, or that covers nothing, raises.
BuildComposite ==
    /\ worker.stage = "prepare"
    /\ LET S == worker.composite.of
           fit == /\ S # {}
                  /\ Covered(BestAvailable[LatestExactDate(S)])
       IN CASE CurrentMode = "prepare_only" -> CompleteJob(FALSE)
            [] CurrentMode # "prepare_only" /\ fit ->
                 /\ worker' = [worker EXCEPT
                       !.stage = "composite",
                       !.composite = [of |-> LatestExactDate(S), date |-> LatestDate(S),
                                      picture |-> BestAvailable[LatestExactDate(S)]],
                       !.left = CompositeWrites]
                 /\ UNCHANGED jobs
            [] OTHER ->
                 /\ jobs' = [jobs EXCEPT ![worker.job].status = "failed"]
                 /\ worker' = Idle
    /\ UNCHANGED <<catalog, reading, now, faults, runs>>

\* The next write of the composite and index stages, in their order.
Writes(kind, key) ==
    /\ worker.left # <<>>
    /\ Head(worker.left) = <<kind, key>>
    /\ worker' = [worker EXCEPT !.left = Tail(@)]
    /\ UNCHANGED <<jobs, reading, now, faults, runs>>

date == worker.composite.date
picture == worker.composite.picture

Held(a) == CASE a = "analytic" -> [x \in Pixels |-> picture[x].from]
             [] a = "mask"     -> [x \in Pixels |-> picture[x].class]
             [] a = "manifest" -> worker.composite.of

\* Mutant: an object that exists is left as it is.
put_composite_if_absent(a) ==
    /\ Writes("object", a)
    /\ object' = [object EXCEPT ![date][a] = IF @ = None THEN Held(a) ELSE @]
    /\ UNCHANGED <<scene, asset, cog, raster, layer, item>>

\* put_composite_cog_file and put_composite_manifest: one object per source,
\* area and date, replaced in place.
put_composite(a) ==
    /\ Writes("object", a)
    /\ object' = [object EXCEPT ![date][a] = Held(a)]
    /\ UNCHANGED <<scene, asset, cog, raster, layer, item>>

\* The row is found by product id; it is rebuilt from the manifest, without
\* the name of the pgSTAC item it had.
register_composite_scene ==
    /\ Writes("scene", None)
    /\ scene' = [scene EXCEPT ![date] = [of |-> worker.composite.of, item |-> FALSE]]
    /\ UNCHANGED <<object, asset, cog, raster, layer, item>>

register_composite_asset(a) ==
    /\ Writes("asset", a)
    /\ asset' = [asset EXCEPT ![date][a] = Held(a)]
    /\ UNCHANGED <<object, scene, cog, raster, layer, item>>

\* Three writes for each index, in the profile's order.
IndexWrites ==
    [n \in 1..(3 * Len(Indices)) |->
        << <<"cog", "raster", "layer">>[1 + ((n - 1) % 3)], Indices[1 + ((n - 1) \div 3)] >>]

AllIndexWrites == IndexWrites \o << <<"item", None>>, <<"scene item", None>> >>

GenerateIndices ==
    /\ worker.stage = "composite" /\ worker.left = <<>>
    /\ IF CurrentMode = "composite_only"
          THEN CompleteJob(FALSE)
          ELSE /\ worker' = [worker EXCEPT !.stage = "index", !.left = AllIndexWrites]
               /\ UNCHANGED jobs
    /\ UNCHANGED <<catalog, reading, now, faults, runs>>

put_derived_cog(i) ==
    /\ Writes("cog", i)
    /\ cog' = [cog EXCEPT ![date][i] = IndexOf(picture)]
    /\ UNCHANGED <<object, scene, asset, raster, layer, item>>

\* upsert_derived_index: the row of the scene, index and profile is updated
\* in place and keeps the time it was created.
upsert_derived_index(i) ==
    /\ Writes("raster", i)
    /\ raster' = [raster EXCEPT ![date][i] =
          [of |-> IndexOf(picture),
           created |-> IF raster[date][i] = None THEN now ELSE raster[date][i].created]]
    /\ UNCHANGED <<object, scene, asset, cog, layer, item>>

upsert_for_raster(i) ==
    /\ Writes("layer", i)
    /\ layer' = [layer EXCEPT ![date] = @ \cup {i}]
    /\ UNCHANGED <<object, scene, asset, cog, raster, item>>

upsert_item ==
    /\ Writes("item", None)
    /\ item' = [item EXCEPT ![date] = [i \in ToSet(Indices) |-> IndexOf(picture)]]
    /\ UNCHANGED <<object, scene, asset, cog, raster, layer>>

scene_names_item ==
    /\ Writes("scene item", None)
    /\ scene' = [scene EXCEPT ![date] = [of |-> worker.composite.of, item |-> TRUE]]
    /\ UNCHANGED <<object, asset, cog, raster, layer, item>>

\* The pgSTAC, readiness and cleanup stages only count; then the job is done.
FinishPipeline ==
    /\ worker.stage = "index" /\ worker.left = <<>>
    /\ CompleteJob(TRUE)
    /\ UNCHANGED <<catalog, reading, now, faults, runs>>

-----------------------------------------------------------------------------
(* Faults and surroundings.                                                *)

\* Any stage may raise (the provider, the disk, the object store, the
\* database): the job is marked failed and what was written stays.
StageRaises ==
    /\ faults < MaxFaults
    /\ Active
    /\ faults' = faults + 1
    /\ jobs' = [jobs EXCEPT ![worker.job].status = "failed"]
    /\ worker' = Idle
    /\ UNCHANGED <<catalog, reading, now, runs>>

\* Mutant: the job is not put back in the queue.
WorkerLostUnrecovered ==
    /\ faults < MaxFaults
    /\ Active
    /\ faults' = faults + 1
    /\ worker' = Idle
    /\ UNCHANGED <<jobs, catalog, reading, now, runs>>

\* The worker process dies; the broker delivers the task again and
\* recover_worker_lost puts the job back in the queue.
WorkerLost ==
    /\ faults < MaxFaults
    /\ Active
    /\ faults' = faults + 1
    /\ jobs' = [jobs EXCEPT ![worker.job].status = "queued"]
    /\ worker' = Idle
    /\ UNCHANGED <<catalog, reading, now, runs>>

Tick ==
    /\ now < LastTick
    /\ now' = now + 1
    /\ UNCHANGED <<jobs, worker, catalog, reading, faults, runs>>

-----------------------------------------------------------------------------
(* Readiness: the scenes, then the rows of each required index, then all   *)
(* rows, then the jobs, each by a query of its own.                        *)

HasRow(d, i) == raster[d][i] # None
Latest(T) == IF T = {} THEN None ELSE CHOOSE t \in T : \A u \in T : u <= t

\* _is_output_producing_full_pipeline of a completed job.
is_output_producing(j) == j.mode = "full_pipeline" /\ j.produced
SuccessfulJobs ==
    {jobs[j] : j \in {k \in DOMAIN jobs :
        jobs[k].status = "completed" /\ is_output_producing(jobs[k])}}

WholeDates == {d \in Dates : scene[d] # None /\ \A i \in Required : HasRow(d, i)}
FreshnessEvents ==
    {j.completedAt : j \in SuccessfulJobs} \cup
    {raster[r[1]][r[2]].created : r \in {s \in Dates \X Required : HasRow(s[1], s[2])}}

\* The scenes of status "composited"; the prepared scenes are filtered out.
ReadScenes ==
    /\ request.step = "idle"
    /\ request' = [NoRequest EXCEPT !.step = "indices", !.left = Required,
                                    !.dates = {d \in Dates : scene[d] # None}]
    /\ begun' = [whole |-> WholeDates, fresh |-> Latest(FreshnessEvents),
                 rows |-> \E d \in Dates, i \in ToSet(Indices) : HasRow(d, i),
                 job |-> SuccessfulJobs # {}]
    /\ UNCHANGED <<jobs, worker, catalog, now, faults, runs>>

\* list_for_scene_ids of one index, or of all of them: request.left holds the
\* indices still to be read and, after ReadAllRows, the indices that have rows.
ListRows(index) == {<<d, raster[d][index].created>> : d \in {e \in request.dates : HasRow(e, index)}}

NextIndex == Indices[CHOOSE n \in DOMAIN Indices :
                 /\ Indices[n] \in request.left
                 /\ \A m \in DOMAIN Indices : Indices[m] \in request.left => n <= m]

ReadIndexRows ==
    /\ request.step = "indices"
    /\ request.left # {}
    /\ request' = [request EXCEPT !.left = @ \ {NextIndex},
                                  !.found = Append(@, ListRows(NextIndex))]
    /\ UNCHANGED <<jobs, worker, catalog, begun, now, faults, runs>>

ReadAllRows ==
    /\ request.step = "indices"
    /\ request.left = {}
    /\ request' = [request EXCEPT !.step = "jobs",
          !.left = {i \in ToSet(Indices) : ListRows(i) # {}}]
    /\ UNCHANGED <<jobs, worker, catalog, begun, now, faults, runs>>

\* Mutant: a date counts when any required index has a row for it.
available_for_some_index ==
    {d \in request.dates :
        \E n \in DOMAIN request.found : \E r \in request.found[n] : r[1] = d}

\* _intersection of the dates each required index has a row for.
available_dates ==
    {d \in request.dates :
        \A n \in DOMAIN request.found : \E r \in request.found[n] : r[1] = d}

freshness_at ==
    Latest({r[2] : r \in UNION ToSet(request.found)} \cup
           {j.completedAt : j \in SuccessfulJobs})

\* _unavailable_reasons: a missing job is a reason beside the dates; missing
\* rows are one only when there is no date.
unavailable_reasons ==
    (IF SuccessfulJobs = {} THEN {"NO_SUCCESSFUL_RESOURCE_SAT_JOB"} ELSE {})
    \cup
    (IF available_dates # {} THEN {}
     ELSE IF request.left = {} THEN {"NO_RESOURCE_SAT_OUTPUTS"}
     ELSE {"MISSING_INDEX_COVERAGE"})

Stale == freshness_at # None /\ now > freshness_at + MaxAge

\* The jobs are read and the answer is made of what the four readings found.
Answer ==
    [dates |-> available_dates,
     status |-> IF unavailable_reasons # {} THEN "UNAVAILABLE"
                ELSE IF Stale THEN "STALE" ELSE "AVAILABLE",
     reasons |-> unavailable_reasons]

ReadJobsAndAnswer ==
    /\ request.step = "jobs"
    /\ request' = NoRequest /\ begun' = None
    /\ UNCHANGED <<jobs, worker, catalog, now, faults, runs>>

Next ==
    \/ \E s \in Submissions : StartBackfill(s.window, s.mode)
    \/ \E j \in DOMAIN jobs : ExecuteBackfill(j)
    \/ \E found \in Results : SearchAndDownload(found)
    \/ BuildComposite
    \/ \E a \in CompositeAssets : put_composite(a)
    \/ register_composite_scene
    \/ \E a \in {"analytic", "mask"} : register_composite_asset(a)
    \/ GenerateIndices
    \/ \E i \in ToSet(Indices) :
          put_derived_cog(i) \/ upsert_derived_index(i) \/ upsert_for_raster(i)
    \/ upsert_item
    \/ scene_names_item
    \/ FinishPipeline
    \/ StageRaises \/ WorkerLost
    \/ Tick
    \/ ReadScenes \/ ReadIndexRows \/ ReadAllRows \/ ReadJobsAndAnswer

Spec == Init /\ [][Next]_vars

-----------------------------------------------------------------------------
(* Properties.                                                             *)

Pictures == [Pixels -> Products \cup {None}]

\* The types, with two facts the tables depend on: the worker is busy exactly
\* when one job is running, and a date has rows only below a composite scene.
TypeOK ==
    /\ now \in 0..LastTick /\ faults \in 0..MaxFaults /\ runs \in 0..MaxRuns
    /\ {j \in DOMAIN jobs : jobs[j].status = "running"}
          = (IF Active THEN {worker.job} ELSE {})
    /\ \A d \in Dates :
          /\ layer[d] \subseteq {i \in ToSet(Indices) : HasRow(d, i)}
          /\ scene[d] = None => \A i \in ToSet(Indices) : raster[d][i] = None
          /\ \A i \in ToSet(Indices) : cog[d][i] \in Pictures \cup {None}

(***************************************************************************)
(* What a full pipeline publishes, against a definition of its own: a      *)
(* pixel shows the newest product that is usable there (every band has a   *)
(* value, and it is water or neither cloud nor shadow), or else the oldest *)
(* that covers it.  When a full job completes, the composite objects, the  *)
(* scene, asset, raster and layer rows, the derived objects and the pgSTAC *)
(* item of its date all come from one and the same set of products,        *)
(* whatever an earlier, interrupted or composite-only job on that date had *)
(* left behind.                                                            *)
(***************************************************************************)
Usable(p, x) == /\ x \in Footprint[p] /\ ~Gap(Bands[p][x])
                /\ \/ Water(Bands[p][x])
                   \/ ~Cloud(Bands[p][x]) /\ ~Shadow(Bands[p][x])
Covers(p, x) == x \in Footprint[p] /\ ~Gap(Bands[p][x])

Candidates(S, x) ==
    IF \E p \in S : Usable(p, x)
       THEN {p \in S : Usable(p, x) /\ \A q \in S : Usable(q, x) => TakenAt[q] <= TakenAt[p]}
       ELSE {p \in S : Covers(p, x) /\ \A q \in S : Covers(q, x) => TakenAt[p] <= TakenAt[q]}

Shows(S, x) == IF Candidates(S, x) = {} THEN None ELSE CHOOSE p \in Candidates(S, x) : TRUE
MaskShown(S, x) == IF Shows(S, x) = None THEN "uncovered" ELSE MaskOf[Shows(S, x)][x]

DateComesFrom(d, S) ==
    LET shown == [x \in Pixels |-> Shows(S, x)]
        masks == [x \in Pixels |-> MaskShown(S, x)]
        index == [x \in Pixels |-> IF shown[x] # None /\ Usable(shown[x], x) THEN shown[x] ELSE None]
    IN /\ object[d] = [analytic |-> shown, mask |-> masks, manifest |-> S]
       /\ asset[d] = [analytic |-> shown, mask |-> masks]
       /\ scene[d] = [of |-> S, item |-> TRUE]
       /\ layer[d] = ToSet(Indices)
       /\ \A i \in ToSet(Indices) :
             cog[d][i] = index /\ raster[d][i].of = index /\ item[d][i] = index

Completes(j) == jobs[j].status # "completed" /\ jobs'[j].status = "completed"

CompletedDateIsOneComposite ==
    [][\A j \in DOMAIN jobs : Completes(j) /\ jobs[j].mode = "full_pipeline" =>
          \E d \in jobs[j].window, S \in SUBSET Products :
             /\ S # {} /\ \A p \in S : DateOf[p] = d
             /\ worker.composite.of = S
             /\ DateComesFrom(d, S)]_vars

(***************************************************************************)
(* A readiness answer put together from four readings of a catalogue in    *)
(* motion is still true: AVAILABLE names only dates whose required indices *)
(* have rows and objects, rests on a completed output-producing job and on *)
(* something not older than MaxAge; no date that was whole when the        *)
(* request began is left out; and each reason held when it began.          *)
(***************************************************************************)
ReadinessIsTrue ==
    request.step = "jobs" =>
      LET answer == Answer IN
      /\ begun.whole \subseteq answer.dates
      /\ \A d \in answer.dates, i \in Required : HasRow(d, i) /\ cog[d][i] # None
      /\ answer.status = "AVAILABLE" =>
            /\ answer.dates # {}
            /\ SuccessfulJobs # {}
            /\ \E t \in FreshnessEvents : now <= t + MaxAge
      /\ answer.status = "STALE" => begun.fresh = None \/ now > begun.fresh + MaxAge
      /\ answer.status = "UNAVAILABLE" => answer.reasons # {}
      /\ "NO_SUCCESSFUL_RESOURCE_SAT_JOB" \in answer.reasons => ~begun.job
      /\ "NO_RESOURCE_SAT_OUTPUTS" \in answer.reasons => ~begun.rows
      /\ "MISSING_INDEX_COVERAGE" \in answer.reasons => begun.whole = {}

=============================================================================
