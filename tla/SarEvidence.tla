------------------------------ MODULE SarEvidence ------------------------------
(***************************************************************************)
(* SAR from the archive to the answer.  On one side the EOS-04 and NISAR    *)
(* backfills (services/eos04_ingestion.py, nisar_ingestion.py), which do    *)
(* the same in the same order: every selected product is downloaded and     *)
(* prepared, then its object, scene and asset are stored product by         *)
(* product, then its pgSTAC item.  On the other AnalyticsService.field_sar, *)
(* which reads them while that goes on, keeps its answers and the           *)
(* statistics of earlier scenes in field_queries for a time, and hands out  *)
(* signed links to them.                                                    *)
(*                                                                          *)
(* What was prepared is the version of the processing profile it was        *)
(* prepared with.  There is one field and one worker of the heavy-cpu       *)
(* queue (deploy/compose.staging.yml).  Time is counted in ticks.           *)
(***************************************************************************)
EXTENDS Integers, FiniteSets, FiniteSetsExt

CONSTANTS
    Products,       \* what the archive has of the source
    Day,            \* the acquisition day of each
    Overlap,        \* its overlap with the area of interest (no two alike)
    Coverage,       \* the share of the field it covers
    Kind,           \* what it says of itself: software, look, orbit, track, angle...
    Described,      \* those that say all of it
    MinCoverage,    \* request.minimumCoveragePercent
    TargetDays,     \* the days asked for
    SupportDays,    \* request.windowDays
    LookbackDays,   \* request.historyLookbackDays
    MaxHistory,     \* request.maximumHistoryObservations
    MinBaseline,    \* request.minimumBaselineObservations
    MaxCandidates,  \* min(12, settings.max_candidate_scenes)
    MaxDownloads,   \* settings.eos04_max_downloads_per_run
    QueryTtl,       \* settings.field_query_ttl_seconds
    SignedTtl,      \* settings.signed_url_ttl_seconds
    DeleteLimit,    \* expired rows deleted by one request (100)
    IncludeHistory, \* request.includeHistory: never for NISAR
    Profiles,       \* versions of the processing profile
    LastTick,       \* bound on the clock
    MaxFaults,      \* bound on errors and lost workers
    Backfills,      \* what backfills are asked for: [mode, from, to]
    MaxJobs,        \* bound on backfills
    MaxRequests,    \* bound on requests
    None

ASSUME TtlAssumption == SignedTtl \in Nat /\ QueryTtl \in Nat

\* A link runs out before the row it leads to: 900 s and 86400 s by default, but
\* the settings also allow rows of 300 s with links of 900 s.
LinksEndFirst == SignedTtl < QueryTtl

ASSUME BoundsAssumption ==
    /\ \A p \in Products : Day[p] \in Nat /\ Overlap[p] \in Nat /\ Coverage[p] \in Nat
    /\ IsFiniteSet(Products) /\ Profiles # {}
    /\ \A p, q \in Products : Overlap[p] = Overlap[q] => p = q
    /\ None \notin [version : Profiles, item : BOOLEAN]
    /\ {MinCoverage, SupportDays, LookbackDays, MaxHistory, MinBaseline, LastTick, MaxFaults, MaxJobs, MaxRequests} \subseteq Nat
    /\ {MaxCandidates, MaxDownloads, DeleteLimit} \subseteq Nat \ {0}
    /\ Described \subseteq Products
    /\ TargetDays \subseteq Nat /\ Profiles \subseteq Nat \ {0} /\ IncludeHistory \in BOOLEAN
    /\ Backfills \subseteq
          [mode : {"metadata_only", "download_only", "prepare_only", "full_pipeline"},
           from : Nat, to : Nat]

VARIABLES
    clock,
    profile,        \* the deployed processing profile
    scene,          \* provider_scenes: [version |-> comparison metadata, item |-> named]
    asset,          \* scene_assets: the version of the row "backscatter"
    object,         \* the prepared COG in the object store
    replaced,       \* when the object was last overwritten (only the properties ask)
    items,          \* pgSTAC: the version of each product's item
    job,            \* the backfill that runs or ran last
    completed,      \* the idempotency keys of the backfills that completed
    queries,        \* field_queries
    links,          \* the links that were handed out
    request,        \* the field_sar request in flight
    used            \* faults, jobs and requests so far

catalog == <<scene, asset, object, replaced, items>>
vars == <<clock, profile, scene, asset, object, replaced, items, job, completed, queries, links, request, used>>

NoJob == [pc |-> "none", mode |-> "", from |-> 0, to |-> 0, selected |-> {}, todo |-> {}, version |-> 0, key |-> <<>>]

NoRequest ==
    [pc |-> "none", day |-> 0, queue |-> {}, options |-> {}, failures |-> 0,
     chosen |-> None, history |-> {}, link |-> 0, calm |-> FALSE, answer |-> None]

Init ==
    /\ clock = 0
    /\ profile = Min(Profiles)
    /\ scene = [p \in Products |-> None]
    /\ asset = [p \in Products |-> 0]
    /\ object = [p \in Products |-> 0]
    /\ replaced = [p \in Products |-> 0]
    /\ items = [p \in Products |-> 0]
    /\ job = NoJob /\ completed = {}
    /\ queries = {} /\ links = {}
    /\ request = NoRequest
    /\ used = [fault |-> 0, job |-> 0, request |-> 0]

Fault == used.fault < MaxFaults /\ used' = [used EXCEPT !.fault = @ + 1]

\* Links that no longer verify are forgotten.
Tick ==
    /\ clock < LastTick
    /\ clock' = clock + 1
    /\ links' = {l \in links : l.expires > clock}
    /\ UNCHANGED <<profile, catalog, job, completed, queries, request, used>>
-----------------------------------------------------------------------------
(***************************************************************************)
(* The backfill.                                                           *)
(***************************************************************************)
Working == {"search", "download", "prepare", "object", "scene", "asset", "name", "item", "cleanup"}

\* A new version of the code: the worker is restarted with it.
Upgrade ==
    /\ job.pc \notin Working /\ profile # Max(Profiles)
    /\ profile' = Min({v \in Profiles : v > profile})
    /\ UNCHANGED <<clock, catalog, job, completed, queries, links, request, used>>

\* compute_eos04_backfill_idempotency_key: what is asked for, and the profile.
IdempotencyKey(asked) == <<asked.mode, asked.from, asked.to, profile>>

\* A backfill that completed is not done again: its job is returned.
start_backfill(asked) ==
    /\ job.pc \in {"none", "completed", "failed"} /\ used.job < MaxJobs
    /\ IdempotencyKey(asked) \notin completed
    /\ job' = [NoJob EXCEPT !.pc = "search", !.mode = asked.mode, !.from = asked.from,
                            !.to = asked.to, !.version = profile,
                            !.key = IdempotencyKey(asked)]
    /\ used' = [used EXCEPT !.job = @ + 1]
    /\ UNCHANGED <<clock, profile, catalog, completed, queries, links, request>>

JobStep(new) ==
    /\ job' = new
    /\ completed' = IF new.pc = "completed" THEN completed \cup {new.key} ELSE completed
    /\ UNCHANGED <<clock, profile, queries, links, used>>

\* Those of the window that overlap the area most.
_search ==
    LET found == {p \in Products : Day[p] \in job.from..job.to}
        selected == {p \in found :
                        Cardinality({q \in found : Overlap[q] > Overlap[p]}) < MaxDownloads}
    IN
    /\ job.pc = "search"
    /\ JobStep([job EXCEPT !.selected = selected,
                           !.pc = IF job.mode = "metadata_only" THEN "completed" ELSE "download"])
    /\ UNCHANGED <<catalog, request>>

_download ==
    /\ job.pc = "download"
    /\ JobStep([job EXCEPT !.pc = IF job.mode = "download_only" THEN "completed" ELSE "prepare"])
    /\ UNCHANGED <<catalog, request>>

\* With nothing to store the stages that follow are empty.
_prepare ==
    /\ job.pc = "prepare"
    /\ JobStep([job EXCEPT !.todo = job.selected,
          !.pc = CASE job.mode = "prepare_only" -> "completed"
                   [] job.mode # "prepare_only" /\ job.selected = {} -> "cleanup"
                   [] job.mode # "prepare_only" /\ job.selected # {} -> "object"])
    /\ UNCHANGED <<catalog, request>>

\* The product that is at hand: they keep the order of the search.
Current == CHOOSE p \in job.todo : \A q \in job.todo : Overlap[q] <= Overlap[p]

\* Mutant: an object that is there is not written again.
put_if_absent(p, version) ==
    /\ object' = [object EXCEPT ![p] = IF @ = 0 THEN version ELSE @]
    /\ UNCHANGED replaced

\* put_prepared_cog_file: the path does not name the version, and an object with
\* the same checksum is left alone.
put_prepared_cog_file(p, version) ==
    /\ object' = [object EXCEPT ![p] = version]
    /\ replaced' = IF object[p] \in {0, version} THEN replaced
                   ELSE [replaced EXCEPT ![p] = clock]

\* _store_and_register: the object, the scene (whose upsert forgets the pgSTAC
\* item), the asset; then the next product.
StoreObject ==
    /\ job.pc = "object"
    /\ put_prepared_cog_file(Current, job.version)
    /\ JobStep([job EXCEPT !.pc = "scene"])
    /\ request' = [request EXCEPT !.calm = @ /\ object' = object]
    /\ UNCHANGED <<scene, asset, items>>

StoreScene ==
    /\ job.pc = "scene"
    /\ scene' = [scene EXCEPT ![Current] = [version |-> job.version, item |-> FALSE]]
    /\ JobStep([job EXCEPT !.pc = "asset"])
    /\ UNCHANGED <<asset, object, replaced, items, request>>

StoreAsset ==
    LET rest == job.todo \ {Current} IN
    /\ job.pc = "asset"
    /\ asset' = [asset EXCEPT ![Current] = job.version]
    /\ JobStep(IF rest # {} THEN [job EXCEPT !.pc = "object", !.todo = rest]
                            ELSE [job EXCEPT !.pc = "name", !.todo = job.selected])
    /\ UNCHANGED <<scene, object, replaced, items, request>>

\* _register_pgstac: the scene names its item before there is one.
NameItem ==
    /\ job.pc = "name"
    /\ scene' = [scene EXCEPT ![Current] = [version |-> job.version, item |-> TRUE]]
    /\ JobStep([job EXCEPT !.pc = "item"])
    /\ UNCHANGED <<asset, object, replaced, items, request>>

StoreItem ==
    LET rest == job.todo \ {Current} IN
    /\ job.pc = "item"
    /\ items' = [items EXCEPT ![Current] = job.version]
    /\ JobStep([job EXCEPT !.todo = rest, !.pc = IF rest # {} THEN "name" ELSE "cleanup"])
    /\ UNCHANGED <<scene, asset, object, replaced, request>>

Complete ==
    /\ job.pc = "cleanup"
    /\ JobStep([job EXCEPT !.pc = "completed"])
    /\ UNCHANGED <<catalog, request>>

\* Any step may fail, which fails the job, or be the last of its worker: the
\* redelivered message begins the same job again, with the code deployed then.
JobFails ==
    /\ job.pc \in Working
    /\ Fault
    /\ job' = [job EXCEPT !.pc = "failed"]
    /\ UNCHANGED <<clock, profile, catalog, completed, queries, links, request>>

\* Mutant: a lost job remembers what it had to do, but not what it had selected.
WorkerLostHalf ==
    /\ job.pc \in Working
    /\ Fault
    /\ job' = [job EXCEPT !.pc = "lost", !.selected = {}]
    /\ UNCHANGED <<clock, profile, catalog, completed, queries, links, request>>

WorkerLost ==
    /\ job.pc \in Working
    /\ Fault
    /\ job' = [job EXCEPT !.pc = "lost", !.selected = {}, !.todo = {}]
    /\ UNCHANGED <<clock, profile, catalog, completed, queries, links, request>>

recover_worker_lost ==
    /\ job.pc = "lost"
    /\ JobStep([job EXCEPT !.pc = "search", !.version = profile])
    /\ UNCHANGED <<catalog, request>>
-----------------------------------------------------------------------------
(***************************************************************************)
(* field_queries and signed links.                                         *)
(***************************************************************************)
Forever == LastTick + QueryTtl + 1

\* A row: an answer about the field, or the statistics of an earlier scene; the
\* rows of optical queries never expire.
Rows == [kind : {"sar", "history", "index"}, scene : Products \cup {None},
         stats : {0} \cup Profiles, expires : 0..Forever]

Unexpired(rows) == {q \in rows : q.expires > clock}

\* Mutant: the oldest rows go, expired or not.
delete_oldest ==
    {q \in queries : Cardinality({o \in queries : o.expires < q.expires}) < DeleteLimit}

\* The first expired rows, which field_sar deletes before anything else.
delete_expired ==
    LET expired == queries \ Unexpired(queries)
    IN  {q \in expired : Cardinality({o \in expired : o.expires < q.expires}) < DeleteLimit}

verify(link) == link.expires >= clock

\* What is behind a link to a saved index query (stats, point, overlay): its row.
\* No raster output is ever deleted.
index_query(row) == row \in Unexpired(queries)

\* What is behind the link of a SAR answer: its row and the scene it was made of.
sar_overlay_for_query(row) ==
    row \in Unexpired(queries) /\ asset[row.scene] # 0 /\ object[row.scene] # 0

\* The endpoints: 401 once the signature has expired, 404 when there is nothing.
Status(link, found) == IF ~verify(link) THEN 401 ELSE IF found THEN 200 ELSE 404

field_index_stats(link) == Status(link, index_query(link.row))
field_index_point(link) == Status(link, index_query(link.row))
field_index_overlay(link) == Status(link, index_query(link.row))
field_sar_overlay(link) == Status(link, sar_overlay_for_query(link.row))

\* The newest unexpired statistics of a scene, if there are any.
find_cached(p) ==
    LET hits == {q \in Unexpired(queries) : q.kind = "history" /\ q.scene = p}
    IN  {q \in hits : \A o \in hits : o.expires <= q.expires}
-----------------------------------------------------------------------------
(***************************************************************************)
(* Requests.                                                               *)
(***************************************************************************)
\* used is left to the caller: a request may begin, and a read may fail.
RequestStep(new) ==
    /\ request' = new
    /\ UNCHANGED <<clock, profile, catalog, job, completed>>

\* field_index only counts for the row it leaves and the links to it.
field_index ==
    LET row == [kind |-> "index", scene |-> None, stats |-> 0, expires |-> Forever] IN
    /\ used.request < MaxRequests
    /\ used' = [used EXCEPT !.request = @ + 1]
    /\ queries' = queries \cup {row}
    /\ links' = links \cup {[row |-> row, expires |-> clock + SignedTtl]}
    /\ UNCHANGED <<clock, profile, catalog, job, completed, request>>

\* A scene as it was read: the comparison metadata of its row go with it.
Read(p) == [scene |-> p, version |-> scene[p].version]

\* The statistics of what was read.
Option(read, stats) == [scene |-> read.scene, version |-> read.version, stats |-> stats]

Observation(read, stats) ==
    [scene |-> read.scene, version |-> read.version, stats |-> stats, at |-> clock]

\* What is read of an object: of which version it is, and the share of the field
\* for which every band has a value.
sar_field_stats(p) == [coverage |-> Coverage[p], version |-> object[p]]

Distance(p, day) == IF Day[p] >= day THEN Day[p] - day ELSE day - Day[p]

field_sar(day) ==
    LET near == {p \in Products : scene[p] # None /\ Distance(p, day) <= SupportDays}
        Nearer(q, p) == \/ Distance(q, day) < Distance(p, day)
                        \/ Distance(q, day) = Distance(p, day) /\ Day[q] > Day[p]
    IN
    /\ request.pc = "none" /\ used.request < MaxRequests
    /\ used' = [used EXCEPT !.request = @ + 1]
    /\ queries' = queries \ delete_expired
    /\ RequestStep([NoRequest EXCEPT
          !.pc = "examine", !.day = day,
          !.calm = \A p \in Products : scene[p] # None => scene[p].version = object[p],
          !.queue = {Read(p) : p \in {q \in near : Cardinality({o \in near : Nearer(o, q)}) < MaxCandidates}}])
    /\ UNCHANGED links

\* One candidate is read: without its asset it is passed over, and one that
\* cannot be read counts as a failure.
ExamineScene ==
    /\ request.pc = "examine" /\ request.queue # {}
    /\ \E c \in request.queue :
          LET p == c.scene
              Went(options, failures) ==
                  RequestStep([request EXCEPT !.queue = @ \ {c}, !.options = @ \cup options,
                                              !.failures = @ + failures])
          IN
          /\ \A q \in request.queue : Distance(p, request.day) <= Distance(q.scene, request.day)
          /\ \/ /\ Went(IF asset[p] # 0 /\ sar_field_stats(p).coverage >= MinCoverage
                         THEN {Option(c, sar_field_stats(p).version)} ELSE {}, 0)
                /\ UNCHANGED <<queries, links, used>>
             \/ /\ asset[p] # 0 /\ Fault
                /\ Went({}, 1)
                /\ UNCHANGED <<queries, links>>

\* no_scene, no_overlap, low_coverage or processing_unavailable: nothing is saved.
_sar_unavailable ==
    /\ request.pc = "examine" /\ request.queue = {} /\ request.options = {}
    /\ RequestStep(NoRequest)
    /\ UNCHANGED <<queries, links, used>>

\* The scene that is nearest to the day, then covers most; its link is signed
\* now.  With history the scenes before it are listed.
SelectScene ==
    LET Better(o, q) ==
            \/ Distance(o.scene, request.day) < Distance(q.scene, request.day)
            \/ /\ Distance(o.scene, request.day) = Distance(q.scene, request.day)
               /\ Coverage[o.scene] > Coverage[q.scene]
        best == CHOOSE o \in request.options : \A q \in request.options : ~Better(q, o)
        earlier == {p \in Products : /\ scene[p] # None
                                     /\ Day[p] \in (Day[best.scene] - LookbackDays)..(Day[best.scene] - 1)}
        listed == {p \in earlier :
                      Cardinality({q \in earlier : Day[q] > Day[p]}) < Min({3 * MaxHistory, MaxCandidates})}
    IN
    /\ request.pc = "examine" /\ request.queue = {} /\ request.options # {}
    /\ RequestStep([request EXCEPT !.pc = "history", !.chosen = best,
                                   !.link = clock + SignedTtl, !.options = {},
                                   !.queue = IF IncludeHistory THEN {Read(p) : p \in listed} ELSE {}])
    /\ UNCHANGED <<queries, links, used>>

\* _field_sar_temporal: the statistics of an earlier scene are those that are
\* cached, or computed and cached; the latest scenes come first.
ObserveEarlier ==
    /\ request.pc = "history" /\ request.queue # {} /\ Cardinality(request.history) < MaxHistory
    /\ \E c \in request.queue :
          LET p == c.scene
              rest == request.queue \ {c}
              Observed(stats) ==
                  [request EXCEPT !.queue = rest,
                     !.history = IF Coverage[p] >= MinCoverage
                                 THEN @ \cup {Observation(c, stats)} ELSE @]
          IN
          /\ \A q \in request.queue : Day[q.scene] <= Day[p]
          /\ \/ /\ asset[p] = 0
                /\ RequestStep([request EXCEPT !.queue = rest])
                /\ UNCHANGED <<queries, used>>
             \/ /\ asset[p] # 0
                /\ \E q \in find_cached(p) : RequestStep(Observed(q.stats))
                /\ UNCHANGED <<queries, used>>
             \/ /\ asset[p] # 0 /\ find_cached(p) = {}
                /\ RequestStep(Observed(sar_field_stats(p).version))
                /\ queries' = queries \cup
                      {[kind |-> "history", scene |-> p, stats |-> sar_field_stats(p).version,
                        expires |-> clock + QueryTtl]}
                /\ UNCHANGED used
             \/ /\ asset[p] # 0 /\ find_cached(p) = {} /\ Fault
                /\ RequestStep([request EXCEPT !.queue = rest])
                /\ UNCHANGED queries
    /\ UNCHANGED links
-----------------------------------------------------------------------------
(***************************************************************************)
(* The comparison with the past (processing/sar_comparability.py,          *)
(* sar_temporal.py), from the metadata of the rows and the statistics of   *)
(* the objects.  Of the numbers only the version they come from is kept.   *)
(***************************************************************************)
comparison_metadata(read) ==
    [complete |-> read.scene \in Described, profile |-> read.version, kind |-> Kind[read.scene]]

\* Mutant: the processing profile is not compared.
reasons_without_profile(current, candidate) ==
    IF ~current.complete \/ ~candidate.complete THEN {"METADATA_INCOMPLETE"}
    ELSE IF current.kind # candidate.kind THEN {"MISMATCH"} ELSE {}

\* One code stands for all that compare what the products say of themselves.
comparison_reason_codes(current, candidate) ==
    IF ~current.complete \/ ~candidate.complete THEN {"METADATA_INCOMPLETE"}
    ELSE {reason \in {"PROCESSING_PROFILE_MISMATCH", "MISMATCH"} :
             \/ reason = "PROCESSING_PROFILE_MISMATCH" /\ current.profile # candidate.profile
             \/ reason = "MISMATCH" /\ current.kind # candidate.kind}

\* The difference to the latest comparable observation.
_change(current, previous) ==
    [scene |-> previous.scene, from |-> previous.stats, to |-> current.stats, at |-> previous.at]

\* Whether the spread of the past is zero only the numbers tell.
_baseline(comparable) ==
    IF Cardinality(comparable) < MinBaseline THEN {"INSUFFICIENT_BASELINE"}
    ELSE {"AVAILABLE", "DEGENERATE_BASELINE"}

\* What an answer may say of the past: a status and a change.
build_sar_temporal_analysis(current, prior) ==
    LET metadata == comparison_metadata(current)
        comparable == {o \in prior :
                          comparison_reason_codes(metadata, comparison_metadata(o)) = {}}
        latest == CHOOSE o \in comparable : \A q \in comparable : Day[q.scene] <= Day[o.scene]
    IN  IF comparable = {}
        THEN {[status |-> IF metadata.complete THEN "NO_COMPARABLE_HISTORY" ELSE "METADATA_INCOMPLETE",
               change |-> None]}
        ELSE {[status |-> s, change |-> _change(current, latest)] : s \in _baseline(comparable)}

\* The answer is saved, and then sent with its link.
SaveAnswer ==
    LET row == [kind |-> "sar", scene |-> request.chosen.scene, stats |-> request.chosen.stats,
                expires |-> clock + QueryTtl]
        analyses == IF IncludeHistory THEN build_sar_temporal_analysis(request.chosen, request.history)
                    ELSE {[status |-> "", change |-> None]} IN
    /\ request.pc = "history"
    /\ request.queue = {} \/ Cardinality(request.history) >= MaxHistory
    /\ queries' = queries \cup {row}
    /\ \E a \in analyses :
          RequestStep([NoRequest EXCEPT !.pc = "reply", !.link = request.link, !.calm = request.calm,
                                        !.answer = [status |-> a.status, change |-> a.change, row |-> row]])
    /\ UNCHANGED <<links, used>>

Reply ==
    /\ request.pc = "reply"
    /\ links' = links \cup {[row |-> request.answer.row, expires |-> request.link]}
    /\ RequestStep(NoRequest)
    /\ UNCHANGED <<queries, used>>
-----------------------------------------------------------------------------
BackfillStep ==
    \/ _search
    \/ _download
    \/ _prepare
    \/ StoreObject
    \/ StoreScene
    \/ StoreAsset
    \/ NameItem
    \/ StoreItem
    \/ Complete
    \/ recover_worker_lost

\* The bounds are reached.
Quiescent ==
    /\ clock = LastTick /\ used.request = MaxRequests /\ request.pc = "none"
    /\ UNCHANGED vars

Next ==
    \/ Tick
    \/ Quiescent
    \/ Upgrade
    \/ \E asked \in Backfills : start_backfill(asked)
    \/ BackfillStep
    \/ JobFails
    \/ WorkerLost
    \/ field_index
    \/ \E day \in TargetDays : field_sar(day)
    \/ ExamineScene
    \/ _sar_unavailable
    \/ SelectScene
    \/ ObserveEarlier
    \/ SaveAnswer
    \/ Reply

Spec == Init /\ [][Next]_vars
-----------------------------------------------------------------------------
\* Every variable keeps its type, and a row expires when it was meant to.
TypeOK ==
    /\ clock \in 0..LastTick /\ profile \in Profiles
    /\ \A p \in Products :
          /\ scene[p] \in {None} \cup [version : Profiles, item : BOOLEAN]
          /\ {asset[p], object[p], items[p]} \subseteq {0} \cup Profiles
    /\ job.pc \in {"none", "completed", "failed", "lost"} \cup Working
    /\ job.todo \subseteq job.selected /\ Cardinality(job.selected) <= MaxDownloads
    /\ queries \subseteq Rows
    /\ \A l \in links : l.row \in Rows /\ l.expires \in 0..(LastTick + SignedTtl)
    /\ request.pc \in {"none", "examine", "history", "reply"} /\ request.calm \in BOOLEAN
    /\ Cardinality(request.history) <= MaxHistory
    /\ \A k \in completed : k[4] \in Profiles
    /\ used \in [fault : 0..MaxFaults, job : 0..MaxJobs, request : 0..MaxRequests]

\* What a link leads to is there for as long as the link is good, and so is the
\* imagery it is drawn from: no request deletes it, and no backfill takes it
\* away while it stores the scene again.  That is so of lifetimes with
\* LinksEndFirst, as the defaults are; with the others a good link of a SAR
\* answer can outlive its row, and then leads to nothing.
LiveLinkOpens ==
    \A l \in links :
        404 \notin IF l.row.kind = "sar" THEN {field_sar_overlay(l)}
                   ELSE {field_index_stats(l), field_index_point(l), field_index_overlay(l)}

\* A change that an answer reports is measured between data of one processing
\* profile: the comparison looks at the profiles the scene rows name, the
\* statistics come from the objects.  It says nothing of a request during which
\* an object was overwritten, nor of one that began while a row lagged behind its
\* object (under a backfill at work and, once one has failed in between, for
\* good): there the mixture happens.  In the other requests, too, cached statistics are used for QueryTtl after their object was replaced.
ReportedChangeIsOfOneProfile ==
    request.pc = "reply" /\ request.calm /\ request.answer.change # None =>
        LET change == request.answer.change
        IN  change.from = change.to \/ change.at - replaced[change.scene] < QueryTtl

\* A backfill that completed left every product it selected whole and of one
\* version, whatever was there before and however often it was begun: the
\* object, the scene, the asset and the item that the scene names.
CompletedBackfillIsWhole ==
    job.pc = "completed" /\ job.mode = "full_pipeline" =>
        \A p \in job.selected :
            /\ scene[p] = [version |-> job.version, item |-> TRUE]
            /\ {asset[p], object[p], items[p]} = {job.version}
=============================================================================
