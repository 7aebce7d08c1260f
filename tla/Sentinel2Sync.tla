---------------------------- MODULE Sentinel2Sync ----------------------------
(***************************************************************************)
(* The Sentinel-2 continuous sync of one AOI: the beat task plans a date   *)
(* window from the sync ledger (scheduled_bangalore_preload), a backfill   *)
(* job walks the days of its window (execute_backfill,                     *)
(* _execute_provider_day), and every day is searched at the provider, its  *)
(* scenes are processed one by one (_process_items) and its ledger row is  *)
(* rewritten.                                                              *)
(*                                                                         *)
(* Delivery of the job and its stage rows are in BackfillDelivery; here a  *)
(* lost worker simply puts its job back in the queue.  A scene is seen     *)
(* through what _scene_is_complete reads: its row, its raster rows (all of *)
(* them or not) and its pgstac_item_id.                                    *)
(***************************************************************************)
EXTENDS Integers, FiniteSets, FiniteSetsExt

CONSTANTS Workers,            \* processes serving the heavy-cpu queue
          LastDay,            \* bound: the calendar ends here
          SeedDays,           \* sentinel2_preload_date_window_days
          RefreshDays,        \* sentinel2_preload_refresh_days
          ItemCap,            \* backfill_search_item_cap
          Scenes,             \* products of the provider
          Results,            \* the answers a search of each day may give
          ManualRequests,     \* windows and modes asked through the API
          NoRow, NoJob,
          MaxFaults           \* bound: searches and scenes that raise, workers lost

Days == 1..LastDay

Modes == {"metadata_only", "mirror_only", "full_pipeline"}

\* What the idempotency key of a Sentinel-2 backfill is made of.
Windows == {k \in [start : Days, end : Days, mode : Modes] : k.start <= k.end}

LedgerStatus == {"running", "complete", "partial", "failed", "retry"}

LedgerRow ==
    [status : LedgerStatus, scene_count : Nat, processed_count : Nat,
     retry_count : Nat, search_complete : BOOLEAN]

ASSUME SyncAssumption ==
    /\ LastDay \in Nat
    /\ SeedDays \in 1..LastDay
    /\ RefreshDays \in 1..SeedDays
    /\ ItemCap \in Nat \ {0}
    /\ IsFiniteSet(Scenes)
    /\ Results \in [Days -> SUBSET SUBSET Scenes]
    /\ \A d \in Days : \A S \in Results[d] : Cardinality(S) <= ItemCap
    /\ ManualRequests \subseteq Windows
    /\ NoJob \notin Windows /\ NoRow \notin LedgerRow
    /\ MaxFaults \in Nat

VARIABLES clock,     \* the last day a scheduled run asks for: yesterday
          jobs,      \* status of the latest job of each key
          ledger,    \* the sync ledger row of each day, or NoRow
          scene,     \* how far each scene has come
          worker,
          faults,    \* how much of each bound is used
          lastFound  \* history: what the latest search of each day returned

vars == <<clock, jobs, ledger, scene, worker, faults, lastFound>>

\* "outputs": every index raster row is there, the scene is not in pgSTAC.
SceneState == {"absent", "registered", "outputs", "published"}

\* A SyncLedgerRecord as the dataclass defaults it.
NewRow(retries) ==
    [status |-> "running", scene_count |-> 0, processed_count |-> 0,
     retry_count |-> retries, search_complete |-> FALSE]

IdleWorker ==
    [pc |-> "idle", job |-> NoJob, day |-> 0, existing |-> NewRow(0), row |-> NewRow(0),
     items |-> {}, todo |-> {}, item |-> {}, failed |-> 0]

Init ==
    /\ clock = SeedDays
    /\ jobs = [k \in Windows |-> "none"]
    /\ ledger = [d \in Days |-> NoRow]
    /\ scene = [s \in Scenes |-> "absent"]
    /\ worker = [w \in Workers |-> IdleWorker]
    /\ faults = [item |-> 0, search |-> 0, crash |-> 0]
    /\ lastFound = [d \in Days |-> {}]

Fault(kind) ==
    /\ faults.item + faults.search + faults.crash < MaxFaults
    /\ faults' = [faults EXCEPT ![kind] = @ + 1]
-----------------------------------------------------------------------------
(***************************************************************************)
(* Requests.                                                               *)
(***************************************************************************)
AdvanceClock ==
    /\ clock < LastDay
    /\ clock' = clock + 1
    /\ UNCHANGED <<jobs, ledger, scene, worker, faults, lastFound>>

has_active_backfill == \E k \in Windows : jobs[k] \in {"queued", "running"}

\* create_or_get: a key with an active or a completed job gets that job back
\* and nothing is sent.
start_backfill(k) ==
    jobs' = IF jobs[k] \in {"none", "failed"} THEN [jobs EXCEPT ![k] = "queued"] ELSE jobs

\* Mutant: days that are not complete are not looked for.
ScheduledStartOfMissing ==
    LET seedStart == clock - SeedDays + 1
        known     == {d \in Days : ledger[d] # NoRow}
    IN  Min({clock - RefreshDays + 1} \cup ((seedStart..clock) \ known))

\* From the earliest of: the refresh overlap, the days of the seed window that
\* have no row, the days that are not complete.
ScheduledStart ==
    LET seedStart  == clock - SeedDays + 1
        known      == {d \in Days : ledger[d] # NoRow}
        missing    == (seedStart..clock) \ known
        incomplete == {d \in known : ledger[d].status # "complete" /\ d <= clock}
    IN  IF known = {} THEN seedStart
        ELSE Min({clock - RefreshDays + 1} \cup missing \cup incomplete)

scheduled_bangalore_preload ==
    /\ ~has_active_backfill
    /\ start_backfill([start |-> ScheduledStart, end |-> clock, mode |-> "full_pipeline"])
    /\ UNCHANGED <<clock, ledger, scene, worker, faults, lastFound>>

ManualBackfill ==
    /\ \E k \in ManualRequests : start_backfill(k)
    /\ UNCHANGED <<clock, ledger, scene, worker, faults, lastFound>>
-----------------------------------------------------------------------------
(***************************************************************************)
(* execute_backfill, day by day.                                           *)
(***************************************************************************)
TakeJob(w) ==
    /\ worker[w].pc = "idle"
    /\ \E k \in Windows :
          /\ jobs[k] = "queued"
          /\ jobs' = [jobs EXCEPT ![k] = "running"]
          /\ worker' = [worker EXCEPT ![w] =
                 [IdleWorker EXCEPT !.pc = "day", !.job = k, !.day = k.start]]
    /\ UNCHANGED <<clock, ledger, scene, faults, lastFound>>

\* Mutant: one day past the window.
BeginDayPastEnd(w) ==
    LET d == worker[w].day
    IN  /\ worker[w].pc = "day"
        /\ d <= worker[w].job.end + 1
        /\ ledger' = [ledger EXCEPT ![d] = NewRow(0)]
        /\ worker' = [worker EXCEPT ![w].pc = "search"]
        /\ UNCHANGED <<clock, jobs, scene, faults, lastFound>>

\* Mutant: the retry count starts anew with the row.
BeginDayAnew(w) ==
    LET d == worker[w].day
    IN  /\ worker[w].pc = "day"
        /\ d <= worker[w].job.end
        /\ ledger' = [ledger EXCEPT ![d] = NewRow(0)]
        /\ worker' = [worker EXCEPT ![w].pc = "search"]
        /\ UNCHANGED <<clock, jobs, scene, faults, lastFound>>

\* The existing row is read and a fresh one, all counts zero, is written over
\* it before the search; only the retry count is carried over.
BeginDay(w) ==
    LET d        == worker[w].day
        existing == IF ledger[d] = NoRow THEN NewRow(0) ELSE ledger[d]
        row      == NewRow(existing.retry_count)
    IN  /\ worker[w].pc = "day"
        /\ d <= worker[w].job.end
        /\ ledger' = [ledger EXCEPT ![d] = row]
        /\ worker' = [worker EXCEPT ![w].pc = "search", ![w].existing = existing, ![w].row = row]
        /\ UNCHANGED <<clock, jobs, scene, faults, lastFound>>

\* The exception leaves execute_backfill: the job fails, the later days of the
\* window are not visited.
JobRaises(w) ==
    /\ jobs' = [jobs EXCEPT ![worker[w].job] = "failed"]
    /\ worker' = [worker EXCEPT ![w] = IdleWorker]

\* A ProviderDataError is recorded in the row; another exception is not.
SearchRaises(w) ==
    LET row == worker[w].row
    IN  /\ worker[w].pc = "search"
        /\ Fault("search")
        /\ \/ \E status \in {"retry", "failed"} :
                 ledger' = [ledger EXCEPT ![worker[w].day] =
                     [row EXCEPT !.status = status, !.retry_count = @ + 1]]
           \/ UNCHANGED ledger
        /\ JobRaises(w)
        /\ UNCHANGED <<clock, scene, lastFound>>

\* Mutant: the scene count is that of this search alone.
SearchForgetful(w) ==
    /\ worker[w].pc = "search"
    /\ \E items \in Results[worker[w].day] :
          LET row == [worker[w].row EXCEPT !.scene_count = Cardinality(items),
                                           !.search_complete = TRUE]
          IN  /\ ledger' = [ledger EXCEPT ![worker[w].day] = row]
              /\ worker' = [worker EXCEPT ![w].pc = "items", ![w].row = row,
                              ![w].items = items, ![w].todo = items, ![w].failed = 0]
              /\ lastFound' = [lastFound EXCEPT ![worker[w].day] = items]
    /\ UNCHANGED <<clock, jobs, scene, faults>>

\* The search stops at the cap; it was exhaustive unless the provider had more.
Search(w) ==
    LET d == worker[w].day
    IN  /\ worker[w].pc = "search"
        /\ \E items \in Results[d], exhausted \in BOOLEAN :
              LET row == [worker[w].row EXCEPT
                            !.scene_count = Max({worker[w].existing.scene_count, Cardinality(items)}),
                            !.search_complete = exhausted]
              IN  /\ ~exhausted => Cardinality(items) = ItemCap
                  /\ ledger' = [ledger EXCEPT ![d] = row]
                  /\ worker' = [worker EXCEPT ![w].pc = "items", ![w].row = row,
                                  ![w].items = items, ![w].todo = items, ![w].failed = 0]
                  /\ lastFound' = [lastFound EXCEPT ![d] = items]
        /\ UNCHANGED <<clock, jobs, scene, faults>>
-----------------------------------------------------------------------------
(***************************************************************************)
(* _process_items: the scenes of the day, one after the other.  item holds *)
(* the one in hand.                                                        *)
(***************************************************************************)
_scene_is_complete(s) == scene[s] = "published"

NextItem(w) == [worker EXCEPT ![w].pc = "items", ![w].item = {}]

\* Mutant: a complete scene is not skipped.
PickItemAgain(w) ==
    /\ worker[w].pc = "items"
    /\ \E s \in worker[w].todo :
          worker' = [worker EXCEPT ![w].todo = @ \ {s}, ![w].item = {s}, ![w].pc = "register"]
    /\ UNCHANGED <<clock, jobs, ledger, scene, faults, lastFound>>

\* The scene as it is read now decides the path: skip it, only publish it, or
\* register it and go through the pipeline.
PickItem(w) ==
    /\ worker[w].pc = "items"
    /\ \E s \in worker[w].todo :
          worker' = [worker EXCEPT ![w].todo = @ \ {s},
              ![w].item = IF _scene_is_complete(s) THEN {} ELSE {s},
              ![w].pc = IF _scene_is_complete(s) THEN "items"
                        ELSE IF scene[s] = "outputs" THEN "publish" ELSE "register"]
    /\ UNCHANGED <<clock, jobs, ledger, scene, faults, lastFound>>

\* The upsert writes every column: a pgstac_item_id that was there is gone.
RegisterScene(w) ==
    /\ worker[w].pc = "register"
    /\ \E s \in worker[w].item :
          scene' = [scene EXCEPT ![s] = IF @ \in {"outputs", "published"} THEN "outputs"
                                         ELSE "registered"]
    /\ worker' = IF worker[w].job.mode = "full_pipeline"
                 THEN [worker EXCEPT ![w].pc = "process"] ELSE NextItem(w)
    /\ UNCHANGED <<clock, jobs, ledger, faults, lastFound>>

\* _process_scene up to its last raster row.
WriteOutputs(w) ==
    /\ worker[w].pc = "process"
    /\ \E s \in worker[w].item :
          scene' = [scene EXCEPT ![s] = IF @ = "published" THEN @ ELSE "outputs"]
    /\ worker' = [worker EXCEPT ![w].pc = "publish"]
    /\ UNCHANGED <<clock, jobs, ledger, faults, lastFound>>

PublishScene(w) ==
    /\ worker[w].pc = "publish"
    /\ \E s \in worker[w].item : scene' = [scene EXCEPT ![s] = "published"]
    /\ worker' = NextItem(w)
    /\ UNCHANGED <<clock, jobs, ledger, faults, lastFound>>

\* Whatever raises while a scene is processed is counted, and the next scene
\* is taken.
ItemRaises(w) ==
    /\ worker[w].pc \in {"register", "process", "publish"}
    /\ Fault("item")
    /\ worker' = [NextItem(w) EXCEPT ![w].failed = @ + 1]
    /\ UNCHANGED <<clock, jobs, ledger, scene, lastFound>>

\* Mutant: a scene counts as processed once it is registered.
ClosedRowOfRegistered(w) ==
    LET now       == worker[w]
        processed == Cardinality({s \in now.items : scene[s] # "absent"})
    IN  [now.row EXCEPT !.processed_count = processed,
                        !.status = IF now.failed = 0 /\ processed >= now.row.scene_count
                                   THEN "complete" ELSE "partial"]

\* The row after its scenes have been through.
ClosedRow(w) ==
    LET now       == worker[w]
        processed == Max({now.existing.processed_count,
                          Cardinality({s \in now.items : _scene_is_complete(s)})})
        complete  == /\ now.row.search_complete
                     /\ now.failed = 0
                     /\ processed >= now.row.scene_count
                     /\ now.job.mode = "full_pipeline" \/ now.items = {}
    IN  [now.row EXCEPT !.processed_count = processed,
                        !.status = IF complete THEN "complete" ELSE "partial",
                        !.retry_count = @ + (IF now.failed > 0 THEN 1 ELSE 0)]

CloseDay(w) ==
    /\ worker[w].pc = "items"
    /\ worker[w].todo = {}
    /\ ledger' = [ledger EXCEPT ![worker[w].day] = ClosedRow(w)]
    /\ worker' = [worker EXCEPT ![w] =
           [IdleWorker EXCEPT !.pc = "day", !.job = worker[w].job, !.day = worker[w].day + 1]]
    /\ UNCHANGED <<clock, jobs, scene, faults, lastFound>>

FinishJob(w) ==
    /\ worker[w].pc = "day"
    /\ worker[w].day > worker[w].job.end
    /\ jobs' = [jobs EXCEPT ![worker[w].job] = "completed"]
    /\ worker' = [worker EXCEPT ![w] = IdleWorker]
    /\ UNCHANGED <<clock, ledger, scene, faults, lastFound>>

\* The worker is lost in a job; the task is delivered again and the job starts
\* over at the first day of its window.
WorkerLost(w) ==
    /\ worker[w].pc # "idle"
    /\ Fault("crash")
    /\ jobs' = [jobs EXCEPT ![worker[w].job] = "queued"]
    /\ worker' = [worker EXCEPT ![w] = IdleWorker]
    /\ UNCHANGED <<clock, ledger, scene, lastFound>>

Next ==
    \/ AdvanceClock
    \/ scheduled_bangalore_preload
    \/ ManualBackfill
    \/ \E w \in Workers :
          \/ TakeJob(w)
          \/ BeginDay(w)
          \/ SearchRaises(w)
          \/ Search(w)
          \/ PickItem(w)
          \/ RegisterScene(w)
          \/ WriteOutputs(w)
          \/ PublishScene(w)
          \/ ItemRaises(w)
          \/ CloseDay(w)
          \/ FinishJob(w)
          \/ WorkerLost(w)

Spec == Init /\ [][Next]_vars
-----------------------------------------------------------------------------
WorkerRecord ==
    [pc : {"idle", "day", "search", "items", "register", "process", "publish"},
     job : Windows \cup {NoJob}, day : 0..(LastDay + 1), existing : LedgerRow, row : LedgerRow,
     items : SUBSET Scenes, todo : SUBSET Scenes, item : SUBSET Scenes, failed : Nat]

\* Every variable keeps its type; a worker that is not idle is at a day of its
\* job's window, or just past it.
TypeOK ==
    /\ clock \in Days
    /\ jobs \in [Windows -> {"none", "queued", "running", "completed", "failed"}]
    /\ ledger \in [Days -> LedgerRow \cup {NoRow}]
    /\ scene \in [Scenes -> SceneState]
    /\ worker \in [Workers -> WorkerRecord]
    /\ faults \in [{"item", "search", "crash"} -> 0..MaxFaults]
    /\ lastFound \in [Days -> SUBSET Scenes]
    /\ \A w \in Workers : worker[w].pc # "idle" =>
          /\ worker[w].job \in Windows
          /\ worker[w].day \in worker[w].job.start..(worker[w].job.end + 1)
          /\ worker[w].pc # "day" => worker[w].day <= worker[w].job.end

HasStatus(d, statuses) == ledger[d] # NoRow /\ ledger[d].status \in statuses

\* A day the ledger calls complete is served: every scene that its latest
\* search returned has all its rasters and is published.  The ledger decides
\* by comparing counts of two different runs (processed_count, scene_count).
CompleteDayIsPublished ==
    \A d \in Days : HasStatus(d, {"complete"}) => \A s \in lastFound[d] : _scene_is_complete(s)

\* A day is not closed over a scene it knows: no scene that was registered for
\* a complete day is still unpublished.  The comment in _execute_provider_day
\* asks for it: a later pass "must never erase an acquisition that was
\* registered by an earlier exhaustive search".
CompleteDayForgetsNothing ==
    \A d \in Days : HasStatus(d, {"complete"}) =>
        \A s \in UNION Results[d] : scene[s] # "absent" => _scene_is_complete(s)

\* What the comment's rule (the greater of the old and the new count) does
\* achieve: it holds while no search has raised and no worker was lost.
QuietDayForgetsNothing ==
    faults.search = 0 /\ faults.crash = 0 => CompleteDayForgetsNothing

\* A scene that is published stays published: a repeated, redelivered or
\* manual run skips it and does not register it anew.
PublishedStaysPublished ==
    [][\A s \in Scenes : _scene_is_complete(s) => scene'[s] = "published"]_vars

\* A scheduled run that completes leaves no day behind, however many runs were
\* missed, failed or were lost before it: every day of the seed window, and
\* every older day the ledger knows, has been closed by a run that got to the
\* end of it, but for the days of a manual run that has failed or is not
\* through. A window that is also asked for by hand is not a scheduled one.
CompletedRunLeavesNoGap ==
    [][\A k \in Windows \ ManualRequests : jobs[k] = "running" /\ jobs'[k] = "completed" =>
          \A d \in 1..k.end : ledger[d] # NoRow \/ d > k.end - SeedDays =>
              \/ HasStatus(d, {"complete", "partial"})
              \/ \E m \in ManualRequests : d \in m.start..m.end /\ jobs[m] \in {"queued", "failed"}]_vars

\* The retry count of a day never goes back, although every run writes the row
\* anew from zero.
RetriesNeverForgotten ==
    [][\A d \in Days : ledger[d] # NoRow => ledger'[d].retry_count >= ledger[d].retry_count]_vars

=============================================================================
