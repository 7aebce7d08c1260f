---------------------------- MODULE SourceScheduler ----------------------------
(***************************************************************************)
(* Who starts backfill jobs, and when: the beat tasks of the maintenance   *)
(* worker, the operator's command line and the API.  The ResourceSat task  *)
(* plans every source of the registry and runs each plan through its gates *)
(* and a source/AOI lock (scheduler/planner.py, orchestrator.py, locks.py);*)
(* the Sentinel-2 and Landsat tasks first look for an active job; the      *)
(* EOS-04 and NISAR tasks and the API only rely on the idempotency key.    *)
(*                                                                         *)
(* Every source has one configured AOI, so a source stands for the pair.   *)
(* create_or_get and the dispatch are one step here: their races are in    *)
(* BackfillDelivery.                                                       *)
(***************************************************************************)
EXTENDS Integers, FiniteSets

CONSTANTS Maintenance,      \* processes of the maintenance queue
          Operators,        \* processes of the ops command line
          Workers,          \* processes of the heavy-cpu queue
          ResourceSat,      \* sources with a ResourceSat profile
          Liss3,            \* the one with a task of its own
          Checked,          \* sources whose beat task calls has_active_backfill
          Direct,           \* sources whose beat task just starts a job
          Registry,         \* sources of ingestion_source_registry
          Scheduled,        \* sources whose lifecycle and schedule are "scheduled"
          CheckedTicks, DirectTicks,  \* which of their beat ticks happen
          WindowDays, RefreshDays,
          CliRequests,      \* windows given to the schedule-source command
          ApiRequests,      \* keys of POST /sync requests
          Nobody, NoPlan, NoKey,
          LastDay,          \* bound: the calendar ends here
          MaxFaults         \* bound: failed dispatches and jobs, lost processes

Sources == ResourceSat \cup Checked \cup Direct

Dispatchers == Maintenance \cup Operators

Days == 1..LastDay

Key == [source : Sources, start : Int, end : Days, mode : {"metadata_only", "full_pipeline"}]

Plan == [source : Sources, start : Int, end : Days, due : BOOLEAN, dry_run : BOOLEAN]

ASSUME SchedulerAssumption ==
    /\ Maintenance \cap Operators = {}
    /\ Nobody \notin Dispatchers
    /\ Liss3 \in ResourceSat /\ Registry \subseteq Sources /\ ResourceSat \subseteq Registry
    /\ Scheduled \subseteq Registry
    /\ CheckedTicks \subseteq Checked \X Days /\ DirectTicks \subseteq Direct \X Days
    /\ WindowDays \in [Sources -> Nat] /\ RefreshDays \in [Registry -> Nat]
    /\ CliRequests \subseteq Plan /\ \A p \in CliRequests : p.due /\ p.source \in ResourceSat
    /\ ApiRequests \subseteq Key
    /\ NoPlan \notin Plan /\ NoKey \notin Key
    /\ LastDay \in Nat \ {0} /\ MaxFaults \in Nat

VARIABLES clock,
          jobs,        \* the latest job of each key that has one
          lock,        \* holder of each advisory lock
          dispatcher,
          worker,
          faults       \* how much of each bound is used

vars == <<clock, jobs, lock, dispatcher, worker, faults>>

\* by: what started the job; at: when it was completed, as far as the
\* planner reads it; runs: how often a job of this key was completed (history).
Row == [status : {"queued", "running", "completed", "failed"},
        by : {"checked", "other"}, at : 0..LastDay, runs : Nat]

IdleDispatcher == [pc |-> "idle", todo |-> {}, plan |-> NoPlan]

IdleWorker == [pc |-> "idle", key |-> NoKey]

Init ==
    /\ clock = 1
    /\ jobs = [k \in {} |-> NoPlan]
    /\ lock = [s \in Registry |-> Nobody]
    /\ dispatcher = [d \in Dispatchers |-> IdleDispatcher]
    /\ worker = [w \in Workers |-> IdleWorker]
    /\ faults = [dispatch |-> 0, job |-> 0, crash |-> 0]

Fault(kind) ==
    /\ faults.dispatch + faults.job + faults.crash < MaxFaults
    /\ faults' = [faults EXCEPT ![kind] = @ + 1]

NextDay ==
    /\ clock < LastDay
    /\ clock' = clock + 1
    /\ UNCHANGED <<jobs, lock, dispatcher, worker, faults>>
-----------------------------------------------------------------------------
(***************************************************************************)
(* Starting a job.                                                         *)
(***************************************************************************)
Put(k, row) == [x \in DOMAIN jobs \cup {k} |-> IF x = k THEN row ELSE jobs[x]]

JobsOf(s) == {k \in DOMAIN jobs : k.source = s}

Unsettled(k) == jobs[k].status \in {"queued", "running"}

has_active_backfill(s) == \E k \in JobsOf(s) : Unsettled(k)

Started(k, status, by) ==
    Put(k, [status |-> status, by |-> by, at |-> 0,
            runs |-> IF k \in DOMAIN jobs THEN jobs[k].runs ELSE 0])

\* Mutant: only an active job is given back, a completed window starts anew.
start_backfill_of_completed(k, by) ==
    jobs' = IF k \in DOMAIN jobs /\ Unsettled(k) THEN jobs ELSE Started(k, "queued", by)

\* A key with an active or a completed job gets that job back.
start_backfill(k, by) ==
    jobs' = IF k \in DOMAIN jobs /\ jobs[k].status # "failed" THEN jobs
            ELSE Started(k, "queued", by)

WindowKey(p) == [source |-> p.source, start |-> p.start, end |-> p.end, mode |-> "full_pipeline"]
-----------------------------------------------------------------------------
(***************************************************************************)
(* The planner and its callers.  A plan is made from the job table as it   *)
(* is now and run later.                                                   *)
(***************************************************************************)
_last_success(s) ==
    {jobs[k].at : k \in {j \in JobsOf(s) : /\ s \in ResourceSat
                                           /\ j.mode = "full_pipeline"
                                           /\ jobs[j].status = "completed"}}

\* Mutant: the window reaches into tomorrow.
PlanOfTomorrow(s, dry) ==
    [source |-> s, start |-> clock - WindowDays[s], end |-> clock + 1, dry_run |-> dry,
     due |-> s \in Scheduled]

_plan_source_aoi(s, dry) ==
    [source |-> s, start |-> clock - WindowDays[s], end |-> clock, dry_run |-> dry,
     due |-> /\ s \in Scheduled
             /\ \A at \in _last_success(s) : clock >= at + RefreshDays[s]]

plan_due_sources(filter, dry) == {_plan_source_aoi(s, dry) : s \in filter}

_run_scheduled_sources(d, filter, dry) ==
    /\ dispatcher[d].pc = "idle"
    /\ dispatcher' = [dispatcher EXCEPT ![d] =
           [IdleDispatcher EXCEPT !.pc = "plans", !.todo = plan_due_sources(filter, dry)]]
    /\ UNCHANGED <<clock, jobs, lock, worker, faults>>

\* The beat task: every source, live.
scheduled_resourcesat_sources(d) == _run_scheduled_sources(d, Registry, FALSE)

\* The task for the LISS-3 source alone, sent by hand.
scheduled_liss3_preload(d) == _run_scheduled_sources(d, {Liss3}, FALSE)

command_schedule_source(d) ==
    /\ dispatcher[d].pc = "idle"
    /\ \E p \in CliRequests :
          dispatcher' = [dispatcher EXCEPT ![d] =
              [IdleDispatcher EXCEPT !.pc = "plans", !.todo = {p}]]
    /\ UNCHANGED <<clock, jobs, lock, worker, faults>>
-----------------------------------------------------------------------------
(***************************************************************************)
(* run_source_job, plan after plan.                                        *)
(***************************************************************************)
\* A manual source runs only dry; its default AOI is always in scope.
_source_gate(p) == p.due /\ (p.source \in Scheduled \/ p.dry_run)

\* A command line process runs one command.
Finished(d) == IF d \in Operators THEN "done" ELSE "idle"

AfterPlan(d, p) ==
    LET rest == dispatcher[d].todo \ {p}
    IN  [dispatcher EXCEPT ![d] =
            [IdleDispatcher EXCEPT !.pc = IF rest = {} THEN Finished(d) ELSE "plans", !.todo = rest]]

BlockPlan(d) ==
    /\ dispatcher[d].pc = "plans"
    /\ \E p \in dispatcher[d].todo :
          /\ ~_source_gate(p) \/ lock[p.source] # Nobody
          /\ dispatcher' = AfterPlan(d, p)
    /\ UNCHANGED <<clock, jobs, lock, worker, faults>>

\* Mutant: the answer of pg_try_advisory_lock is not looked at.
AcquireLockUnchecked(d) ==
    /\ dispatcher[d].pc = "plans"
    /\ \E p \in dispatcher[d].todo :
          /\ _source_gate(p)
          /\ lock' = [lock EXCEPT ![p.source] = d]
          /\ dispatcher' = [dispatcher EXCEPT ![d].pc = "locked", ![d].plan = p]
    /\ UNCHANGED <<clock, jobs, worker, faults>>

AcquireLock(d) ==
    /\ dispatcher[d].pc = "plans"
    /\ \E p \in dispatcher[d].todo :
          /\ _source_gate(p)
          /\ lock[p.source] = Nobody
          /\ lock' = [lock EXCEPT ![p.source] = d]
          /\ dispatcher' = [dispatcher EXCEPT ![d].pc = "locked", ![d].plan = p]
    /\ UNCHANGED <<clock, jobs, worker, faults>>

\* A dry run stops here.  A source without a ResourceSat profile makes
\* start_backfill raise before it touches the job table.
DispatchPlan(d) ==
    LET p == dispatcher[d].plan
    IN  /\ dispatcher[d].pc = "locked"
        /\ IF p.dry_run \/ p.source \notin ResourceSat
           THEN UNCHANGED jobs
           ELSE start_backfill(WindowKey(p), "other")
        /\ dispatcher' = [dispatcher EXCEPT ![d].pc = "unlock"]
        /\ UNCHANGED <<clock, lock, worker, faults>>

\* Mutant: the failed dispatch leaves the block without the unlock.
DispatchRaisesLocked(d) ==
    /\ dispatcher[d].pc = "locked"
    /\ Fault("dispatch")
    /\ dispatcher' = AfterPlan(d, dispatcher[d].plan)
    /\ UNCHANGED <<clock, jobs, lock, worker>>

\* The runtime is not approved, the disk is full, the database or the broker
\* does not answer: the plan fails, with no row or with a failed one, and the
\* lock is given back like after a dispatch.
DispatchRaises(d) ==
    LET p == dispatcher[d].plan
        k == WindowKey(p)
    IN  /\ dispatcher[d].pc = "locked"
        /\ ~p.dry_run
        /\ Fault("dispatch")
        /\ \/ UNCHANGED jobs
           \/ /\ p.source \in ResourceSat
              /\ k \in DOMAIN jobs => jobs[k].status = "failed"
              /\ jobs' = Started(k, "failed", "other")
        /\ dispatcher' = [dispatcher EXCEPT ![d].pc = "unlock"]
        /\ UNCHANGED <<clock, lock, worker>>

ReleaseLock(d) ==
    LET p == dispatcher[d].plan
    IN  /\ dispatcher[d].pc = "unlock"
        /\ lock' = [lock EXCEPT ![p.source] = Nobody]
        /\ dispatcher' = AfterPlan(d, p)
        /\ UNCHANGED <<clock, jobs, worker, faults>>

\* The locks of a process belong to its database session.
DispatcherLost(d) ==
    /\ dispatcher[d].pc \notin {"idle", "done"}
    /\ Fault("crash")
    /\ lock' = [s \in Registry |-> IF lock[s] = d THEN Nobody ELSE lock[s]]
    /\ dispatcher' = [dispatcher EXCEPT ![d] = [IdleDispatcher EXCEPT !.pc = Finished(d)]]
    /\ UNCHANGED <<clock, jobs, worker>>
-----------------------------------------------------------------------------
(***************************************************************************)
(* The other beat tasks and the API.                                       *)
(***************************************************************************)
PreloadWindow(s) == [source |-> s, start |-> clock - WindowDays[s], end |-> clock,
                     due |-> TRUE, dry_run |-> FALSE]

Due(ticks) == {s \in Sources : <<s, clock>> \in ticks}

\* Mutant: the task starts its job without a look at the active ones.
CheckActiveNever(d) ==
    /\ dispatcher[d].pc = "idle"
    /\ \E s \in Due(CheckedTicks) :
          dispatcher' = [dispatcher EXCEPT ![d].pc = "start", ![d].plan = PreloadWindow(s)]
    /\ UNCHANGED <<clock, jobs, lock, worker, faults>>

\* has_active_backfill is read first, the job is started in a later step.
CheckActive(d) ==
    /\ dispatcher[d].pc = "idle"
    /\ \E s \in Due(CheckedTicks) :
          /\ ~has_active_backfill(s)
          /\ dispatcher' = [dispatcher EXCEPT ![d].pc = "start", ![d].plan = PreloadWindow(s)]
    /\ UNCHANGED <<clock, jobs, lock, worker, faults>>

StartChecked(d) ==
    /\ dispatcher[d].pc = "start"
    /\ start_backfill(WindowKey(dispatcher[d].plan), "checked")
    /\ dispatcher' = [dispatcher EXCEPT ![d] = IdleDispatcher]
    /\ UNCHANGED <<clock, lock, worker, faults>>

StartDirect(d) ==
    /\ dispatcher[d].pc = "idle"
    /\ \E s \in Due(DirectTicks) : start_backfill(WindowKey(PreloadWindow(s)), "other")
    /\ UNCHANGED <<clock, lock, dispatcher, worker, faults>>

sync ==
    /\ \E k \in ApiRequests : start_backfill(k, "other")
    /\ UNCHANGED <<clock, lock, dispatcher, worker, faults>>
-----------------------------------------------------------------------------
(***************************************************************************)
(* Execution, as far as the scheduler sees it.                             *)
(***************************************************************************)
TakeJob(w) ==
    /\ worker[w].pc = "idle"
    /\ \E k \in DOMAIN jobs :
          /\ jobs[k].status = "queued"
          /\ jobs' = [jobs EXCEPT ![k].status = "running"]
          /\ worker' = [worker EXCEPT ![w] = [pc |-> "running", key |-> k]]
    /\ UNCHANGED <<clock, lock, dispatcher, faults>>

CompleteJob(w) ==
    /\ worker[w].pc = "running"
    /\ jobs' = [jobs EXCEPT ![worker[w].key] =
           [status |-> "completed", by |-> @.by,
            at |-> IF worker[w].key.source \in ResourceSat THEN clock ELSE 0,
            runs |-> @.runs + 1]]
    /\ worker' = [worker EXCEPT ![w].pc = "settled"]
    /\ UNCHANGED <<clock, lock, dispatcher, faults>>

FailJob(w) ==
    /\ worker[w].pc = "running"
    /\ Fault("job")
    /\ jobs' = [jobs EXCEPT ![worker[w].key].status = "failed"]
    /\ worker' = [worker EXCEPT ![w].pc = "settled"]
    /\ UNCHANGED <<clock, lock, dispatcher>>

Ack(w) ==
    /\ worker[w].pc = "settled"
    /\ worker' = [worker EXCEPT ![w] = IdleWorker]
    /\ UNCHANGED <<clock, jobs, lock, dispatcher, faults>>

\* The message comes back and recover_worker_lost queues the job, a settled
\* one too, unless its key has a newer active job by then: a settled row that
\* was put back to queued in between stands for both.
WorkerLost(w) ==
    LET k == worker[w].key
    IN  /\ worker[w].pc # "idle"
        /\ Fault("crash")
        /\ jobs' = IF worker[w].pc = "settled" /\ Unsettled(k) THEN jobs
                   ELSE [jobs EXCEPT ![k].status = "queued"]
        /\ worker' = [worker EXCEPT ![w] = IdleWorker]
        /\ UNCHANGED <<clock, lock, dispatcher>>

Next ==
    \/ NextDay
    \/ sync
    \/ \E d \in Maintenance :
          \/ scheduled_resourcesat_sources(d)
          \/ scheduled_liss3_preload(d)
          \/ CheckActive(d)
          \/ StartChecked(d)
          \/ StartDirect(d)
    \/ \E d \in Operators : command_schedule_source(d)
    \/ \E d \in Dispatchers :
          \/ BlockPlan(d)
          \/ AcquireLock(d)
          \/ DispatchPlan(d)
          \/ DispatchRaises(d)
          \/ ReleaseLock(d)
          \/ DispatcherLost(d)
    \/ \E w \in Workers :
          \/ TakeJob(w)
          \/ CompleteJob(w)
          \/ FailJob(w)
          \/ Ack(w)
          \/ WorkerLost(w)

Spec == Init /\ [][Next]_vars

\* Beat fires for ever; a task and a job that have begun go on.
Fairness ==
    /\ \A d \in Maintenance : SF_vars(scheduled_resourcesat_sources(d))
    /\ \A d \in Dispatchers :
          WF_vars(BlockPlan(d) \/ AcquireLock(d) \/ DispatchPlan(d) \/ StartChecked(d) \/ ReleaseLock(d))
    /\ \A w \in Workers : WF_vars(TakeJob(w) \/ CompleteJob(w) \/ Ack(w))

FairSpec == Spec /\ Fairness
-----------------------------------------------------------------------------
DispatcherRecord ==
    [pc : {"idle", "plans", "locked", "unlock", "start", "done"},
     todo : SUBSET Plan, plan : Plan \cup {NoPlan}]

\* Every variable keeps its type; a busy worker names a job of the table.
TypeOK ==
    /\ clock \in Days
    /\ DOMAIN jobs \subseteq Key /\ \A k \in DOMAIN jobs : jobs[k] \in Row
    /\ lock \in [Registry -> Dispatchers \cup {Nobody}]
    /\ dispatcher \in [Dispatchers -> DispatcherRecord]
    /\ worker \in [Workers -> [pc : {"idle", "running", "settled"}, key : Key \cup {NoKey}]]
    /\ \A w \in Workers : worker[w].pc # "idle" => worker[w].key \in DOMAIN jobs
    /\ faults \in [{"dispatch", "job", "crash"} -> 0..MaxFaults]

\* The lock of a source is held by exactly the dispatcher that is between its
\* gates and the end of its dispatch, whatever raises or is lost in there: no
\* second one is in there, and none is left behind.
LockMatchesHolder ==
    \A s \in Registry, d \in Dispatchers :
        (lock[s] = d) <=> (dispatcher[d].pc \in {"locked", "unlock"} /\ dispatcher[d].plan.source = s)

\* A window is processed to its end once, however many ticks, commands and
\* requests planned it before its job was there; only a worker lost after the
\* job was completed can make it run again.
WindowRunsOnce == \A k \in DOMAIN jobs : jobs[k].runs <= 1 + faults.crash

\* A beat task that looks for active jobs does not pile its own jobs up, day
\* after day, on one that is slow: the only way to a second one is a failed job
\* that a lost worker brings back.
BeatNeverPilesUp ==
    \A s \in Checked :
        Cardinality({k \in JobsOf(s) : Unsettled(k) /\ jobs[k].by = "checked"}) <= 1 + faults.crash

\* Every scheduled ResourceSat source has a successful full run in the end,
\* after any failures, lost workers and dispatchers, and blocked ticks.
EveryScheduledSourceSucceeds ==
    \A s \in Scheduled \cap ResourceSat : <>(_last_success(s) # {})

\* "Source/AOI locks: automatic and manual jobs cannot process the same
\* source/AOI concurrently."
SourceAoiExclusive ==
    \A v, w \in Workers :
        v # w /\ worker[v].pc = "running" /\ worker[w].pc = "running" =>
            worker[v].key.source # worker[w].key.source
=============================================================================
