-------------------------- MODULE BackfillDelivery --------------------------
(***************************************************************************)
(* How a backfill job travels: start_backfill inserts the job row and      *)
(* sends a Celery task; a worker receives the task, repairs what a lost    *)
(* worker left (recover_worker_lost), runs execute_backfill stage by stage *)
(* and settles the row.  Tasks are acknowledged late and rejected when the *)
(* worker is lost (src/akasha/jobs/celery_app.py), so a task can run more  *)
(* than once.                                                              *)
(*                                                                         *)
(* The five ingestion services share this control flow and differ in the   *)
(* points collected in the record Service.                                 *)
(***************************************************************************)
EXTENDS StageStore

CONSTANTS Workers,
          Service,          \* one of the *Backfill records below
          NoJob,
          MaxRedeliveries,  \* bound: deliveries after the first, all jobs
          EarlyRedelivery,  \* the broker's visibility timeout may expire
                            \* while the first worker is still alive
          CallerMayCrash    \* the calling process may die in start_backfill

VARIABLES caller,           \* control state of each call of start_backfill
          task,             \* the Celery message of each job
          worker,           \* what each worker process is doing
          redeliveries

vars == <<jobs, stages, caller, task, worker, redeliveries>>
-----------------------------------------------------------------------------
(***************************************************************************)
(* The services.                                                           *)
(*   pipeline          stages in the order execute_backfill opens them     *)
(*   tryCoversRun      mark_running is inside the try block, after the     *)
(*                     dependency check                                    *)
(*   stageCoversJob    the stage is still in scope when the job is         *)
(*                     completed, and is failed with it                    *)
(*   completedGuard    a job already completed is returned at once         *)
(*   writesSummary     a backfill_runs row is written before the job is    *)
(*                     completed                                           *)
(*   readsDeliveryInfo the task looks for "redelivered" where Celery puts  *)
(*                     it, in request.delivery_info                        *)
(***************************************************************************)
Sentinel2Backfill ==
    [pipeline |-> <<"search">>, tryCoversRun |-> TRUE, stageCoversJob |-> TRUE,
     completedGuard |-> FALSE, writesSummary |-> TRUE, readsDeliveryInfo |-> TRUE]

LandsatBackfill ==
    [pipeline |-> <<"search">>, tryCoversRun |-> TRUE, stageCoversJob |-> TRUE,
     completedGuard |-> FALSE, writesSummary |-> TRUE, readsDeliveryInfo |-> TRUE]

\* Every mode opens all ten stages: the ones past the mode's limit are opened
\* and closed as skipped.
ResourceSatBackfill ==
    [pipeline |-> <<"provider_search", "raw_download", "prepare_scene",
                    "scene_validation", "composite", "composite_validation",
                    "index_generation", "pgstac_registration",
                    "readiness_refresh", "cleanup">>,
     tryCoversRun |-> FALSE, stageCoversJob |-> FALSE,
     completedGuard |-> TRUE, writesSummary |-> FALSE, readsDeliveryInfo |-> TRUE]

\* The stages up to the limit of the mode; the others are not opened.
Eos04Backfill(mode) ==
    LET stageNames == <<"provider_search", "raw_download", "prepare_scene",
                        "scene_validation", "object_storage",
                        "pgstac_registration", "cleanup">>
        limit == CASE mode = "metadata_only" -> 1
                   [] mode = "download_only" -> 2
                   [] mode = "prepare_only"  -> 4
                   [] mode = "full_pipeline" -> 7
    IN  [pipeline |-> SubSeq(stageNames, 1, limit),
         tryCoversRun |-> FALSE, stageCoversJob |-> FALSE,
         completedGuard |-> TRUE, writesSummary |-> FALSE, readsDeliveryInfo |-> TRUE]

\* The same stages and modes; the task asks request.redelivered, which Celery
\* does not set.
NisarBackfill(mode) == [Eos04Backfill(mode) EXCEPT !.readsDeliveryInfo = FALSE]

ASSUME ServiceAssumption ==
    /\ Service.pipeline \in Seq(StageNames)
    /\ Service.pipeline # <<>>
    /\ \A i, j \in DOMAIN Service.pipeline : Service.pipeline[i] = Service.pipeline[j] => i = j
    /\ \A f \in {"tryCoversRun", "stageCoversJob", "completedGuard",
                 "writesSummary", "readsDeliveryInfo"} : Service[f] \in BOOLEAN

ASSUME DeliveryAssumption ==
    /\ NoJob \notin Calls
    /\ MaxRedeliveries \in Nat
    /\ EarlyRedelivery \in BOOLEAN
    /\ CallerMayCrash \in BOOLEAN
-----------------------------------------------------------------------------
CallerPC == {"idle", "insert", "reselect", "send", "undispatched",
             "returned", "raised", "dead"}

WorkerPC == {"idle", "list", "close", "get", "run", "start", "work",
             "complete", "failStage", "failJob", "ack"}

IdleWorker == [pc |-> "idle", job |-> NoJob, at |-> 0, attempt |-> 0, lost |-> {}]

Init ==
    /\ JobStoreInit
    /\ StageStoreInit
    /\ caller = [r \in Calls |-> "idle"]
    /\ task = [r \in Calls |-> [state |-> "none", redelivered |-> FALSE]]
    /\ worker = [w \in Workers |-> IdleWorker]
    /\ redeliveries = 0
-----------------------------------------------------------------------------
(***************************************************************************)
(* start_backfill, called by the API, the beat schedule or the ops CLI.    *)
(* create_or_get is three statements; another process runs between them.   *)
(***************************************************************************)
CallerGoto(r, pc) == caller' = [caller EXCEPT ![r] = pc]

\* SELECT of the active job of the key: found, or go on to the INSERT.
Lookup(r) ==
    /\ caller[r] = "idle"
    /\ CallerGoto(r, IF ActiveJobs(KeyOf[r]) = {} THEN "insert" ELSE "returned")
    /\ UNCHANGED <<jobs, stages, task, worker, redeliveries>>

Insert(r) ==
    /\ caller[r] = "insert"
    /\ \/ InsertRow(r) /\ CallerGoto(r, "send")
       \/ ActiveJobs(KeyOf[r]) # {} /\ CallerGoto(r, "reselect") /\ UNCHANGED jobs
    /\ UNCHANGED <<stages, task, worker, redeliveries>>

\* The second SELECT finds the winner of the race, unless it failed meanwhile.
Reselect(r) ==
    /\ caller[r] = "reselect"
    /\ CallerGoto(r, IF ActiveJobs(KeyOf[r]) = {} THEN "raised" ELSE "returned")
    /\ UNCHANGED <<jobs, stages, task, worker, redeliveries>>

SendTask(r) ==
    /\ caller[r] = "send"
    /\ task' = [task EXCEPT ![r].state = "ready"]
    /\ CallerGoto(r, "returned")
    /\ UNCHANGED <<jobs, stages, worker, redeliveries>>

\* Mutant: the exception of send_task is passed on and the row is left.
SendTaskRaisesUnhandled(r) ==
    /\ caller[r] = "send"
    /\ CallerGoto(r, "raised")
    /\ UNCHANGED <<jobs, stages, task, worker, redeliveries>>

SendTaskRaises(r) ==
    /\ caller[r] = "send"
    /\ CallerGoto(r, "undispatched")
    /\ UNCHANGED <<jobs, stages, task, worker, redeliveries>>

FailUndispatched(r) ==
    /\ caller[r] = "undispatched"
    /\ mark_failed(r)
    /\ CallerGoto(r, "raised")
    /\ UNCHANGED <<stages, task, worker, redeliveries>>

CallerCrash(r) ==
    /\ CallerMayCrash
    /\ caller[r] \in {"insert", "reselect", "send", "undispatched"}
    /\ CallerGoto(r, "dead")
    /\ UNCHANGED <<jobs, stages, task, worker, redeliveries>>

CallerStep(r) ==
    \/ Lookup(r)
    \/ Insert(r)
    \/ Reselect(r)
    \/ SendTask(r)
    \/ SendTaskRaises(r)
    \/ FailUndispatched(r)
-----------------------------------------------------------------------------
(***************************************************************************)
(* The task body, a worker process.                                        *)
(***************************************************************************)
Goto(w, pc) == worker' = [worker EXCEPT ![w].pc = pc]

StageOf(w) == Service.pipeline[worker[w].at]

\* Mutant: task_acks_late is off, the message is acknowledged on receipt.
ReceiveAckedEarly(w, r) ==
    /\ worker[w].pc = "idle"
    /\ task[r].state = "ready"
    /\ task' = [task EXCEPT ![r].state = "none"]
    /\ worker' = [worker EXCEPT ![w] = [IdleWorker EXCEPT !.job = r, !.pc = "get"]]
    /\ UNCHANGED <<jobs, stages, caller, redeliveries>>

Receive(w, r) ==
    /\ worker[w].pc = "idle"
    /\ task[r].state = "ready"
    /\ task' = [task EXCEPT ![r].state = "unacked"]
    /\ worker' = [worker EXCEPT ![w] =
           [IdleWorker EXCEPT !.job = r,
              !.pc = IF task[r].redelivered /\ Service.readsDeliveryInfo
                     THEN "list" ELSE "get"]]
    /\ UNCHANGED <<jobs, stages, caller, redeliveries>>

\* Mutant: recover_worker_lost requeues the job without closing its stages.
ListNoStages(w) ==
    /\ worker[w].pc = "list"
    /\ Goto(w, "close")
    /\ UNCHANGED <<jobs, stages, caller, task, redeliveries>>

\* recover_worker_lost: the attempts that are running now are closed one by
\* one, then the row goes back to queued whatever it is.
ListStages(w) ==
    /\ worker[w].pc = "list"
    /\ worker' = [worker EXCEPT ![w].pc = "close", ![w].lost = list_running(worker[w].job)]
    /\ UNCHANGED <<jobs, stages, caller, task, redeliveries>>

CloseLostStage(w) ==
    /\ worker[w].pc = "close"
    /\ \E s \in worker[w].lost :
          /\ close_stage(worker[w].job, s[1], s[2], "failed")
          /\ worker' = [worker EXCEPT ![w].lost = @ \ {s}]
    /\ UNCHANGED <<jobs, caller, task, redeliveries>>

Requeue(w) ==
    /\ worker[w].pc = "close"
    /\ worker[w].lost = {}
    /\ \/ mark_queued(worker[w].job) /\ Goto(w, "get")
       \/ ~IndexAdmits(worker[w].job) /\ Goto(w, "ack") /\ UNCHANGED jobs
    /\ UNCHANGED <<stages, caller, task, redeliveries>>

GetJob(w) ==
    /\ worker[w].pc = "get"
    /\ Goto(w, IF Service.completedGuard /\ jobs[worker[w].job] = "completed"
               THEN "ack" ELSE "run")
    /\ UNCHANGED <<jobs, stages, caller, task, redeliveries>>

MarkRunning(w) ==
    /\ worker[w].pc = "run"
    /\ \/ /\ mark_running(worker[w].job)
          /\ worker' = [worker EXCEPT ![w].pc = "start", ![w].at = 1]
       \/ /\ ~IndexAdmits(worker[w].job)
          /\ Goto(w, IF Service.tryCoversRun THEN "failJob" ELSE "ack")
          /\ UNCHANGED jobs
    /\ UNCHANGED <<stages, caller, task, redeliveries>>

\* An exception in no stage: the dependency check, the AOI lookup, or what is
\* written between two stages.
RaisesOutsideStage(w) ==
    /\ worker[w].pc = IF Service.tryCoversRun THEN "run" ELSE "start"
    /\ Goto(w, "failJob")
    /\ UNCHANGED <<jobs, stages, caller, task, redeliveries>>

StartStage(w) ==
    /\ worker[w].pc = "start"
    /\ \/ /\ start_stage(worker[w].job, StageOf(w))
          /\ worker' = [worker EXCEPT ![w].pc = "work",
                          ![w].attempt = NextAttempt(worker[w].job, StageOf(w))]
       \/ /\ ~StageFree(worker[w].job, StageOf(w))
          /\ Goto(w, "failJob")
          /\ UNCHANGED stages
    /\ UNCHANGED <<jobs, caller, task, redeliveries>>

\* Mutant: one stage too many.
FinishStagePastEnd(w) ==
    /\ worker[w].pc = "work"
    /\ close_stage(worker[w].job, StageOf(w), worker[w].attempt, "completed")
    /\ worker' = [worker EXCEPT ![w].pc = "start", ![w].at = @ + 1]
    /\ UNCHANGED <<jobs, caller, task, redeliveries>>

FinishStage(w) ==
    /\ worker[w].pc = "work"
    /\ close_stage(worker[w].job, StageOf(w), worker[w].attempt, "completed")
    /\ \/ /\ worker[w].at < Len(Service.pipeline)
          /\ worker' = [worker EXCEPT ![w].pc = "start", ![w].at = @ + 1]
       \/ worker[w].at = Len(Service.pipeline) /\ Goto(w, "complete")
    /\ UNCHANGED <<jobs, caller, task, redeliveries>>

StageRaises(w) ==
    /\ worker[w].pc = "work"
    /\ Goto(w, "failStage")
    /\ UNCHANGED <<jobs, stages, caller, task, redeliveries>>

\* Mutant: the context manager of the stage swallows the exception.
FailStageSuppressed(w) ==
    /\ worker[w].pc = "failStage"
    /\ close_stage(worker[w].job, StageOf(w), worker[w].attempt, "failed")
    /\ worker' = [worker EXCEPT ![w].pc = IF worker[w].at = Len(Service.pipeline)
                                         THEN "complete" ELSE "start",
                               ![w].at = IF @ = Len(Service.pipeline) THEN @ ELSE @ + 1]
    /\ UNCHANGED <<jobs, caller, task, redeliveries>>

FailStage(w) ==
    /\ worker[w].pc = "failStage"
    /\ close_stage(worker[w].job, StageOf(w), worker[w].attempt, "failed")
    /\ Goto(w, "failJob")
    /\ UNCHANGED <<jobs, caller, task, redeliveries>>

CompleteJob(w) ==
    /\ worker[w].pc = "complete"
    /\ mark_completed(worker[w].job)
    /\ Goto(w, "ack")
    /\ UNCHANGED <<stages, caller, task, redeliveries>>

\* The summary row or the index refuses.
CompleteRaises(w) ==
    /\ worker[w].pc = "complete"
    /\ Service.writesSummary \/ ~IndexAdmits(worker[w].job)
    /\ Goto(w, IF Service.stageCoversJob THEN "failStage" ELSE "failJob")
    /\ UNCHANGED <<jobs, stages, caller, task, redeliveries>>

FailJob(w) ==
    /\ worker[w].pc = "failJob"
    /\ mark_failed(worker[w].job)
    /\ Goto(w, "ack")
    /\ UNCHANGED <<stages, caller, task, redeliveries>>

\* The task has returned or raised; Celery acknowledges either.  The
\* acknowledgement names the message, not the delivery.
Ack(w) ==
    /\ worker[w].pc = "ack"
    /\ task' = IF task[worker[w].job].state = "unacked"
               THEN [task EXCEPT ![worker[w].job].state = "none"] ELSE task
    /\ worker' = [worker EXCEPT ![w] = IdleWorker]
    /\ UNCHANGED <<jobs, stages, caller, redeliveries>>

WorkerStep(w) ==
    \/ \E r \in Calls : Receive(w, r)
    \/ ListStages(w)
    \/ CloseLostStage(w)
    \/ Requeue(w)
    \/ GetJob(w)
    \/ MarkRunning(w)
    \/ RaisesOutsideStage(w)
    \/ StartStage(w)
    \/ FinishStage(w)
    \/ StageRaises(w)
    \/ FailStage(w)
    \/ CompleteJob(w)
    \/ CompleteRaises(w)
    \/ FailJob(w)
    \/ Ack(w)
-----------------------------------------------------------------------------
(***************************************************************************)
(* The broker puts a message that is not acknowledged back in its queue    *)
(* and marks it redelivered: when the worker process is lost, or when the  *)
(* message has been out for longer than the visibility timeout.            *)
(***************************************************************************)
\* Mutant: task_reject_on_worker_lost is off, the message goes with its worker.
RedeliverNothing(r) == task' = [task EXCEPT ![r].state = "none"]

Redeliver(r) ==
    IF task[r].state = "unacked"
    THEN task' = [task EXCEPT ![r] = [state |-> "ready", redelivered |-> TRUE]]
    ELSE UNCHANGED task

WorkerLost(w) ==
    /\ worker[w].pc # "idle"
    /\ redeliveries < MaxRedeliveries
    /\ Redeliver(worker[w].job)
    /\ worker' = [worker EXCEPT ![w] = IdleWorker]
    /\ redeliveries' = redeliveries + 1
    /\ UNCHANGED <<jobs, stages, caller>>

VisibilityTimeout(r) ==
    /\ EarlyRedelivery
    /\ task[r].state = "unacked"
    /\ redeliveries < MaxRedeliveries
    /\ Redeliver(r)
    /\ redeliveries' = redeliveries + 1
    /\ UNCHANGED <<jobs, stages, caller, worker>>

\* Nothing left to do: every call has ended, no message is out, every worker
\* waits.
Quiescent ==
    /\ \A r \in Calls : caller[r] \in {"returned", "raised", "dead"} /\ task[r].state = "none"
    /\ \A w \in Workers : worker[w].pc = "idle"
    /\ UNCHANGED vars

Next ==
    \/ \E r \in Calls : CallerStep(r) \/ CallerCrash(r) \/ VisibilityTimeout(r)
    \/ \E w \in Workers : WorkerStep(w) \/ WorkerLost(w)
    \/ Quiescent

Spec == Init /\ [][Next]_vars

\* A process that is alive and can take a step takes one.  Nothing is assumed
\* of crashes and redeliveries.
FairSpec ==
    /\ Spec
    /\ \A r \in Calls : WF_vars(CallerStep(r))
    /\ \A w \in Workers : WF_vars(WorkerStep(w))
-----------------------------------------------------------------------------
\* A worker between mark_running and the statement that settles the job.
Executing(w) == worker[w].pc \in {"start", "work", "complete", "failStage"}

TaskRecord == [state : {"none", "ready", "unacked"}, redelivered : BOOLEAN]

WorkerRecord ==
    [pc : WorkerPC, job : Calls \cup {NoJob}, at : 0..Len(Service.pipeline),
     attempt : Nat, lost : SUBSET (StageNames \X (Nat \ {0}))]

\* Every variable keeps its type; a busy worker names a job, and from its
\* first stage on the position in the pipeline it works at.
TypeOK ==
    /\ JobStoreTypeOK
    /\ StageStoreTypeOK
    /\ caller \in [Calls -> CallerPC]
    /\ task \in [Calls -> TaskRecord]
    /\ worker \in [Workers -> WorkerRecord]
    /\ redeliveries \in 0..MaxRedeliveries
    /\ \A w \in Workers :
          /\ worker[w].pc # "idle" => worker[w].job \in Calls
          /\ Executing(w) => worker[w].at > 0

Settled(r) == jobs[r] \in {"absent", "completed", "failed"}

\* The partial unique index, seen from outside: a key has at most one active
\* job.
OneActivePerKey ==
    \A q, r \in Calls :
        jobs[q] \in Active /\ jobs[r] \in Active /\ KeyOf[q] = KeyOf[r] => q = r

\* Two workers never execute jobs of one idempotency key at the same time:
\* what create_or_get, the unique index and late acknowledgement are for.
\* (A redelivery that comes while the first worker lives breaks it.)
NoConcurrentSameKey ==
    \A v, w \in Workers :
        v # w /\ Executing(v) /\ Executing(w)
            => KeyOf[worker[v].job] # KeyOf[worker[w].job]

\* Why it holds while a message is redelivered only after its worker is gone:
\* a worker's message is unacknowledged, no two workers hold the same one, a
\* call that has not sent its message has none out, and the job a worker
\* executes is running.
EachTaskHasOneWorker ==
    /\ \A w \in Workers :
          /\ worker[w].pc # "idle" => task[worker[w].job].state = "unacked"
          /\ Executing(w) => jobs[worker[w].job] = "running"
    /\ \A v, w \in Workers :
          v # w /\ worker[v].pc # "idle" /\ worker[w].pc # "idle"
              => worker[v].job # worker[w].job
    /\ \A r \in Calls :
          caller[r] \in {"idle", "insert", "reselect", "send", "undispatched"}
              => task[r].state = "none"

\* A job that has ended leaves no stage running, after any number of lost
\* workers: recover_worker_lost closes what they left before the job goes on.
SettledJobHasNoRunningStage ==
    \A r \in Calls : Settled(r) => \A n \in StageNames : RunningAttempts(r, n) = {}

\* A completed job has run its whole pipeline in its last delivery: the last
\* attempt of every stage is completed, although earlier ones may have failed.
CompletedJobRanPipeline ==
    \A r \in Calls : jobs[r] = "completed" =>
        \A i \in DOMAIN Service.pipeline :
            LET attempts == stages[r][Service.pipeline[i]]
            IN  attempts # <<>> /\ attempts[Len(attempts)] = "completed"

\* A job that has not ended is in somebody's hands: its message is out, or
\* start_backfill is about to send it or to fail the row.  Nothing else in the
\* system looks for jobs left behind.
UnsettledJobHasCarrier ==
    \A r \in Calls :
        ~Settled(r) => task[r].state # "none" \/ caller[r] \in {"send", "undispatched"}

\* The abstract view of the job table: the job that holds each key.
Holder(k) == IF ActiveJobs(k) = {} THEN NoJob ELSE CHOOSE r \in ActiveJobs(k) : TRUE

Lease == INSTANCE KeyLease WITH holder <- [k \in Keys |-> Holder(k)], Free <- NoJob

\* The system implements the key lease: a failed job whose key has gone to a
\* later request never becomes active again, whatever a late or duplicated
\* delivery of it tries, and no step moves a key from one job to another.
ImplementsKeyLease == Lease!Spec

\* Every job settles for good once redeliveries have stopped: no row stays
\* queued or running for ever (phase-1 plan: "Stuck-job reconciliation and safe
\* requeue behavior").
EveryJobSettles == \A r \in Calls : <>[]Settled(r)
=============================================================================
