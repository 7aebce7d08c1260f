----------------------------- MODULE StageStore -----------------------------
(***************************************************************************)
(* The stage attempts of the jobs, akasha.processing_job_stages, as        *)
(* PostgresStageStore uses it (src/akasha/jobs/stage_store.py).            *)
(*                                                                         *)
(* stages[j][n] is the sequence of attempts of stage n of job j: attempt   *)
(* number a is its a-th element, because start_stage numbers an attempt    *)
(* MAX(attempt) + 1 and UNIQUE (job_id, stage_name, attempt) keeps the     *)
(* numbers apart.  The index uq_processing_job_stages_running rejects a    *)
(* second running attempt of a stage.                                      *)
(***************************************************************************)
EXTENDS Naturals, Sequences, JobStore

CONSTANT StageNames   \* the names a service gives its stages

VARIABLE stages       \* the attempts of each stage of each job

\* The statuses the code writes; the schema allows four more.
StageStatus == {"running", "completed", "failed"}

RunningAttempts(j, n) == {a \in DOMAIN stages[j][n] : stages[j][n][a] = "running"}

\* Every running attempt of a job, as list_for_job returns them.
list_running(j) == UNION {{<<n, a>> : a \in RunningAttempts(j, n)} : n \in StageNames}

\* The running index accepts one more attempt.
StageFree(j, n) == RunningAttempts(j, n) = {}

start_stage(j, n) ==
    /\ StageFree(j, n)
    /\ stages' = [stages EXCEPT ![j][n] = Append(@, "running")]

NextAttempt(j, n) == Len(stages[j][n]) + 1

\* mark_completed and mark_failed look at the attempt's id only, never at its
\* status.
close_stage(j, n, a, status) == stages' = [stages EXCEPT ![j][n][a] = status]

StageStoreInit == stages = [j \in Calls |-> [n \in StageNames |-> <<>>]]

StageStoreTypeOK == stages \in [Calls -> [StageNames -> Seq(StageStatus)]]
=============================================================================
