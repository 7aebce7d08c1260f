------------------------------ MODULE JobStore ------------------------------
(***************************************************************************)
(* The durable job table, akasha.processing_jobs, as PostgresJobStore uses *)
(* it (src/akasha/jobs/sql_store.py).                                      *)
(*                                                                         *)
(* A row is named after the call of start_backfill that may insert it: the *)
(* row of call r has id r and idempotency key KeyOf[r], and it is "absent" *)
(* until the INSERT commits.  Every mark_* method is one UPDATE, one       *)
(* transaction, and has no condition on the status it overwrites; what     *)
(* protects a key is the partial unique index                              *)
(* uq_processing_jobs_active_idempotency of migration 0001.                *)
(***************************************************************************)
CONSTANTS Calls,      \* calls of start_backfill, by any process
          Keys,       \* idempotency keys
          KeyOf       \* the key each call computes from its request

ASSUME KeyOfAssumption == KeyOf \in [Calls -> Keys]

VARIABLE jobs         \* status of the row of each call

JobStatus == {"absent", "queued", "running", "completed", "failed"}

\* The statuses the partial unique index covers.
Active == {"queued", "running", "completed"}

ActiveJobs(k) == {r \in Calls : KeyOf[r] = k /\ jobs[r] \in Active}

\* Mutant: the predicate of the index leaves out running rows.
IndexWithoutRunning(r) ==
    \A q \in ActiveJobs(KeyOf[r]) \ {r} : jobs[q] = "running"

\* The index accepts that row r gets a covered status.
IndexAdmits(r) == ActiveJobs(KeyOf[r]) \ {r} = {}

UpdateStatus(r, status) == jobs' = [jobs EXCEPT ![r] = status]

\* INSERT ... ON CONFLICT DO NOTHING: the row appears, or the statement
\* returns no row.
InsertRow(r) == ActiveJobs(KeyOf[r]) = {} /\ UpdateStatus(r, "queued")

mark_queued(r)    == IndexAdmits(r) /\ UpdateStatus(r, "queued")
mark_running(r)   == IndexAdmits(r) /\ UpdateStatus(r, "running")
mark_completed(r) == IndexAdmits(r) /\ UpdateStatus(r, "completed")
mark_failed(r)    == UpdateStatus(r, "failed")

JobStoreInit == jobs = [r \in Calls |-> "absent"]

JobStoreTypeOK == jobs \in [Calls -> JobStatus]
=============================================================================
