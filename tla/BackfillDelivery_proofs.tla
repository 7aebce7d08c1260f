----------------------- MODULE BackfillDelivery_proofs -----------------------
(***************************************************************************)
(* Proofs about BackfillDelivery, for any sets of calls, keys and workers, *)
(* any service record and any number of redeliveries.                      *)
(***************************************************************************)
EXTENDS BackfillDelivery, SequenceTheorems, TLAPS

\* The fields of Service that are only tested.
LEMMA PipelineFacts ==
    /\ Service.pipeline \in Seq(StageNames)
    /\ Len(Service.pipeline) \in Nat \ {0}
    /\ \A i \in 1..Len(Service.pipeline) : Service.pipeline[i] \in StageNames
  BY ServiceAssumption

\* Overwriting the status of one attempt keeps the table's type.
LEMMA CloseStageType ==
    ASSUME StageStoreTypeOK,
           NEW j \in Calls, NEW n \in StageNames, NEW a, NEW s \in StageStatus,
           close_stage(j, n, a, s)
    PROVE  StageStoreTypeOK'
  <1>1. stages[j][n] \in Seq(StageStatus)
    BY DEF StageStoreTypeOK
  <1>2. [stages[j][n] EXCEPT ![a] = s] \in Seq(StageStatus)
    <2>1. Len(stages[j][n]) \in Nat /\ stages[j][n] \in [1..Len(stages[j][n]) -> StageStatus]
      BY <1>1
    <2>2. [stages[j][n] EXCEPT ![a] = s] \in [1..Len(stages[j][n]) -> StageStatus]
      BY <2>1
    <2> QED  BY <2>1, <2>2, SeqDef
  <1>3. [stages[j] EXCEPT ![n] = [stages[j][n] EXCEPT ![a] = s]] \in [StageNames -> Seq(StageStatus)]
    BY <1>2 DEF StageStoreTypeOK
  <1> QED  BY <1>3 DEF StageStoreTypeOK, close_stage

\* Opening an attempt keeps the table's type.
LEMMA StartStageType ==
    ASSUME StageStoreTypeOK, NEW j \in Calls, NEW n \in StageNames, start_stage(j, n)
    PROVE  StageStoreTypeOK' /\ NextAttempt(j, n) \in Nat
  <1>1. stages[j][n] \in Seq(StageStatus) /\ "running" \in StageStatus
    BY DEF StageStoreTypeOK, StageStatus
  <1>2. Append(stages[j][n], "running") \in Seq(StageStatus) /\ Len(stages[j][n]) \in Nat
    BY <1>1
  <1>3. [stages[j] EXCEPT ![n] = Append(stages[j][n], "running")] \in [StageNames -> Seq(StageStatus)]
    BY <1>2 DEF StageStoreTypeOK
  <1> QED  BY <1>2, <1>3 DEF StageStoreTypeOK, start_stage, NextAttempt

\* The listed attempts are pairs of a stage name and an attempt number.
LEMMA ListRunningType ==
    ASSUME StageStoreTypeOK, NEW j \in Calls
    PROVE  list_running(j) \in SUBSET (StageNames \X (Nat \ {0}))
  <1>1. ASSUME NEW n \in StageNames, NEW a \in RunningAttempts(j, n)
        PROVE  a \in Nat \ {0}
    <2>1. stages[j][n] \in Seq(StageStatus)
      BY DEF StageStoreTypeOK
    <2> QED  BY <2>1 DEF RunningAttempts
  <1> QED  BY <1>1 DEF list_running
-----------------------------------------------------------------------------
\* What is left of TypeOK once the two tables are set aside.
ControlTypeOK ==
    /\ caller \in [Calls -> CallerPC]
    /\ task \in [Calls -> TaskRecord]
    /\ worker \in [Workers -> WorkerRecord]
    /\ redeliveries \in 0..MaxRedeliveries
    /\ \A w \in Workers :
          /\ worker[w].pc # "idle" => worker[w].job \in Calls
          /\ Executing(w) => worker[w].at > 0

\* A worker's control state may change to any but "idle", with the rest kept.
LEMMA GotoType ==
    ASSUME ControlTypeOK, NEW w \in Workers, NEW pc \in WorkerPC,
           worker[w].pc # "idle",
           pc \in {"start", "work", "complete", "failStage"} => worker[w].at > 0,
           Goto(w, pc), UNCHANGED <<caller, task, redeliveries>>
    PROVE  ControlTypeOK'
  BY ZenonT(60) DEF ControlTypeOK, Goto, WorkerRecord, Executing

\* A worker may become any record of the right type.
LEMMA WorkerType ==
    ASSUME ControlTypeOK, NEW w \in Workers, NEW rec \in WorkerRecord,
           rec.pc # "idle" => rec.job \in Calls,
           rec.pc \in {"start", "work", "complete", "failStage"} => rec.at > 0,
           worker' = [worker EXCEPT ![w] = rec],
           UNCHANGED caller,
           task' \in [Calls -> TaskRecord],
           redeliveries' \in 0..MaxRedeliveries
    PROVE  ControlTypeOK'
  BY DEF ControlTypeOK, Executing

\* A worker starts as a record of the right type, idle.
LEMMA IdleWorkerType == IdleWorker \in WorkerRecord /\ IdleWorker.pc = "idle"
  BY PipelineFacts DEF IdleWorker, WorkerRecord, WorkerPC

\* Putting a message back keeps the type of the messages.
LEMMA RedeliverType ==
    ASSUME ControlTypeOK, NEW r \in Calls, Redeliver(r)
    PROVE  task' \in [Calls -> TaskRecord]
  <1>1. [state |-> "ready", redelivered |-> TRUE] \in TaskRecord
    BY DEF TaskRecord
  <1>2. task \in [Calls -> TaskRecord]
    BY DEF ControlTypeOK
  <1>3. CASE task[r].state = "unacked"
    BY <1>1, <1>2, <1>3 DEF Redeliver
  <1>4. CASE task[r].state # "unacked"
    BY <1>2, <1>4 DEF Redeliver
  <1> QED  BY <1>3, <1>4

\* The stage a worker works at is a stage of the service.
LEMMA StageOfType ==
    ASSUME ControlTypeOK, NEW w \in Workers, Executing(w)
    PROVE  /\ worker[w].job \in Calls
           /\ worker[w].at \in 1..Len(Service.pipeline)
           /\ StageOf(w) \in StageNames
  <1>1. worker[w] \in WorkerRecord /\ worker[w].pc # "idle" /\ worker[w].at > 0
    BY DEF ControlTypeOK, Executing
  <1>2. worker[w].at \in 1..Len(Service.pipeline)
    BY <1>1, PipelineFacts DEF WorkerRecord
  <1> QED  BY <1>1, <1>2, PipelineFacts DEF ControlTypeOK, StageOf

\* Every variable keeps its type in every run of the delivery protocol.
THEOREM Typing == Spec => []TypeOK
<1>0. TypeOK <=> JobStoreTypeOK /\ StageStoreTypeOK /\ ControlTypeOK
  BY DEF TypeOK, ControlTypeOK
<1>1. Init => TypeOK
  <2> SUFFICES ASSUME Init PROVE TypeOK
    OBVIOUS
  <2>1. JobStoreTypeOK
    BY DEF Init, JobStoreInit, JobStoreTypeOK, JobStatus
  <2>2. StageStoreTypeOK
    BY EmptySeq DEF Init, StageStoreInit, StageStoreTypeOK
  <2>3. ControlTypeOK
    BY DeliveryAssumption, PipelineFacts
       DEF Init, ControlTypeOK, CallerPC, TaskRecord, WorkerRecord, WorkerPC, IdleWorker, Executing
  <2> QED  BY <1>0, <2>1, <2>2, <2>3
<1>2. TypeOK /\ [Next]_vars => TypeOK'
  <2> SUFFICES ASSUME JobStoreTypeOK, StageStoreTypeOK, ControlTypeOK, [Next]_vars
               PROVE  (JobStoreTypeOK /\ StageStoreTypeOK /\ ControlTypeOK)'
    BY <1>0 DEF TypeOK, ControlTypeOK
  <2>1. ASSUME NEW r \in Calls, CallerStep(r)
        PROVE  (JobStoreTypeOK /\ StageStoreTypeOK /\ ControlTypeOK)'
    <3> USE <2>1 DEF JobStoreTypeOK, StageStoreTypeOK, ControlTypeOK, CallerGoto, CallerPC,
                JobStatus, UpdateStatus, Executing
    <3>1. CASE Lookup(r)            BY <3>1 DEF Lookup
    <3>2. CASE Insert(r)            BY <3>2 DEF Insert, InsertRow
    <3>3. CASE Reselect(r)          BY <3>3 DEF Reselect
    <3>4. CASE SendTask(r)          BY <3>4 DEF SendTask, TaskRecord
    <3>5. CASE SendTaskRaises(r)    BY <3>5 DEF SendTaskRaises
    <3>6. CASE FailUndispatched(r)  BY <3>6 DEF FailUndispatched, mark_failed
    <3> QED  BY <2>1, <3>1, <3>2, <3>3, <3>4, <3>5, <3>6 DEF CallerStep
  <2>2. ASSUME NEW r \in Calls, CallerCrash(r)
        PROVE  (JobStoreTypeOK /\ StageStoreTypeOK /\ ControlTypeOK)'
    BY <2>2 DEF CallerCrash, CallerGoto, CallerPC, JobStoreTypeOK, StageStoreTypeOK, ControlTypeOK, Executing
  <2>3. ASSUME NEW r \in Calls, VisibilityTimeout(r)
        PROVE  (JobStoreTypeOK /\ StageStoreTypeOK /\ ControlTypeOK)'
    <3>1. task' \in [Calls -> TaskRecord]
      BY <2>3, RedeliverType DEF VisibilityTimeout
    <3>2. redeliveries' \in 0..MaxRedeliveries
      BY <2>3, DeliveryAssumption DEF VisibilityTimeout, ControlTypeOK
    <3> QED  BY <2>3, <3>1, <3>2
               DEF VisibilityTimeout, JobStoreTypeOK, StageStoreTypeOK, ControlTypeOK, Executing
  <2>4. ASSUME NEW w \in Workers, WorkerLost(w)
        PROVE  (JobStoreTypeOK /\ StageStoreTypeOK /\ ControlTypeOK)'
    <3>1. task' \in [Calls -> TaskRecord]
      BY <2>4, RedeliverType DEF WorkerLost, ControlTypeOK
    <3>2. redeliveries' \in 0..MaxRedeliveries
      BY <2>4, DeliveryAssumption DEF WorkerLost, ControlTypeOK
    <3>3. ControlTypeOK'
      BY <2>4, <3>1, <3>2, WorkerType, IdleWorkerType DEF WorkerLost
    <3> QED  BY <2>4, <3>3 DEF WorkerLost, JobStoreTypeOK, StageStoreTypeOK
  <2>5. ASSUME NEW w \in Workers, WorkerStep(w)
        PROVE  (JobStoreTypeOK /\ StageStoreTypeOK /\ ControlTypeOK)'
    <3> USE DEF WorkerPC
    <3>1. ASSUME NEW r \in Calls, Receive(w, r)
          PROVE  (JobStoreTypeOK /\ StageStoreTypeOK /\ ControlTypeOK)'
      <4> DEFINE entry == IF task[r].redelivered /\ Service.readsDeliveryInfo
                          THEN "list" ELSE "get"
                 rec == [IdleWorker EXCEPT !.job = r, !.pc = entry]
      <4>0. entry \in {"list", "get"}
        OBVIOUS
      <4>1. rec \in WorkerRecord /\ rec.job = r /\ rec.pc \in {"list", "get"}
        <5> HIDE DEF entry
        <5> QED  BY <4>0, IdleWorkerType DEF WorkerRecord
      <4>2. task' \in [Calls -> TaskRecord]
        BY <3>1 DEF Receive, ControlTypeOK, TaskRecord
      <4>3. worker' = [worker EXCEPT ![w] = rec]
        BY <3>1 DEF Receive
      <4>4. UNCHANGED <<jobs, stages, caller, redeliveries>>
        BY <3>1 DEF Receive
      <4>5. ControlTypeOK'
        <5> HIDE DEF rec
        <5> QED  BY <4>1, <4>2, <4>3, <4>4, WorkerType DEF ControlTypeOK
      <4> QED  BY <4>4, <4>5 DEF JobStoreTypeOK, StageStoreTypeOK
    <3>2. CASE ListStages(w)
      <4>1. worker[w].job \in Calls
        BY <3>2 DEF ListStages, ControlTypeOK
      <4> DEFINE rec == [worker[w] EXCEPT !.pc = "close", !.lost = list_running(worker[w].job)]
      <4>2. rec \in WorkerRecord /\ rec.job \in Calls /\ rec.pc = "close"
        BY <4>1, ListRunningType DEF ControlTypeOK, WorkerRecord
      <4>3. worker' = [worker EXCEPT ![w] = rec]
        BY <3>2 DEF ListStages, ControlTypeOK
      <4>4. ControlTypeOK'
        <5> HIDE DEF rec
        <5> QED  BY <3>2, <4>2, <4>3, WorkerType DEF ListStages, ControlTypeOK
      <4> QED  BY <3>2, <4>4 DEF ListStages, JobStoreTypeOK, StageStoreTypeOK
    <3>3. CASE CloseLostStage(w)
      <4>1. worker[w].job \in Calls /\ worker[w].lost \in SUBSET (StageNames \X (Nat \ {0}))
        BY <3>3 DEF CloseLostStage, ControlTypeOK, WorkerRecord
      <4>2. PICK s \in worker[w].lost :
                /\ close_stage(worker[w].job, s[1], s[2], "failed")
                /\ worker' = [worker EXCEPT ![w].lost = @ \ {s}]
        BY <3>3 DEF CloseLostStage
      <4>3. s[1] \in StageNames /\ "failed" \in StageStatus
        BY <4>1, <4>2 DEF StageStatus
      <4>4. StageStoreTypeOK'
        BY <4>1, <4>2, <4>3, CloseStageType
      <4>5. ControlTypeOK'
        <5> DEFINE rec == [worker[w] EXCEPT !.lost = worker[w].lost \ {s}]
        <5>1. rec \in WorkerRecord /\ rec.job \in Calls /\ rec.pc = "close"
          BY <3>3, <4>1, ZenonT(60) DEF CloseLostStage, ControlTypeOK, WorkerRecord
        <5>2. worker' = [worker EXCEPT ![w] = rec]
          BY <4>2 DEF ControlTypeOK
        <5> HIDE DEF rec
        <5> QED  BY <3>3, <5>1, <5>2, WorkerType DEF CloseLostStage, ControlTypeOK
      <4> QED  BY <3>3, <4>4, <4>5 DEF CloseLostStage, JobStoreTypeOK
    <3>4. CASE Requeue(w)
      BY <3>4, GotoType DEF Requeue, mark_queued, UpdateStatus, JobStatus, JobStoreTypeOK, StageStoreTypeOK, ControlTypeOK
    <3>5. CASE GetJob(w)
      BY <3>5, GotoType DEF GetJob, JobStoreTypeOK, StageStoreTypeOK
    <3>6. CASE MarkRunning(w)
      <4>1. CASE ~IndexAdmits(worker[w].job) /\ UNCHANGED jobs
                 /\ Goto(w, IF Service.tryCoversRun THEN "failJob" ELSE "ack")
        BY <3>6, <4>1, GotoType DEF MarkRunning, JobStoreTypeOK, StageStoreTypeOK
      <4>2. CASE /\ mark_running(worker[w].job)
                 /\ worker' = [worker EXCEPT ![w].pc = "start", ![w].at = 1]
        <5> DEFINE rec == [worker[w] EXCEPT !.pc = "start", !.at = 1]
        <5>0. 1 \in 0..Len(Service.pipeline) /\ worker[w] \in WorkerRecord /\ worker[w].job \in Calls
          BY <3>6, PipelineFacts DEF MarkRunning, ControlTypeOK
        <5>1. rec \in WorkerRecord /\ rec.job \in Calls /\ rec.at > 0
          <6> DEFINE first == 1
          <6>1. first \in 0..Len(Service.pipeline) /\ first > 0
            BY <5>0
          <6>2. rec = [worker[w] EXCEPT !.pc = "start", !.at = first]
            OBVIOUS
          <6> HIDE DEF first
          <6> QED  BY <5>0, <6>1, <6>2 DEF WorkerRecord
        <5>2. worker' = [worker EXCEPT ![w] = rec]
          BY <4>2 DEF ControlTypeOK
        <5>3. ControlTypeOK'
          <6> HIDE DEF rec
          <6> QED  BY <3>6, <5>1, <5>2, WorkerType DEF MarkRunning, ControlTypeOK
        <5> QED  BY <3>6, <4>2, <5>3
                   DEF MarkRunning, mark_running, UpdateStatus, JobStatus, JobStoreTypeOK, StageStoreTypeOK
      <4> QED  BY <3>6, <4>1, <4>2 DEF MarkRunning
    <3>7. CASE RaisesOutsideStage(w)
      BY <3>7, GotoType DEF RaisesOutsideStage, JobStoreTypeOK, StageStoreTypeOK
    <3>8. CASE StartStage(w)
      <4>1. Executing(w)
        BY <3>8 DEF StartStage, Executing
      <4>2. CASE ~StageFree(worker[w].job, StageOf(w)) /\ Goto(w, "failJob") /\ UNCHANGED stages
        BY <3>8, <4>2, GotoType DEF StartStage, JobStoreTypeOK, StageStoreTypeOK
      <4>3. CASE /\ start_stage(worker[w].job, StageOf(w))
                 /\ worker' = [worker EXCEPT ![w].pc = "work",
                                 ![w].attempt = NextAttempt(worker[w].job, StageOf(w))]
        <5>1. StageStoreTypeOK' /\ NextAttempt(worker[w].job, StageOf(w)) \in Nat
          BY <4>1, <4>3, StageOfType, StartStageType
        <5>2. ControlTypeOK'
          <6> DEFINE rec == [worker[w] EXCEPT !.pc = "work",
                               !.attempt = NextAttempt(worker[w].job, StageOf(w))]
          <6>1. rec \in WorkerRecord /\ rec.job \in Calls /\ rec.at > 0
            BY <4>1, <5>1, StageOfType DEF ControlTypeOK, WorkerRecord
          <6>2. worker' = [worker EXCEPT ![w] = rec]
            BY <4>3 DEF ControlTypeOK
          <6> HIDE DEF rec
          <6> QED  BY <3>8, <6>1, <6>2, WorkerType DEF StartStage, ControlTypeOK
        <5> QED  BY <3>8, <5>1, <5>2 DEF StartStage, JobStoreTypeOK
      <4> QED  BY <3>8, <4>2, <4>3 DEF StartStage
    <3>9. CASE FinishStage(w)
      <4>1. Executing(w)
        BY <3>9 DEF FinishStage, Executing
      <4>2. StageStoreTypeOK'
        BY <3>9, <4>1, StageOfType, CloseStageType DEF FinishStage, StageStatus
      <4>3. CASE worker[w].at = Len(Service.pipeline) /\ Goto(w, "complete")
        BY <3>9, <4>1, <4>2, <4>3, GotoType DEF FinishStage, JobStoreTypeOK, ControlTypeOK
      <4>4. CASE /\ worker[w].at < Len(Service.pipeline)
                 /\ worker' = [worker EXCEPT ![w].pc = "start", ![w].at = @ + 1]
        <5>1. worker[w].at + 1 \in 1..Len(Service.pipeline)
          BY <4>1, <4>4, StageOfType, PipelineFacts
        <5>2. ControlTypeOK'
          <6> DEFINE rec == [worker[w] EXCEPT !.pc = "start", !.at = worker[w].at + 1]
          <6>0. /\ worker[w].at + 1 \in 0..Len(Service.pipeline) /\ worker[w].at + 1 > 0
                /\ worker[w] \in WorkerRecord /\ worker[w].job \in Calls
            BY <4>1, <5>1, StageOfType, PipelineFacts DEF ControlTypeOK
          <6>1. rec \in WorkerRecord /\ rec.job \in Calls /\ rec.at > 0
            BY <6>0 DEF WorkerRecord
          <6>2. worker' = [worker EXCEPT ![w] = rec]
            BY <4>4 DEF ControlTypeOK
          <6> HIDE DEF rec
          <6> QED  BY <3>9, <6>1, <6>2, WorkerType DEF FinishStage, ControlTypeOK
        <5> QED  BY <3>9, <4>2, <5>2 DEF FinishStage, JobStoreTypeOK
      <4> QED  BY <3>9, <4>3, <4>4 DEF FinishStage
    <3>10. CASE StageRaises(w)
      BY <3>10, GotoType DEF StageRaises, JobStoreTypeOK, StageStoreTypeOK, ControlTypeOK, Executing
    <3>11. CASE FailStage(w)
      <4>1. Executing(w)
        BY <3>11 DEF FailStage, Executing
      <4>2. StageStoreTypeOK'
        BY <3>11, <4>1, StageOfType, CloseStageType DEF FailStage, StageStatus
      <4> QED  BY <3>11, <4>2, GotoType DEF FailStage, JobStoreTypeOK
    <3>12. CASE CompleteJob(w)
      BY <3>12, GotoType DEF CompleteJob, mark_completed, UpdateStatus, JobStatus, JobStoreTypeOK, StageStoreTypeOK
    <3>13. CASE CompleteRaises(w)
      BY <3>13, GotoType DEF CompleteRaises, JobStoreTypeOK, StageStoreTypeOK, ControlTypeOK, Executing
    <3>14. CASE FailJob(w)
      BY <3>14, GotoType DEF FailJob, mark_failed, UpdateStatus, JobStatus, JobStoreTypeOK, StageStoreTypeOK
    <3>15. CASE Ack(w)
      <4>1. task' \in [Calls -> TaskRecord]
        BY <3>15 DEF Ack, ControlTypeOK, TaskRecord
      <4>2. ControlTypeOK'
        BY <3>15, <4>1, WorkerType, IdleWorkerType DEF Ack, ControlTypeOK
      <4> QED  BY <3>15, <4>2 DEF Ack, JobStoreTypeOK, StageStoreTypeOK
    <3> QED  BY <2>5, <3>1, <3>2, <3>3, <3>4, <3>5, <3>6, <3>7, <3>8, <3>9, <3>10,
                <3>11, <3>12, <3>13, <3>14, <3>15 DEF WorkerStep
  <2>6. CASE Quiescent \/ UNCHANGED vars
    BY <2>6 DEF Quiescent, vars, JobStoreTypeOK, StageStoreTypeOK, ControlTypeOK, Executing
  <2> QED  BY <2>1, <2>2, <2>3, <2>4, <2>5, <2>6 DEF Next
<1> QED  BY <1>1, <1>2, PTL DEF Spec
-----------------------------------------------------------------------------
(***************************************************************************)
(* The job table and the key lease.                                        *)
(***************************************************************************)

\* Every step leaves the job table alone or writes one row, and writes a
\* status the unique index covers only if the index admits it.
LEMMA JobStep ==
    ASSUME TypeOK, [Next]_vars
    PROVE  \/ UNCHANGED jobs
           \/ \E r \in Calls, s \in JobStatus :
                 UpdateStatus(r, s) /\ (s \in Active => IndexAdmits(r))
  <1>1. ASSUME NEW r \in Calls, CallerStep(r)
        PROVE  UNCHANGED jobs \/ \E s \in JobStatus :
                 UpdateStatus(r, s) /\ (s \in Active => IndexAdmits(r))
    <2>1. CASE Insert(r)
      BY <2>1 DEF Insert, InsertRow, IndexAdmits, JobStatus
    <2>2. CASE FailUndispatched(r)
      BY <2>2 DEF FailUndispatched, mark_failed, JobStatus, Active
    <2>3. CASE Lookup(r) \/ Reselect(r) \/ SendTask(r) \/ SendTaskRaises(r)
      BY <2>3 DEF Lookup, Reselect, SendTask, SendTaskRaises
    <2> QED  BY <1>1, <2>1, <2>2, <2>3 DEF CallerStep
  <1>2. ASSUME NEW w \in Workers, WorkerStep(w)
        PROVE  UNCHANGED jobs \/ \E r \in Calls, s \in JobStatus :
                 UpdateStatus(r, s) /\ (s \in Active => IndexAdmits(r))
    <2>1. CASE Requeue(w)
      BY <2>1 DEF Requeue, mark_queued, JobStatus, TypeOK
    <2>2. CASE MarkRunning(w)
      BY <2>2 DEF MarkRunning, mark_running, JobStatus, TypeOK
    <2>3. CASE CompleteJob(w)
      BY <2>3 DEF CompleteJob, mark_completed, JobStatus, TypeOK
    <2>4. CASE FailJob(w)
      BY <2>4 DEF FailJob, mark_failed, JobStatus, Active, TypeOK
    <2>5. CASE \/ \E r \in Calls : Receive(w, r)
               \/ ListStages(w) \/ CloseLostStage(w) \/ GetJob(w) \/ RaisesOutsideStage(w)
      BY <2>5 DEF Receive, ListStages, CloseLostStage, GetJob, RaisesOutsideStage
    <2>6. CASE \/ StartStage(w) \/ FinishStage(w) \/ StageRaises(w) \/ FailStage(w)
               \/ CompleteRaises(w) \/ Ack(w)
      BY <2>6 DEF StartStage, FinishStage, StageRaises, FailStage, CompleteRaises, Ack
    <2> QED  BY <1>2, <2>1, <2>2, <2>3, <2>4, <2>5, <2>6 DEF WorkerStep
  <1>3. CASE \/ \E r \in Calls : CallerCrash(r) \/ VisibilityTimeout(r)
             \/ \E w \in Workers : WorkerLost(w)
             \/ Quiescent
             \/ UNCHANGED vars
    BY <1>3 DEF CallerCrash, VisibilityTimeout, WorkerLost, Quiescent, vars
  <1> QED  BY <1>1, <1>2, <1>3 DEF Next

\* At most one active job per idempotency key, in every run: with any number
\* of workers, crashes, redeliveries and dying callers.
THEOREM OneActiveJob == Spec => []OneActivePerKey
<1>1. Init => OneActivePerKey
  BY DEF Init, JobStoreInit, OneActivePerKey, Active
<1>2. TypeOK /\ OneActivePerKey /\ [Next]_vars => OneActivePerKey'
  <2> SUFFICES ASSUME TypeOK, OneActivePerKey, [Next]_vars PROVE OneActivePerKey'
    OBVIOUS
  <2>1. CASE UNCHANGED jobs
    BY <2>1 DEF OneActivePerKey
  <2>2. ASSUME NEW r \in Calls, NEW s \in JobStatus,
               UpdateStatus(r, s), s \in Active => IndexAdmits(r)
        PROVE  OneActivePerKey'
    BY <2>2 DEF OneActivePerKey, UpdateStatus, IndexAdmits, ActiveJobs, TypeOK, JobStoreTypeOK
  <2> QED  BY <2>1, <2>2, JobStep
<1> QED  BY <1>1, <1>2, Typing, PTL DEF Spec

\* Writing one row changes the active set of that row's key only.
LEMMA ActiveJobsUpdate ==
    ASSUME TypeOK, NEW r \in Calls, NEW s \in JobStatus, UpdateStatus(r, s), NEW k \in Keys
    PROVE  ActiveJobs(k)' = IF k # KeyOf[r] THEN ActiveJobs(k)
                            ELSE IF s \in Active THEN ActiveJobs(k) \cup {r}
                            ELSE ActiveJobs(k) \ {r}
  <1>1. jobs' = [jobs EXCEPT ![r] = s] /\ jobs \in [Calls -> JobStatus]
    BY DEF UpdateStatus, TypeOK, JobStoreTypeOK
  <1> QED  BY <1>1 DEF ActiveJobs

\* The delivery protocol implements the key lease.
THEOREM Refinement == Spec => ImplementsKeyLease
<1> DEFINE held == [k \in Keys |-> Holder(k)]
<1>1. Init => Lease!Init
  <2> SUFFICES ASSUME Init, NEW k \in Keys PROVE Holder(k) = NoJob
    BY DEF Lease!Init
  <2> QED  BY DEF Init, JobStoreInit, Holder, ActiveJobs, Active
<1>2. TypeOK /\ OneActivePerKey /\ [Next]_vars => [Lease!Next]_held
  <2> SUFFICES ASSUME TypeOK, OneActivePerKey, [Next]_vars PROVE [Lease!Next]_held
    OBVIOUS
  <2>1. CASE UNCHANGED jobs
    BY <2>1 DEF Holder, ActiveJobs
  <2>2. ASSUME NEW r \in Calls, NEW s \in JobStatus,
               UpdateStatus(r, s), s \in Active => IndexAdmits(r)
        PROVE  [Lease!Next]_held
    <3> DEFINE k == KeyOf[r]
    <3>0. k \in Keys /\ r # NoJob
      BY KeyOfAssumption, DeliveryAssumption
    <3>1. ASSUME NEW h \in Keys, h # k PROVE Holder(h)' = Holder(h)
      <4>1. ActiveJobs(h)' = ActiveJobs(h)
        BY <2>2, <3>1, ActiveJobsUpdate
      <4> QED  BY <4>1 DEF Holder
    <3>2. ActiveJobs(k) \subseteq {r} \/ ActiveJobs(k)' = ActiveJobs(k)
      <4>1. CASE s \in Active
        BY <2>2, <4>1 DEF IndexAdmits
      <4>2. CASE s \notin Active /\ r \in ActiveJobs(k)
        BY <4>2 DEF OneActivePerKey, ActiveJobs
      <4>3. CASE s \notin Active /\ r \notin ActiveJobs(k)
        BY <2>2, <3>0, <4>3, ActiveJobsUpdate
      <4> QED  BY <4>1, <4>2, <4>3
    <3>3. CASE ActiveJobs(k)' = ActiveJobs(k)
      <4>1. Holder(k)' = Holder(k)
        BY <3>3 DEF Holder
      <4> QED  BY <3>1, <4>1
    <3>4. CASE ActiveJobs(k) = {} /\ ActiveJobs(k)' = {r}
      <4>1. Holder(k) = NoJob /\ Holder(k)' = r
        BY <3>4 DEF Holder
      <4>2. held' = [held EXCEPT ![k] = r]
        BY <3>1, <4>1
      <4> QED  BY <3>0, <4>1, <4>2 DEF Lease!Next, Lease!Acquire
    <3>5. CASE ActiveJobs(k) = {r} /\ ActiveJobs(k)' = {}
      <4>1. Holder(k) = r /\ Holder(k)' = NoJob
        BY <3>5 DEF Holder
      <4>2. held' = [held EXCEPT ![k] = NoJob]
        BY <3>1, <4>1
      <4> QED  BY <3>0, <4>1, <4>2 DEF Lease!Next, Lease!Release
    <3>6. ActiveJobs(k)' = ActiveJobs(k) \cup {r} \/ ActiveJobs(k)' = ActiveJobs(k) \ {r}
      BY <2>2, <3>0, ActiveJobsUpdate
    <3> QED  BY <3>2, <3>3, <3>4, <3>5, <3>6
  <2> QED  BY <2>1, <2>2, JobStep
<1> QED  BY <1>1, <1>2, Typing, OneActiveJob, PTL DEF Spec, ImplementsKeyLease, Lease!Spec
-----------------------------------------------------------------------------
(***************************************************************************)
(* One worker per key, as long as the broker does not redeliver a message  *)
(* whose worker is alive.                                                  *)
(***************************************************************************)

\* A step of worker w on its own job, seen by the others.
LEMMA OwnStep ==
    ASSUME TypeOK, EachTaskHasOneWorker, NEW w \in Workers, worker[w].pc # "idle",
           UNCHANGED <<caller, task>>,
           worker'[w].job = worker[w].job,
           \A v \in Workers \ {w} : worker'[v] = worker[v],
           \A q \in Calls \ {worker[w].job} : jobs'[q] = jobs[q],
           worker'[w].pc \in {"start", "work", "complete", "failStage"}
               => jobs'[worker[w].job] = "running"
    PROVE  EachTaskHasOneWorker'
  BY DEF EachTaskHasOneWorker, Executing, TypeOK

\* EachTaskHasOneWorker is inductive when the visibility timeout never expires
\* early.
LEMMA OneWorkerStep ==
    ASSUME ~EarlyRedelivery, TypeOK, EachTaskHasOneWorker, [Next]_vars
    PROVE  EachTaskHasOneWorker'
  <1> USE DEF EachTaskHasOneWorker
  <1>0. /\ task \in [Calls -> TaskRecord]
        /\ worker \in [Workers -> WorkerRecord]
        /\ caller \in [Calls -> CallerPC]
        /\ jobs \in [Calls -> JobStatus]
        /\ \A w \in Workers : worker[w].pc # "idle" => worker[w].job \in Calls
    BY DEF TypeOK, JobStoreTypeOK
  <1>1. ASSUME NEW r \in Calls, CallerStep(r) \/ CallerCrash(r)
        PROVE  EachTaskHasOneWorker'
    <2> USE DEF CallerGoto, Executing
    <2>1. CASE Lookup(r)            BY <1>0, <2>1 DEF Lookup
    <2>2. CASE Insert(r)            BY <1>0, <2>2 DEF Insert, InsertRow, UpdateStatus
    <2>3. CASE Reselect(r)          BY <1>0, <2>3 DEF Reselect
    <2>4. CASE SendTask(r)          BY <1>0, <2>4 DEF SendTask
    <2>5. CASE SendTaskRaises(r)    BY <1>0, <2>5 DEF SendTaskRaises
    <2>6. CASE FailUndispatched(r)  BY <1>0, <2>6 DEF FailUndispatched, mark_failed, UpdateStatus
    <2>7. CASE CallerCrash(r)       BY <1>0, <2>7 DEF CallerCrash
    <2> QED  BY <1>1, <2>1, <2>2, <2>3, <2>4, <2>5, <2>6, <2>7 DEF CallerStep
  <1>2. ASSUME NEW w \in Workers, WorkerStep(w)
        PROVE  EachTaskHasOneWorker'
    <2> USE DEF Goto, Executing, WorkerRecord, WorkerPC
    <2>1. ASSUME NEW r \in Calls, Receive(w, r)
          PROVE  EachTaskHasOneWorker'
      <3>1. task[r].state = "ready"
        BY <2>1 DEF Receive
      <3>2. worker'[w].job = r /\ worker'[w].pc \in {"list", "get"}
        BY <1>0, <2>1 DEF Receive, IdleWorker
      <3>3. \A v \in Workers \ {w} : worker'[v] = worker[v]
        BY <1>0, <2>1 DEF Receive
      <3>4. task'[r].state = "unacked" /\ \A q \in Calls \ {r} : task'[q] = task[q]
        BY <1>0, <2>1 DEF Receive, TaskRecord
      <3> QED  BY <1>0, <2>1, <3>1, <3>2, <3>3, <3>4 DEF Receive
    <2>2. CASE ListStages(w)          BY <1>0, <2>2 DEF ListStages
    <2>3. CASE CloseLostStage(w)      BY <1>0, <2>3 DEF CloseLostStage
    <2>4. CASE Requeue(w)
      <3>1. worker[w].pc # "idle" /\ UNCHANGED <<caller, task>>
        BY <2>4 DEF Requeue
      <3>2. worker'[w].job = worker[w].job /\ \A v \in Workers \ {w} : worker'[v] = worker[v]
        BY <1>0, <2>4 DEF Requeue
      <3>3. \A q \in Calls \ {worker[w].job} : jobs'[q] = jobs[q]
        BY <1>0, <2>4 DEF Requeue, mark_queued, UpdateStatus
      <3>4. worker'[w].pc \in {"start", "work", "complete", "failStage"}
                => jobs'[worker[w].job] = "running"
        BY <1>0, <2>4 DEF Requeue, mark_queued, UpdateStatus
      <3> QED  BY <3>1, <3>2, <3>3, <3>4, OwnStep
    <2>5. CASE GetJob(w)              BY <1>0, <2>5 DEF GetJob
    <2>6. CASE MarkRunning(w)
      <3>1. worker[w].pc # "idle" /\ UNCHANGED <<caller, task>>
        BY <2>6 DEF MarkRunning
      <3>2. worker'[w].job = worker[w].job /\ \A v \in Workers \ {w} : worker'[v] = worker[v]
        BY <1>0, <2>6 DEF MarkRunning
      <3>3. \A q \in Calls \ {worker[w].job} : jobs'[q] = jobs[q]
        BY <1>0, <2>6 DEF MarkRunning, mark_running, UpdateStatus
      <3>4. worker'[w].pc \in {"start", "work", "complete", "failStage"}
                => jobs'[worker[w].job] = "running"
        BY <1>0, <2>6 DEF MarkRunning, mark_running, UpdateStatus
      <3> QED  BY <3>1, <3>2, <3>3, <3>4, OwnStep
    <2>7. CASE RaisesOutsideStage(w)  BY <1>0, <2>7 DEF RaisesOutsideStage
    <2>8. CASE StartStage(w)
      <3>1. worker[w].pc # "idle" /\ UNCHANGED <<caller, task>>
        BY <2>8 DEF StartStage
      <3>2. worker'[w].job = worker[w].job /\ \A v \in Workers \ {w} : worker'[v] = worker[v]
        BY <1>0, <2>8 DEF StartStage
      <3>3. \A q \in Calls \ {worker[w].job} : jobs'[q] = jobs[q]
        BY <1>0, <2>8 DEF StartStage
      <3>4. worker'[w].pc \in {"start", "work", "complete", "failStage"}
                => jobs'[worker[w].job] = "running"
        BY <1>0, <2>8 DEF StartStage
      <3> QED  BY <3>1, <3>2, <3>3, <3>4, OwnStep
    <2>9. CASE FinishStage(w)
      <3>1. worker[w].pc # "idle" /\ UNCHANGED <<caller, task>>
        BY <2>9 DEF FinishStage
      <3>2. worker'[w].job = worker[w].job /\ \A v \in Workers \ {w} : worker'[v] = worker[v]
        BY <1>0, <2>9 DEF FinishStage
      <3>3. \A q \in Calls \ {worker[w].job} : jobs'[q] = jobs[q]
        BY <1>0, <2>9 DEF FinishStage
      <3>4. worker'[w].pc \in {"start", "work", "complete", "failStage"}
                => jobs'[worker[w].job] = "running"
        BY <1>0, <2>9 DEF FinishStage
      <3> QED  BY <3>1, <3>2, <3>3, <3>4, OwnStep
    <2>10. CASE StageRaises(w)        BY <1>0, <2>10 DEF StageRaises
    <2>11. CASE FailStage(w)          BY <1>0, <2>11 DEF FailStage
    <2>12. CASE CompleteJob(w)        BY <1>0, <2>12 DEF CompleteJob, mark_completed, UpdateStatus
    <2>13. CASE CompleteRaises(w)     BY <1>0, <2>13 DEF CompleteRaises
    <2>14. CASE FailJob(w)            BY <1>0, <2>14 DEF FailJob, mark_failed, UpdateStatus
    <2>15. CASE Ack(w)
      <3>1. worker'[w].pc = "idle" /\ \A v \in Workers \ {w} : worker'[v] = worker[v]
        BY <1>0, <2>15, IdleWorkerType DEF Ack
      <3>2. \A q \in Calls : q # worker[w].job => task'[q] = task[q]
        BY <1>0, <2>15 DEF Ack
      <3>3. task'[worker[w].job].state = "none"
        BY <1>0, <2>15 DEF Ack, TaskRecord
      <3> QED  BY <1>0, <2>15, <3>1, <3>2, <3>3 DEF Ack
    <2> QED  BY <1>2, <2>1, <2>2, <2>3, <2>4, <2>5, <2>6, <2>7, <2>8, <2>9, <2>10,
                <2>11, <2>12, <2>13, <2>14, <2>15 DEF WorkerStep
  <1>3. ASSUME NEW w \in Workers, WorkerLost(w)
        PROVE  EachTaskHasOneWorker'
    <2>1. worker'[w].pc = "idle" /\ \A v \in Workers \ {w} : worker'[v] = worker[v]
      BY <1>0, <1>3, IdleWorkerType DEF WorkerLost
    <2>2. worker[w].job \in Calls /\ task[worker[w].job].state = "unacked"
      BY <1>0, <1>3 DEF WorkerLost
    <2>3. \A q \in Calls : q # worker[w].job => task'[q] = task[q]
      BY <1>0, <1>3, <2>2 DEF WorkerLost, Redeliver
    <2> QED  BY <1>0, <1>3, <2>1, <2>2, <2>3 DEF WorkerLost, Executing
  <1>4. CASE Quiescent \/ UNCHANGED vars
    BY <1>4 DEF Quiescent, vars, Executing
  <1> QED  BY <1>1, <1>2, <1>3, <1>4 DEF Next, VisibilityTimeout

\* Two workers never execute jobs of one idempotency key, whatever crashes and
\* redeliveries happen, if a message comes back only after its worker is gone.
THEOREM MutualExclusion ==
    ASSUME ~EarlyRedelivery
    PROVE  Spec => []NoConcurrentSameKey
<1>1. Init => EachTaskHasOneWorker
  BY DEF Init, EachTaskHasOneWorker, IdleWorker, Executing
<1>2. TypeOK /\ EachTaskHasOneWorker /\ [Next]_vars => EachTaskHasOneWorker'
  BY OneWorkerStep
<1>3. TypeOK /\ OneActivePerKey /\ EachTaskHasOneWorker => NoConcurrentSameKey
  <2> SUFFICES ASSUME TypeOK, OneActivePerKey, EachTaskHasOneWorker,
                      NEW v \in Workers, NEW w \in Workers, v # w, Executing(v), Executing(w)
               PROVE  KeyOf[worker[v].job] # KeyOf[worker[w].job]
    BY DEF NoConcurrentSameKey
  <2>1. /\ worker[v].job \in Calls /\ worker[w].job \in Calls
        /\ worker[v].job # worker[w].job
    BY DEF TypeOK, Executing, EachTaskHasOneWorker
  <2>2. jobs[worker[v].job] \in Active /\ jobs[worker[w].job] \in Active
    BY DEF EachTaskHasOneWorker, Active
  <2> QED  BY <2>1, <2>2 DEF OneActivePerKey
<1> QED  BY <1>1, <1>2, <1>3, Typing, OneActiveJob, PTL DEF Spec

-----------------------------------------------------------------------------
(***************************************************************************)
(* The stage attempts and the carriers of the jobs: who a running attempt  *)
(* belongs to, what a completed job has done, and who still works for an   *)
(* unsettled one.                                                          *)
(***************************************************************************)
\* Closing an attempt leaves no attempt running that was not, nor this one.
LEMMA CloseEffect ==
    ASSUME StageStoreTypeOK, NEW j \in Calls, NEW n \in StageNames, NEW a,
           NEW s \in StageStatus \ {"running"}, close_stage(j, n, a, s)
    PROVE  /\ \A m \in StageNames : RunningAttempts(j, m)' \subseteq RunningAttempts(j, m)
           /\ a \notin RunningAttempts(j, n)'
           /\ \A q \in Calls \ {j} : stages'[q] = stages[q]
           /\ \A m \in StageNames \ {n} : stages'[j][m] = stages[j][m]
           /\ Len(stages'[j][n]) = Len(stages[j][n])
           /\ a \in 1..Len(stages[j][n]) => stages'[j][n][a] = s
  <1>1. stages[j][n] \in Seq(StageStatus) /\ stages'[j][n] = [stages[j][n] EXCEPT ![a] = s]
    BY DEF StageStoreTypeOK, close_stage
  <1>2. \A q \in Calls \ {j} : stages'[q] = stages[q]
    BY DEF StageStoreTypeOK, close_stage
  <1>3. \A m \in StageNames \ {n} : stages'[j][m] = stages[j][m]
    BY DEF StageStoreTypeOK, close_stage
  <1>4. /\ Len(stages[j][n]) \in Nat /\ DOMAIN stages[j][n] = 1..Len(stages[j][n])
        /\ DOMAIN stages'[j][n] = 1..Len(stages[j][n])
    BY <1>1
  <1>5. Len(stages'[j][n]) = Len(stages[j][n])
    <2>1. stages'[j][n] \in Seq(StageStatus)
      BY CloseStageType DEF StageStoreTypeOK
    <2> QED  BY <1>4, <2>1
  <1>6. \A b \in 1..Len(stages[j][n]) : stages'[j][n][b] = IF b = a THEN s ELSE stages[j][n][b]
    BY <1>1, <1>4
  <1>7. RunningAttempts(j, n)' \subseteq RunningAttempts(j, n) \ {a}
    BY <1>4, <1>6 DEF RunningAttempts
  <1> QED  BY <1>2, <1>3, <1>5, <1>6, <1>7 DEF RunningAttempts

\* Opening one is only possible if none runs; the new one is the last.
LEMMA StartEffect ==
    ASSUME StageStoreTypeOK, NEW j \in Calls, NEW n \in StageNames, start_stage(j, n)
    PROVE  /\ RunningAttempts(j, n)' = {NextAttempt(j, n)}
           /\ Len(stages'[j][n]) = NextAttempt(j, n)
           /\ \A q \in Calls \ {j} : stages'[q] = stages[q]
           /\ \A m \in StageNames \ {n} : stages'[j][m] = stages[j][m]
  <1>1. stages[j][n] \in Seq(StageStatus) /\ stages'[j][n] = Append(stages[j][n], "running")
    BY DEF StageStoreTypeOK, start_stage
  <1>2. \A q \in Calls \ {j} : stages'[q] = stages[q]
    BY DEF StageStoreTypeOK, start_stage
  <1>3. \A m \in StageNames \ {n} : stages'[j][m] = stages[j][m]
    BY DEF StageStoreTypeOK, start_stage
  <1>4. /\ Len(stages[j][n]) \in Nat /\ DOMAIN stages[j][n] = 1..Len(stages[j][n])
        /\ Len(stages'[j][n]) = Len(stages[j][n]) + 1
        /\ DOMAIN stages'[j][n] = 1..(Len(stages[j][n]) + 1)
    BY <1>1
  <1>5. /\ \A b \in 1..Len(stages[j][n]) : stages'[j][n][b] = stages[j][n][b]
        /\ stages'[j][n][Len(stages[j][n]) + 1] = "running"
    BY <1>1, <1>4
  <1>6. \A b \in 1..Len(stages[j][n]) : stages[j][n][b] # "running"
    BY <1>4 DEF start_stage, StageFree, RunningAttempts
  <1>7. RunningAttempts(j, n)' = {NextAttempt(j, n)}
    <2> DEFINE new == Len(stages[j][n]) + 1
    <2>1. \A b \in 1..new : stages'[j][n][b] = "running" <=> b = new
      <3> TAKE b \in 1..new
      <3>1. CASE b = new  BY <1>5, <3>1
      <3>2. CASE b # new
        <4>1. b \in 1..Len(stages[j][n])
          BY <1>4, <3>2
        <4> QED  BY <1>5, <1>6, <3>2, <4>1
      <3> QED  BY <3>1, <3>2
    <2>2. new \in 1..new
      BY <1>4
    <2> HIDE DEF new
    <2>3. {b \in 1..new : stages'[j][n][b] = "running"} = {new}
      BY <2>1, <2>2
    <2> QED  BY <1>4, <2>3 DEF RunningAttempts, NextAttempt, new
  <1> QED  BY <1>2, <1>3, <1>4, <1>7 DEF NextAttempt
-----------------------------------------------------------------------------
(***************************************************************************)
(* Who a running attempt belongs to, while a message comes back only after *)
(* its worker is gone.                                                     *)
(***************************************************************************)

\* A worker with this record closes attempt a of stage n, or is about to list
\* what a lost worker left running.
Minds(rec, n, a) ==
    \/ rec.pc \in {"work", "failStage"} /\ Service.pipeline[rec.at] = n /\ rec.attempt = a
    \/ rec.pc = "list"
    \/ rec.pc = "close" /\ <<n, a>> \in rec.lost

Redelivered(r) == task[r].state = "ready" /\ task[r].redelivered

\* A running attempt is of a running job, and a worker minds it or will: the
\* message is on its way back.
AttemptsOwned ==
    \A r \in Calls, n \in StageNames : \A a \in RunningAttempts(r, n) :
        /\ jobs[r] = "running"
        /\ Redelivered(r) \/ \E w \in Workers : worker[w].job = r /\ Minds(worker[w], n, a)

\* What a worker's step on its own job leaves alone.
LEMMA WorkerFrame ==
    ASSUME TypeOK, NEW w \in Workers, WorkerStep(w), worker[w].pc # "idle"
    PROVE  /\ worker[w].job \in Calls
           /\ UNCHANGED caller
           /\ \A v \in Workers \ {w} : worker'[v] = worker[v]
           /\ \A q \in Calls \ {worker[w].job} :
                 jobs'[q] = jobs[q] /\ stages'[q] = stages[q] /\ task'[q] = task[q]
           /\ worker'[w].pc = "idle" \/ worker'[w].job = worker[w].job
  <1>0. /\ worker \in [Workers -> WorkerRecord] /\ task \in [Calls -> TaskRecord]
        /\ jobs \in [Calls -> JobStatus] /\ StageStoreTypeOK
        /\ worker[w].job \in Calls
    BY DEF TypeOK, JobStoreTypeOK
  <1> USE DEF WorkerRecord, Goto
  <1>1. CASE ListStages(w)          BY <1>0, <1>1 DEF ListStages
  <1>2. CASE CloseLostStage(w)      BY <1>0, <1>2 DEF CloseLostStage, close_stage, StageStoreTypeOK
  <1>3. CASE Requeue(w)             BY <1>0, <1>3 DEF Requeue, mark_queued, UpdateStatus
  <1>4. CASE GetJob(w)              BY <1>0, <1>4 DEF GetJob
  <1>5. CASE MarkRunning(w)         BY <1>0, <1>5 DEF MarkRunning, mark_running, UpdateStatus
  <1>6. CASE RaisesOutsideStage(w)  BY <1>0, <1>6 DEF RaisesOutsideStage
  <1>7. CASE StartStage(w)          BY <1>0, <1>7 DEF StartStage, start_stage, StageStoreTypeOK
  <1>8. CASE FinishStage(w)         BY <1>0, <1>8 DEF FinishStage, close_stage, StageStoreTypeOK
  <1>9. CASE StageRaises(w)         BY <1>0, <1>9 DEF StageRaises
  <1>10. CASE FailStage(w)          BY <1>0, <1>10 DEF FailStage, close_stage, StageStoreTypeOK
  <1>11. CASE CompleteJob(w)        BY <1>0, <1>11 DEF CompleteJob, mark_completed, UpdateStatus
  <1>12. CASE CompleteRaises(w)     BY <1>0, <1>12 DEF CompleteRaises
  <1>13. CASE FailJob(w)            BY <1>0, <1>13 DEF FailJob, mark_failed, UpdateStatus
  <1>14. CASE Ack(w)                BY <1>0, <1>14, IdleWorkerType DEF Ack
  <1> QED  BY <1>1, <1>2, <1>3, <1>4, <1>5, <1>6, <1>7, <1>8, <1>9, <1>10, <1>11, <1>12, <1>13,
              <1>14 DEF WorkerStep, Receive

\* A worker that minds nothing has a job with nothing running: no other worker
\* has it and its message is not in the queue.
LEMMA Unminded ==
    ASSUME TypeOK, EachTaskHasOneWorker, AttemptsOwned, NEW w \in Workers,
           worker[w].pc \notin {"idle", "list", "work", "failStage"},
           worker[w].pc = "close" => worker[w].lost = {},
           NEW n \in StageNames
    PROVE  RunningAttempts(worker[w].job, n) = {}
  <1> SUFFICES ASSUME NEW a \in RunningAttempts(worker[w].job, n) PROVE FALSE
    OBVIOUS
  <1>1. worker[w].job \in Calls /\ task[worker[w].job].state = "unacked"
    BY DEF TypeOK, EachTaskHasOneWorker
  <1>2. PICK v \in Workers : worker[v].job = worker[w].job /\ Minds(worker[v], n, a)
    BY <1>1 DEF AttemptsOwned, Redelivered
  <1>3. v = w
    BY <1>2 DEF EachTaskHasOneWorker, Minds
  <1> QED  BY <1>2, <1>3 DEF Minds

\* Enough for the step of a worker: what it says of its own job.
LEMMA OwnAttempts ==
    ASSUME TypeOK, EachTaskHasOneWorker, AttemptsOwned, NEW w \in Workers, NEW r \in Calls,
           worker[w].pc # "idle", worker[w].job = r,
           \A v \in Workers \ {w} : worker'[v] = worker[v],
           \A q \in Calls \ {r} : jobs'[q] = jobs[q] /\ stages'[q] = stages[q] /\ task'[q] = task[q],
           \A n \in StageNames : \A a \in RunningAttempts(r, n)' :
               /\ jobs'[r] = "running"
               /\ Redelivered(r)' \/ (worker'[w].job = r /\ Minds(worker'[w], n, a))
    PROVE  AttemptsOwned'
  <1> SUFFICES ASSUME NEW q \in Calls, NEW n \in StageNames, NEW a \in RunningAttempts(q, n)'
               PROVE  /\ jobs'[q] = "running"
                      /\ Redelivered(q)' \/ \E v \in Workers : worker'[v].job = q /\ Minds(worker'[v], n, a)
    BY DEF AttemptsOwned
  <1>1. CASE q = r
    BY <1>1
  <1>2. CASE q # r
    <2>1. a \in RunningAttempts(q, n) /\ UNCHANGED <<jobs[q], task[q]>>
      BY <1>2 DEF RunningAttempts
    <2>2. jobs[q] = "running" /\ (Redelivered(q) \/ \E v \in Workers : worker[v].job = q /\ Minds(worker[v], n, a))
      BY <2>1 DEF AttemptsOwned
    <2>3. \A v \in Workers : worker[v].job = q => worker'[v] = worker[v]
      BY <1>2
    <2> QED  BY <2>1, <2>2, <2>3 DEF Redelivered
  <1> QED  BY <1>1, <1>2

\* A worker's step keeps AttemptsOwned: of the stage table it touches only the
\* attempts of its own job, and it settles the job when none is left running.
LEMMA WorkerAttempts ==
    ASSUME TypeOK, EachTaskHasOneWorker, AttemptsOwned, NEW w \in Workers, WorkerStep(w),
           worker[w].pc # "idle"
    PROVE  AttemptsOwned'
  <1>0. PICK r \in Calls : worker[w].job = r
    BY WorkerFrame
  <1>1. /\ \A v \in Workers \ {w} : worker'[v] = worker[v]
        /\ \A q \in Calls \ {r} : jobs'[q] = jobs[q] /\ stages'[q] = stages[q] /\ task'[q] = task[q]
        /\ worker'[w].pc = "idle" \/ worker'[w].job = r
    BY <1>0, WorkerFrame
  <1>2. /\ worker \in [Workers -> WorkerRecord] /\ StageStoreTypeOK
        /\ jobs \in [Calls -> JobStatus] /\ worker[w].attempt \in Nat
    BY DEF TypeOK, JobStoreTypeOK, WorkerRecord
  <1>3. task[r].state = "unacked" /\ (Executing(w) => jobs[r] = "running" /\ StageOf(w) \in StageNames)
    BY <1>0, StageOfType DEF EachTaskHasOneWorker, TypeOK, ControlTypeOK
  <1>4. SUFFICES ASSUME NEW n \in StageNames, NEW a \in RunningAttempts(r, n)'
                 PROVE  /\ jobs'[r] = "running"
                        /\ worker'[w].job = r /\ Minds(worker'[w], n, a)
    BY <1>0, <1>1, OwnAttempts
  <1>5. a \in RunningAttempts(r, n) =>
            /\ jobs[r] = "running"
            /\ Minds(worker[w], n, a)
    <2> SUFFICES ASSUME a \in RunningAttempts(r, n) PROVE jobs[r] = "running" /\ Minds(worker[w], n, a)
      OBVIOUS
    <2>1. jobs[r] = "running" /\ \E v \in Workers : worker[v].job = r /\ Minds(worker[v], n, a)
      BY <1>3 DEF AttemptsOwned, Redelivered
    <2> QED  BY <1>0, <2>1 DEF EachTaskHasOneWorker, Minds
  <1>6. UNCHANGED stages => a \in RunningAttempts(r, n)
    BY DEF RunningAttempts
  <1>7. CASE ListStages(w)
    <2>1. worker' = [worker EXCEPT ![w].pc = "close", ![w].lost = list_running(r)]
          /\ UNCHANGED <<jobs, stages>>
      BY <1>0, <1>7 DEF ListStages
    <2>2. worker'[w].pc = "close" /\ worker'[w].lost = list_running(r) /\ worker'[w].job = r
      BY <1>0, <1>2, <2>1 DEF WorkerRecord
    <2>3. <<n, a>> \in list_running(r)
      BY <1>6, <2>1 DEF list_running
    <2> QED  BY <1>5, <1>6, <2>1, <2>2, <2>3 DEF Minds
  <1>8. CASE CloseLostStage(w)
    <2>1. PICK s \in worker[w].lost :
              /\ close_stage(r, s[1], s[2], "failed")
              /\ worker' = [worker EXCEPT ![w].lost = @ \ {s}]
      BY <1>0, <1>8 DEF CloseLostStage
    <2>2. worker[w].lost \in SUBSET (StageNames \X (Nat \ {0})) /\ worker[w].pc = "close"
      BY <1>2, <1>8 DEF CloseLostStage, WorkerRecord
    <2>3. s[1] \in StageNames /\ s = <<s[1], s[2]>>
      BY <2>2
    <2>4. /\ \A m \in StageNames : RunningAttempts(r, m)' \subseteq RunningAttempts(r, m)
          /\ s[2] \notin RunningAttempts(r, s[1])'
      BY <1>2, <2>1, <2>3, CloseEffect DEF StageStatus
    <2>5. worker'[w].pc = "close" /\ worker'[w].lost = worker[w].lost \ {s} /\ worker'[w].job = r
      BY <1>0, <1>2, <2>1, <2>2 DEF WorkerRecord
    <2>6. jobs[r] = "running" /\ <<n, a>> \in worker[w].lost
      BY <1>5, <2>2, <2>4 DEF Minds
    <2>7. <<n, a>> # s
      BY <2>3, <2>4
    <2>8. UNCHANGED jobs
      BY <1>8 DEF CloseLostStage
    <2> QED  BY <2>5, <2>6, <2>7, <2>8 DEF Minds
  <1>9. CASE Requeue(w) \/ GetJob(w) \/ MarkRunning(w) \/ RaisesOutsideStage(w)
             \/ CompleteJob(w) \/ CompleteRaises(w) \/ FailJob(w) \/ Ack(w)
    <2>1. UNCHANGED stages
      BY <1>9 DEF Requeue, GetJob, MarkRunning, RaisesOutsideStage, CompleteJob, CompleteRaises,
                  FailJob, Ack
    <2>2. /\ worker[w].pc \notin {"idle", "list", "work", "failStage"}
          /\ worker[w].pc = "close" => worker[w].lost = {}
      BY <1>9 DEF Requeue, GetJob, MarkRunning, RaisesOutsideStage, CompleteJob, CompleteRaises,
                  FailJob, Ack
    <2>3. RunningAttempts(r, n) = {}
      BY <1>0, <2>2, Unminded
    <2> QED  BY <1>6, <2>1, <2>3
  <1>10. CASE StartStage(w)
    <2>1. worker[w].pc = "start" /\ UNCHANGED jobs /\ jobs[r] = "running"
      BY <1>3, <1>10 DEF StartStage, Executing
    <2>2. RunningAttempts(r, n) = {}
      BY <1>0, <2>1, Unminded
    <2>3. start_stage(r, StageOf(w))
          /\ worker' = [worker EXCEPT ![w].pc = "work", ![w].attempt = NextAttempt(r, StageOf(w))]
      BY <1>0, <1>6, <1>10, <2>2 DEF StartStage
    <2>4. StageOf(w) \in StageNames
      BY <1>3, <2>1 DEF Executing
    <2>5. n = StageOf(w) /\ a = NextAttempt(r, StageOf(w))
      <3> DEFINE m == StageOf(w)
                 b == NextAttempt(r, m)
      <3>1. ASSUME NEW k \in StageNames, k = m PROVE RunningAttempts(r, k)' = {NextAttempt(r, k)}
        BY <1>2, <2>3, <3>1, StartEffect
      <3>2. \A k \in StageNames \ {m} : stages'[r][k] = stages[r][k]
        <4> PICK k \in StageNames : k = m
          BY <2>4
        <4> HIDE DEF m
        <4>1. start_stage(r, k)
          BY <2>3 DEF m
        <4> QED  BY <1>2, <4>1, StartEffect
      <3>3. n = m
        <4> SUFFICES ASSUME n # m PROVE FALSE
          OBVIOUS
        <4>1. stages'[r][n] = stages[r][n]
          BY <3>2
        <4> QED  BY <2>2, <4>1 DEF RunningAttempts
      <3> QED  BY <3>1, <3>3
    <2>6. worker'[w].pc = "work" /\ worker'[w].at = worker[w].at /\ worker'[w].job = r
          /\ worker'[w].attempt = NextAttempt(r, StageOf(w))
      BY <1>0, <1>2, <2>3 DEF WorkerRecord
    <2> QED  BY <2>1, <2>5, <2>6 DEF Minds, StageOf
  <1>11. CASE StageRaises(w)
    <2>1. worker' = [worker EXCEPT ![w].pc = "failStage"] /\ UNCHANGED <<jobs, stages>>
          /\ worker[w].pc = "work"
      BY <1>11 DEF StageRaises, Goto
    <2>2. /\ worker'[w].pc = "failStage" /\ worker'[w].job = r
          /\ worker'[w].at = worker[w].at /\ worker'[w].attempt = worker[w].attempt
      BY <1>0, <1>2, <2>1 DEF WorkerRecord
    <2> QED  BY <1>5, <1>6, <2>1, <2>2 DEF Minds
  <1>12. CASE FinishStage(w) \/ FailStage(w)
    <2>1. worker[w].pc \in {"work", "failStage"}
      BY <1>12 DEF FinishStage, FailStage
    <2>2. PICK m \in StageNames : m = StageOf(w)
      BY <1>3, <2>1 DEF Executing
    <2>3. PICK s \in StageStatus \ {"running"} : close_stage(r, m, worker[w].attempt, s)
      BY <1>0, <1>12, <2>2 DEF FinishStage, FailStage, StageStatus
    <2>4. a \in RunningAttempts(r, n) /\ worker[w].attempt \notin RunningAttempts(r, m)'
      BY <1>2, <2>3, CloseEffect
    <2>5. n = m /\ a = worker[w].attempt
      BY <1>5, <2>1, <2>2, <2>4 DEF Minds, StageOf
    <2> QED  BY <2>4, <2>5
  <1> QED  BY <1>7, <1>8, <1>9, <1>10, <1>11, <1>12 DEF WorkerStep, Receive

\* A step of start_backfill is about a job whose message is not out yet.
LEMMA CallerFrame ==
    ASSUME TypeOK, EachTaskHasOneWorker, NEW r \in Calls, CallerStep(r) \/ CallerCrash(r)
    PROVE  /\ UNCHANGED <<stages, worker>>
           /\ task[r].state = "none"
           /\ \A w \in Workers : worker[w].job # r \/ worker[w].pc = "idle"
           /\ \A q \in Calls \ {r} : jobs'[q] = jobs[q] /\ task'[q] = task[q]
  <1>0. task \in [Calls -> TaskRecord] /\ jobs \in [Calls -> JobStatus]
    BY DEF TypeOK, JobStoreTypeOK
  <1>1. task[r].state = "none"
    BY DEF CallerStep, CallerCrash, EachTaskHasOneWorker, Lookup, Insert, Reselect, SendTask,
           SendTaskRaises, FailUndispatched
  <1>2. \A w \in Workers : worker[w].job # r \/ worker[w].pc = "idle"
    BY <1>1 DEF EachTaskHasOneWorker
  <1>3. UNCHANGED <<stages, worker>>
    BY DEF CallerStep, CallerCrash, Lookup, Insert, Reselect, SendTask, SendTaskRaises, FailUndispatched
  <1>4. \A q \in Calls \ {r} : jobs'[q] = jobs[q] /\ task'[q] = task[q]
    <2>1. CASE Insert(r)            BY <1>0, <2>1 DEF Insert, InsertRow, UpdateStatus
    <2>2. CASE SendTask(r)          BY <1>0, <2>2 DEF SendTask
    <2>3. CASE FailUndispatched(r)  BY <1>0, <2>3 DEF FailUndispatched, mark_failed, UpdateStatus
    <2>4. CASE Lookup(r) \/ Reselect(r) \/ SendTaskRaises(r) \/ CallerCrash(r)
      BY <2>4 DEF Lookup, Reselect, SendTaskRaises, CallerCrash
    <2> QED  BY <2>1, <2>2, <2>3, <2>4 DEF CallerStep
  <1> QED  BY <1>1, <1>2, <1>3, <1>4

\* Receiving a message makes one worker busy and moves that message.
LEMMA ReceiveEffect ==
    ASSUME TypeOK, NEW w \in Workers, NEW r \in Calls, Receive(w, r)
    PROVE  /\ task[r].state = "ready" /\ worker[w].pc = "idle"
           /\ worker'[w].job = r
           /\ worker'[w].pc = IF task[r].redelivered /\ Service.readsDeliveryInfo THEN "list" ELSE "get"
           /\ \A v \in Workers \ {w} : worker'[v] = worker[v]
           /\ task'[r].state = "unacked"
           /\ \A q \in Calls \ {r} : task'[q] = task[q]
           /\ UNCHANGED <<jobs, stages, caller>>
  <1>1. worker \in [Workers -> WorkerRecord] /\ task \in [Calls -> TaskRecord]
    BY DEF TypeOK
  <1> QED  BY <1>1 DEF Receive, IdleWorker, TaskRecord

\* Losing a worker puts its message back, marked as redelivered.
LEMMA LostEffect ==
    ASSUME TypeOK, EachTaskHasOneWorker, NEW w \in Workers, WorkerLost(w)
    PROVE  /\ worker[w].job \in Calls
           /\ worker'[w].pc = "idle" /\ worker'[w].job = NoJob
           /\ \A v \in Workers \ {w} : worker'[v] = worker[v]
           /\ task'[worker[w].job] = [state |-> "ready", redelivered |-> TRUE]
           /\ \A q \in Calls \ {worker[w].job} : task'[q] = task[q]
           /\ UNCHANGED <<jobs, stages, caller>>
  <1>1. /\ worker \in [Workers -> WorkerRecord] /\ task \in [Calls -> TaskRecord]
        /\ worker[w].job \in Calls /\ task[worker[w].job].state = "unacked"
    BY DEF TypeOK, WorkerLost, EachTaskHasOneWorker
  <1> QED  BY <1>1 DEF WorkerLost, Redeliver, IdleWorker

\* AttemptsOwned is inductive for a task that recovers what a lost worker left.
LEMMA AttemptsStep ==
    ASSUME ~EarlyRedelivery, Service.readsDeliveryInfo,
           TypeOK, EachTaskHasOneWorker, AttemptsOwned, [Next]_vars
    PROVE  AttemptsOwned'
  <1>1. ASSUME NEW r \in Calls, CallerStep(r) \/ CallerCrash(r)
        PROVE  AttemptsOwned'
    <2>1. \A n \in StageNames : RunningAttempts(r, n) = {}
      <3>1. ~Redelivered(r)
        BY <1>1, CallerFrame DEF Redelivered
      <3>2. \A w \in Workers : worker[w].job # r \/ worker[w].pc = "idle"
        BY <1>1, CallerFrame
      <3> QED  BY <3>1, <3>2 DEF AttemptsOwned, Minds
    <2> SUFFICES ASSUME NEW q \in Calls, NEW n \in StageNames, NEW a \in RunningAttempts(q, n)'
                 PROVE  /\ jobs'[q] = "running"
                        /\ Redelivered(q)' \/ \E v \in Workers : worker'[v].job = q /\ Minds(worker'[v], n, a)
      BY DEF AttemptsOwned
    <2>2. a \in RunningAttempts(q, n) /\ UNCHANGED worker
      BY <1>1, CallerFrame DEF RunningAttempts
    <2>3. q # r
      BY <2>1, <2>2
    <2>4. jobs'[q] = jobs[q] /\ task'[q] = task[q]
      BY <1>1, <2>3, CallerFrame
    <2> QED  BY <2>2, <2>4 DEF AttemptsOwned, Redelivered
  <1>2. ASSUME NEW w \in Workers, WorkerStep(w)
        PROVE  AttemptsOwned'
    <2>1. CASE worker[w].pc # "idle"
      BY <1>2, <2>1, WorkerAttempts
    <2>2. CASE worker[w].pc = "idle"
      <3>1. PICK r \in Calls : Receive(w, r)
        BY <1>2, <2>2 DEF WorkerStep, ListStages, CloseLostStage, Requeue, GetJob, MarkRunning,
           RaisesOutsideStage, StartStage, FinishStage, StageRaises, FailStage, CompleteJob,
           CompleteRaises, FailJob, Ack
      <3>2. /\ task[r].state = "ready" /\ UNCHANGED <<jobs, stages>>
            /\ worker'[w].job = r
            /\ worker'[w].pc = IF task[r].redelivered /\ Service.readsDeliveryInfo THEN "list" ELSE "get"
            /\ \A v \in Workers \ {w} : worker'[v] = worker[v]
            /\ \A q \in Calls \ {r} : task'[q] = task[q]
        BY <3>1, ReceiveEffect
      <3> SUFFICES ASSUME NEW q \in Calls, NEW n \in StageNames, NEW a \in RunningAttempts(q, n)'
                   PROVE  /\ jobs'[q] = "running"
                          /\ Redelivered(q)' \/ \E v \in Workers : worker'[v].job = q /\ Minds(worker'[v], n, a)
        BY DEF AttemptsOwned
      <3>3. /\ jobs[q] = "running"
            /\ Redelivered(q) \/ \E v \in Workers : worker[v].job = q /\ Minds(worker[v], n, a)
        BY <3>2 DEF AttemptsOwned, RunningAttempts
      <3>4. CASE q = r
        <4>1. Redelivered(r)
          BY <3>2, <3>3, <3>4 DEF EachTaskHasOneWorker, Minds
        <4> QED  BY <3>2, <3>3, <3>4, <4>1 DEF Redelivered, Minds
      <3>5. CASE q # r
        <4>1. \A v \in Workers : Minds(worker[v], n, a) => worker'[v] = worker[v]
          BY <2>2, <3>2 DEF Minds
        <4> QED  BY <3>2, <3>3, <3>5, <4>1 DEF Redelivered
      <3> QED  BY <3>4, <3>5
    <2> QED  BY <2>1, <2>2
  <1>3. ASSUME NEW w \in Workers, WorkerLost(w)
        PROVE  AttemptsOwned'
    <2>1. PICK r \in Calls : r = worker[w].job
      BY <1>3, LostEffect
    <2>2. /\ UNCHANGED <<jobs, stages>>
          /\ task'[r] = [state |-> "ready", redelivered |-> TRUE]
          /\ \A q \in Calls \ {r} : task'[q] = task[q]
          /\ \A v \in Workers \ {w} : worker'[v] = worker[v]
      BY <1>3, <2>1, LostEffect
    <2> SUFFICES ASSUME NEW q \in Calls, NEW n \in StageNames, NEW a \in RunningAttempts(q, n)'
                 PROVE  /\ jobs'[q] = "running"
                        /\ Redelivered(q)' \/ \E v \in Workers : worker'[v].job = q /\ Minds(worker'[v], n, a)
      BY DEF AttemptsOwned
    <2>3. /\ jobs[q] = "running"
          /\ Redelivered(q) \/ \E v \in Workers : worker[v].job = q /\ Minds(worker[v], n, a)
      BY <2>2 DEF AttemptsOwned, RunningAttempts
    <2>4. CASE q = r
      BY <2>2, <2>3, <2>4 DEF Redelivered
    <2>5. CASE q # r
      BY <2>1, <2>2, <2>3, <2>5 DEF Redelivered
    <2> QED  BY <2>4, <2>5
  <1>4. CASE Quiescent \/ UNCHANGED vars
    BY <1>4 DEF Quiescent, vars, AttemptsOwned, RunningAttempts, Redelivered
  <1> QED  BY <1>1, <1>2, <1>3, <1>4 DEF Next, VisibilityTimeout

\* EachTaskHasOneWorker, as an invariant of the specification.
THEOREM OneWorkerPerTask ==
    ASSUME ~EarlyRedelivery
    PROVE  Spec => []EachTaskHasOneWorker
<1>1. Init => EachTaskHasOneWorker
  BY DEF Init, EachTaskHasOneWorker, IdleWorker, Executing
<1>2. TypeOK /\ EachTaskHasOneWorker /\ [Next]_vars => EachTaskHasOneWorker'
  BY OneWorkerStep
<1> QED  BY <1>1, <1>2, Typing, PTL DEF Spec

LEMMA AttemptsInvariant ==
    ASSUME ~EarlyRedelivery, Service.readsDeliveryInfo
    PROVE  Spec => []AttemptsOwned
<1>1. Init => AttemptsOwned
  BY EmptySeq DEF Init, StageStoreInit, AttemptsOwned, RunningAttempts
<1>2. TypeOK /\ EachTaskHasOneWorker /\ AttemptsOwned /\ [Next]_vars => AttemptsOwned'
  BY AttemptsStep
<1> QED  BY <1>1, <1>2, Typing, OneWorkerPerTask, PTL DEF Spec

\* A job that has ended leaves no stage running, after any number of lost
\* workers, if the task recognises a redelivered message and a message comes
\* back only after its worker is gone.  (NISAR's task does not recognise one.)
THEOREM NoStageLeftRunning ==
    ASSUME ~EarlyRedelivery, Service.readsDeliveryInfo
    PROVE  Spec => []SettledJobHasNoRunningStage
<1>1. AttemptsOwned => SettledJobHasNoRunningStage
  BY DEF AttemptsOwned, SettledJobHasNoRunningStage, Settled
<1> QED  BY <1>1, AttemptsInvariant, PTL
-----------------------------------------------------------------------------
(***************************************************************************)
(* Who still works for an unsettled job.                                   *)
(***************************************************************************)

\* A task returns or raises only after its job is settled.
AckSettled == \A w \in Workers : worker[w].pc = "ack" => Settled(worker[w].job)

\* The index refuses a job only if another one is active: it is settled itself.
LEMMA RefusedIsSettled ==
    ASSUME TypeOK, OneActivePerKey, NEW r \in Calls, ~IndexAdmits(r)
    PROVE  Settled(r)
  <1>1. jobs[r] \in JobStatus
    BY DEF TypeOK, JobStoreTypeOK
  <1>2. PICK q \in Calls : q # r /\ KeyOf[q] = KeyOf[r] /\ jobs[q] \in Active
    BY DEF IndexAdmits, ActiveJobs
  <1> QED  BY <1>1, <1>2 DEF OneActivePerKey, JobStatus, Active, Settled

\* AckSettled, by a worker's step on its own job.
LEMMA AckStep ==
    ASSUME TypeOK, OneActivePerKey, EachTaskHasOneWorker, AckSettled,
           NEW w \in Workers, WorkerStep(w), worker[w].pc # "idle"
    PROVE  AckSettled'
  <1>0. PICK r \in Calls : worker[w].job = r
    BY WorkerFrame
  <1>1. /\ \A v \in Workers \ {w} : worker'[v] = worker[v]
        /\ \A q \in Calls \ {r} : jobs'[q] = jobs[q]
        /\ worker'[w].pc = "idle" \/ worker'[w].job = r
    BY <1>0, WorkerFrame
  <1>2. worker \in [Workers -> WorkerRecord] /\ jobs \in [Calls -> JobStatus]
    BY DEF TypeOK, JobStoreTypeOK
  <1>3. ASSUME NEW v \in Workers, v # w, worker'[v].pc = "ack"
        PROVE  jobs'[worker'[v].job] \in {"absent", "completed", "failed"}
    <2>1. worker'[v] = worker[v] /\ worker[v].job \in Calls \ {r}
      BY <1>0, <1>1, <1>3 DEF EachTaskHasOneWorker, TypeOK
    <2> QED  BY <1>1, <1>3, <2>1 DEF AckSettled, Settled
  <1>4. ASSUME worker'[w].pc = "ack"
        PROVE  jobs'[r] \in {"absent", "completed", "failed"}
    <2> USE DEF Goto, WorkerRecord, Settled
    <2>1. CASE Requeue(w)
      <3>1. ~IndexAdmits(r) /\ UNCHANGED jobs
        BY <1>0, <1>2, <1>4, <2>1 DEF Requeue
      <3> QED  BY <3>1, RefusedIsSettled
    <2>2. CASE MarkRunning(w)
      <3>1. ~IndexAdmits(r) /\ UNCHANGED jobs
        BY <1>0, <1>2, <1>4, <2>2 DEF MarkRunning
      <3> QED  BY <3>1, RefusedIsSettled
    <2>3. CASE GetJob(w)              BY <1>0, <1>2, <1>4, <2>3 DEF GetJob
    <2>4. CASE CompleteJob(w)         BY <1>0, <1>2, <2>4 DEF CompleteJob, mark_completed, UpdateStatus
    <2>5. CASE FailJob(w)             BY <1>0, <1>2, <2>5 DEF FailJob, mark_failed, UpdateStatus
    <2>6. CASE Ack(w)                 BY <1>2, <1>4, <2>6, IdleWorkerType DEF Ack
    <2>7. CASE ListStages(w) \/ CloseLostStage(w) \/ RaisesOutsideStage(w) \/ StartStage(w)
      BY <1>2, <1>4, <2>7 DEF ListStages, CloseLostStage, RaisesOutsideStage, StartStage
    <2>8. CASE FinishStage(w) \/ StageRaises(w) \/ FailStage(w) \/ CompleteRaises(w)
      BY <1>2, <1>4, <2>8 DEF FinishStage, StageRaises, FailStage, CompleteRaises
    <2> QED  BY <2>1, <2>2, <2>3, <2>4, <2>5, <2>6, <2>7, <2>8 DEF WorkerStep, Receive
  <1> QED
    <2> SUFFICES ASSUME NEW v \in Workers, worker'[v].pc = "ack"
                 PROVE  jobs'[worker'[v].job] \in {"absent", "completed", "failed"}
      BY DEF AckSettled, Settled
    <2>1. CASE v = w
      BY <1>1, <1>4, <2>1
    <2>2. CASE v # w
      BY <1>3, <2>2 DEF Settled
    <2> QED  BY <2>1, <2>2

\* The carrier of an unsettled job passes it on or settles it.
LEMMA CarrierStep ==
    ASSUME ~EarlyRedelivery, ~CallerMayCrash,
           TypeOK, OneActivePerKey, EachTaskHasOneWorker, AckSettled, UnsettledJobHasCarrier,
           [Next]_vars
    PROVE  AckSettled' /\ UnsettledJobHasCarrier'
  <1>0. /\ task \in [Calls -> TaskRecord] /\ jobs \in [Calls -> JobStatus]
        /\ caller \in [Calls -> CallerPC]
    BY DEF TypeOK, JobStoreTypeOK
  <1>1. ASSUME NEW r \in Calls, CallerStep(r)
        PROVE  AckSettled' /\ UnsettledJobHasCarrier'
    <2>1. /\ UNCHANGED worker
          /\ \A w \in Workers : worker[w].job # r \/ worker[w].pc = "idle"
          /\ \A q \in Calls \ {r} : jobs'[q] = jobs[q] /\ task'[q] = task[q]
      BY <1>1, CallerFrame
    <2>2. AckSettled'
      <3>1. \A w \in Workers : worker[w].pc = "ack" => worker[w].job \in Calls \ {r}
        BY <2>1 DEF TypeOK
      <3> QED  BY <2>1, <3>1 DEF AckSettled, Settled
    <2>3. \A q \in Calls \ {r} : caller'[q] = caller[q]
      BY <1>0, <1>1 DEF CallerStep, Lookup, Insert, Reselect, SendTask, SendTaskRaises,
                        FailUndispatched, CallerGoto
    <2>4. ~Settled(r)' => task'[r].state # "none" \/ caller'[r] \in {"send", "undispatched"}
      <3> USE <1>0 DEF CallerGoto, Settled, UnsettledJobHasCarrier
      <3>1. CASE Lookup(r)            BY <3>1 DEF Lookup
      <3>2. CASE Insert(r)            BY <3>2 DEF Insert
      <3>3. CASE Reselect(r)          BY <3>3 DEF Reselect
      <3>4. CASE SendTask(r)          BY <3>4 DEF SendTask, TaskRecord
      <3>5. CASE SendTaskRaises(r)    BY <3>5 DEF SendTaskRaises
      <3>6. CASE FailUndispatched(r)  BY <3>6 DEF FailUndispatched, mark_failed, UpdateStatus
      <3> QED  BY <1>1, <3>1, <3>2, <3>3, <3>4, <3>5, <3>6 DEF CallerStep
    <2> QED  BY <2>1, <2>2, <2>3, <2>4 DEF UnsettledJobHasCarrier, Settled
  <1>2. ASSUME NEW w \in Workers, WorkerStep(w), worker[w].pc # "idle"
        PROVE  AckSettled' /\ UnsettledJobHasCarrier'
    <2>1. PICK r \in Calls : worker[w].job = r
      BY <1>2, WorkerFrame
    <2>2. /\ UNCHANGED caller
          /\ \A q \in Calls \ {r} : jobs'[q] = jobs[q] /\ task'[q] = task[q]
      BY <1>2, <2>1, WorkerFrame
    <2>3. task[r].state = "unacked"
      BY <1>2, <2>1 DEF EachTaskHasOneWorker
    <2>4. ~Settled(r)' => task'[r].state # "none"
      <3>1. CASE Ack(w)
        BY <2>1, <3>1 DEF Ack, AckSettled, Settled
      <3>2. CASE ~Ack(w)
        <4>1. UNCHANGED task
          BY <1>2, <3>2 DEF WorkerStep, Receive, ListStages, CloseLostStage, Requeue, GetJob,
             MarkRunning, RaisesOutsideStage, StartStage, FinishStage, StageRaises, FailStage,
             CompleteJob, CompleteRaises, FailJob
        <4> QED  BY <2>3, <4>1
      <3> QED  BY <3>1, <3>2
    <2>5. UnsettledJobHasCarrier'
      BY <2>2, <2>4 DEF UnsettledJobHasCarrier, Settled
    <2> QED  BY <1>2, <2>5, AckStep
  <1>3. ASSUME NEW w \in Workers, NEW r \in Calls, Receive(w, r)
        PROVE  AckSettled' /\ UnsettledJobHasCarrier'
    <2>1. /\ worker'[w].pc \in {"list", "get"}
          /\ \A v \in Workers \ {w} : worker'[v] = worker[v]
          /\ task'[r].state = "unacked"
          /\ \A q \in Calls \ {r} : task'[q] = task[q]
          /\ UNCHANGED <<jobs, caller>>
      BY <1>3, ReceiveEffect
    <2>2. AckSettled'
      BY <2>1 DEF AckSettled, Settled
    <2>3. UnsettledJobHasCarrier'
      BY <2>1 DEF UnsettledJobHasCarrier, Settled
    <2> QED  BY <2>2, <2>3
  <1>4. ASSUME NEW w \in Workers, WorkerLost(w)
        PROVE  AckSettled' /\ UnsettledJobHasCarrier'
    <2>1. /\ worker'[w].pc = "idle"
          /\ \A v \in Workers \ {w} : worker'[v] = worker[v]
          /\ task'[worker[w].job] = [state |-> "ready", redelivered |-> TRUE]
          /\ \A q \in Calls \ {worker[w].job} : task'[q] = task[q]
          /\ UNCHANGED <<jobs, caller>>
      BY <1>4, LostEffect
    <2>2. AckSettled'
      BY <2>1 DEF AckSettled, Settled
    <2>3. UnsettledJobHasCarrier'
      BY <2>1 DEF UnsettledJobHasCarrier, Settled
    <2> QED  BY <2>2, <2>3
  <1>5. CASE Quiescent \/ UNCHANGED vars
    BY <1>5 DEF Quiescent, vars, AckSettled, UnsettledJobHasCarrier, Settled
  <1>6. ASSUME NEW w \in Workers, WorkerStep(w), worker[w].pc = "idle"
        PROVE  \E r \in Calls : Receive(w, r)
    BY <1>6 DEF WorkerStep, ListStages, CloseLostStage, Requeue, GetJob, MarkRunning,
       RaisesOutsideStage, StartStage, FinishStage, StageRaises, FailStage, CompleteJob,
       CompleteRaises, FailJob, Ack
  <1> QED
    BY <1>1, <1>2, <1>3, <1>4, <1>5, <1>6 DEF Next, VisibilityTimeout, CallerCrash

\* A job that has not ended is in somebody's hands, as long as no caller dies
\* between the INSERT and send_task and no message comes back early.
THEOREM NoJobLost ==
    ASSUME ~EarlyRedelivery, ~CallerMayCrash
    PROVE  Spec => []UnsettledJobHasCarrier
<1>1. Init => AckSettled /\ UnsettledJobHasCarrier
  BY DEF Init, JobStoreInit, AckSettled, UnsettledJobHasCarrier, Settled, IdleWorker
<1>2. TypeOK /\ OneActivePerKey /\ EachTaskHasOneWorker /\ (AckSettled /\ UnsettledJobHasCarrier)
          /\ [Next]_vars => (AckSettled /\ UnsettledJobHasCarrier)'
  BY CarrierStep
<1> QED  BY <1>1, <1>2, Typing, OneActiveJob, OneWorkerPerTask, PTL DEF Spec
-----------------------------------------------------------------------------
(***************************************************************************)
(* What a completed job has done.                                          *)
(***************************************************************************)

\* The last attempt of the i-th stage of the job is completed.
Done(r, i) ==
    LET attempts == stages[r][Service.pipeline[i]]
    IN  attempts # <<>> /\ attempts[Len(attempts)] = "completed"

Past == {"start", "work", "complete"}

\* A worker has done the stages before the one it is at, works at the last
\* attempt of that one, and has something to close only for a running job.
Progress(w) ==
    /\ worker[w].pc \in Past => \A i \in 1..(worker[w].at - 1) : Done(worker[w].job, i)
    /\ worker[w].pc = "complete" => worker[w].at = Len(Service.pipeline) /\ Done(worker[w].job, worker[w].at)
    /\ worker[w].pc = "work" =>
          /\ worker[w].attempt = Len(stages[worker[w].job][StageOf(w)])
          /\ worker[w].attempt > 0
    /\ worker[w].pc = "close" /\ worker[w].lost # {} => jobs[worker[w].job] = "running"

PipelineInv == CompletedJobRanPipeline /\ \A w \in Workers : Progress(w)

LEMMA DoneMeans ==
    CompletedJobRanPipeline <=>
        \A r \in Calls : jobs[r] = "completed" => \A i \in 1..Len(Service.pipeline) : Done(r, i)
  <1>1. DOMAIN Service.pipeline = 1..Len(Service.pipeline)
    BY PipelineFacts
  <1> QED  BY <1>1 DEF CompletedJobRanPipeline, Done

\* Progress is about the worker's own job only.
LEMMA KeepProgress ==
    ASSUME NEW v \in Workers, Progress(v), worker'[v] = worker[v],
           worker[v].pc # "idle" =>
               stages'[worker[v].job] = stages[worker[v].job] /\ jobs'[worker[v].job] = jobs[worker[v].job]
    PROVE  Progress(v)'
  BY DEF Progress, Done, StageOf, Past

\* Enough for the step of a worker: what it says of its own job.
LEMMA OwnProgress ==
    ASSUME TypeOK, EachTaskHasOneWorker, PipelineInv, NEW w \in Workers, NEW r \in Calls,
           worker[w].pc # "idle", worker[w].job = r,
           \A v \in Workers \ {w} : worker'[v] = worker[v],
           \A q \in Calls \ {r} : jobs'[q] = jobs[q] /\ stages'[q] = stages[q],
           Progress(w)',
           jobs'[r] = "completed" => \A i \in 1..Len(Service.pipeline) : Done(r, i)'
    PROVE  PipelineInv'
  <1>1. \A v \in Workers : Progress(v)'
    <2> TAKE v \in Workers
    <2>1. CASE v = w
      BY <2>1
    <2>2. CASE v # w
      <3>1. worker[v].pc # "idle" => worker[v].job \in Calls \ {r}
        BY <2>2 DEF EachTaskHasOneWorker, TypeOK
      <3> QED  BY <2>2, <3>1, KeepProgress DEF PipelineInv
    <2> QED  BY <2>1, <2>2
  <1>2. \A q \in Calls : jobs'[q] = "completed" => \A i \in 1..Len(Service.pipeline) : Done(q, i)'
    <2> TAKE q \in Calls
    <2>1. CASE q = r
      BY <2>1
    <2>2. CASE q # r
      BY <2>2, DoneMeans DEF PipelineInv, Done
    <2> QED  BY <2>1, <2>2
  <1>3. CompletedJobRanPipeline'
    <2>1. DOMAIN Service.pipeline = 1..Len(Service.pipeline)
      BY PipelineFacts
    <2> QED  BY <1>2, <2>1 DEF CompletedJobRanPipeline, Done
  <1> QED  BY <1>1, <1>3 DEF PipelineInv

\* Opening or closing an attempt of the stage a worker is at leaves the other
\* stages done: no stage occurs twice in a pipeline.
LEMMA OtherStagesDone ==
    ASSUME StageStoreTypeOK, NEW r \in Calls, NEW at \in 1..Len(Service.pipeline),
           NEW i \in 1..Len(Service.pipeline), i # at, Done(r, i),
           \A m \in StageNames \ {Service.pipeline[at]} : stages'[r][m] = stages[r][m]
    PROVE  Done(r, i)'
  <1>1. Service.pipeline[i] # Service.pipeline[at] /\ Service.pipeline[i] \in StageNames
    BY PipelineFacts, ServiceAssumption
  <1>2. stages'[r][Service.pipeline[i]] = stages[r][Service.pipeline[i]]
    BY <1>1
  <1> QED  BY <1>2 DEF Done

LEMMA WorkerProgress ==
    ASSUME TypeOK, EachTaskHasOneWorker, AttemptsOwned, PipelineInv,
           NEW w \in Workers, WorkerStep(w), worker[w].pc # "idle"
    PROVE  PipelineInv'
  <1>0. PICK r \in Calls : worker[w].job = r
    BY WorkerFrame
  <1>1. /\ \A v \in Workers \ {w} : worker'[v] = worker[v]
        /\ \A q \in Calls \ {r} : jobs'[q] = jobs[q] /\ stages'[q] = stages[q]
    BY <1>0, WorkerFrame
  <1>2. /\ worker \in [Workers -> WorkerRecord] /\ StageStoreTypeOK
        /\ jobs \in [Calls -> JobStatus]
    BY DEF TypeOK, JobStoreTypeOK
  <1>3. Progress(w) /\ (jobs[r] = "completed" => \A i \in 1..Len(Service.pipeline) : Done(r, i))
    BY DoneMeans DEF PipelineInv
  <1>4. Executing(w) => jobs[r] = "running" /\ worker[w].at \in 1..Len(Service.pipeline)
                        /\ StageOf(w) \in StageNames
    BY <1>0, StageOfType DEF EachTaskHasOneWorker, TypeOK, ControlTypeOK
  <1>5. SUFFICES Progress(w)' /\ (jobs'[r] = "completed" => \A i \in 1..Len(Service.pipeline) : Done(r, i)')
    BY <1>0, <1>1, OwnProgress
  <1>6. UNCHANGED stages => \A i : Done(r, i) <=> Done(r, i)'
    BY DEF Done
  <1> USE DEF Goto, WorkerRecord
  <1>7. ASSUME UNCHANGED stages, jobs'[r] # "completed" \/ jobs'[r] = jobs[r],
               worker'[w].pc \notin Past \cup {"close"}
        PROVE  Progress(w)' /\ (jobs'[r] = "completed" => \A i \in 1..Len(Service.pipeline) : Done(r, i)')
    BY <1>3, <1>6, <1>7 DEF Progress, Past
  <1>8. CASE ListStages(w)
    <2>1. UNCHANGED <<stages, jobs>>
      BY <1>8 DEF ListStages
    <2>2. worker'[w].pc = "close" /\ worker'[w].lost = list_running(r) /\ worker'[w].job = r
      BY <1>0, <1>2, <1>8 DEF ListStages
    <2>3. list_running(r) # {} => jobs[r] = "running"
      BY DEF list_running, AttemptsOwned
    <2>4. Progress(w)'
      BY <2>1, <2>2, <2>3 DEF Progress, Past
    <2> QED  BY <1>3, <1>6, <2>1, <2>4
  <1>9. CASE CloseLostStage(w)
    <2>1. jobs[r] = "running" /\ UNCHANGED jobs
      BY <1>0, <1>3, <1>9 DEF CloseLostStage, Progress
    <2>2. worker'[w].pc = "close" /\ worker'[w].job = r
      BY <1>0, <1>2, <1>9 DEF CloseLostStage
    <2>3. Progress(w)'
      BY <2>1, <2>2 DEF Progress, Past
    <2> QED  BY <2>1, <2>3
  <1>10. CASE Requeue(w)
    BY <1>0, <1>2, <1>7, <1>10 DEF Requeue, mark_queued, UpdateStatus, Past
  <1>11. CASE GetJob(w) \/ RaisesOutsideStage(w) \/ StageRaises(w) \/ CompleteRaises(w)
    BY <1>2, <1>7, <1>11 DEF GetJob, RaisesOutsideStage, StageRaises, CompleteRaises, Past
  <1>12. CASE FailJob(w)
    BY <1>0, <1>2, <1>7, <1>12 DEF FailJob, mark_failed, UpdateStatus, Past
  <1>13. CASE Ack(w)
    BY <1>2, <1>7, <1>13, IdleWorkerType DEF Ack, Past
  <1>14. CASE MarkRunning(w)
    <2>1. CASE ~IndexAdmits(worker[w].job) /\ UNCHANGED jobs
               /\ Goto(w, IF Service.tryCoversRun THEN "failJob" ELSE "ack")
      BY <1>2, <1>7, <1>14, <2>1 DEF MarkRunning, Past
    <2>2. CASE mark_running(worker[w].job) /\ worker' = [worker EXCEPT ![w].pc = "start", ![w].at = 1]
      <3>1. jobs'[r] = "running"
        BY <1>0, <1>2, <2>2 DEF mark_running, UpdateStatus
      <3>2. worker'[w].pc = "start" /\ worker'[w].at = 1
        BY <1>2, <2>2
      <3>3. Progress(w)'
        BY <3>2 DEF Progress, Past
      <3> QED  BY <3>1, <3>3
    <2> QED  BY <1>14, <2>1, <2>2 DEF MarkRunning
  <1>15. CASE StartStage(w)
    <2>1. Executing(w) /\ UNCHANGED jobs /\ worker[w].pc = "start"
      BY <1>15 DEF StartStage, Executing
    <2>2. CASE ~StageFree(worker[w].job, StageOf(w)) /\ Goto(w, "failJob") /\ UNCHANGED stages
      BY <1>2, <1>7, <2>1, <2>2 DEF Past
    <2>3. CASE /\ start_stage(worker[w].job, StageOf(w))
               /\ worker' = [worker EXCEPT ![w].pc = "work",
                               ![w].attempt = NextAttempt(worker[w].job, StageOf(w))]
      <3>1. PICK m \in StageNames, at \in 1..Len(Service.pipeline) :
                m = StageOf(w) /\ at = worker[w].at /\ m = Service.pipeline[at]
        BY <1>4, <2>1 DEF StageOf
      <3>2. /\ Len(stages'[r][m]) = NextAttempt(r, m)
            /\ \A k \in StageNames \ {m} : stages'[r][k] = stages[r][k]
        BY <1>0, <1>2, <2>3, <3>1, StartEffect
      <3>3. /\ worker'[w].pc = "work" /\ worker'[w].job = r /\ worker'[w].at = at
            /\ worker'[w].attempt = NextAttempt(r, m)
        BY <1>0, <1>2, <2>3, <3>1
      <3>4. NextAttempt(r, m) > 0
        BY <1>2 DEF NextAttempt, StageStoreTypeOK
      <3>5. \A i \in 1..(at - 1) : Done(r, i)'
        <4> TAKE i \in 1..(at - 1)
        <4>1. Done(r, i) /\ i \in 1..Len(Service.pipeline) /\ i # at
          BY <1>0, <1>3, <2>1, <3>1, PipelineFacts DEF Progress, Past
        <4> QED  BY <1>2, <3>1, <3>2, <4>1, OtherStagesDone
      <3>6. Progress(w)'
        BY <3>1, <3>2, <3>3, <3>4, <3>5 DEF Progress, StageOf
      <3> QED  BY <1>4, <2>1, <3>6
    <2> QED  BY <1>15, <2>2, <2>3 DEF StartStage
  <1>16. CASE FinishStage(w)
    <2>1. Executing(w) /\ UNCHANGED jobs /\ worker[w].pc = "work"
      BY <1>16 DEF FinishStage, Executing
    <2>2. PICK m \in StageNames, at \in 1..Len(Service.pipeline) :
              m = StageOf(w) /\ at = worker[w].at /\ m = Service.pipeline[at]
      BY <1>4, <2>1 DEF StageOf
    <2>3. close_stage(r, m, worker[w].attempt, "completed")
      BY <1>0, <1>16, <2>2 DEF FinishStage
    <2>4. worker[w].attempt = Len(stages[r][m]) /\ worker[w].attempt > 0 /\ Len(stages[r][m]) \in Nat
      BY <1>0, <1>2, <1>3, <2>1, <2>2 DEF Progress, StageStoreTypeOK
    <2>5. /\ \A k \in StageNames \ {m} : stages'[r][k] = stages[r][k]
          /\ Len(stages'[r][m]) = Len(stages[r][m])
          /\ stages'[r][m][Len(stages[r][m])] = "completed"
      BY <1>2, <2>3, <2>4, CloseEffect DEF StageStatus
    <2>6. Done(r, at)'
      <3>1. stages'[r][m] # <<>>
        BY <2>4, <2>5, EmptySeq
      <3> QED  BY <2>2, <2>5, <3>1 DEF Done
    <2>7. \A i \in 1..(at - 1) : Done(r, i)'
      <3> TAKE i \in 1..(at - 1)
      <3>1. Done(r, i) /\ i \in 1..Len(Service.pipeline) /\ i # at
        BY <1>0, <1>3, <2>1, <2>2, PipelineFacts DEF Progress, Past
      <3> QED  BY <1>2, <2>2, <2>5, <3>1, OtherStagesDone
    <2>8. \A i \in 1..at : Done(r, i)'
      BY <2>6, <2>7
    <2>9. CASE worker[w].at = Len(Service.pipeline) /\ Goto(w, "complete")
      <3>1. worker'[w].pc = "complete" /\ worker'[w].job = r /\ worker'[w].at = at
            /\ at = Len(Service.pipeline)
        BY <1>0, <1>2, <2>2, <2>9
      <3>2. Progress(w)'
        BY <2>6, <2>7, <3>1 DEF Progress
      <3> QED  BY <1>4, <2>1, <3>2
    <2>10. CASE /\ worker[w].at < Len(Service.pipeline)
                /\ worker' = [worker EXCEPT ![w].pc = "start", ![w].at = @ + 1]
      <3>1. worker'[w].pc = "start" /\ worker'[w].job = r /\ worker'[w].at = at + 1
        BY <1>0, <1>2, <2>2, <2>10
      <3>2. (at + 1) - 1 = at
        BY <2>2
      <3>3. Progress(w)'
        BY <2>8, <3>1, <3>2 DEF Progress
      <3> QED  BY <1>4, <2>1, <3>3
    <2> QED  BY <1>16, <2>9, <2>10 DEF FinishStage
  <1>17. CASE FailStage(w)
    <2>1. jobs'[r] = "running" /\ worker'[w].pc = "failJob"
      BY <1>2, <1>4, <1>17 DEF FailStage, Executing
    <2>2. Progress(w)'
      BY <2>1 DEF Progress, Past
    <2> QED  BY <2>1, <2>2
  <1>18. CASE CompleteJob(w)
    <2>1. worker'[w].pc = "ack" /\ UNCHANGED stages /\ worker[w].pc = "complete"
      BY <1>2, <1>18 DEF CompleteJob
    <2>2. Progress(w)'
      BY <2>1 DEF Progress, Past
    <2>3. \A i \in 1..Len(Service.pipeline) : Done(r, i)
      <3> TAKE i \in 1..Len(Service.pipeline)
      <3>1. /\ \A j \in 1..(Len(Service.pipeline) - 1) : Done(r, j)
            /\ Done(r, Len(Service.pipeline))
        BY <1>0, <1>3, <2>1 DEF Progress, Past
      <3>2. i = Len(Service.pipeline) \/ i \in 1..(Len(Service.pipeline) - 1)
        BY PipelineFacts
      <3> QED  BY <3>1, <3>2
    <2> QED  BY <1>6, <2>1, <2>2, <2>3
  <1> QED  BY <1>8, <1>9, <1>10, <1>11, <1>12, <1>13, <1>14, <1>15, <1>16, <1>17, <1>18
           DEF WorkerStep, Receive

\* Everybody else leaves the stages alone and completes no job.
LEMMA PipelineStep ==
    ASSUME ~EarlyRedelivery, TypeOK, EachTaskHasOneWorker, AttemptsOwned, PipelineInv, [Next]_vars
    PROVE  PipelineInv'
  <1>0. jobs \in [Calls -> JobStatus]
    BY DEF TypeOK, JobStoreTypeOK
  <1>1. ASSUME UNCHANGED stages, \A q \in Calls : jobs'[q] = "completed" => jobs[q] = "completed"
        PROVE  CompletedJobRanPipeline'
    BY <1>1 DEF PipelineInv, CompletedJobRanPipeline
  <1>2. ASSUME NEW r \in Calls, CallerStep(r) \/ CallerCrash(r)
        PROVE  PipelineInv'
    <2>1. /\ UNCHANGED <<stages, worker>>
          /\ \A w \in Workers : worker[w].job # r \/ worker[w].pc = "idle"
          /\ \A q \in Calls \ {r} : jobs'[q] = jobs[q]
      BY <1>2, CallerFrame
    <2>2. jobs'[r] = "completed" => jobs[r] = "completed"
      BY <1>0, <1>2 DEF CallerStep, CallerCrash, Lookup, Insert, InsertRow, Reselect, SendTask,
                        SendTaskRaises, FailUndispatched, mark_failed, UpdateStatus
    <2>3. \A q \in Calls : jobs'[q] = "completed" => jobs[q] = "completed"
      BY <2>1, <2>2
    <2>4. \A v \in Workers : Progress(v)'
      <3> TAKE v \in Workers
      <3>1. worker[v].pc # "idle" => worker[v].job \in Calls \ {r}
        BY <2>1 DEF TypeOK
      <3> QED  BY <2>1, <3>1, KeepProgress DEF PipelineInv
    <2> QED  BY <1>1, <2>1, <2>3, <2>4 DEF PipelineInv
  <1>3. ASSUME NEW w \in Workers, UNCHANGED <<stages, jobs>>,
               worker'[w].pc \in {"idle", "list", "get"},
               \A v \in Workers \ {w} : worker'[v] = worker[v]
        PROVE  PipelineInv'
    <2>1. Progress(w)'
      BY <1>3 DEF Progress, Past
    <2>2. \A v \in Workers : Progress(v)'
      BY <1>3, <2>1, KeepProgress DEF PipelineInv
    <2> QED  BY <1>1, <1>3, <2>2 DEF PipelineInv
  <1>4. ASSUME NEW w \in Workers, WorkerStep(w)
        PROVE  PipelineInv'
    <2>1. CASE worker[w].pc # "idle"
      BY <1>4, <2>1, WorkerProgress
    <2>2. CASE worker[w].pc = "idle"
      <3>1. PICK r \in Calls : Receive(w, r)
        BY <1>4, <2>2 DEF WorkerStep, ListStages, CloseLostStage, Requeue, GetJob, MarkRunning,
           RaisesOutsideStage, StartStage, FinishStage, StageRaises, FailStage, CompleteJob,
           CompleteRaises, FailJob, Ack
      <3> QED  BY <1>3, <3>1, ReceiveEffect
    <2> QED  BY <2>1, <2>2
  <1>5. ASSUME NEW w \in Workers, WorkerLost(w)
        PROVE  PipelineInv'
    BY <1>3, <1>5, LostEffect
  <1>6. CASE Quiescent \/ UNCHANGED vars
    <2>1. UNCHANGED <<stages, jobs, worker>>
      BY <1>6 DEF Quiescent, vars
    <2>2. \A v \in Workers : Progress(v)'
      BY <2>1, KeepProgress DEF PipelineInv
    <2> QED  BY <1>1, <2>1, <2>2 DEF PipelineInv
  <1> QED  BY <1>2, <1>4, <1>5, <1>6 DEF Next, VisibilityTimeout

\* A completed job has completed every stage of its pipeline in the attempt
\* that counts, the last one, whatever lost workers left before it.
THEOREM CompletedMeansDone ==
    ASSUME ~EarlyRedelivery, Service.readsDeliveryInfo
    PROVE  Spec => []CompletedJobRanPipeline
<1>1. Init => PipelineInv
  BY DEF Init, JobStoreInit, PipelineInv, CompletedJobRanPipeline, Progress, Past, IdleWorker
<1>2. TypeOK /\ EachTaskHasOneWorker /\ AttemptsOwned /\ PipelineInv /\ [Next]_vars => PipelineInv'
  BY PipelineStep
<1>3. PipelineInv => CompletedJobRanPipeline
  BY DEF PipelineInv
<1> QED  BY <1>1, <1>2, <1>3, Typing, OneWorkerPerTask, AttemptsInvariant, PTL DEF Spec
=============================================================================
