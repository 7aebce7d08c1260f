------------------------ MODULE SourceScheduler_proofs ------------------------
(***************************************************************************)
(* Proofs about SourceScheduler, for any sources, processes, windows,      *)
(* schedules and requests, any calendar and any number of faults.          *)
(***************************************************************************)
EXTENDS SourceScheduler, FiniteSetTheorems, TLAPS

\* What is known of the plans a dispatcher holds: they are of registered
\* sources, and a dispatcher past its gates has one.
Known(rec) ==
    /\ \A p \in rec.todo : p.source \in Registry
    /\ rec.pc \in {"locked", "unlock", "start"} => rec.plan \in Plan
    /\ rec.pc \in {"locked", "unlock"} => rec.plan.source \in Registry

DispatchersType ==
    /\ dispatcher \in [Dispatchers -> DispatcherRecord]
    /\ \A d \in Dispatchers : Known(dispatcher[d])

LocksType == lock \in [Registry -> Dispatchers \cup {Nobody}]

\* A dispatcher with this record is between its gates and the unlock of s.
Holds(rec, s) == rec.pc \in {"locked", "unlock"} /\ rec.plan.source = s

JobsType == DOMAIN jobs \subseteq Key /\ \A k \in DOMAIN jobs : jobs[k] \in Row

FaultsType == faults \in [{"dispatch", "job", "crash"} -> 0..MaxFaults]

WorkersType ==
    /\ worker \in [Workers -> [pc : {"idle", "running", "settled"}, key : Key \cup {NoKey}]]
    /\ \A w \in Workers : worker[w].pc # "idle" => worker[w].key \in DOMAIN jobs

Statuses == {"queued", "running", "completed", "failed"}
-----------------------------------------------------------------------------
\* Writing the row of a key keeps the rows of the others.
LEMMA PutRow ==
    ASSUME JobsType, NEW k \in Key, NEW status \in Statuses, NEW by \in {"checked", "other"},
           jobs' = Started(k, status, by)
    PROVE  /\ JobsType'
           /\ DOMAIN jobs' = DOMAIN jobs \cup {k}
           /\ \A x \in DOMAIN jobs \ {k} : jobs'[x] = jobs[x]
           /\ jobs'[k].status = status
           /\ k \in DOMAIN jobs => jobs'[k].runs = jobs[k].runs
           /\ k \notin DOMAIN jobs => jobs'[k].runs = 0
  <1> DEFINE row == [status |-> status, by |-> by, at |-> 0,
                     runs |-> IF k \in DOMAIN jobs THEN jobs[k].runs ELSE 0]
  <1>1. jobs' = [x \in DOMAIN jobs \cup {k} |-> IF x = k THEN row ELSE jobs[x]]
    BY DEF Started, Put
  <1>2. (IF k \in DOMAIN jobs THEN jobs[k].runs ELSE 0) \in Nat
    BY DEF JobsType, Row
  <1>3. row \in Row
    BY <1>2, SchedulerAssumption DEF Row, Statuses
  <1> QED  BY <1>1, <1>3 DEF JobsType

\* start_backfill gives the job of a key back, or queues one over a failed one.
LEMMA StartRow ==
    ASSUME JobsType, NEW k \in Key, NEW by \in {"checked", "other"}, start_backfill(k, by)
    PROVE  /\ JobsType'
           /\ DOMAIN jobs \subseteq DOMAIN jobs'
           /\ \A x \in DOMAIN jobs : jobs[x].status # "failed" => jobs'[x] = jobs[x]
           /\ \A x \in DOMAIN jobs : jobs'[x].runs = jobs[x].runs
           /\ \A x \in DOMAIN jobs' \ DOMAIN jobs : jobs'[x].runs = 0
  <1>1. CASE k \in DOMAIN jobs /\ jobs[k].status # "failed"
    BY <1>1 DEF start_backfill, JobsType
  <1>2. CASE ~(k \in DOMAIN jobs /\ jobs[k].status # "failed")
    <2>1. jobs' = Started(k, "queued", by)
      BY <1>2 DEF start_backfill
    <2> QED  BY <1>2, <2>1, PutRow DEF Statuses
  <1> QED  BY <1>1, <1>2

\* A plan is of its source and ends today.
LEMMA PlanType ==
    ASSUME clock \in Days, NEW s \in Registry, NEW dry \in BOOLEAN
    PROVE  _plan_source_aoi(s, dry) \in Plan /\ _plan_source_aoi(s, dry).source = s
  <1>1. s \in Sources /\ clock \in Int /\ WindowDays[s] \in Int
    BY SchedulerAssumption DEF Days
  <1> QED  BY <1>1 DEF _plan_source_aoi, Plan

LEMMA PreloadType ==
    ASSUME clock \in Days, NEW s \in Sources
    PROVE  PreloadWindow(s) \in Plan
  <1>1. clock \in Int /\ WindowDays[s] \in Int
    BY SchedulerAssumption DEF Days
  <1> QED  BY <1>1 DEF PreloadWindow, Plan

LEMMA WindowType ==
    ASSUME NEW p \in Plan
    PROVE  WindowKey(p) \in Key
  BY DEF WindowKey, Plan, Key

LEMMA FaultType ==
    ASSUME FaultsType, NEW kind \in {"dispatch", "job", "crash"}, Fault(kind)
    PROVE  /\ FaultsType'
           /\ faults.crash \in Nat
           /\ kind = "crash" => faults'.crash = faults.crash + 1
           /\ kind # "crash" => faults'.crash = faults.crash
  <1>1. faults.dispatch \in 0..MaxFaults /\ faults.job \in 0..MaxFaults /\ faults.crash \in 0..MaxFaults
    BY DEF FaultsType
  <1>2. MaxFaults \in Nat
    BY SchedulerAssumption
  <1>3. faults[kind] + 1 \in 0..MaxFaults
    BY <1>1, <1>2 DEF Fault
  <1> QED  BY <1>1, <1>2, <1>3 DEF Fault, FaultsType
-----------------------------------------------------------------------------
(***************************************************************************)
(* Dispatchers and locks.                                                  *)
(***************************************************************************)
IInv == DispatchersType /\ LocksType /\ LockMatchesHolder

\* A step of one dispatcher that leaves the locks alone.
LEMMA KeepLocks ==
    ASSUME IInv, NEW d \in Dispatchers, NEW rec \in DispatcherRecord, Known(rec),
           dispatcher' = [dispatcher EXCEPT ![d] = rec], UNCHANGED lock,
           \A s \in Registry : Holds(rec, s) <=> Holds(dispatcher[d], s)
    PROVE  IInv'
  <1>1. DispatchersType'
    BY DEF IInv, DispatchersType
  <1>2. LockMatchesHolder'
    BY DEF IInv, DispatchersType, LockMatchesHolder, Holds
  <1> QED  BY <1>1, <1>2 DEF IInv, LocksType

\* A record with nothing in its hands.
LEMMA RestRecord ==
    ASSUME NEW pc \in {"idle", "plans", "done"}, NEW todo \in SUBSET Plan,
           \A p \in todo : p.source \in Registry
    PROVE  /\ [IdleDispatcher EXCEPT !.pc = pc, !.todo = todo] \in DispatcherRecord
           /\ Known([IdleDispatcher EXCEPT !.pc = pc, !.todo = todo])
           /\ \A s \in Registry : ~Holds([IdleDispatcher EXCEPT !.pc = pc, !.todo = todo], s)
  BY DEF IdleDispatcher, DispatcherRecord, Known, Holds

\* The process goes on with the plans that are left.
LEMMA AfterPlanRecord ==
    ASSUME DispatchersType, NEW d \in Dispatchers, NEW p
    PROVE  \E rec \in DispatcherRecord :
              /\ AfterPlan(d, p) = [dispatcher EXCEPT ![d] = rec]
              /\ Known(rec)
              /\ \A s \in Registry : ~Holds(rec, s)
  <1> DEFINE rest == dispatcher[d].todo \ {p}
             pc == IF rest = {} THEN Finished(d) ELSE "plans"
             rec == [IdleDispatcher EXCEPT !.pc = pc, !.todo = rest]
  <1>1. rest \in SUBSET Plan /\ \A q \in rest : q.source \in Registry
    BY DEF DispatchersType, DispatcherRecord, Known
  <1>2. pc \in {"idle", "plans", "done"}
    BY DEF Finished
  <1>3. rec \in DispatcherRecord /\ Known(rec) /\ \A s \in Registry : ~Holds(rec, s)
    <2> HIDE DEF rest, pc
    <2> QED  BY <1>1, <1>2, RestRecord
  <1>4. AfterPlan(d, p) = [dispatcher EXCEPT ![d] = rec]
    BY DEF AfterPlan
  <1> QED  BY <1>3, <1>4

\* Planning: an idle process gets plans of registered sources.
LEMMA PlansStep ==
    ASSUME IInv, NEW d \in Dispatchers, NEW todo \in SUBSET Plan,
           \A p \in todo : p.source \in Registry,
           dispatcher[d].pc = "idle", UNCHANGED lock,
           dispatcher' = [dispatcher EXCEPT ![d] =
               [IdleDispatcher EXCEPT !.pc = "plans", !.todo = todo]]
    PROVE  IInv'
  <1> DEFINE rec == [IdleDispatcher EXCEPT !.pc = "plans", !.todo = todo]
  <1>1. rec \in DispatcherRecord /\ Known(rec) /\ \A s \in Registry : ~Holds(rec, s)
    BY RestRecord
  <1>2. \A s \in Registry : ~Holds(dispatcher[d], s)
    BY DEF Holds
  <1> HIDE DEF rec
  <1> QED  BY <1>1, <1>2, KeepLocks DEF rec

\* _run_scheduled_sources plans registered sources.
LEMMA RunScheduledStep ==
    ASSUME IInv, clock \in Days, NEW d \in Dispatchers, NEW filter \in SUBSET Registry,
           NEW dry \in BOOLEAN, _run_scheduled_sources(d, filter, dry)
    PROVE  IInv'
  <1>1. plan_due_sources(filter, dry) \in SUBSET Plan
    BY PlanType DEF plan_due_sources
  <1>2. \A p \in plan_due_sources(filter, dry) : p.source \in Registry
    BY PlanType DEF plan_due_sources
  <1> QED  BY <1>1, <1>2, PlansStep DEF _run_scheduled_sources

\* A process that still holds the lock moves from its dispatch to the unlock.
LEMMA ToUnlockStep ==
    ASSUME IInv, NEW d \in Dispatchers, dispatcher[d].pc = "locked", UNCHANGED lock,
           dispatcher' = [dispatcher EXCEPT ![d].pc = "unlock"]
    PROVE  IInv'
  <1> DEFINE rec == [dispatcher[d] EXCEPT !.pc = "unlock"]
  <1>1. dispatcher[d] \in DispatcherRecord /\ Known(dispatcher[d])
    BY DEF IInv, DispatchersType
  <1>2. rec \in DispatcherRecord /\ Known(rec)
    BY <1>1 DEF DispatcherRecord, Known
  <1>3. \A s \in Registry : Holds(rec, s) <=> Holds(dispatcher[d], s)
    BY <1>1 DEF DispatcherRecord, Holds
  <1>4. dispatcher' = [dispatcher EXCEPT ![d] = rec]
    BY <1>1 DEF IInv, DispatchersType
  <1> HIDE DEF rec
  <1> QED  BY <1>2, <1>3, <1>4, KeepLocks

\* Taking a free lock makes the process its one holder.
LEMMA AcquireStep ==
    ASSUME IInv, NEW d \in Dispatchers, AcquireLock(d)
    PROVE  IInv'
  <1>1. PICK p \in dispatcher[d].todo :
            /\ lock[p.source] = Nobody
            /\ lock' = [lock EXCEPT ![p.source] = d]
            /\ dispatcher' = [dispatcher EXCEPT ![d].pc = "locked", ![d].plan = p]
    BY DEF AcquireLock
  <1> DEFINE rec == [dispatcher[d] EXCEPT !.pc = "locked", !.plan = p]
  <1>2. dispatcher[d] \in DispatcherRecord /\ Known(dispatcher[d]) /\ dispatcher[d].pc = "plans"
    BY DEF IInv, DispatchersType, AcquireLock
  <1>3. p \in Plan /\ p.source \in Registry
    BY <1>2 DEF DispatcherRecord, Known
  <1>4. rec \in DispatcherRecord /\ Known(rec) /\ \A s \in Registry : Holds(rec, s) <=> s = p.source
    BY <1>2, <1>3 DEF DispatcherRecord, Known, Holds
  <1>5. dispatcher' = [dispatcher EXCEPT ![d] = rec]
    BY <1>1, <1>2 DEF IInv, DispatchersType
  <1>6. DispatchersType'
    <2> HIDE DEF rec
    <2> QED  BY <1>4, <1>5 DEF IInv, DispatchersType
  <1>7. LocksType'
    BY <1>1, <1>3 DEF IInv, LocksType
  <1>8. LockMatchesHolder'
    <2> SUFFICES ASSUME NEW s \in Registry, NEW e \in Dispatchers
                 PROVE  lock'[s] = e <=> Holds(dispatcher'[e], s)
      BY DEF LockMatchesHolder, Holds
    <2>1. \A t \in Registry : lock[t] = e <=> Holds(dispatcher[e], t)
      BY DEF IInv, LockMatchesHolder, Holds
    <2>2. ~Holds(dispatcher[d], s) /\ Nobody # e
      BY <1>2, SchedulerAssumption DEF Holds
    <2>3. dispatcher'[e] = IF e = d THEN rec ELSE dispatcher[e]
      BY <1>5 DEF IInv, DispatchersType
    <2>4. lock'[s] = IF s = p.source THEN d ELSE lock[s]
      BY <1>1 DEF IInv, LocksType
    <2> HIDE DEF rec
    <2>5. CASE e = d
      BY <1>4, <2>1, <2>2, <2>3, <2>4, <2>5
    <2>6. CASE e # d
      BY <1>1, <2>1, <2>2, <2>3, <2>4, <2>6
    <2> QED  BY <2>5, <2>6
  <1> QED  BY <1>6, <1>7, <1>8 DEF IInv

\* A process that gives back whatever lock it held holds none.
LEMMA GiveBackStep ==
    ASSUME IInv, NEW d \in Dispatchers, NEW rec \in DispatcherRecord, Known(rec),
           \A s \in Registry : ~Holds(rec, s),
           dispatcher' = [dispatcher EXCEPT ![d] = rec],
           lock' = [s \in Registry |-> IF lock[s] = d THEN Nobody ELSE lock[s]]
    PROVE  IInv'
  <1>1. DispatchersType'
    BY DEF IInv, DispatchersType
  <1>2. LocksType'
    BY DEF IInv, LocksType
  <1>3. LockMatchesHolder'
    <2> SUFFICES ASSUME NEW s \in Registry, NEW e \in Dispatchers
                 PROVE  lock'[s] = e <=> Holds(dispatcher'[e], s)
      BY DEF LockMatchesHolder, Holds
    <2>1. lock[s] = e <=> Holds(dispatcher[e], s)
      BY DEF IInv, LockMatchesHolder, Holds
    <2>2. dispatcher'[e] = IF e = d THEN rec ELSE dispatcher[e]
      BY DEF IInv, DispatchersType
    <2>3. Nobody # e
      BY SchedulerAssumption
    <2> QED  BY <2>1, <2>2, <2>3
  <1> QED  BY <1>1, <1>2, <1>3 DEF IInv

\* The unlock is of the lock the process holds.
LEMMA ReleaseStep ==
    ASSUME IInv, NEW d \in Dispatchers, ReleaseLock(d)
    PROVE  IInv'
  <1> DEFINE p == dispatcher[d].plan
  <1>1. dispatcher[d].pc = "unlock" /\ p.source \in Registry
    BY DEF ReleaseLock, IInv, DispatchersType, Known
  <1>2. \A s \in Registry : lock[s] = d <=> s = p.source
    BY <1>1 DEF IInv, LockMatchesHolder
  <1>3. lock' = [s \in Registry |-> IF lock[s] = d THEN Nobody ELSE lock[s]]
    BY <1>2 DEF ReleaseLock, IInv, LocksType
  <1>4. PICK rec \in DispatcherRecord :
            /\ AfterPlan(d, p) = [dispatcher EXCEPT ![d] = rec]
            /\ Known(rec)
            /\ \A s \in Registry : ~Holds(rec, s)
    BY AfterPlanRecord DEF IInv
  <1> QED  BY <1>3, <1>4, GiveBackStep DEF ReleaseLock

\* Losing a process loses its database session, and its locks with it.
LEMMA LostStep ==
    ASSUME IInv, NEW d \in Dispatchers, DispatcherLost(d)
    PROVE  IInv'
  <1> DEFINE rec == [IdleDispatcher EXCEPT !.pc = Finished(d)]
  <1>1. rec \in DispatcherRecord /\ Known(rec) /\ \A s \in Registry : ~Holds(rec, s)
    BY DEF IdleDispatcher, Finished, DispatcherRecord, Known, Holds
  <1>2. /\ dispatcher' = [dispatcher EXCEPT ![d] = rec]
        /\ lock' = [s \in Registry |-> IF lock[s] = d THEN Nobody ELSE lock[s]]
    BY DEF DispatcherLost
  <1> HIDE DEF rec
  <1> QED  BY <1>1, <1>2, GiveBackStep

\* The plan of a beat task that looks for active jobs is no plan of a lock.
LEMMA CheckActiveStep ==
    ASSUME IInv, clock \in Days, NEW d \in Dispatchers, CheckActive(d)
    PROVE  IInv'
  <1>1. PICK s \in Sources :
            dispatcher' = [dispatcher EXCEPT ![d].pc = "start", ![d].plan = PreloadWindow(s)]
    BY DEF CheckActive, Due
  <1> DEFINE rec == [dispatcher[d] EXCEPT !.pc = "start", !.plan = PreloadWindow(s)]
  <1>2. dispatcher[d] \in DispatcherRecord /\ Known(dispatcher[d]) /\ dispatcher[d].pc = "idle"
    BY DEF IInv, DispatchersType, CheckActive
  <1>3. PreloadWindow(s) \in Plan
    BY PreloadType
  <1>4. rec \in DispatcherRecord /\ Known(rec)
        /\ \A t \in Registry : Holds(rec, t) <=> Holds(dispatcher[d], t)
    BY <1>2, <1>3 DEF DispatcherRecord, Known, Holds
  <1>5. dispatcher' = [dispatcher EXCEPT ![d] = rec]
    BY <1>1, <1>2 DEF IInv, DispatchersType
  <1>6. UNCHANGED lock
    BY DEF CheckActive
  <1> HIDE DEF rec
  <1> QED  BY <1>4, <1>5, <1>6, KeepLocks

\* Its job started, the beat task is idle again.
LEMMA StartCheckedStep ==
    ASSUME IInv, NEW d \in Dispatchers, StartChecked(d)
    PROVE  IInv'
  <1>1. IdleDispatcher \in DispatcherRecord /\ Known(IdleDispatcher)
    BY DEF IdleDispatcher, DispatcherRecord, Known
  <1>2. \A s \in Registry : Holds(IdleDispatcher, s) <=> Holds(dispatcher[d], s)
    BY DEF StartChecked, IdleDispatcher, Holds
  <1> QED  BY <1>1, <1>2, KeepLocks DEF StartChecked

\* A plan its gates or the lock block is left behind.
LEMMA BlockStep ==
    ASSUME IInv, NEW d \in Dispatchers, BlockPlan(d)
    PROVE  IInv'
  <1>1. PICK p \in dispatcher[d].todo : dispatcher' = AfterPlan(d, p)
    BY DEF BlockPlan
  <1>2. PICK rec \in DispatcherRecord :
            /\ AfterPlan(d, p) = [dispatcher EXCEPT ![d] = rec]
            /\ Known(rec)
            /\ \A s \in Registry : ~Holds(rec, s)
    BY AfterPlanRecord DEF IInv
  <1>3. \A s \in Registry : Holds(rec, s) <=> Holds(dispatcher[d], s)
    BY <1>2 DEF BlockPlan, Holds
  <1> QED  BY <1>1, <1>2, <1>3, KeepLocks DEF BlockPlan
-----------------------------------------------------------------------------
(***************************************************************************)
(* Jobs and workers.                                                       *)
(***************************************************************************)
JobsInv == JobsType /\ WorkersType

\* A step that adds jobs, changes rows, and leaves the workers alone.
LEMMA WorkersKept ==
    ASSUME WorkersType, DOMAIN jobs \subseteq DOMAIN jobs', UNCHANGED worker
    PROVE  WorkersType'
  BY DEF WorkersType

\* Starting a job, by whatever caller.
LEMMA StartTypes ==
    ASSUME JobsInv, NEW k \in Key, NEW by \in {"checked", "other"}, start_backfill(k, by),
           UNCHANGED worker
    PROVE  JobsInv'
  BY StartRow, WorkersKept DEF JobsInv

\* A worker's step rewrites the row of one job of the table.
LEMMA RowTypes ==
    ASSUME JobsInv, NEW k \in DOMAIN jobs, NEW row \in Row, jobs' = [jobs EXCEPT ![k] = row],
           NEW w \in Workers,
           NEW pc \in {"idle", "running", "settled"},
           \/ worker' = [worker EXCEPT ![w] = [pc |-> pc, key |-> k]]
           \/ worker' = [worker EXCEPT ![w] = IdleWorker]
    PROVE  JobsInv'
  <1>1. JobsType' /\ DOMAIN jobs' = DOMAIN jobs
    BY DEF JobsInv, JobsType
  <1>2. k \in Key
    BY DEF JobsInv, JobsType
  <1>3. WorkersType'
    BY <1>1, <1>2 DEF JobsInv, WorkersType, IdleWorker
  <1> QED  BY <1>1, <1>3 DEF JobsInv

\* TypeOK in parts: those of the two groups of variables and the rest.
Rest == clock \in Days /\ FaultsType

LEMMA TypeParts ==
    TypeOK <=> Rest /\ JobsInv /\ dispatcher \in [Dispatchers -> DispatcherRecord] /\ LocksType
  BY DEF TypeOK, Rest, JobsInv, JobsType, WorkersType, LocksType, FaultsType

\* Who runs what: a running worker's job is running, and it is the only one
\* that runs it; a job completed more often than workers were lost is settled.
RunsInv ==
    /\ \A w \in Workers : worker[w].pc = "running" => jobs[worker[w].key].status = "running"
    /\ \A v, w \in Workers :
          v # w /\ worker[v].pc = "running" /\ worker[w].pc = "running" => worker[v].key # worker[w].key
    /\ \A k \in DOMAIN jobs :
          /\ jobs[k].runs <= 1 + faults.crash
          /\ jobs[k].status # "completed" => jobs[k].runs <= faults.crash

\* A job's row as its worker leaves it.
LEMMA RowUpdate ==
    ASSUME JobsType, NEW k \in DOMAIN jobs, NEW status \in Statuses
    PROVE  /\ [jobs[k] EXCEPT !.status = status] \in Row
           /\ [jobs EXCEPT ![k].status = status] = [jobs EXCEPT ![k] = [jobs[k] EXCEPT !.status = status]]
           /\ [jobs[k] EXCEPT !.status = status].status = status
           /\ [jobs[k] EXCEPT !.status = status].runs = jobs[k].runs
  BY DEF JobsType, Row, Statuses

\* A started job costs no run of a window: its row was absent or failed.
LEMMA StartRuns ==
    ASSUME JobsInv, FaultsType, RunsInv, NEW k \in Key, NEW by \in {"checked", "other"},
           start_backfill(k, by), UNCHANGED <<worker, faults>>
    PROVE  JobsInv' /\ RunsInv'
  <1>1. JobsInv'
    BY StartTypes
  <1>2. faults.crash \in Nat
    BY SchedulerAssumption DEF FaultsType
  <1>3. \A w \in Workers : worker'[w].pc = "running" => jobs'[worker'[w].key].status = "running"
    <2> TAKE w \in Workers
    <2> HAVE worker'[w].pc = "running"
    <2>1. worker[w].key \in DOMAIN jobs /\ jobs[worker[w].key].status = "running"
      BY DEF JobsInv, WorkersType, RunsInv
    <2> QED  BY <2>1, StartRow DEF JobsInv
  <1>4. \A x \in DOMAIN jobs' :
            /\ jobs'[x].runs <= 1 + faults.crash
            /\ jobs'[x].status # "completed" => jobs'[x].runs <= faults.crash
    <2> TAKE x \in DOMAIN jobs'
    <2>1. CASE x \notin DOMAIN jobs
      <3>1. jobs'[x].runs = 0
        BY <2>1, StartRow DEF JobsInv
      <3> QED  BY <1>2, <3>1
    <2>2. CASE x \in DOMAIN jobs /\ jobs[x].status = "failed"
      <3>1. jobs'[x].runs = jobs[x].runs /\ jobs[x].runs \in Nat
        BY <2>2, StartRow DEF JobsInv, JobsType, Row
      <3>2. jobs[x].runs <= faults.crash
        BY <2>2 DEF RunsInv
      <3> QED  BY <1>2, <3>1, <3>2
    <2>3. CASE x \in DOMAIN jobs /\ jobs[x].status # "failed"
      <3>1. jobs'[x] = jobs[x]
        BY <2>3, StartRow DEF JobsInv
      <3> QED  BY <2>3, <3>1 DEF RunsInv
    <2> QED  BY <2>1, <2>2, <2>3
  <1> QED  BY <1>1, <1>3, <1>4 DEF RunsInv

\* A failed dispatch leaves no row, or a failed one over nothing but a failed one.
LEMMA RaisesStep ==
    ASSUME IInv, Rest, JobsInv, RunsInv, NEW d \in Dispatchers, DispatchRaises(d)
    PROVE  Rest' /\ IInv' /\ JobsInv' /\ RunsInv'
  <1> DEFINE p == dispatcher[d].plan
             k == WindowKey(p)
  <1>1. dispatcher[d].pc = "locked" /\ p \in Plan
    BY DEF DispatchRaises, IInv, DispatchersType, Known
  <1>2. k \in Key
    BY <1>1, WindowType
  <1>3. IInv'
    BY <1>1, ToUnlockStep DEF DispatchRaises
  <1>4. FaultsType' /\ faults'.crash = faults.crash /\ faults.crash \in Nat
    BY FaultType DEF DispatchRaises, Rest
  <1>5. JobsInv' /\ RunsInv'
    <2>1. CASE UNCHANGED jobs
      <3>1. JobsInv'
        BY <2>1 DEF DispatchRaises, JobsInv, JobsType, WorkersType
      <3>2. UNCHANGED worker /\ faults'.crash = faults.crash
        BY <1>4 DEF DispatchRaises
      <3> QED  BY <2>1, <3>1, <3>2 DEF RunsInv
    <2>2. CASE (k \in DOMAIN jobs => jobs[k].status = "failed") /\ jobs' = Started(k, "failed", "other")
      <3> HIDE DEF p, k
      <3>1. /\ JobsType'
            /\ DOMAIN jobs' = DOMAIN jobs \cup {k}
            /\ \A x \in DOMAIN jobs \ {k} : jobs'[x] = jobs[x]
            /\ jobs'[k].status = "failed"
            /\ k \in DOMAIN jobs => jobs'[k].runs = jobs[k].runs
            /\ k \notin DOMAIN jobs => jobs'[k].runs = 0
        BY <1>2, <2>2, PutRow DEF JobsInv, Statuses
      <3>2. UNCHANGED worker
        BY DEF DispatchRaises
      <3>3. JobsInv'
        BY <3>1, <3>2, WorkersKept DEF JobsInv
      <3>4. \A w \in Workers : worker'[w].pc = "running" => jobs'[worker'[w].key].status = "running"
        BY <2>2, <3>1, <3>2 DEF JobsInv, WorkersType, RunsInv
      <3>5. \A x \in DOMAIN jobs' :
                /\ jobs'[x].runs <= 1 + faults.crash
                /\ jobs'[x].status # "completed" => jobs'[x].runs <= faults.crash
        <4> TAKE x \in DOMAIN jobs'
        <4>1. CASE x # k
          BY <3>1, <4>1 DEF RunsInv
        <4>2. CASE x = k /\ k \notin DOMAIN jobs
          BY <1>4, <3>1, <4>2
        <4>3. CASE x = k /\ k \in DOMAIN jobs
          <5>1. jobs'[x].runs = jobs[k].runs /\ jobs[k].runs <= faults.crash /\ jobs[k].runs \in Nat
            BY <2>2, <3>1, <4>3 DEF RunsInv, JobsInv, JobsType, Row
          <5> QED  BY <1>4, <5>1
        <4> QED  BY <4>1, <4>2, <4>3
      <3> QED  BY <1>4, <3>2, <3>3, <3>4, <3>5 DEF RunsInv
    <2> QED  BY <2>1, <2>2 DEF DispatchRaises
  <1>6. Rest'
    BY <1>4 DEF Rest, DispatchRaises
  <1> QED  BY <1>3, <1>5, <1>6
-----------------------------------------------------------------------------
\* A worker takes a queued job: no other one runs it.
LEMMA TakeStep ==
    ASSUME FaultsType, JobsInv, RunsInv, NEW w \in Workers, TakeJob(w)
    PROVE  JobsInv' /\ RunsInv'
  <1>1. PICK k \in DOMAIN jobs :
            /\ jobs[k].status = "queued"
            /\ jobs' = [jobs EXCEPT ![k].status = "running"]
            /\ worker' = [worker EXCEPT ![w] = [pc |-> "running", key |-> k]]
    BY DEF TakeJob
  <1> DEFINE row == [jobs[k] EXCEPT !.status = "running"]
  <1>2. row \in Row /\ row.status = "running" /\ row.runs = jobs[k].runs
        /\ jobs' = [jobs EXCEPT ![k] = row]
    BY <1>1, RowUpdate DEF JobsInv, Statuses
  <1> HIDE DEF row
  <1>3. JobsInv'
    BY <1>1, <1>2, RowTypes
  <1>4. \A v \in Workers : v # w /\ worker[v].pc = "running" => worker[v].key # k
    BY <1>1 DEF RunsInv
  <1>5. \A v \in Workers : worker'[v] = IF v = w THEN [pc |-> "running", key |-> k] ELSE worker[v]
    BY <1>1 DEF JobsInv, WorkersType
  <1>6. \A x \in DOMAIN jobs : jobs'[x] = IF x = k THEN row ELSE jobs[x]
    BY <1>2
  <1>7. \A v \in Workers : worker[v].pc = "running" => worker[v].key \in DOMAIN jobs
    BY DEF JobsInv, WorkersType
  <1>8. DOMAIN jobs' = DOMAIN jobs /\ UNCHANGED faults
    BY <1>1 DEF TakeJob
  <1>9. \A v \in Workers : worker'[v].pc = "running" => jobs'[worker'[v].key].status = "running"
    BY <1>2, <1>4, <1>5, <1>6, <1>7 DEF RunsInv
  <1>10. \A u, v \in Workers :
            u # v /\ worker'[u].pc = "running" /\ worker'[v].pc = "running" => worker'[u].key # worker'[v].key
    BY <1>4, <1>5 DEF RunsInv
  <1>11. \A x \in DOMAIN jobs' :
            /\ jobs'[x].runs <= 1 + faults'.crash
            /\ jobs'[x].status # "completed" => jobs'[x].runs <= faults'.crash
    BY <1>1, <1>2, <1>6, <1>8 DEF RunsInv
  <1> QED  BY <1>3, <1>9, <1>10, <1>11 DEF RunsInv

\* A worker that runs a job ends it, one way or the other: the row of its key,
\* which no other worker runs, gets its status and count, and it runs no more.
LEMMA EndStep ==
    ASSUME JobsInv, RunsInv, FaultsType, FaultsType', NEW w \in Workers, NEW row \in Row,
           worker[w].pc = "running",
           jobs' = [jobs EXCEPT ![worker[w].key] = row],
           row.runs <= 1 + faults'.crash,
           row.status # "completed" => row.runs <= faults'.crash,
           faults.crash <= faults'.crash,
           \/ worker' = [worker EXCEPT ![w] = [pc |-> "settled", key |-> worker[w].key]]
           \/ worker' = [worker EXCEPT ![w] = IdleWorker]
    PROVE  JobsInv' /\ RunsInv'
  <1> DEFINE k == worker[w].key
  <1>1. k \in DOMAIN jobs
    BY DEF JobsInv, WorkersType
  <1>2. JobsInv'
    BY <1>1, RowTypes
  <1>3. \A v \in Workers : v # w => worker'[v] = worker[v]
    BY DEF JobsInv, WorkersType
  <1>4. worker'[w].pc # "running"
    BY DEF JobsInv, WorkersType, IdleWorker
  <1>5. \A v \in Workers : v # w /\ worker[v].pc = "running" => worker[v].key \in DOMAIN jobs \ {k}
    BY DEF JobsInv, WorkersType, RunsInv
  <1>6. \A x \in DOMAIN jobs : jobs'[x] = IF x = k THEN row ELSE jobs[x]
    OBVIOUS
  <1>7. DOMAIN jobs' = DOMAIN jobs
    OBVIOUS
  <1>8. \A v \in Workers : worker'[v].pc = "running" => jobs'[worker'[v].key].status = "running"
    BY <1>3, <1>4, <1>5, <1>6 DEF RunsInv
  <1>9. \A u, v \in Workers :
            u # v /\ worker'[u].pc = "running" /\ worker'[v].pc = "running" => worker'[u].key # worker'[v].key
    BY <1>3, <1>4 DEF RunsInv
  <1>10. faults.crash \in Nat /\ faults'.crash \in Nat /\ \A x \in DOMAIN jobs : jobs[x].runs \in Nat
    BY SchedulerAssumption DEF FaultsType, JobsInv, JobsType, Row
  <1>11. ASSUME NEW x \in DOMAIN jobs'
         PROVE  /\ jobs'[x].runs <= 1 + faults'.crash
                /\ jobs'[x].status # "completed" => jobs'[x].runs <= faults'.crash
    <2>1. CASE x = k
      BY <1>6, <1>7, <2>1
    <2>2. CASE x # k
      <3>1. /\ jobs'[x] = jobs[x] /\ jobs[x].runs \in Nat
            /\ jobs[x].runs <= 1 + faults.crash
            /\ jobs[x].status # "completed" => jobs[x].runs <= faults.crash
        BY <1>6, <1>7, <1>10, <2>2 DEF RunsInv
      <3> QED  BY <1>10, <3>1
    <2> QED  BY <2>1, <2>2
  <1> QED  BY <1>2, <1>8, <1>9, <1>11 DEF RunsInv

\* A worker that settles its job keeps the key.
LEMMA SettleWorker ==
    ASSUME WorkersType, NEW w \in Workers, worker' = [worker EXCEPT ![w].pc = "settled"]
    PROVE  worker' = [worker EXCEPT ![w] = [pc |-> "settled", key |-> worker[w].key]]
  <1>1. worker[w] \in [pc : {"idle", "running", "settled"}, key : Key \cup {NoKey}]
    BY DEF WorkersType
  <1>2. [worker[w] EXCEPT !.pc = "settled"] = [pc |-> "settled", key |-> worker[w].key]
    BY <1>1
  <1>3. worker' = [worker EXCEPT ![w] = [worker[w] EXCEPT !.pc = "settled"]]
    OBVIOUS
  <1> QED  BY <1>2, <1>3

\* Completing a job counts one more run of its window.
LEMMA CompleteStep ==
    ASSUME Rest, JobsInv, RunsInv, NEW w \in Workers, CompleteJob(w)
    PROVE  JobsInv' /\ RunsInv'
  <1> DEFINE k == worker[w].key
             at == IF k.source \in ResourceSat THEN clock ELSE 0
             old == jobs[k]
             row == [status |-> "completed", by |-> old.by, at |-> at, runs |-> old.runs + 1]
  <1>1. worker[w].pc = "running" /\ k \in DOMAIN jobs /\ jobs[k].status = "running" /\ old \in Row
    BY DEF CompleteJob, JobsInv, JobsType, WorkersType, RunsInv
  <1>2. at \in 0..LastDay
    BY SchedulerAssumption DEF Rest, Days
  <1>3. jobs' = [jobs EXCEPT ![k] = row]
    BY <1>1 DEF CompleteJob
  <1>4. row \in Row /\ row.runs = old.runs + 1 /\ row.status = "completed"
    <2> HIDE DEF old, at
    <2> QED  BY <1>1, <1>2 DEF Row
  <1>5. jobs[k].runs <= faults.crash /\ jobs[k].runs \in Nat /\ faults.crash \in Nat
    BY <1>1, SchedulerAssumption DEF RunsInv, Rest, FaultsType, Row
  <1>6. UNCHANGED faults /\ FaultsType'
    BY DEF CompleteJob, Rest, FaultsType
  <1>7. worker' = [worker EXCEPT ![w] = [pc |-> "settled", key |-> k]]
    BY SettleWorker DEF CompleteJob, JobsInv
  <1> HIDE DEF row
  <1>8. row.runs <= 1 + faults'.crash /\ faults.crash <= faults'.crash
    BY <1>4, <1>5, <1>6
  <1> QED  BY <1>1, <1>3, <1>4, <1>6, <1>7, <1>8, EndStep DEF Rest

\* A failed job leaves its window open for another run.
LEMMA FailStep ==
    ASSUME Rest, JobsInv, RunsInv, NEW w \in Workers, FailJob(w)
    PROVE  Rest' /\ JobsInv' /\ RunsInv'
  <1> DEFINE k == worker[w].key
             row == [jobs[k] EXCEPT !.status = "failed"]
  <1>1. worker[w].pc = "running" /\ k \in DOMAIN jobs /\ jobs[k].status = "running" /\ jobs[k] \in Row
    BY DEF FailJob, JobsInv, JobsType, WorkersType, RunsInv
  <1>2. jobs' = [jobs EXCEPT ![k].status = "failed"]
    BY DEF FailJob
  <1>3. row \in Row /\ row.runs = jobs[k].runs /\ jobs' = [jobs EXCEPT ![k] = row]
    <2> HIDE DEF k
    <2> QED  BY <1>1, <1>2, RowUpdate DEF JobsInv, Statuses
  <1>4. FaultsType' /\ faults'.crash = faults.crash /\ faults.crash \in Nat
    BY FaultType DEF FailJob, Rest
  <1>5. worker' = [worker EXCEPT ![w] = [pc |-> "settled", key |-> k]]
    BY SettleWorker DEF FailJob, JobsInv
  <1>6. jobs[k].runs <= faults.crash /\ jobs[k].runs \in Nat
    BY <1>1 DEF RunsInv, Row
  <1> HIDE DEF row
  <1>7. row.runs <= faults'.crash /\ row.runs <= 1 + faults'.crash /\ faults.crash <= faults'.crash
    BY <1>3, <1>4, <1>6
  <1>8. Rest'
    BY <1>4 DEF Rest, FailJob
  <1> QED  BY <1>1, <1>3, <1>4, <1>5, <1>7, <1>8, EndStep DEF Rest

\* A settled worker runs nothing.
LEMMA AckStep ==
    ASSUME JobsInv, RunsInv, NEW w \in Workers, Ack(w)
    PROVE  JobsInv' /\ RunsInv'
  <1>1. JobsInv'
    BY DEF Ack, JobsInv, JobsType, WorkersType, IdleWorker
  <1>2. \A v \in Workers : worker'[v].pc = "running" => worker'[v] = worker[v] /\ worker[v].pc = "running"
    BY DEF Ack, JobsInv, WorkersType, IdleWorker
  <1>3. UNCHANGED <<jobs, faults>>
    BY DEF Ack
  <1> QED  BY <1>1, <1>2, <1>3 DEF RunsInv

\* A lost worker queues its job again, a completed one too: that run is paid
\* for by the crash.
LEMMA WorkerLostStep ==
    ASSUME Rest, JobsInv, RunsInv, NEW w \in Workers, WorkerLost(w)
    PROVE  Rest' /\ JobsInv' /\ RunsInv'
  <1> DEFINE k == worker[w].key
             row == [jobs[k] EXCEPT !.status = "queued"]
  <1>1. k \in DOMAIN jobs /\ k \in Key /\ jobs[k] \in Row
    BY DEF WorkerLost, JobsInv, JobsType, WorkersType
  <1>2. FaultsType' /\ faults'.crash = faults.crash + 1 /\ faults.crash \in Nat
    BY FaultType DEF WorkerLost, Rest
  <1>3. worker' = [worker EXCEPT ![w] = IdleWorker]
    BY DEF WorkerLost
  <1>4. \A v \in Workers : worker'[v] = IF v = w THEN IdleWorker ELSE worker[v]
    BY <1>3 DEF JobsInv, WorkersType
  <1>5. IdleWorker.pc = "idle"
    BY DEF IdleWorker
  <1>6. \A x \in DOMAIN jobs : /\ jobs[x].runs \in Nat
                               /\ jobs[x].runs <= 1 + faults.crash
                               /\ jobs[x].runs <= faults'.crash
    BY <1>2 DEF RunsInv, JobsInv, JobsType, Row
  <1>7. JobsInv' /\ RunsInv'
    <2>1. CASE worker[w].pc = "settled" /\ Unsettled(k)
      <3>1. UNCHANGED jobs
        BY <2>1 DEF WorkerLost
      <3>2. JobsInv'
        BY <3>1, <1>3 DEF JobsInv, JobsType, WorkersType, IdleWorker
      <3>3. \A x \in DOMAIN jobs : jobs[x].runs <= 1 + faults'.crash
        BY <1>2, <1>6
      <3>4. \A v \in Workers : worker'[v].pc = "running" => worker'[v] = worker[v] /\ worker[v].pc = "running"
        BY <1>4, <1>5
      <3> QED  BY <1>6, <3>1, <3>2, <3>3, <3>4 DEF RunsInv
    <2>2. CASE ~(worker[w].pc = "settled" /\ Unsettled(k))
      <3>1. jobs' = [jobs EXCEPT ![k].status = "queued"]
        BY <2>2 DEF WorkerLost
      <3>2. /\ row \in Row /\ row.runs = jobs[k].runs /\ row.status = "queued"
            /\ jobs' = [jobs EXCEPT ![k] = row]
        <4> HIDE DEF k
        <4> QED  BY <1>1, <3>1, RowUpdate DEF JobsInv, Statuses
      <3> HIDE DEF row
      <3>3. JobsInv'
        BY <1>1, <1>3, <3>2, RowTypes
      <3>4. \A v \in Workers : v # w /\ worker[v].pc = "running" =>
                /\ worker[v].key \in DOMAIN jobs /\ worker[v].key # k
                /\ jobs[worker[v].key].status = "running"
        <4> SUFFICES ASSUME NEW v \in Workers, v # w, worker[v].pc = "running"
                     PROVE  /\ worker[v].key \in DOMAIN jobs /\ worker[v].key # k
                            /\ jobs[worker[v].key].status = "running"
          OBVIOUS
        <4>1. worker[v].key \in DOMAIN jobs /\ jobs[worker[v].key].status = "running"
          BY DEF JobsInv, WorkersType, RunsInv
        <4>2. worker[w].pc \in {"running", "settled"}
          BY DEF WorkerLost, JobsInv, WorkersType
        <4>3. CASE worker[w].pc = "running"
          BY <4>1, <4>3 DEF RunsInv
        <4>4. CASE worker[w].pc = "settled"
          BY <2>2, <4>1, <4>4 DEF Unsettled
        <4> QED  BY <4>1, <4>2, <4>3, <4>4
      <3>5. \A x \in DOMAIN jobs : jobs'[x] = IF x = k THEN row ELSE jobs[x]
        BY <3>2
      <3>6. DOMAIN jobs' = DOMAIN jobs
        BY <3>2
      <3>7. \A v \in Workers : worker'[v].pc = "running" => jobs'[worker'[v].key].status = "running"
        BY <1>4, <1>5, <3>4, <3>5
      <3>8. \A u, v \in Workers :
                u # v /\ worker'[u].pc = "running" /\ worker'[v].pc = "running" => worker'[u].key # worker'[v].key
        BY <1>4, <1>5 DEF RunsInv
      <3>9. \A x \in DOMAIN jobs' : jobs'[x].runs \in Nat /\ jobs'[x].runs <= faults'.crash
        BY <1>1, <1>6, <3>2, <3>5, <3>6
      <3>10. \A x \in DOMAIN jobs' : jobs'[x].runs <= 1 + faults'.crash
        BY <1>2, <3>9
      <3> QED  BY <3>3, <3>7, <3>8, <3>9, <3>10 DEF RunsInv
    <2> QED  BY <2>1, <2>2
  <1>8. Rest'
    BY <1>2 DEF Rest, WorkerLost
  <1> QED  BY <1>7, <1>8
-----------------------------------------------------------------------------
(***************************************************************************)
(* The whole specification.                                                *)
(***************************************************************************)
SchedulerInv == Rest /\ IInv /\ JobsInv /\ RunsInv

LEMMA SchedulerInit == Init => SchedulerInv
<1> SUFFICES ASSUME Init PROVE SchedulerInv
  OBVIOUS
<1>1. LastDay \in Nat /\ MaxFaults \in Nat
  BY SchedulerAssumption
<1>2. DOMAIN jobs = {}
  BY DEF Init
<1>3. JobsInv
  BY <1>2 DEF Init, JobsInv, JobsType, WorkersType, IdleWorker
<1>4. faults \in [{"dispatch", "job", "crash"} -> 0..MaxFaults]
  BY <1>1 DEF Init
<1>5. IInv
  <2>1. IdleDispatcher \in DispatcherRecord /\ Known(IdleDispatcher)
        /\ \A s \in Registry : ~Holds(IdleDispatcher, s)
    BY DEF IdleDispatcher, DispatcherRecord, Known, Holds
  <2>2. \A d \in Dispatchers : dispatcher[d] = IdleDispatcher
    BY DEF Init
  <2>3. DispatchersType
    BY <2>1, <2>2 DEF Init, DispatchersType
  <2>4. LocksType
    BY DEF Init, LocksType
  <2>5. LockMatchesHolder
    BY <2>1, <2>2, SchedulerAssumption DEF Init, LockMatchesHolder, Holds
  <2> QED  BY <2>3, <2>4, <2>5 DEF IInv
<1>6. RunsInv
  BY <1>2 DEF Init, RunsInv, IdleWorker
<1>7. clock \in Days
  BY <1>1, SchedulerAssumption DEF Init, Days
<1> QED  BY <1>3, <1>4, <1>5, <1>6, <1>7 DEF SchedulerInv, Rest, FaultsType

\* One step per action.
LEMMA SchedulerStep == SchedulerInv /\ [Next]_vars => SchedulerInv'
<1> SUFFICES ASSUME Rest, IInv, JobsInv, RunsInv, [Next]_vars
             PROVE  Rest' /\ IInv' /\ JobsInv' /\ RunsInv'
  BY DEF SchedulerInv
<1> USE DEF Dispatchers
<1>c. clock \in Days /\ FaultsType
  BY DEF Rest
<1>j. ASSUME UNCHANGED <<jobs, worker, faults>> PROVE JobsInv' /\ RunsInv'
  BY <1>j DEF JobsInv, JobsType, WorkersType, RunsInv
<1>d. ASSUME UNCHANGED <<dispatcher, lock>> PROVE IInv'
  BY <1>d DEF IInv, DispatchersType, LocksType, LockMatchesHolder
<1>r. ASSUME UNCHANGED <<clock, faults>> PROVE Rest'
  BY <1>r DEF Rest, FaultsType
<1>1. CASE NextDay
  <2>1. clock' \in Days
    BY <1>1, <1>c, SchedulerAssumption DEF NextDay, Days
  <2>2. FaultsType'
    BY <1>1, <1>c DEF NextDay, FaultsType
  <2> QED  BY <1>1, <1>j, <1>d, <2>1, <2>2 DEF NextDay, Rest
<1>2. CASE sync
  <2>1. PICK k \in ApiRequests : start_backfill(k, "other")
    BY <1>2 DEF sync
  <2>2. k \in Key /\ UNCHANGED <<worker, faults>>
    BY <1>2, SchedulerAssumption DEF sync
  <2>3. JobsInv' /\ RunsInv'
    BY <1>c, <2>1, <2>2, StartRuns
  <2> QED  BY <1>2, <1>d, <1>r, <2>3 DEF sync
<1>3. ASSUME NEW d \in Maintenance, scheduled_resourcesat_sources(d)
      PROVE  Rest' /\ IInv' /\ JobsInv' /\ RunsInv'
  <2>1. IInv'
    BY <1>3, <1>c, RunScheduledStep DEF scheduled_resourcesat_sources
  <2>2. UNCHANGED <<clock, jobs, worker, faults>>
    BY <1>3 DEF scheduled_resourcesat_sources, _run_scheduled_sources
  <2> QED  BY <1>j, <1>r, <2>1, <2>2
<1>4. ASSUME NEW d \in Maintenance, scheduled_liss3_preload(d)
      PROVE  Rest' /\ IInv' /\ JobsInv' /\ RunsInv'
  <2>1. {Liss3} \in SUBSET Registry
    BY SchedulerAssumption
  <2>2. IInv'
    BY <1>4, <1>c, <2>1, RunScheduledStep DEF scheduled_liss3_preload
  <2>3. UNCHANGED <<clock, jobs, worker, faults>>
    BY <1>4 DEF scheduled_liss3_preload, _run_scheduled_sources
  <2> QED  BY <1>j, <1>r, <2>2, <2>3
<1>5. ASSUME NEW d \in Maintenance, CheckActive(d)
      PROVE  Rest' /\ IInv' /\ JobsInv' /\ RunsInv'
  <2>1. IInv'
    BY <1>5, <1>c, CheckActiveStep
  <2>2. UNCHANGED <<clock, jobs, worker, faults>>
    BY <1>5 DEF CheckActive
  <2> QED  BY <1>j, <1>r, <2>1, <2>2
<1>6. ASSUME NEW d \in Maintenance, StartChecked(d)
      PROVE  Rest' /\ IInv' /\ JobsInv' /\ RunsInv'
  <2>1. IInv'
    BY <1>6, StartCheckedStep
  <2>2. WindowKey(dispatcher[d].plan) \in Key
    BY <1>6, WindowType DEF StartChecked, IInv, DispatchersType, Known
  <2>3. start_backfill(WindowKey(dispatcher[d].plan), "checked") /\ UNCHANGED <<clock, worker, faults>>
    BY <1>6 DEF StartChecked
  <2>4. JobsInv' /\ RunsInv'
    BY <1>c, <2>2, <2>3, StartRuns
  <2> QED  BY <1>r, <2>1, <2>3, <2>4
<1>7. ASSUME NEW d \in Maintenance, StartDirect(d)
      PROVE  Rest' /\ IInv' /\ JobsInv' /\ RunsInv'
  <2>1. PICK s \in Sources : start_backfill(WindowKey(PreloadWindow(s)), "other")
    BY <1>7 DEF StartDirect, Due
  <2>2. WindowKey(PreloadWindow(s)) \in Key
    BY <1>c, PreloadType, WindowType
  <2>3. UNCHANGED <<clock, lock, dispatcher, worker, faults>>
    BY <1>7 DEF StartDirect
  <2>4. JobsInv' /\ RunsInv'
    BY <1>c, <2>1, <2>2, <2>3, StartRuns
  <2> QED  BY <1>d, <1>r, <2>3, <2>4
<1>8. ASSUME NEW d \in Operators, command_schedule_source(d)
      PROVE  Rest' /\ IInv' /\ JobsInv' /\ RunsInv'
  <2>1. PICK p \in CliRequests :
            dispatcher' = [dispatcher EXCEPT ![d] = [IdleDispatcher EXCEPT !.pc = "plans", !.todo = {p}]]
    BY <1>8 DEF command_schedule_source
  <2>2. {p} \in SUBSET Plan /\ \A q \in {p} : q.source \in Registry
    BY SchedulerAssumption
  <2>3. dispatcher[d].pc = "idle" /\ UNCHANGED <<clock, jobs, lock, worker, faults>>
    BY <1>8 DEF command_schedule_source
  <2>4. IInv'
    BY <2>1, <2>2, <2>3, PlansStep
  <2> QED  BY <1>j, <1>r, <2>3, <2>4
<1>9. ASSUME NEW d \in Dispatchers, BlockPlan(d) \/ AcquireLock(d) \/ ReleaseLock(d)
      PROVE  Rest' /\ IInv' /\ JobsInv' /\ RunsInv'
  <2>1. IInv'
    BY <1>9, BlockStep, AcquireStep, ReleaseStep
  <2>2. UNCHANGED <<clock, jobs, worker, faults>>
    BY <1>9 DEF BlockPlan, AcquireLock, ReleaseLock
  <2> QED  BY <1>j, <1>r, <2>1, <2>2
<1>10. ASSUME NEW d \in Dispatchers, DispatchPlan(d)
       PROVE  Rest' /\ IInv' /\ JobsInv' /\ RunsInv'
  <2>1. dispatcher[d].pc = "locked" /\ WindowKey(dispatcher[d].plan) \in Key
    BY <1>10, WindowType DEF DispatchPlan, IInv, DispatchersType, Known
  <2>2. /\ UNCHANGED jobs \/ start_backfill(WindowKey(dispatcher[d].plan), "other")
        /\ dispatcher' = [dispatcher EXCEPT ![d].pc = "unlock"]
        /\ UNCHANGED <<clock, lock, worker, faults>>
    BY <1>10 DEF DispatchPlan
  <2>3. IInv'
    BY <2>1, <2>2, ToUnlockStep
  <2>4. JobsInv' /\ RunsInv'
    BY <1>c, <1>j, <2>1, <2>2, StartRuns
  <2> QED  BY <1>r, <2>2, <2>3, <2>4
<1>11. ASSUME NEW d \in Dispatchers, DispatcherLost(d)
       PROVE  Rest' /\ IInv' /\ JobsInv' /\ RunsInv'
  <2>1. IInv'
    BY <1>11, LostStep
  <2>2. FaultsType' /\ faults'.crash = faults.crash + 1 /\ faults.crash \in Nat
    BY <1>11, <1>c, FaultType DEF DispatcherLost
  <2>3. UNCHANGED <<clock, jobs, worker>>
    BY <1>11 DEF DispatcherLost
  <2>4. JobsInv'
    BY <2>3 DEF JobsInv, JobsType, WorkersType
  <2>5. \A k \in DOMAIN jobs : jobs[k].runs \in Nat
    BY DEF JobsInv, JobsType, Row
  <2>6. RunsInv'
    BY <2>2, <2>3, <2>5 DEF RunsInv
  <2> QED  BY <1>c, <2>1, <2>2, <2>3, <2>4, <2>6 DEF Rest
<1>12. ASSUME NEW w \in Workers, TakeJob(w) \/ CompleteJob(w) \/ Ack(w)
       PROVE  Rest' /\ IInv' /\ JobsInv' /\ RunsInv'
  <2>1. JobsInv' /\ RunsInv'
    BY <1>12, <1>c, TakeStep, CompleteStep, AckStep
  <2>2. UNCHANGED <<clock, lock, dispatcher, faults>>
    BY <1>12 DEF TakeJob, CompleteJob, Ack
  <2> QED  BY <1>d, <1>r, <2>1, <2>2
<1>13. ASSUME NEW w \in Workers, FailJob(w) \/ WorkerLost(w)
       PROVE  Rest' /\ IInv' /\ JobsInv' /\ RunsInv'
  <2>1. Rest' /\ JobsInv' /\ RunsInv'
    BY <1>13, FailStep, WorkerLostStep
  <2>2. UNCHANGED <<lock, dispatcher>>
    BY <1>13 DEF FailJob, WorkerLost
  <2> QED  BY <1>d, <2>1, <2>2
<1>14. CASE UNCHANGED vars
  BY <1>14, <1>j, <1>d, <1>r DEF vars
<1>15. ASSUME NEW d \in Dispatchers, DispatchRaises(d)
       PROVE  Rest' /\ IInv' /\ JobsInv' /\ RunsInv'
  BY <1>15, RaisesStep
<1> QED
  BY <1>1, <1>2, <1>3, <1>4, <1>5, <1>6, <1>7, <1>8, <1>9, <1>10, <1>11, <1>12, <1>13, <1>14, <1>15
  DEF Next

LEMMA SchedulerInvariant == Spec => []SchedulerInv
<1> QED  BY SchedulerInit, SchedulerStep, PTL DEF Spec

\* Every variable of the scheduler keeps its type: plans are of known sources
\* and end no later than the calendar does, and every busy worker names a row
\* of the job table.
THEOREM SchedulerTyping == Spec => []TypeOK
<1>1. SchedulerInv => TypeOK
  BY TypeParts DEF SchedulerInv, IInv, DispatchersType
<1> QED  BY <1>1, SchedulerInvariant, PTL

\* A source/AOI lock is held by exactly the process between its gates and its
\* unlock, through raised dispatches and lost processes, for any number of
\* beat workers and operators.
THEOREM LockDiscipline == Spec => []LockMatchesHolder
<1>1. SchedulerInv => LockMatchesHolder
  BY DEF SchedulerInv, IInv
<1> QED  BY <1>1, SchedulerInvariant, PTL

\* A window is completed once, plus at most once per lost worker, whatever
\* ticks, commands and requests start it: start_backfill gives a completed job
\* back, and no two workers run one job.
THEOREM RunsOnce == Spec => []WindowRunsOnce
<1>1. SchedulerInv => WindowRunsOnce
  BY DEF SchedulerInv, RunsInv, WindowRunsOnce
<1> QED  BY <1>1, SchedulerInvariant, PTL
-----------------------------------------------------------------------------
(***************************************************************************)
(* The beat task that looks for active jobs.  With one process for the     *)
(* maintenance queue, the default of deploy/compose.staging.yml, no other  *)
(* beat task runs between its look and the start of its job.               *)
(***************************************************************************)
OneMaintenance == \A d, e \in Maintenance : d = e

\* The unsettled jobs of a source that a checking task started.
Piled(s) == {k \in JobsOf(s) : Unsettled(k) /\ jobs[k].by = "checked"}

Starting(d, s) == dispatcher[d].pc = "start" /\ dispatcher[d].plan.source = s

\* What a task that is about to start a job has seen is still true, but for
\* the failed jobs that lost workers brought back.
PileInv ==
    /\ IsFiniteSet(DOMAIN jobs)
    /\ \A d \in Dispatchers : dispatcher[d].pc = "start" => d \in Maintenance
    /\ \A s \in Sources :
          /\ Cardinality(Piled(s)) <= 1 + faults.crash
          /\ \A d \in Dispatchers : Starting(d, s) => Cardinality(Piled(s)) <= faults.crash

LEMMA PileCount ==
    ASSUME IsFiniteSet(DOMAIN jobs), NEW s
    PROVE  IsFiniteSet(Piled(s)) /\ Cardinality(Piled(s)) \in Nat
  <1>1. Piled(s) \in SUBSET DOMAIN jobs
    BY DEF Piled, JobsOf
  <1> QED  BY <1>1, FS_Subset, FS_CardinalityType

\* A set that gains at most one element.
LEMMA OneMore ==
    ASSUME NEW S, NEW T, NEW k, IsFiniteSet(S), T \subseteq S \cup {k}
    PROVE  /\ IsFiniteSet(T) /\ Cardinality(T) \in Nat /\ Cardinality(S) \in Nat
           /\ Cardinality(T) <= Cardinality(S) + 1
           /\ T \subseteq S => Cardinality(T) <= Cardinality(S)
  <1>1. IsFiniteSet(S \cup {k}) /\ Cardinality(S \cup {k}) <= Cardinality(S) + 1
    <2>1. Cardinality(S) \in Nat
      BY FS_CardinalityType
    <2> QED  BY <2>1, FS_AddElement
  <1>2. IsFiniteSet(T) /\ Cardinality(T) <= Cardinality(S \cup {k})
    BY <1>1, FS_Subset
  <1>3. T \subseteq S => Cardinality(T) <= Cardinality(S)
    BY FS_Subset
  <1>4. Cardinality(S) \in Nat /\ Cardinality(T) \in Nat /\ Cardinality(S \cup {k}) \in Nat
    BY <1>1, <1>2, FS_CardinalityType
  <1> QED  BY <1>1, <1>2, <1>3, <1>4

LEMMA CrashCount ==
    ASSUME FaultsType
    PROVE  faults.crash \in Nat
  BY SchedulerAssumption DEF FaultsType

\* No source gets a job more, no task is about to start one that was not.
LEMMA PileKept ==
    ASSUME PileInv, FaultsType, FaultsType', faults.crash <= faults'.crash,
           IsFiniteSet(DOMAIN jobs'),
           \A s \in Sources : Piled(s)' \subseteq Piled(s),
           \A d \in Dispatchers : dispatcher'[d].pc = "start" => dispatcher'[d] = dispatcher[d]
    PROVE  PileInv'
  <1>1. faults.crash \in Nat /\ faults'.crash \in Nat
    BY CrashCount, SchedulerAssumption DEF FaultsType
  <1>2. ASSUME NEW s \in Sources
        PROVE  /\ Cardinality(Piled(s)') \in Nat /\ Cardinality(Piled(s)) \in Nat
               /\ Cardinality(Piled(s)') <= Cardinality(Piled(s))
    BY PileCount, OneMore DEF PileInv
  <1>3. ASSUME NEW s \in Sources  PROVE Cardinality(Piled(s)') <= 1 + faults'.crash
    BY <1>1, <1>2 DEF PileInv
  <1>4. ASSUME NEW s \in Sources, NEW d \in Dispatchers, Starting(d, s)'
        PROVE  Cardinality(Piled(s)') <= faults'.crash
    <2>1. Starting(d, s)
      BY <1>4 DEF Starting
    <2> QED  BY <1>1, <1>2, <2>1 DEF PileInv
  <1>5. \A d \in Dispatchers : dispatcher'[d].pc = "start" => d \in Maintenance
    BY DEF PileInv
  <1> QED  BY <1>3, <1>4, <1>5 DEF PileInv

\* A lost worker may bring one job back.
LEMMA PileRevived ==
    ASSUME PileInv, FaultsType, FaultsType', faults'.crash = faults.crash + 1,
           IsFiniteSet(DOMAIN jobs'), NEW k, UNCHANGED dispatcher,
           \A s \in Sources : Piled(s)' \subseteq Piled(s) \cup {k}
    PROVE  PileInv'
  <1>1. faults.crash \in Nat /\ faults'.crash \in Nat
    BY CrashCount, SchedulerAssumption DEF FaultsType
  <1>2. ASSUME NEW s \in Sources
        PROVE  /\ Cardinality(Piled(s)') \in Nat /\ Cardinality(Piled(s)) \in Nat
               /\ Cardinality(Piled(s)') <= Cardinality(Piled(s)) + 1
    BY PileCount, OneMore DEF PileInv
  <1>3. ASSUME NEW s \in Sources  PROVE Cardinality(Piled(s)') <= 1 + faults'.crash
    BY <1>1, <1>2 DEF PileInv
  <1>4. ASSUME NEW s \in Sources, NEW d \in Dispatchers, Starting(d, s)'
        PROVE  Cardinality(Piled(s)') <= faults'.crash
    <2>1. Starting(d, s)
      BY <1>4 DEF Starting
    <2> QED  BY <1>1, <1>2, <2>1 DEF PileInv
  <1>5. \A d \in Dispatchers : dispatcher'[d].pc = "start" => d \in Maintenance
    BY DEF PileInv
  <1> QED  BY <1>3, <1>4, <1>5 DEF PileInv

\* A row that is written for a key.
LEMMA WrittenPile ==
    ASSUME JobsType, IsFiniteSet(DOMAIN jobs), NEW k \in Key, NEW status \in Statuses,
           NEW by \in {"checked", "other"}, jobs' = Started(k, status, by)
    PROVE  /\ IsFiniteSet(DOMAIN jobs')
           /\ \A s : Piled(s)' \subseteq Piled(s) \cup {k}
           /\ \A s : by = "other" \/ status = "failed" \/ s # k.source => Piled(s)' \subseteq Piled(s)
  <1>1. /\ DOMAIN jobs' = DOMAIN jobs \cup {k}
        /\ \A x \in DOMAIN jobs \ {k} : jobs'[x] = jobs[x]
        /\ jobs'[k].status = status
    BY PutRow
  <1>2. jobs'[k].by = by
    BY DEF Started, Put
  <1>3. IsFiniteSet(DOMAIN jobs')
    BY <1>1, FS_AddElement
  <1>4. \A s : \A x \in Piled(s)' : x # k => x \in Piled(s)
    BY <1>1 DEF Piled, JobsOf, Unsettled
  <1>5. \A s : k \in Piled(s)' => by = "checked" /\ status # "failed" /\ s = k.source
    BY <1>1, <1>2 DEF Piled, JobsOf, Unsettled
  <1> QED  BY <1>3, <1>4, <1>5

LEMMA StartedPile ==
    ASSUME JobsType, IsFiniteSet(DOMAIN jobs), NEW k \in Key,
           NEW by \in {"checked", "other"}, start_backfill(k, by)
    PROVE  /\ IsFiniteSet(DOMAIN jobs')
           /\ \A s : Piled(s)' \subseteq Piled(s) \cup {k}
           /\ \A s : by = "other" \/ s # k.source => Piled(s)' \subseteq Piled(s)
  <1>1. CASE jobs' = jobs
    BY <1>1 DEF Piled, JobsOf, Unsettled
  <1>2. CASE jobs' = Started(k, "queued", by)
    BY <1>2, WrittenPile DEF Statuses
  <1> QED  BY <1>1, <1>2 DEF start_backfill

\* A row that is rewritten: only one that comes back adds to a pile.
LEMMA RewrittenPile ==
    ASSUME IsFiniteSet(DOMAIN jobs), NEW k \in DOMAIN jobs, NEW row,
           jobs' = [jobs EXCEPT ![k] = row], row.by = jobs[k].by
    PROVE  /\ IsFiniteSet(DOMAIN jobs')
           /\ \A s : Piled(s)' \subseteq Piled(s) \cup {k}
           /\ \A s : Unsettled(k) \/ row.status \notin {"queued", "running"} => Piled(s)' \subseteq Piled(s)
  <1>1. /\ DOMAIN jobs' = DOMAIN jobs
        /\ \A x \in DOMAIN jobs : jobs'[x] = IF x = k THEN row ELSE jobs[x]
    OBVIOUS
  <1>2. \A s : \A x \in Piled(s)' : x # k => x \in Piled(s)
    BY <1>1 DEF Piled, JobsOf, Unsettled
  <1>3. \A s : k \in Piled(s)' =>
            k.source = s /\ row.status \in {"queued", "running"} /\ jobs[k].by = "checked"
    BY <1>1 DEF Piled, JobsOf, Unsettled
  <1>4. \A s : (k \in Piled(s)' /\ Unsettled(k)) => k \in Piled(s)
    BY <1>3 DEF Piled, JobsOf
  <1> QED  BY <1>1, <1>2, <1>3, <1>4

\* The statuses a worker writes keep who started the job.
LEMMA StatusRow ==
    ASSUME JobsType, NEW k \in DOMAIN jobs, NEW status \in Statuses
    PROVE  /\ [jobs EXCEPT ![k].status = status] = [jobs EXCEPT ![k] = [jobs[k] EXCEPT !.status = status]]
           /\ [jobs[k] EXCEPT !.status = status].by = jobs[k].by
           /\ [jobs[k] EXCEPT !.status = status].status = status
  BY DEF JobsType, Row

\* Every step but CheckActive leaves no task about to start that was not.
LEMMA StartersKept ==
    ASSUME DispatchersType, [Next]_vars, \A d \in Maintenance : ~CheckActive(d),
           NEW e \in Dispatchers, dispatcher'[e].pc = "start"
    PROVE  dispatcher'[e] = dispatcher[e]
  <1> USE DEF Dispatchers
  <1>1. dispatcher \in [Dispatchers -> DispatcherRecord]
    BY DEF DispatchersType
  <1>a. ASSUME NEW d \in Dispatchers, NEW rec, rec.pc # "start",
               dispatcher' = [dispatcher EXCEPT ![d] = rec]
        PROVE  dispatcher'[e] = dispatcher[e]
    BY <1>1, <1>a
  <1>b. ASSUME NEW d \in Dispatchers, NEW p, dispatcher' = AfterPlan(d, p)
        PROVE  dispatcher'[e] = dispatcher[e]
    <2> DEFINE rest == dispatcher[d].todo \ {p}
               rec == [IdleDispatcher EXCEPT !.pc = IF rest = {} THEN Finished(d) ELSE "plans", !.todo = rest]
    <2>1. rec.pc # "start"
      BY DEF IdleDispatcher, Finished
    <2>2. dispatcher' = [dispatcher EXCEPT ![d] = rec]
      BY <1>b DEF AfterPlan
    <2> HIDE DEF rec
    <2> QED  BY <1>a, <2>1, <2>2
  <1>2. ASSUME NEW d \in Dispatchers, NEW filter, NEW dry, _run_scheduled_sources(d, filter, dry)
        PROVE  dispatcher'[e] = dispatcher[e]
    <2> DEFINE rec == [IdleDispatcher EXCEPT !.pc = "plans", !.todo = plan_due_sources(filter, dry)]
    <2>1. rec.pc # "start"
      BY DEF IdleDispatcher
    <2>2. dispatcher' = [dispatcher EXCEPT ![d] = rec]
      BY <1>2 DEF _run_scheduled_sources
    <2> HIDE DEF rec
    <2> QED  BY <1>a, <2>1, <2>2
  <1>3. ASSUME NEW d \in Dispatchers, command_schedule_source(d)
        PROVE  dispatcher'[e] = dispatcher[e]
    <2>1. PICK p : dispatcher' = [dispatcher EXCEPT ![d] = [IdleDispatcher EXCEPT !.pc = "plans", !.todo = {p}]]
      BY <1>3 DEF command_schedule_source
    <2> QED  BY <1>a, <2>1 DEF IdleDispatcher
  <1>4. ASSUME NEW d \in Dispatchers, BlockPlan(d) \/ ReleaseLock(d)
        PROVE  dispatcher'[e] = dispatcher[e]
    BY <1>4, <1>b DEF BlockPlan, ReleaseLock
  <1>5. ASSUME NEW d \in Dispatchers, AcquireLock(d)
        PROVE  dispatcher'[e] = dispatcher[e]
    BY <1>1, <1>5 DEF AcquireLock, DispatcherRecord
  <1>6. ASSUME NEW d \in Dispatchers, DispatchPlan(d) \/ DispatchRaises(d)
        PROVE  dispatcher'[e] = dispatcher[e]
    <2>1. dispatcher' = [dispatcher EXCEPT ![d].pc = "unlock"]
      BY <1>6 DEF DispatchPlan, DispatchRaises
    <2> QED  BY <1>1, <2>1 DEF DispatcherRecord
  <1>7. ASSUME NEW d \in Dispatchers, DispatcherLost(d)
        PROVE  dispatcher'[e] = dispatcher[e]
    BY <1>7, <1>a DEF DispatcherLost, IdleDispatcher, Finished
  <1>8. ASSUME NEW d \in Dispatchers, StartChecked(d)
        PROVE  dispatcher'[e] = dispatcher[e]
    BY <1>8, <1>a DEF StartChecked, IdleDispatcher
  <1>9. CASE UNCHANGED dispatcher
    BY <1>9
  <1> QED
    BY <1>2, <1>3, <1>4, <1>5, <1>6, <1>7, <1>8, <1>9 DEF Next, vars, NextDay, sync,
       scheduled_resourcesat_sources, scheduled_liss3_preload, StartDirect, TakeJob, CompleteJob,
       FailJob, Ack, WorkerLost

\* The task that starts its job stops being about to.
LEMMA StartCheckedPile ==
    ASSUME OneMaintenance, Rest, IInv, JobsInv, PileInv, NEW d \in Maintenance, StartChecked(d)
    PROVE  PileInv'
  <1> USE DEF Dispatchers
  <1> DEFINE p == dispatcher[d].plan
             k == WindowKey(p)
  <1>1. k \in Key /\ k.source = p.source /\ p.source \in Sources
    BY WindowType DEF StartChecked, IInv, DispatchersType, Known, WindowKey, Plan
  <1>2. start_backfill(k, "checked") /\ UNCHANGED faults /\ faults.crash \in Nat
    BY CrashCount DEF StartChecked, Rest
  <1>3. /\ IsFiniteSet(DOMAIN jobs')
        /\ \A s : Piled(s)' \subseteq Piled(s) \cup {k}
        /\ \A s : s # k.source => Piled(s)' \subseteq Piled(s)
    <2> HIDE DEF k
    <2> QED  BY <1>1, <1>2, StartedPile DEF JobsInv, PileInv
  <1>4. \A e \in Dispatchers : dispatcher'[e].pc # "start"
    <2> TAKE e \in Dispatchers
    <2>1. dispatcher'[e] = IF e = d THEN IdleDispatcher ELSE dispatcher[e]
      BY DEF StartChecked, IInv, DispatchersType
    <2>2. e # d => dispatcher[e].pc # "start"
      BY DEF PileInv, OneMaintenance
    <2> QED  BY <2>1, <2>2 DEF IdleDispatcher
  <1>5. \A s \in Sources : Cardinality(Piled(s)') <= 1 + faults'.crash
    <2> TAKE s \in Sources
    <2>1. /\ Cardinality(Piled(s)') \in Nat /\ Cardinality(Piled(s)) \in Nat
          /\ Cardinality(Piled(s)') <= Cardinality(Piled(s)) + 1
          /\ s # k.source => Cardinality(Piled(s)') <= Cardinality(Piled(s))
      <3> HIDE DEF k
      <3> QED  BY <1>3, PileCount, OneMore DEF PileInv
    <2>2. s = k.source => Cardinality(Piled(s)) <= faults.crash
      BY <1>1 DEF StartChecked, PileInv, Starting
    <2>3. Cardinality(Piled(s)) <= 1 + faults.crash
      BY DEF PileInv
    <2> HIDE DEF k
    <2> QED  BY <1>2, <2>1, <2>2, <2>3
  <1> QED  BY <1>3, <1>4, <1>5 DEF PileInv, Starting

\* The task has seen that its source has no unsettled job.
LEMMA CheckActivePile ==
    ASSUME OneMaintenance, Rest, IInv, PileInv, NEW d \in Maintenance, CheckActive(d)
    PROVE  PileInv'
  <1> USE DEF Dispatchers
  <1>1. PICK t \in Sources :
            /\ ~has_active_backfill(t)
            /\ dispatcher' = [dispatcher EXCEPT ![d].pc = "start", ![d].plan = PreloadWindow(t)]
    BY DEF CheckActive, Due
  <1>2. UNCHANGED <<jobs, faults>> /\ faults.crash \in Nat
    BY CrashCount DEF CheckActive, Rest
  <1>3. \A s : Piled(s)' = Piled(s)
    BY <1>2 DEF Piled, JobsOf, Unsettled
  <1>4. Cardinality(Piled(t)) = 0
    <2>1. Piled(t) = {}
      BY <1>1 DEF has_active_backfill, Piled
    <2> QED  BY <2>1, FS_EmptySet
  <1>5. \A e \in Dispatchers : dispatcher'[e].pc = "start" =>
            e = d /\ dispatcher'[e].plan.source = t
    <2> TAKE e \in Dispatchers
    <2>1. CASE e = d
      <3>1. dispatcher[d] \in DispatcherRecord
        BY DEF IInv, DispatchersType
      <3>2. dispatcher'[d].plan = PreloadWindow(t)
        BY <1>1, <3>1 DEF IInv, DispatchersType, DispatcherRecord
      <3> QED  BY <2>1, <3>2 DEF PreloadWindow
    <2>2. CASE e # d
      <3>1. dispatcher'[e] = dispatcher[e]
        BY <1>1, <2>2 DEF IInv, DispatchersType
      <3> QED  BY <2>2, <3>1 DEF PileInv, OneMaintenance
    <2> QED  BY <2>1, <2>2
  <1> QED  BY <1>2, <1>3, <1>4, <1>5 DEF PileInv, Starting

\* Some caller that does not look starts a job, or a dispatch fails.
LEMMA OtherStartPile ==
    ASSUME PileInv, JobsType, NEW k \in Key,
           \/ UNCHANGED jobs
           \/ start_backfill(k, "other")
           \/ jobs' = Started(k, "failed", "other")
    PROVE  IsFiniteSet(DOMAIN jobs') /\ \A s : Piled(s)' \subseteq Piled(s)
  <1>1. CASE UNCHANGED jobs
    BY <1>1 DEF PileInv, Piled, JobsOf, Unsettled
  <1>2. CASE start_backfill(k, "other")
    BY <1>2, StartedPile DEF PileInv
  <1>3. CASE jobs' = Started(k, "failed", "other")
    BY <1>3, WrittenPile DEF PileInv, Statuses
  <1> QED  BY <1>1, <1>2, <1>3

\* A worker goes on, and is not lost.
LEMMA WorkerPile ==
    ASSUME Rest, JobsInv, RunsInv, PileInv, NEW w \in Workers,
           TakeJob(w) \/ CompleteJob(w) \/ FailJob(w) \/ Ack(w)
    PROVE  IsFiniteSet(DOMAIN jobs') /\ \A s : Piled(s)' \subseteq Piled(s)
  <1>1. CASE TakeJob(w)
    <2>1. PICK k \in DOMAIN jobs :
              jobs[k].status = "queued" /\ jobs' = [jobs EXCEPT ![k].status = "running"]
      BY <1>1 DEF TakeJob
    <2> QED  BY <2>1, StatusRow, RewrittenPile DEF JobsInv, PileInv, Statuses, Unsettled
  <1>2. CASE CompleteJob(w)
    <2>1. worker[w].key \in DOMAIN jobs /\ jobs[worker[w].key] \in Row
      BY <1>2 DEF CompleteJob, JobsInv, JobsType, WorkersType
    <2> DEFINE k == worker[w].key
               row == [status |-> "completed", by |-> jobs[k].by,
                       at |-> IF k.source \in ResourceSat THEN clock ELSE 0,
                       runs |-> jobs[k].runs + 1]
    <2>2. jobs' = [jobs EXCEPT ![k] = row]
      BY <1>2 DEF CompleteJob
    <2>3. row.status = "completed" /\ row.by = jobs[k].by
      OBVIOUS
    <2> HIDE DEF row
    <2> QED  BY <2>1, <2>2, <2>3, RewrittenPile DEF PileInv
  <1>3. CASE FailJob(w)
    <2>1. worker[w].key \in DOMAIN jobs
      BY <1>3 DEF FailJob, JobsInv, WorkersType
    <2>2. jobs' = [jobs EXCEPT ![worker[w].key].status = "failed"]
      BY <1>3 DEF FailJob
    <2> QED  BY <2>1, <2>2, StatusRow, RewrittenPile DEF JobsInv, PileInv, Statuses
  <1>4. CASE Ack(w)
    BY <1>4 DEF Ack, PileInv, Piled, JobsOf, Unsettled
  <1> QED  BY <1>1, <1>2, <1>3, <1>4

LEMMA WorkerLostPile ==
    ASSUME Rest, JobsInv, PileInv, NEW w \in Workers, WorkerLost(w)
    PROVE  PileInv'
  <1> DEFINE k == worker[w].key
  <1>1. k \in DOMAIN jobs
    BY DEF WorkerLost, JobsInv, WorkersType
  <1>2. FaultsType' /\ faults'.crash = faults.crash + 1
    BY FaultType DEF WorkerLost, Rest
  <1>3. IsFiniteSet(DOMAIN jobs') /\ \A s : Piled(s)' \subseteq Piled(s) \cup {k}
    <2>1. CASE UNCHANGED jobs
      BY <2>1 DEF PileInv, Piled, JobsOf, Unsettled
    <2>2. CASE jobs' = [jobs EXCEPT ![k].status = "queued"]
      <3> HIDE DEF k
      <3> QED  BY <1>1, <2>2, StatusRow, RewrittenPile DEF JobsInv, PileInv, Statuses
    <2> QED  BY <2>1, <2>2 DEF WorkerLost
  <1>4. UNCHANGED dispatcher /\ FaultsType
    BY DEF WorkerLost, Rest
  <1> HIDE DEF k
  <1> QED  BY <1>2, <1>3, <1>4, PileRevived

LEMMA PileStep ==
    ASSUME OneMaintenance, SchedulerInv, SchedulerInv', PileInv, [Next]_vars
    PROVE  PileInv'
  <1> USE DEF Dispatchers
  <1>0. /\ Rest /\ IInv /\ JobsInv /\ RunsInv
        /\ FaultsType /\ FaultsType' /\ faults.crash \in Nat /\ JobsType /\ clock \in Days
        /\ dispatcher \in [Dispatchers -> DispatcherRecord] /\ DispatchersType
        /\ \A d \in Dispatchers : Known(dispatcher[d])
    BY CrashCount DEF SchedulerInv, Rest, IInv, JobsInv, DispatchersType
  <1>1. CASE \E d \in Maintenance : CheckActive(d)
    BY <1>0, <1>1, CheckActivePile
  <1>2. CASE \E d \in Maintenance : StartChecked(d)
    BY <1>0, <1>2, StartCheckedPile
  <1>3. CASE \E w \in Workers : WorkerLost(w)
    BY <1>0, <1>3, WorkerLostPile
  <1>4. ASSUME \A d \in Maintenance : ~CheckActive(d),
               IsFiniteSet(DOMAIN jobs'), \A s \in Sources : Piled(s)' \subseteq Piled(s),
               faults.crash <= faults'.crash
        PROVE  PileInv'
    <2>1. \A d \in Dispatchers : dispatcher'[d].pc = "start" => dispatcher'[d] = dispatcher[d]
      BY <1>0, <1>4, StartersKept
    <2> QED  BY <1>0, <1>4, <2>1, PileKept
  <1>5. ASSUME UNCHANGED jobs
        PROVE  IsFiniteSet(DOMAIN jobs') /\ \A s : Piled(s)' \subseteq Piled(s)
    BY <1>5 DEF PileInv, Piled, JobsOf, Unsettled
  <1>6. CASE sync
    <2>1. PICK k \in ApiRequests : start_backfill(k, "other")
      BY <1>6 DEF sync
    <2>2. k \in Key
      BY SchedulerAssumption
    <2>3. IsFiniteSet(DOMAIN jobs') /\ (\A s \in Sources : Piled(s)' \subseteq Piled(s)) /\ UNCHANGED faults
      BY <1>0, <1>6, <2>1, <2>2, OtherStartPile DEF sync
    <2> QED  BY <1>0, <1>1, <1>4, <2>3
  <1>7. ASSUME NEW d \in Maintenance, StartDirect(d)  PROVE PileInv'
    <2>1. PICK s \in Sources : start_backfill(WindowKey(PreloadWindow(s)), "other")
      BY <1>7 DEF StartDirect, Due
    <2>2. WindowKey(PreloadWindow(s)) \in Key
      BY <1>0, PreloadType, WindowType
    <2>3. IsFiniteSet(DOMAIN jobs') /\ (\A t \in Sources : Piled(t)' \subseteq Piled(t)) /\ UNCHANGED faults
      BY <1>0, <1>7, <2>1, <2>2, OtherStartPile DEF StartDirect
    <2> QED  BY <1>0, <1>1, <1>4, <2>3
  <1>8. ASSUME NEW d \in Dispatchers, DispatchPlan(d) \/ DispatchRaises(d)  PROVE PileInv'
    <2>1. WindowKey(dispatcher[d].plan) \in Key
      BY <1>0, <1>8, WindowType DEF DispatchPlan, DispatchRaises, Known
    <2>2. /\ IsFiniteSet(DOMAIN jobs')
          /\ \A s \in Sources : Piled(s)' \subseteq Piled(s)
      BY <1>0, <1>8, <2>1, OtherStartPile DEF DispatchPlan, DispatchRaises
    <2>3. faults.crash <= faults'.crash
      BY <1>0, <1>8, FaultType DEF DispatchPlan, DispatchRaises
    <2> QED  BY <1>1, <1>4, <2>2, <2>3
  <1>9. ASSUME NEW w \in Workers, TakeJob(w) \/ CompleteJob(w) \/ FailJob(w) \/ Ack(w)
        PROVE  PileInv'
    <2>1. IsFiniteSet(DOMAIN jobs') /\ \A s \in Sources : Piled(s)' \subseteq Piled(s)
      BY <1>0, <1>9, WorkerPile
    <2>2. faults.crash <= faults'.crash
      BY <1>0, <1>9, FaultType DEF TakeJob, CompleteJob, FailJob, Ack
    <2> QED  BY <1>1, <1>4, <2>1, <2>2
  <1>10. ASSUME NEW d \in Dispatchers, DispatcherLost(d)  PROVE PileInv'
    <2>1. faults.crash <= faults'.crash /\ UNCHANGED jobs
      BY <1>0, <1>10, FaultType DEF DispatcherLost
    <2> QED  BY <1>1, <1>4, <1>5, <2>1
  <1>11. ASSUME UNCHANGED <<jobs, faults>>  PROVE PileInv'
    BY <1>0, <1>1, <1>4, <1>5, <1>11
  <1> QED
    BY <1>1, <1>2, <1>3, <1>6, <1>7, <1>8, <1>9, <1>10, <1>11 DEF Next, vars, NextDay,
       scheduled_resourcesat_sources, scheduled_liss3_preload, _run_scheduled_sources,
       command_schedule_source, BlockPlan, AcquireLock, ReleaseLock

\* A task that looks for active jobs before it starts its own has at most one
\* unsettled job per source, plus one for each worker that was lost, for any
\* days, schedules and requests, if one process serves the maintenance queue:
\* with two, both look before either starts.
THEOREM NoPile ==
    ASSUME OneMaintenance
    PROVE  Spec => []BeatNeverPilesUp
<1>1. Init => PileInv
  <2> SUFFICES ASSUME Init  PROVE PileInv
    OBVIOUS
  <2>1. DOMAIN jobs = {} /\ faults.crash = 0 /\ \A d \in Dispatchers : dispatcher[d].pc = "idle"
    BY DEF Init, IdleDispatcher
  <2>2. \A s : Cardinality(Piled(s)) = 0
    <3>1. \A s : Piled(s) = {}
      BY <2>1 DEF Piled, JobsOf
    <3> QED  BY <3>1, FS_EmptySet
  <2>3. IsFiniteSet(DOMAIN jobs)
    BY <2>1, FS_EmptySet
  <2> QED  BY <2>1, <2>2, <2>3 DEF PileInv, Starting
<1>2. SchedulerInv /\ SchedulerInv' /\ PileInv /\ [Next]_vars => PileInv'
  BY PileStep
<1>3. PileInv => BeatNeverPilesUp
  BY DEF PileInv, BeatNeverPilesUp, Piled, Sources
<1> QED  BY <1>1, <1>2, <1>3, SchedulerInvariant, PTL DEF Spec
=============================================================================
