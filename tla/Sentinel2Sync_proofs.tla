-------------------------- MODULE Sentinel2Sync_proofs --------------------------
(***************************************************************************)
(* Proofs about Sentinel2Sync, for any calendar, scenes, search results,   *)
(* requests and faults; the action properties for one worker process on    *)
(* the heavy-cpu queue, as it is deployed.                                 *)
(***************************************************************************)
EXTENDS Sentinel2Sync, FiniteSetTheorems, WellFoundedInduction, TLAPS

EarlierThan == {ss \in Nat \X Nat : ss[1] < ss[2]}

LEMMA EarlierRelation == OpToRel(<, Nat) = EarlierThan
  BY DEF OpToRel, EarlierThan

LEMMA EarlierWellFounded == IsWellFoundedOn(EarlierThan, Nat)
  BY NatLessThanWellFounded, EarlierRelation, Zenon

\* A set of days has an earliest one.
LEMMA MinOfDays ==
    ASSUME NEW S \in SUBSET Nat, S # {}
    PROVE  Min(S) \in S /\ \A d \in S : Min(S) <= d
  <1>1. PICK m \in S : \A d \in S : ~ (<<d, m>> \in EarlierThan)
    BY EarlierWellFounded, WFMin
  <1>2. \A d \in S : m =< d
    <2> TAKE d \in S
    <2>1. d \in Nat /\ m \in Nat
      OBVIOUS
    <2>2. CASE d < m
      <3>1. <<d, m>> \in EarlierThan
        BY <2>1, <2>2 DEF EarlierThan
      <3> QED  BY <1>1, <3>1
    <2> QED  BY <2>1, <2>2
  <1> QED  BY <1>2 DEF Min

LEMMA MaxOfTwo ==
    ASSUME NEW a \in Nat, NEW b \in Nat
    PROVE  Max({a, b}) \in Nat
  <1>1. \E m \in {a, b} : \A y \in {a, b} : m >= y
    <2>1. CASE a >= b  BY <2>1
    <2>2. CASE a < b   BY <2>2
    <2> QED  BY <2>1, <2>2
  <1> QED  BY <1>1 DEF Max

LEMMA CountOfScenes ==
    ASSUME NEW S \in SUBSET Scenes
    PROVE  Cardinality(S) \in Nat
  BY SyncAssumption, FS_Subset, FS_CardinalityType

LEMMA BoundsType == LastDay \in Nat /\ SeedDays \in Nat \ {0} /\ RefreshDays \in Nat \ {0} /\ RefreshDays <= SeedDays /\ SeedDays <= LastDay
  BY SyncAssumption

\* A scheduled run asks for a window that ends at the clock.
LEMMA ScheduledWindow ==
    ASSUME TypeOK, clock >= SeedDays
    PROVE  [start |-> ScheduledStart, end |-> clock, mode |-> "full_pipeline"] \in Windows
  <1> DEFINE seedStart  == clock - SeedDays + 1
             known      == {d \in Days : ledger[d] # NoRow}
             missing    == (seedStart..clock) \ known
             incomplete == {d \in known : ledger[d].status # "complete" /\ d <= clock}
             from       == {clock - RefreshDays + 1} \cup missing \cup incomplete
  <1>1. clock \in Nat /\ clock <= LastDay /\ seedStart \in 1..clock /\ clock - RefreshDays + 1 \in 1..clock
    BY BoundsType DEF TypeOK, Days
  <1>2. from \in SUBSET (1..clock)
    <2>1. missing \in SUBSET (1..clock)
      BY <1>1
    <2>2. incomplete \in SUBSET (1..clock)
      BY <1>1 DEF Days
    <2> QED  BY <1>1, <2>1, <2>2
  <1>3. Min(from) \in 1..clock
    <2>1. from \in SUBSET Nat /\ from # {}
      BY <1>1, <1>2
    <2> HIDE DEF from
    <2> QED  BY <1>2, <2>1, MinOfDays
  <1>4. ScheduledStart \in 1..clock
    <2>1. ScheduledStart = IF known = {} THEN seedStart ELSE Min(from)
      BY DEF ScheduledStart
    <2> HIDE DEF from, known, seedStart
    <2> QED  BY <1>1, <1>3, <2>1
  <1>5. ScheduledStart \in Days /\ clock \in Days /\ ScheduledStart <= clock
    BY <1>1, <1>4, BoundsType DEF Days
  <1> HIDE DEF from, known, seedStart
  <1> QED  BY <1>5 DEF Windows, Modes
-----------------------------------------------------------------------------
(***************************************************************************)
(* Typing.  A scheduled window starts SeedDays before the clock, so the    *)
(* clock must never be below that.                                         *)
(***************************************************************************)
WorkerOK(rec) ==
    /\ rec \in WorkerRecord
    /\ rec.pc # "idle" =>
          /\ rec.job \in Windows
          /\ rec.day \in rec.job.start..(rec.job.end + 1)
          /\ rec.pc # "day" => rec.day <= rec.job.end

TablesOK ==
    /\ clock \in Days
    /\ jobs \in [Windows -> {"none", "queued", "running", "completed", "failed"}]
    /\ ledger \in [Days -> LedgerRow \cup {NoRow}]
    /\ scene \in [Scenes -> SceneState]
    /\ faults \in [{"item", "search", "crash"} -> 0..MaxFaults]
    /\ lastFound \in [Days -> SUBSET Scenes]

WorkersOK == worker \in [Workers -> WorkerRecord] /\ \A w \in Workers : WorkerOK(worker[w])

LEMMA TypingParts == TypeOK <=> TablesOK /\ WorkersOK
  BY DEF TypeOK, TablesOK, WorkersOK, WorkerOK

LEMMA WorkerSteps ==
    ASSUME WorkersOK, NEW w \in Workers, NEW rec, WorkerOK(rec),
           worker' = [worker EXCEPT ![w] = rec]
    PROVE  WorkersOK'
  BY DEF WorkersOK, WorkerOK

LEMMA NewRowType ==
    ASSUME NEW n \in Nat
    PROVE  NewRow(n) \in LedgerRow /\ NewRow(n).status = "running" /\ NewRow(n).retry_count = n
  BY DEF NewRow, LedgerRow, LedgerStatus

LEMMA IdleType ==
    /\ WorkerOK(IdleWorker)
    /\ IdleWorker.pc = "idle"
    /\ \A k \in Windows : \A d \in k.start..(k.end + 1) :
          /\ WorkerOK([IdleWorker EXCEPT !.pc = "day", !.job = k, !.day = d])
          /\ [IdleWorker EXCEPT !.pc = "day", !.job = k, !.day = d].pc = "day"
  <1>1. NewRow(0) \in LedgerRow
    BY NewRowType
  <1>2. IdleWorker \in WorkerRecord /\ IdleWorker.pc = "idle"
    BY <1>1, BoundsType DEF IdleWorker, WorkerRecord
  <1> SUFFICES ASSUME NEW k \in Windows, NEW d \in k.start..(k.end + 1)
               PROVE  WorkerOK([IdleWorker EXCEPT !.pc = "day", !.job = k, !.day = d])
    BY <1>2 DEF WorkerOK, IdleWorker
  <1>3. d \in 0..(LastDay + 1)
    BY BoundsType DEF Windows, Days
  <1> QED  BY <1>2, <1>3, <1>1 DEF WorkerOK, WorkerRecord, IdleWorker

LEMMA DayOfWorker ==
    ASSUME WorkersOK, NEW w \in Workers, worker[w].pc # "idle"
    PROVE  /\ worker[w] \in WorkerRecord /\ WorkerOK(worker[w])
           /\ worker[w].job \in Windows
           /\ worker[w].day \in Nat
           /\ worker[w].day <= worker[w].job.end => worker[w].day \in Days
           /\ worker[w].pc # "day" => worker[w].day <= worker[w].job.end /\ worker[w].day \in Days
  BY BoundsType DEF WorkersOK, WorkerOK, Windows, Days

LEMMA FaultKeeps ==
    ASSUME TablesOK, NEW kind \in {"item", "search", "crash"}, Fault(kind)
    PROVE  faults' \in [{"item", "search", "crash"} -> 0..MaxFaults]
  <1>1. faults.item \in 0..MaxFaults /\ faults.search \in 0..MaxFaults /\ faults.crash \in 0..MaxFaults
    BY DEF TablesOK
  <1>2. faults[kind] + 1 \in 0..MaxFaults
    BY <1>1, SyncAssumption DEF Fault
  <1> QED  BY <1>2 DEF Fault, TablesOK

\* What the worker's record becomes.
BegunDay(w) ==
    LET existing == IF ledger[worker[w].day] = NoRow THEN NewRow(0) ELSE ledger[worker[w].day]
    IN  [worker[w] EXCEPT !.pc = "search", !.existing = existing, !.row = NewRow(existing.retry_count)]

FoundRow(w, items, exhausted) ==
    [worker[w].row EXCEPT
        !.scene_count = Max({worker[w].existing.scene_count, Cardinality(items)}),
        !.search_complete = exhausted]

Searched(w, items, row) ==
    [worker[w] EXCEPT !.pc = "items", !.row = row, !.items = items, !.todo = items, !.failed = 0]

Picked(w, s) ==
    [worker[w] EXCEPT !.todo = @ \ {s},
        !.item = IF _scene_is_complete(s) THEN {} ELSE {s},
        !.pc = IF _scene_is_complete(s) THEN "items"
               ELSE IF scene[s] = "outputs" THEN "publish" ELSE "register"]

NextTaken(w) == [worker[w] EXCEPT !.pc = "items", !.item = {}]

LEMMA BegunDayType ==
    ASSUME TablesOK, WorkersOK, NEW w \in Workers, worker[w].pc = "day",
           worker[w].day <= worker[w].job.end
    PROVE  WorkerOK(BegunDay(w)) /\ BegunDay(w).row \in LedgerRow
  <1> DEFINE existing == IF ledger[worker[w].day] = NoRow THEN NewRow(0) ELSE ledger[worker[w].day]
  <1>1. worker[w].day \in Days /\ worker[w] \in WorkerRecord /\ WorkerOK(worker[w])
    BY DayOfWorker
  <1>2. existing \in LedgerRow
    BY <1>1, NewRowType DEF TablesOK
  <1>3. existing.retry_count \in Nat
    BY <1>2 DEF LedgerRow
  <1>4. NewRow(existing.retry_count) \in LedgerRow
    BY <1>3, NewRowType
  <1> HIDE DEF existing
  <1>5. BegunDay(w) = [worker[w] EXCEPT !.pc = "search", !.existing = existing, !.row = NewRow(existing.retry_count)]
    BY DEF BegunDay, existing
  <1> QED  BY <1>1, <1>2, <1>4, <1>5 DEF WorkerOK, WorkerRecord

LEMMA SearchedType ==
    ASSUME WorkersOK, NEW w \in Workers, worker[w].pc = "search",
           NEW items \in Results[worker[w].day], NEW exhausted \in BOOLEAN
    PROVE  /\ items \in SUBSET Scenes
           /\ FoundRow(w, items, exhausted) \in LedgerRow
           /\ WorkerOK(Searched(w, items, FoundRow(w, items, exhausted)))
  <1>1. worker[w].day \in Days /\ worker[w] \in WorkerRecord /\ WorkerOK(worker[w])
    BY DayOfWorker
  <1>2. items \in SUBSET Scenes
    BY <1>1, SyncAssumption
  <1>3. worker[w].existing \in LedgerRow /\ worker[w].row \in LedgerRow
    BY <1>1 DEF WorkerRecord
  <1>4. Max({worker[w].existing.scene_count, Cardinality(items)}) \in Nat
    <2>1. worker[w].existing.scene_count \in Nat
      BY <1>3 DEF LedgerRow
    <2> QED  BY <2>1, <1>2, CountOfScenes, MaxOfTwo
  <1>5. FoundRow(w, items, exhausted) \in LedgerRow
    BY <1>3, <1>4 DEF FoundRow, LedgerRow
  <1> QED  BY <1>1, <1>2, <1>5 DEF WorkerOK, WorkerRecord, Searched

LEMMA PickedType ==
    ASSUME WorkersOK, NEW w \in Workers, worker[w].pc = "items", NEW s \in worker[w].todo
    PROVE  WorkerOK(Picked(w, s)) /\ s \in Scenes
  <1>1. worker[w] \in WorkerRecord /\ WorkerOK(worker[w])
    BY DayOfWorker
  <1>2. s \in Scenes /\ worker[w].todo \ {s} \in SUBSET Scenes
    BY <1>1 DEF WorkerRecord
  <1> QED  BY <1>1, <1>2 DEF WorkerOK, WorkerRecord, Picked

LEMMA ClosedRowType ==
    ASSUME WorkersOK, NEW w \in Workers, worker[w].pc = "items"
    PROVE  ClosedRow(w) \in LedgerRow
  <1> DEFINE now == worker[w]
             done == Cardinality({s \in now.items : _scene_is_complete(s)})
             processed == Max({now.existing.processed_count, done})
  <1>1. now \in WorkerRecord
    BY DayOfWorker
  <1>2. now.existing.processed_count \in Nat /\ now.row \in LedgerRow /\ now.failed \in Nat
    BY <1>1 DEF WorkerRecord, LedgerRow
  <1>3. done \in Nat
    <2>1. {s \in now.items : _scene_is_complete(s)} \in SUBSET Scenes
      BY <1>1 DEF WorkerRecord
    <2> QED  BY <2>1, CountOfScenes
  <1>4. processed \in Nat
    <2> HIDE DEF done
    <2> QED  BY <1>2, <1>3, MaxOfTwo
  <1>5. \E status \in LedgerStatus, n \in Nat :
           ClosedRow(w) = [now.row EXCEPT !.processed_count = processed, !.status = status, !.retry_count = n]
    <2>1. now.row.retry_count + (IF now.failed > 0 THEN 1 ELSE 0) \in Nat
      BY <1>2 DEF LedgerRow
    <2>2. \E status \in {"complete", "partial"} :
           ClosedRow(w) = [now.row EXCEPT !.processed_count = processed, !.status = status,
                             !.retry_count = @ + (IF now.failed > 0 THEN 1 ELSE 0)]
      BY DEF ClosedRow
    <2> QED  BY <1>2, <2>1, <2>2 DEF LedgerRow, LedgerStatus
  <1> HIDE DEF processed
  <1> QED  BY <1>2, <1>4, <1>5 DEF LedgerRow

\* How a step of a worker changes its record.
LEMMA RecordSteps ==
    ASSUME WorkersOK, NEW w \in Workers
    PROVE  /\ BeginDay(w) => worker' = [worker EXCEPT ![w] = BegunDay(w)]
           /\ \A s \in worker[w].todo :
                 [worker EXCEPT ![w].todo = @ \ {s},
                    ![w].item = IF _scene_is_complete(s) THEN {} ELSE {s},
                    ![w].pc = IF _scene_is_complete(s) THEN "items"
                              ELSE IF scene[s] = "outputs" THEN "publish" ELSE "register"]
                  = [worker EXCEPT ![w] = Picked(w, s)]
           /\ NextItem(w) = [worker EXCEPT ![w] = NextTaken(w)]
           /\ [NextItem(w) EXCEPT ![w].failed = @ + 1]
                = [worker EXCEPT ![w] = [NextTaken(w) EXCEPT !.failed = @ + 1]]
           /\ [worker EXCEPT ![w].pc = "process"] = [worker EXCEPT ![w] = [worker[w] EXCEPT !.pc = "process"]]
           /\ [worker EXCEPT ![w].pc = "publish"] = [worker EXCEPT ![w] = [worker[w] EXCEPT !.pc = "publish"]]
           /\ \A items : \A row :
                 [worker EXCEPT ![w].pc = "items", ![w].row = row,
                    ![w].items = items, ![w].todo = items, ![w].failed = 0]
                  = [worker EXCEPT ![w] = Searched(w, items, row)]
  <1> USE DEF WorkersOK
  <1>1. BeginDay(w) => worker' = [worker EXCEPT ![w] = BegunDay(w)]
    BY DEF BeginDay, BegunDay
  <1>2. \A s \in worker[w].todo :
                 [worker EXCEPT ![w].todo = @ \ {s},
                    ![w].item = IF _scene_is_complete(s) THEN {} ELSE {s},
                    ![w].pc = IF _scene_is_complete(s) THEN "items"
                              ELSE IF scene[s] = "outputs" THEN "publish" ELSE "register"]
                  = [worker EXCEPT ![w] = Picked(w, s)]
    BY DEF Picked
  <1>3. NextItem(w) = [worker EXCEPT ![w] = NextTaken(w)]
    BY DEF NextItem, NextTaken
  <1>4. [NextItem(w) EXCEPT ![w].failed = @ + 1]
                = [worker EXCEPT ![w] = [NextTaken(w) EXCEPT !.failed = @ + 1]]
    BY <1>3
  <1>5. \A items : \A row :
                 [worker EXCEPT ![w].pc = "items", ![w].row = row,
                    ![w].items = items, ![w].todo = items, ![w].failed = 0]
                  = [worker EXCEPT ![w] = Searched(w, items, row)]
    <2> TAKE items
    <2> TAKE row
    <2> QED  BY DEF Searched
  <1> QED  BY <1>1, <1>2, <1>3, <1>4, <1>5

\* The worker takes one of the scenes to do.
LEMMA PickStep ==
    ASSUME WorkersOK, NEW w \in Workers, PickItem(w)
    PROVE  \E s \in worker[w].todo : worker' = [worker EXCEPT ![w] = Picked(w, s)]
  <1>1. PICK s \in worker[w].todo :
           worker' = [worker EXCEPT ![w].todo = @ \ {s},
              ![w].item = IF _scene_is_complete(s) THEN {} ELSE {s},
              ![w].pc = IF _scene_is_complete(s) THEN "items"
                        ELSE IF scene[s] = "outputs" THEN "publish" ELSE "register"]
    BY DEF PickItem
  <1>2. worker' = [worker EXCEPT ![w] = Picked(w, s)]
    BY <1>1, RecordSteps, ZenonT(30)
  <1> QED  BY <1>2

\* The answer of a search goes into the row of the day and into the worker's hands.
LEMMA SearchStep ==
    ASSUME NEW w \in Workers, Search(w)
    PROVE  \E items \in Results[worker[w].day] : \E exhausted \in BOOLEAN :
             /\ ledger' = [ledger EXCEPT ![worker[w].day] = FoundRow(w, items, exhausted)]
             /\ worker' = [worker EXCEPT ![w].pc = "items", ![w].row = FoundRow(w, items, exhausted),
                    ![w].items = items, ![w].todo = items, ![w].failed = 0]
             /\ lastFound' = [lastFound EXCEPT ![worker[w].day] = items]
  BY ZenonT(60) DEF Search, FoundRow

\* Typing with the bound on the clock that the scheduled window needs.
SyncTyping == TablesOK /\ WorkersOK /\ clock >= SeedDays

LEMMA InitTyping == Init => SyncTyping
  <1> SUFFICES ASSUME Init  PROVE SyncTyping
    OBVIOUS
  <1>1. TablesOK
    BY SyncAssumption DEF Init, TablesOK, Days, SceneState
  <1>2. WorkersOK
    BY IdleType DEF Init, WorkersOK, WorkerOK
  <1> QED  BY <1>1, <1>2, BoundsType DEF Init, SyncTyping

LEMMA Requested ==
    ASSUME jobs \in [Windows -> {"none", "queued", "running", "completed", "failed"}],
           NEW k \in Windows, start_backfill(k)
    PROVE  jobs' \in [Windows -> {"none", "queued", "running", "completed", "failed"}]
  BY DEF start_backfill

LEMMA ResetTyping ==
    ASSUME SyncTyping, NEW w \in Workers, NEW rec, WorkerOK(rec),
           worker' = [worker EXCEPT ![w] = rec],
           TablesOK', clock' = clock
    PROVE  SyncTyping'
  BY WorkerSteps DEF SyncTyping

LEMMA StepTyping == SyncTyping /\ [Next]_vars => SyncTyping'
  <1> SUFFICES ASSUME SyncTyping, [Next]_vars  PROVE SyncTyping'
    OBVIOUS
  <1> USE DEF SyncTyping
  <1>1. ASSUME AdvanceClock  PROVE SyncTyping'
    BY <1>1, BoundsType DEF AdvanceClock, TablesOK, WorkersOK, WorkerOK, Days
  <1>2. ASSUME scheduled_bangalore_preload  PROVE SyncTyping'
    <2> DEFINE k == [start |-> ScheduledStart, end |-> clock, mode |-> "full_pipeline"]
    <2>1. k \in Windows
      BY ScheduledWindow, TypingParts
    <2>2. start_backfill(k)
      BY <1>2 DEF scheduled_bangalore_preload
    <2> HIDE DEF k
    <2>3. jobs' \in [Windows -> {"none", "queued", "running", "completed", "failed"}]
      BY <2>1, <2>2, Requested DEF TablesOK
    <2> QED  BY <1>2, <2>3 DEF scheduled_bangalore_preload, TablesOK, WorkersOK, WorkerOK
  <1>3. ASSUME ManualBackfill  PROVE SyncTyping'
    <2>1. jobs' \in [Windows -> {"none", "queued", "running", "completed", "failed"}]
      BY <1>3, Requested, SyncAssumption DEF ManualBackfill, TablesOK
    <2> QED  BY <1>3, <2>1 DEF ManualBackfill, TablesOK, WorkersOK, WorkerOK
  <1>4. ASSUME NEW w \in Workers, TakeJob(w)  PROVE SyncTyping'
    <2>1. PICK k \in Windows :
             /\ jobs' = [jobs EXCEPT ![k] = "running"]
             /\ worker' = [worker EXCEPT ![w] =
                    [IdleWorker EXCEPT !.pc = "day", !.job = k, !.day = k.start]]
      BY <1>4 DEF TakeJob
    <2>2. k.start \in k.start..(k.end + 1)
      BY BoundsType DEF Windows, Days
    <2>3. WorkersOK'
      BY <2>1, <2>2, IdleType, WorkerSteps
    <2> QED  BY <1>4, <2>1, <2>3 DEF TakeJob, TablesOK
  <1>5. ASSUME NEW w \in Workers, BeginDay(w)  PROVE SyncTyping'
    <2>1. WorkerOK(BegunDay(w)) /\ BegunDay(w).row \in LedgerRow
      BY <1>5, BegunDayType DEF BeginDay
    <2>2. WorkersOK'
      BY <1>5, <2>1, RecordSteps, WorkerSteps
    <2>3. ledger' = [ledger EXCEPT ![worker[w].day] = BegunDay(w).row]
      BY <1>5, DayOfWorker DEF BeginDay, BegunDay, WorkerRecord
    <2> QED  BY <1>5, <2>1, <2>2, <2>3 DEF BeginDay, TablesOK
  <1>6. ASSUME NEW w \in Workers, SearchRaises(w)  PROVE SyncTyping'
    <2>1. worker[w].row \in LedgerRow /\ worker[w].job \in Windows
      BY <1>6, DayOfWorker DEF SearchRaises, WorkerRecord
    <2>2. \A status \in {"retry", "failed"} :
             [worker[w].row EXCEPT !.status = status, !.retry_count = @ + 1] \in LedgerRow
      <3>1. worker[w].row.retry_count + 1 \in Nat
        BY <2>1 DEF LedgerRow
      <3> QED  BY <2>1, <3>1 DEF LedgerRow, LedgerStatus
    <2>3. ledger' \in [Days -> LedgerRow \cup {NoRow}]
      BY <1>6, <2>2 DEF SearchRaises, TablesOK
    <2>4. WorkersOK'
      BY <1>6, IdleType, WorkerSteps DEF SearchRaises, JobRaises
    <2>5. faults' \in [{"item", "search", "crash"} -> 0..MaxFaults]
      BY <1>6, FaultKeeps DEF SearchRaises
    <2> QED  BY <1>6, <2>3, <2>4, <2>5 DEF SearchRaises, JobRaises, TablesOK
  <1>7. ASSUME NEW w \in Workers, Search(w)  PROVE SyncTyping'
    <2>1. PICK items \in Results[worker[w].day], exhausted \in BOOLEAN :
             /\ ledger' = [ledger EXCEPT ![worker[w].day] = FoundRow(w, items, exhausted)]
             /\ worker' = [worker EXCEPT ![w].pc = "items", ![w].row = FoundRow(w, items, exhausted),
                    ![w].items = items, ![w].todo = items, ![w].failed = 0]
             /\ lastFound' = [lastFound EXCEPT ![worker[w].day] = items]
      BY <1>7, SearchStep, ZenonT(30)
    <2>2. /\ items \in SUBSET Scenes
          /\ FoundRow(w, items, exhausted) \in LedgerRow
          /\ WorkerOK(Searched(w, items, FoundRow(w, items, exhausted)))
      BY <1>7, SearchedType DEF Search
    <2>3. worker' = [worker EXCEPT ![w] = Searched(w, items, FoundRow(w, items, exhausted))]
      <3> DEFINE row == FoundRow(w, items, exhausted)
      <3> HIDE DEF row
      <3>1. worker' = [worker EXCEPT ![w] = Searched(w, items, row)]
        BY <2>1 DEF row, Searched, WorkersOK
      <3> QED  BY <3>1 DEF row
    <2>4. WorkersOK'
      BY <2>2, <2>3, WorkerSteps
    <2> QED  BY <1>7, <2>1, <2>2, <2>4 DEF Search, TablesOK
  <1>8. ASSUME NEW w \in Workers, PickItem(w)  PROVE SyncTyping'
    <2>1. PICK s \in worker[w].todo : worker' = [worker EXCEPT ![w] = Picked(w, s)]
      BY <1>8, PickStep
    <2>2. WorkersOK'
      BY <1>8, <2>1, PickedType, WorkerSteps DEF PickItem
    <2> QED  BY <1>8, <2>2 DEF PickItem, TablesOK
  <1>9. ASSUME NEW w \in Workers, RegisterScene(w)  PROVE SyncTyping'
    <2>1. WorkerOK(worker[w])
      BY DEF WorkersOK, WorkerOK
    <2>2. WorkerOK(NextTaken(w)) /\ WorkerOK([worker[w] EXCEPT !.pc = "process"])
      BY <1>9, <2>1 DEF RegisterScene, WorkerOK, WorkerRecord, NextTaken
    <2>3. WorkersOK'
      BY <1>9, <2>2, RecordSteps, WorkerSteps DEF RegisterScene
    <2> QED  BY <1>9, <2>3 DEF RegisterScene, TablesOK, SceneState
  <1>10. ASSUME NEW w \in Workers, WriteOutputs(w)  PROVE SyncTyping'
    <2>1. WorkerOK(worker[w])
      BY DEF WorkersOK, WorkerOK
    <2>2. WorkerOK([worker[w] EXCEPT !.pc = "publish"])
      BY <1>10, <2>1 DEF WriteOutputs, WorkerOK, WorkerRecord
    <2>3. WorkersOK'
      BY <1>10, <2>2, RecordSteps, WorkerSteps DEF WriteOutputs
    <2> QED  BY <1>10, <2>3 DEF WriteOutputs, TablesOK, SceneState
  <1>11. ASSUME NEW w \in Workers, PublishScene(w)  PROVE SyncTyping'
    <2>1. WorkerOK(worker[w])
      BY DEF WorkersOK, WorkerOK
    <2>2. WorkerOK(NextTaken(w))
      BY <1>11, <2>1 DEF PublishScene, WorkerOK, WorkerRecord, NextTaken
    <2>3. WorkersOK'
      BY <1>11, <2>2, RecordSteps, WorkerSteps DEF PublishScene
    <2> QED  BY <1>11, <2>3 DEF PublishScene, TablesOK, SceneState
  <1>12. ASSUME NEW w \in Workers, ItemRaises(w)  PROVE SyncTyping'
    <2>1. WorkerOK(worker[w])
      BY DEF WorkersOK, WorkerOK
    <2>2. WorkerOK([NextTaken(w) EXCEPT !.failed = @ + 1])
      <3>1. worker[w].failed \in Nat /\ worker[w] \in WorkerRecord
        BY <2>1 DEF WorkerOK, WorkerRecord
      <3>2. WorkerOK(NextTaken(w))
        BY <1>12, <2>1 DEF ItemRaises, WorkerOK, WorkerRecord, NextTaken
      <3>3. NextTaken(w).failed = worker[w].failed
        BY <3>1 DEF NextTaken, WorkerRecord
      <3>4. NextTaken(w).failed + 1 \in Nat
        BY <3>1, <3>3
      <3> QED  BY <3>2, <3>4 DEF WorkerOK, WorkerRecord
    <2>3. WorkersOK'
      BY <1>12, <2>2, RecordSteps, WorkerSteps DEF ItemRaises
    <2>4. faults' \in [{"item", "search", "crash"} -> 0..MaxFaults]
      BY <1>12, FaultKeeps DEF ItemRaises
    <2> QED  BY <1>12, <2>3, <2>4 DEF ItemRaises, TablesOK
  <1>13. ASSUME NEW w \in Workers, CloseDay(w)  PROVE SyncTyping'
    <2>1. ClosedRow(w) \in LedgerRow
      BY <1>13, ClosedRowType DEF CloseDay
    <2>2. /\ worker[w].job \in Windows
          /\ worker[w].day + 1 \in worker[w].job.start..(worker[w].job.end + 1)
      <3>1. WorkerOK(worker[w]) /\ worker[w].job \in Windows /\ worker[w].day <= worker[w].job.end
        BY <1>13, DayOfWorker DEF CloseDay
      <3> QED  BY <1>13, <3>1 DEF CloseDay, WorkerOK, Windows, Days
    <2>3. WorkersOK'
      BY <1>13, <2>2, IdleType, WorkerSteps DEF CloseDay
    <2> QED  BY <1>13, <2>1, <2>3 DEF CloseDay, TablesOK
  <1>14. ASSUME NEW w \in Workers, FinishJob(w)  PROVE SyncTyping'
    <2>1. WorkersOK'
      BY <1>14, IdleType, WorkerSteps DEF FinishJob
    <2> QED  BY <1>14, <2>1 DEF FinishJob, TablesOK
  <1>15. ASSUME NEW w \in Workers, WorkerLost(w)  PROVE SyncTyping'
    <2>1. WorkersOK'
      BY <1>15, IdleType, WorkerSteps DEF WorkerLost
    <2>2. faults' \in [{"item", "search", "crash"} -> 0..MaxFaults]
      BY <1>15, FaultKeeps DEF WorkerLost
    <2> QED  BY <1>15, <2>1, <2>2 DEF WorkerLost, TablesOK
  <1>16. CASE UNCHANGED vars
    BY <1>16 DEF vars, TablesOK, WorkersOK, WorkerOK
  <1> QED  BY <1>1, <1>2, <1>3, <1>4, <1>5, <1>6, <1>7, <1>8, <1>9, <1>10, <1>11, <1>12,
              <1>13, <1>14, <1>15, <1>16 DEF Next

\* Every variable keeps its type, and a worker stays inside its job's window,
\* for every calendar, answer of the provider, request and fault.
THEOREM SyncTypes == Spec => []TypeOK
  <1>1. SyncTyping => TypeOK
    BY TypingParts DEF SyncTyping
  <1> QED  BY <1>1, InitTyping, StepTyping, PTL DEF Spec
-----------------------------------------------------------------------------
(***************************************************************************)
(* One worker process serves the queue, as it is deployed: what it read is *)
(* true until it writes.                                                   *)
(***************************************************************************)
OneWorker == \A v, w \in Workers : v = w

AtItems == {"items", "register", "process", "publish"}

\* The ledger row of the day in hand is the worker's, and is not complete.
RowInHand ==
    \A w \in Workers : worker[w].pc \in {"search"} \cup AtItems =>
        ledger[worker[w].day] = worker[w].row /\ worker[w].row.status = "running"

\* One scene at a time; one that is to be registered is not published.
ItemInHand ==
    \A w \in Workers :
        /\ worker[w].pc \in {"day", "search", "items"} => worker[w].item = {}
        /\ \A s, t \in worker[w].item : s = t
        /\ worker[w].pc = "register" => \A s \in worker[w].item : ~_scene_is_complete(s)

\* While none has failed in a full pipeline, every scene of the search that is
\* through is published.
ItemsThrough ==
    \A w \in Workers : worker[w].pc \in AtItems =>
        /\ lastFound[worker[w].day] = worker[w].items
        /\ worker[w].failed = 0 /\ worker[w].job.mode = "full_pipeline" =>
              \A s \in worker[w].items \ (worker[w].todo \cup worker[w].item) : _scene_is_complete(s)

SyncInv == SyncTyping /\ RowInHand /\ ItemInHand /\ ItemsThrough /\ CompleteDayIsPublished

\* A step that leaves the worker's record alone, and what it is about.
LEMMA WorkerRests ==
    ASSUME SyncInv, UNCHANGED <<worker, ledger, scene, lastFound>>, SyncTyping'
    PROVE  SyncInv'
  BY DEF SyncInv, RowInHand, ItemInHand, ItemsThrough, CompleteDayIsPublished, HasStatus,
         _scene_is_complete

\* The record after a step of the only worker.
LEMMA OnlyRecord ==
    ASSUME OneWorker, WorkersOK, NEW w \in Workers, NEW rec, worker' = [worker EXCEPT ![w] = rec]
    PROVE  \A v \in Workers : v = w /\ worker'[v] = rec
  BY DEF OneWorker, WorkersOK

\* No scene loses its publication.
LEMMA ScenesStay ==
    ASSUME TablesOK, WorkersOK, ItemInHand, [Next]_vars, NEW s \in Scenes, _scene_is_complete(s)
    PROVE  scene'[s] = "published"
  <1> USE DEF _scene_is_complete, TablesOK
  <1>1. ASSUME NEW w \in Workers, RegisterScene(w)  PROVE scene'[s] = "published"
    BY <1>1 DEF RegisterScene, ItemInHand
  <1>2. ASSUME NEW w \in Workers, WriteOutputs(w)  PROVE scene'[s] = "published"
    BY <1>2 DEF WriteOutputs
  <1>3. ASSUME NEW w \in Workers, PublishScene(w)  PROVE scene'[s] = "published"
    BY <1>3 DEF PublishScene
  <1>4. CASE UNCHANGED scene
    BY <1>4
  <1> QED
    BY <1>1, <1>2, <1>3, <1>4 DEF Next, vars, AdvanceClock, scheduled_bangalore_preload,
       ManualBackfill, TakeJob, BeginDay, SearchRaises, Search, PickItem, ItemRaises, CloseDay,
       FinishJob, WorkerLost

\* The ledger row of a day is kept, or the worker rewrites it, not complete but
\* when it closes the day.
LEMMA CompleteStays ==
    ASSUME SyncInv, [Next]_vars,
           \A d \in Days : HasStatus(d, {"complete"})' =>
               \/ HasStatus(d, {"complete"}) /\ lastFound'[d] = lastFound[d]
               \/ \A s \in lastFound'[d] : scene'[s] = "published",
           TablesOK'
    PROVE  CompleteDayIsPublished'
  <1> SUFFICES ASSUME NEW d \in Days, HasStatus(d, {"complete"})', NEW s \in lastFound'[d]
               PROVE  scene'[s] = "published"
    BY DEF CompleteDayIsPublished, _scene_is_complete
  <1>1. CASE HasStatus(d, {"complete"}) /\ lastFound'[d] = lastFound[d]
    <2>1. _scene_is_complete(s) /\ s \in Scenes
      BY <1>1 DEF SyncInv, SyncTyping, TablesOK, CompleteDayIsPublished
    <2> QED  BY <2>1, ScenesStay DEF SyncInv, SyncTyping
  <1>2. CASE \A t \in lastFound'[d] : scene'[t] = "published"
    BY <1>2
  <1> QED  BY <1>1, <1>2

\* The worker puts everything down.
LEMMA WorkerPutsDown ==
    ASSUME OneWorker, SyncInv, [Next]_vars, NEW w \in Workers, NEW rec,
           worker' = [worker EXCEPT ![w] = rec], rec.pc \in {"idle", "day"}, rec.item = {},
           UNCHANGED lastFound,
           \A d \in Days : HasStatus(d, {"complete"})' =>
               HasStatus(d, {"complete"}) \/ \A s \in lastFound[d] : scene'[s] = "published",
           SyncTyping'
    PROVE  SyncInv'
  <1>1. \A v \in Workers : worker'[v] = rec
    BY OnlyRecord DEF SyncInv, SyncTyping
  <1>2. RowInHand' /\ ItemInHand' /\ ItemsThrough'
    BY <1>1 DEF RowInHand, ItemInHand, ItemsThrough, AtItems
  <1>3. CompleteDayIsPublished'
    BY CompleteStays DEF SyncTyping
  <1> QED  BY <1>2, <1>3 DEF SyncInv

\* The worker goes on with the scenes of its day: the ledger is left alone.
LEMMA WorkerGoesOn ==
    ASSUME OneWorker, SyncInv, [Next]_vars, NEW w \in Workers, NEW rec,
           worker' = [worker EXCEPT ![w] = rec], worker[w].pc \in AtItems, rec.pc \in AtItems,
           UNCHANGED <<ledger, lastFound>>,
           rec.day = worker[w].day, rec.row = worker[w].row, rec.items = worker[w].items,
           rec.pc = "items" => rec.item = {},
           \A s, t \in rec.item : s = t,
           rec.pc = "register" => \A s \in rec.item : scene'[s] # "published",
           rec.failed = 0 /\ rec.job.mode = "full_pipeline" =>
              \A s \in rec.items \ (rec.todo \cup rec.item) : scene'[s] = "published",
           SyncTyping'
    PROVE  SyncInv'
  <1>1. \A v \in Workers : v = w /\ worker'[v] = rec
    BY OnlyRecord DEF SyncInv, SyncTyping
  <1>2. RowInHand'
    BY <1>1 DEF SyncInv, RowInHand
  <1>3. ItemInHand'
    BY <1>1 DEF ItemInHand, AtItems, _scene_is_complete
  <1>4. ItemsThrough'
    BY <1>1 DEF SyncInv, ItemsThrough, _scene_is_complete
  <1>5. CompleteDayIsPublished'
    <2>1. \A d \in Days : HasStatus(d, {"complete"})' => HasStatus(d, {"complete"})
      BY DEF HasStatus
    <2> QED  BY <2>1, CompleteStays DEF SyncTyping
  <1> QED  BY <1>2, <1>3, <1>4, <1>5 DEF SyncInv

\* A day begins, or has been searched: the worker writes its row.
LEMMA WorkerWritesRow ==
    ASSUME OneWorker, SyncInv, [Next]_vars, NEW w \in Workers, NEW rec, NEW row \in LedgerRow,
           worker' = [worker EXCEPT ![w] = rec], rec.row = row, row.status = "running",
           rec.day \in Days, ledger' = [ledger EXCEPT ![rec.day] = row],
           \/ rec.pc = "search" /\ lastFound' = lastFound
           \/ /\ rec.pc = "items" /\ rec.todo = rec.items
              /\ lastFound' = [lastFound EXCEPT ![rec.day] = rec.items],
           rec.item = {},
           SyncTyping'
    PROVE  SyncInv'
  <1>1. \A v \in Workers : v = w /\ worker'[v] = rec
    BY OnlyRecord DEF SyncInv, SyncTyping
  <1>2. ledger'[rec.day] = row
    BY DEF SyncInv, SyncTyping, TablesOK
  <1>3. RowInHand' /\ ItemInHand'
    BY <1>1, <1>2 DEF RowInHand, ItemInHand, AtItems
  <1>4. ItemsThrough'
    <2>1. CASE rec.pc = "search"
      BY <1>1, <2>1 DEF ItemsThrough, AtItems
    <2>2. CASE rec.pc = "items"
      <3>1. lastFound'[rec.day] = rec.items /\ rec.items \ (rec.todo \cup rec.item) = {}
        BY <2>2 DEF SyncInv, SyncTyping, TablesOK
      <3> QED  BY <1>1, <3>1 DEF ItemsThrough
    <2> QED  BY <2>1, <2>2
  <1>5. CompleteDayIsPublished'
    <2>1. \A d \in Days : HasStatus(d, {"complete"})' =>
             HasStatus(d, {"complete"}) /\ lastFound'[d] = lastFound[d]
      BY <1>2 DEF HasStatus, SyncInv, SyncTyping, TablesOK
    <2> QED  BY <2>1, CompleteStays DEF SyncTyping
  <1> QED  BY <1>3, <1>4, <1>5 DEF SyncInv

\* A day is closed as complete only after a full pipeline in which nothing
\* failed, or with nothing to do.
LEMMA ClosedComplete ==
    ASSUME SyncInv, NEW w \in Workers, worker[w].pc = "items", worker[w].todo = {},
           ClosedRow(w).status = "complete", NEW s \in lastFound[worker[w].day]
    PROVE  _scene_is_complete(s)
  <1>1. worker[w].row \in LedgerRow /\ worker[w] \in WorkerRecord
    BY DayOfWorker DEF SyncInv, SyncTyping, WorkerRecord
  <1>2. worker[w].failed = 0 /\ (worker[w].job.mode = "full_pipeline" \/ worker[w].items = {})
    BY <1>1 DEF ClosedRow, LedgerRow
  <1>3. /\ lastFound[worker[w].day] = worker[w].items
        /\ worker[w].item = {}
        /\ worker[w].failed = 0 /\ worker[w].job.mode = "full_pipeline" =>
              \A t \in worker[w].items \ (worker[w].todo \cup worker[w].item) : _scene_is_complete(t)
    BY DEF SyncInv, ItemsThrough, ItemInHand, AtItems
  <1> QED  BY <1>2, <1>3

LEMMA SyncInit == Init => SyncInv
  <1> SUFFICES ASSUME Init  PROVE SyncInv
    OBVIOUS
  <1>1. \A w \in Workers : worker[w].pc = "idle" /\ worker[w].item = {}
    BY DEF Init, IdleWorker
  <1>2. RowInHand /\ ItemInHand /\ ItemsThrough
    BY <1>1 DEF RowInHand, ItemInHand, ItemsThrough, AtItems
  <1>3. CompleteDayIsPublished
    BY DEF Init, CompleteDayIsPublished, HasStatus
  <1> QED  BY <1>2, <1>3, InitTyping DEF SyncInv

LEMMA SyncStep ==
    ASSUME OneWorker, SyncInv, [Next]_vars
    PROVE  SyncInv'
  <1> USE DEF SyncInv
  <1>0. SyncTyping' /\ TablesOK /\ WorkersOK
    BY StepTyping DEF SyncTyping
  <1>1. CASE AdvanceClock \/ scheduled_bangalore_preload \/ ManualBackfill \/ UNCHANGED vars
    BY <1>0, <1>1, WorkerRests DEF AdvanceClock, scheduled_bangalore_preload, ManualBackfill, vars
  <1>2. ASSUME NEW w \in Workers, TakeJob(w)  PROVE SyncInv'
    <2>1. PICK k \in Windows :
             worker' = [worker EXCEPT ![w] = [IdleWorker EXCEPT !.pc = "day", !.job = k, !.day = k.start]]
      BY <1>2 DEF TakeJob
    <2>2. [IdleWorker EXCEPT !.pc = "day", !.job = k, !.day = k.start].pc = "day"
          /\ [IdleWorker EXCEPT !.pc = "day", !.job = k, !.day = k.start].item = {}
      BY DEF IdleWorker
    <2>3. UNCHANGED <<ledger, scene, lastFound>>
      BY <1>2 DEF TakeJob
    <2> QED  BY <1>0, <2>1, <2>2, <2>3, WorkerPutsDown DEF HasStatus
  <1>3. ASSUME NEW w \in Workers, BeginDay(w)  PROVE SyncInv'
    <2> DEFINE rec == BegunDay(w)
    <2>1. worker[w] \in WorkerRecord /\ worker[w].day \in Days /\ rec.row \in LedgerRow
      BY <1>0, <1>3, DayOfWorker, BegunDayType DEF BeginDay
    <2>2. rec.pc = "search" /\ rec.day = worker[w].day /\ rec.item = worker[w].item
      BY <2>1 DEF BegunDay, WorkerRecord
    <2>3. rec.row.status = "running" /\ ledger' = [ledger EXCEPT ![rec.day] = rec.row]
      BY <1>3, <2>1, <2>2 DEF BeginDay, BegunDay, WorkerRecord, NewRow
    <2>4. worker' = [worker EXCEPT ![w] = rec] /\ lastFound' = lastFound
      BY <1>0, <1>3, RecordSteps DEF BeginDay
    <2>5. rec.item = {}
      BY <1>3, <2>2 DEF BeginDay, ItemInHand
    <2> HIDE DEF rec
    <2> QED  BY <1>0, <2>1, <2>2, <2>3, <2>4, <2>5, WorkerWritesRow
  <1>4. ASSUME NEW w \in Workers, SearchRaises(w)  PROVE SyncInv'
    <2>1. worker' = [worker EXCEPT ![w] = IdleWorker] /\ UNCHANGED <<scene, lastFound>>
      BY <1>4 DEF SearchRaises, JobRaises
    <2>2. worker[w].row \in LedgerRow
      BY <1>0, <1>4, DayOfWorker DEF SearchRaises, WorkerRecord
    <2>3. \A d \in Days : HasStatus(d, {"complete"})' => HasStatus(d, {"complete"})
      <3>1. CASE UNCHANGED ledger
        BY <3>1 DEF HasStatus
      <3>2. ASSUME NEW status \in {"retry", "failed"},
                   ledger' = [ledger EXCEPT ![worker[w].day] =
                       [worker[w].row EXCEPT !.status = status, !.retry_count = @ + 1]]
            PROVE  \A d \in Days : HasStatus(d, {"complete"})' => HasStatus(d, {"complete"})
        <4>1. [worker[w].row EXCEPT !.status = status, !.retry_count = @ + 1].status = status
          BY <2>2 DEF LedgerRow
        <4> DEFINE row == [worker[w].row EXCEPT !.status = status, !.retry_count = @ + 1]
        <4> HIDE DEF row
        <4>2. row.status # "complete" /\ ledger' = [ledger EXCEPT ![worker[w].day] = row]
          BY <3>2, <4>1 DEF row
        <4> QED  BY <1>0, <4>2 DEF HasStatus, TablesOK
      <3> QED  BY <1>4, <3>1, <3>2 DEF SearchRaises
    <2>4. IdleWorker.pc = "idle" /\ IdleWorker.item = {}
      BY DEF IdleWorker
    <2> QED  BY <1>0, <2>1, <2>3, <2>4, WorkerPutsDown
  <1>5. ASSUME NEW w \in Workers, Search(w)  PROVE SyncInv'
    <2>1. PICK items \in Results[worker[w].day], exhausted \in BOOLEAN :
             /\ ledger' = [ledger EXCEPT ![worker[w].day] = FoundRow(w, items, exhausted)]
             /\ worker' = [worker EXCEPT ![w].pc = "items", ![w].row = FoundRow(w, items, exhausted),
                    ![w].items = items, ![w].todo = items, ![w].failed = 0]
             /\ lastFound' = [lastFound EXCEPT ![worker[w].day] = items]
      BY <1>5, SearchStep, ZenonT(30)
    <2> DEFINE row == FoundRow(w, items, exhausted)
               rec == Searched(w, items, row)
    <2>2. worker[w] \in WorkerRecord /\ worker[w].day \in Days /\ row \in LedgerRow
      BY <1>0, <1>5, DayOfWorker, SearchedType DEF Search
    <2>3. row.status = "running"
      <3>1. worker[w].row.status = "running" /\ worker[w].row \in LedgerRow
        BY <1>5, <2>2 DEF Search, RowInHand, WorkerRecord
      <3> QED  BY <3>1 DEF FoundRow, LedgerRow
    <2>4. /\ rec.pc = "items" /\ rec.row = row /\ rec.day = worker[w].day
          /\ rec.items = items /\ rec.todo = items /\ rec.item = worker[w].item
      BY <2>2 DEF Searched, WorkerRecord
    <2>5. worker' = [worker EXCEPT ![w] = rec]
      <3> HIDE DEF row
      <3> QED  BY <1>0, <2>1 DEF row, Searched, WorkersOK
    <2>6. rec.item = {}
      BY <1>5, <2>4 DEF Search, ItemInHand
    <2>7. /\ ledger' = [ledger EXCEPT ![rec.day] = row]
          /\ lastFound' = [lastFound EXCEPT ![rec.day] = rec.items]
      BY <2>1, <2>4
    <2>8. rec.day \in Days /\ rec.todo = rec.items
      BY <2>2, <2>4
    <2> HIDE DEF row, rec
    <2> QED  BY <1>0, <2>2, <2>3, <2>4, <2>5, <2>6, <2>7, <2>8, WorkerWritesRow
  <1>6. ASSUME NEW w \in Workers, PickItem(w)  PROVE SyncInv'
    <2>1. PICK s \in worker[w].todo : worker' = [worker EXCEPT ![w] = Picked(w, s)]
      BY <1>0, <1>6, PickStep
    <2> DEFINE rec == Picked(w, s)
    <2>2. worker[w] \in WorkerRecord /\ worker[w].pc = "items" /\ worker[w].item = {}
      BY <1>0, <1>6, DayOfWorker DEF PickItem, ItemInHand
    <2>3. UNCHANGED <<ledger, scene, lastFound>>
      BY <1>6 DEF PickItem
    <2>4. /\ rec.day = worker[w].day /\ rec.row = worker[w].row /\ rec.items = worker[w].items
          /\ rec.failed = worker[w].failed /\ rec.job = worker[w].job
          /\ rec.todo = worker[w].todo \ {s}
          /\ rec.item = IF _scene_is_complete(s) THEN {} ELSE {s}
          /\ rec.pc = IF _scene_is_complete(s) THEN "items"
                      ELSE IF scene[s] = "outputs" THEN "publish" ELSE "register"
      BY <2>2 DEF Picked, WorkerRecord
    <2> HIDE DEF rec
    <2>5. rec.pc \in AtItems /\ worker[w].pc \in AtItems
      BY <2>2, <2>4 DEF AtItems
    <2>6. rec.failed = 0 /\ rec.job.mode = "full_pipeline" =>
              \A t \in rec.items \ (rec.todo \cup rec.item) : scene'[t] = "published"
      BY <2>2, <2>3, <2>4, <2>5 DEF ItemsThrough, _scene_is_complete
    <2>7. rec.pc = "items" => rec.item = {}
      BY <2>4
    <2>8. /\ \A t, u \in rec.item : t = u
          /\ rec.pc = "register" => \A t \in rec.item : scene'[t] # "published"
      BY <2>3, <2>4 DEF _scene_is_complete
    <2>9. worker' = [worker EXCEPT ![w] = rec]
      BY <2>1 DEF rec
    <2> QED  BY <1>0, <2>3, <2>4, <2>5, <2>6, <2>7, <2>8, <2>9, WorkerGoesOn
  <1>7. ASSUME NEW w \in Workers, RegisterScene(w)  PROVE SyncInv'
    <2>1. worker[w] \in WorkerRecord /\ worker[w].pc = "register" /\ UNCHANGED <<ledger, lastFound>>
      BY <1>0, <1>7, DayOfWorker DEF RegisterScene
    <2>2. \A t \in worker[w].items : _scene_is_complete(t) => scene'[t] = "published"
      BY <1>0, <2>1, ScenesStay DEF WorkerRecord
    <2>3. worker[w].failed = 0 /\ worker[w].job.mode = "full_pipeline" =>
              \A t \in worker[w].items \ (worker[w].todo \cup worker[w].item) : scene'[t] = "published"
      BY <2>1, <2>2 DEF ItemsThrough, AtItems
    <2>4. CASE worker[w].job.mode = "full_pipeline"
      <3> DEFINE rec == [worker[w] EXCEPT !.pc = "process"]
      <3>1. worker' = [worker EXCEPT ![w] = rec]
        BY <1>0, <1>7, <2>4, RecordSteps DEF RegisterScene
      <3>2. /\ rec.day = worker[w].day /\ rec.row = worker[w].row /\ rec.items = worker[w].items
            /\ rec.failed = worker[w].failed /\ rec.job = worker[w].job
            /\ rec.todo = worker[w].todo /\ rec.item = worker[w].item /\ rec.pc = "process"
        BY <2>1 DEF WorkerRecord
      <3>3. \A t, u \in rec.item : t = u
        BY <3>2 DEF ItemInHand
      <3> HIDE DEF rec
      <3> QED  BY <1>0, <2>1, <2>3, <3>1, <3>2, <3>3, WorkerGoesOn DEF AtItems
    <2>5. CASE worker[w].job.mode # "full_pipeline"
      <3> DEFINE rec == NextTaken(w)
      <3>1. worker' = [worker EXCEPT ![w] = rec]
        BY <1>0, <1>7, <2>5, RecordSteps DEF RegisterScene
      <3>2. /\ rec.day = worker[w].day /\ rec.row = worker[w].row /\ rec.items = worker[w].items
            /\ rec.job = worker[w].job /\ rec.item = {} /\ rec.pc = "items"
        BY <2>1 DEF WorkerRecord, NextTaken
      <3> HIDE DEF rec
      <3> QED  BY <1>0, <2>1, <2>5, <3>1, <3>2, WorkerGoesOn DEF AtItems
    <2> QED  BY <2>4, <2>5
  <1>8. ASSUME NEW w \in Workers, WriteOutputs(w)  PROVE SyncInv'
    <2>1. worker[w] \in WorkerRecord /\ worker[w].pc = "process" /\ UNCHANGED <<ledger, lastFound>>
      BY <1>0, <1>8, DayOfWorker DEF WriteOutputs
    <2>2. \A t \in worker[w].items : _scene_is_complete(t) => scene'[t] = "published"
      BY <1>0, <2>1, ScenesStay DEF WorkerRecord
    <2>3. worker[w].failed = 0 /\ worker[w].job.mode = "full_pipeline" =>
              \A t \in worker[w].items \ (worker[w].todo \cup worker[w].item) : scene'[t] = "published"
      BY <2>1, <2>2 DEF ItemsThrough, AtItems
    <2> DEFINE rec == [worker[w] EXCEPT !.pc = "publish"]
    <2>4. worker' = [worker EXCEPT ![w] = rec]
      BY <1>0, <1>8, RecordSteps DEF WriteOutputs
    <2>5. /\ rec.day = worker[w].day /\ rec.row = worker[w].row /\ rec.items = worker[w].items
          /\ rec.failed = worker[w].failed /\ rec.job = worker[w].job
          /\ rec.todo = worker[w].todo /\ rec.item = worker[w].item /\ rec.pc = "publish"
      BY <2>1 DEF WorkerRecord
    <2>6. \A t, u \in rec.item : t = u
      BY <2>5 DEF ItemInHand
    <2> HIDE DEF rec
    <2> QED  BY <1>0, <2>1, <2>3, <2>4, <2>5, <2>6, WorkerGoesOn DEF AtItems
  <1>9. ASSUME NEW w \in Workers, PublishScene(w)  PROVE SyncInv'
    <2>1. worker[w] \in WorkerRecord /\ worker[w].pc = "publish" /\ UNCHANGED <<ledger, lastFound>>
      BY <1>0, <1>9, DayOfWorker DEF PublishScene
    <2>2. \A t \in worker[w].items : _scene_is_complete(t) => scene'[t] = "published"
      BY <1>0, <2>1, ScenesStay DEF WorkerRecord
    <2>3. \A t \in worker[w].item : scene'[t] = "published"
      BY <1>0, <1>9, <2>1 DEF PublishScene, ItemInHand, WorkerRecord, TablesOK
    <2>4. worker[w].failed = 0 /\ worker[w].job.mode = "full_pipeline" =>
              \A t \in worker[w].items \ worker[w].todo : scene'[t] = "published"
      BY <2>1, <2>2, <2>3 DEF ItemsThrough, AtItems
    <2> DEFINE rec == NextTaken(w)
    <2>5. worker' = [worker EXCEPT ![w] = rec]
      BY <1>0, <1>9, RecordSteps DEF PublishScene
    <2>6. /\ rec.day = worker[w].day /\ rec.row = worker[w].row /\ rec.items = worker[w].items
          /\ rec.failed = worker[w].failed /\ rec.job = worker[w].job
          /\ rec.todo = worker[w].todo /\ rec.item = {} /\ rec.pc = "items"
      BY <2>1 DEF WorkerRecord, NextTaken
    <2> HIDE DEF rec
    <2> QED  BY <1>0, <2>1, <2>4, <2>5, <2>6, WorkerGoesOn DEF AtItems
  <1>10. ASSUME NEW w \in Workers, ItemRaises(w)  PROVE SyncInv'
    <2>1. worker[w] \in WorkerRecord /\ worker[w].pc \in AtItems /\ UNCHANGED <<ledger, scene, lastFound>>
      BY <1>0, <1>10, DayOfWorker DEF ItemRaises, AtItems
    <2> DEFINE rec == [NextTaken(w) EXCEPT !.failed = @ + 1]
    <2>2. worker' = [worker EXCEPT ![w] = rec]
      BY <1>0, <1>10, RecordSteps DEF ItemRaises
    <2>3. /\ NextTaken(w) \in WorkerRecord
          /\ NextTaken(w).day = worker[w].day /\ NextTaken(w).row = worker[w].row
          /\ NextTaken(w).items = worker[w].items /\ NextTaken(w).failed = worker[w].failed
          /\ NextTaken(w).item = {} /\ NextTaken(w).pc = "items"
      BY <2>1 DEF WorkerRecord, NextTaken
    <2>4. worker[w].failed \in Nat
      BY <2>1 DEF WorkerRecord
    <2>5. /\ rec.day = worker[w].day /\ rec.row = worker[w].row /\ rec.items = worker[w].items
          /\ rec.failed = worker[w].failed + 1 /\ rec.item = {} /\ rec.pc = "items"
      BY <2>3 DEF WorkerRecord
    <2>6. rec.failed # 0
      BY <2>4, <2>5
    <2> HIDE DEF rec
    <2> QED  BY <1>0, <2>1, <2>2, <2>5, <2>6, WorkerGoesOn DEF AtItems
  <1>11. ASSUME NEW w \in Workers, CloseDay(w)  PROVE SyncInv'
    <2> DEFINE rec == [IdleWorker EXCEPT !.pc = "day", !.job = worker[w].job, !.day = worker[w].day + 1]
    <2>1. worker' = [worker EXCEPT ![w] = rec] /\ UNCHANGED <<scene, lastFound>>
      BY <1>11 DEF CloseDay
    <2>2. rec.pc = "day" /\ rec.item = {}
      BY DEF IdleWorker
    <2>3. ClosedRow(w).status = "complete" =>
             \A s \in lastFound[worker[w].day] : scene'[s] = "published"
      BY <1>11, <2>1, ClosedComplete DEF CloseDay, _scene_is_complete
    <2>4. \A d \in Days : HasStatus(d, {"complete"})' =>
               HasStatus(d, {"complete"}) \/ \A s \in lastFound[d] : scene'[s] = "published"
      BY <1>0, <1>11, <2>3 DEF CloseDay, HasStatus, TablesOK
    <2> HIDE DEF rec
    <2> QED  BY <1>0, <2>1, <2>2, <2>4, WorkerPutsDown
  <1>12. ASSUME NEW w \in Workers, FinishJob(w) \/ WorkerLost(w)  PROVE SyncInv'
    <2>1. worker' = [worker EXCEPT ![w] = IdleWorker] /\ UNCHANGED <<ledger, scene, lastFound>>
      BY <1>12 DEF FinishJob, WorkerLost
    <2>2. IdleWorker.pc = "idle" /\ IdleWorker.item = {}
      BY DEF IdleWorker
    <2> QED  BY <1>0, <2>1, <2>2, WorkerPutsDown DEF HasStatus
  <1> QED  BY <1>1, <1>2, <1>3, <1>4, <1>5, <1>6, <1>7, <1>8, <1>9, <1>10, <1>11, <1>12 DEF Next

LEMMA SyncInvariant ==
    ASSUME OneWorker
    PROVE  Spec => []SyncInv
  <1>1. SyncInv /\ [Next]_vars => SyncInv'
    BY SyncStep
  <1> QED  BY <1>1, SyncInit, PTL DEF Spec

\* A day the ledger calls complete is served as its latest search found it.
\* The counts that the code compares do not matter for it: a day is complete
\* only when nothing of it failed in a full pipeline.
THEOREM CompleteIsPublished ==
    ASSUME OneWorker
    PROVE  Spec => []CompleteDayIsPublished
  <1>1. SyncInv => CompleteDayIsPublished
    BY DEF SyncInv
  <1> QED  BY <1>1, SyncInvariant, PTL

\* A published scene stays published, however often its days are run again.
THEOREM PublishedForGood ==
    ASSUME OneWorker
    PROVE  Spec => PublishedStaysPublished
  <1>1. SyncInv /\ [Next]_vars =>
            [\A s \in Scenes : _scene_is_complete(s) => scene'[s] = "published"]_vars
    BY ScenesStay DEF SyncInv, SyncTyping
  <1> QED  BY <1>1, SyncInvariant, PTL DEF Spec, PublishedStaysPublished

\* The row of a day is written anew by every run, but never with a smaller
\* retry count.
LEMMA RetriesStep ==
    ASSUME SyncInv, [Next]_vars, NEW d \in Days, ledger[d] # NoRow
    PROVE  ledger'[d].retry_count >= ledger[d].retry_count
  <1>0. TablesOK /\ WorkersOK /\ ledger[d] \in LedgerRow /\ ledger[d].retry_count \in Nat
    BY DEF SyncInv, SyncTyping, TablesOK, LedgerRow
  <1>1. ASSUME NEW w \in Workers, worker[w].day = d, NEW row,
               ledger' = [ledger EXCEPT ![d] = row], row.retry_count >= ledger[d].retry_count
        PROVE  ledger'[d].retry_count >= ledger[d].retry_count
    BY <1>0, <1>1 DEF TablesOK
  <1>2. CASE ledger'[d] = ledger[d]
    BY <1>0, <1>2
  <1>3. ASSUME NEW w \in Workers, worker[w].pc \in {"search"} \cup AtItems, worker[w].day = d
        PROVE  ledger[d] = worker[w].row /\ worker[w].existing \in LedgerRow /\ worker[w].failed \in Nat
    BY <1>0, <1>3, DayOfWorker DEF SyncInv, RowInHand, AtItems, WorkerRecord
  <1>4. ASSUME NEW w \in Workers, BeginDay(w)
        PROVE  ledger'[d].retry_count >= ledger[d].retry_count
    <2>1. CASE worker[w].day = d
      <3>1. ledger' = [ledger EXCEPT ![d] = NewRow(ledger[d].retry_count)]
        BY <1>4, <2>1 DEF BeginDay
      <3>2. NewRow(ledger[d].retry_count).retry_count = ledger[d].retry_count
        BY DEF NewRow
      <3> QED  BY <1>0, <1>1, <2>1, <3>1, <3>2
    <2>2. CASE worker[w].day # d
      BY <1>0, <1>2, <1>4, <2>2 DEF BeginDay, TablesOK
    <2> QED  BY <2>1, <2>2
  <1>5. ASSUME NEW w \in Workers, SearchRaises(w)
        PROVE  ledger'[d].retry_count >= ledger[d].retry_count
    <2>1. CASE worker[w].day = d /\ ledger' # ledger
      <3>1. PICK status \in {"retry", "failed"} :
               ledger' = [ledger EXCEPT ![d] = [worker[w].row EXCEPT !.status = status, !.retry_count = @ + 1]]
        BY <1>5, <2>1 DEF SearchRaises
      <3>2. ledger[d] = worker[w].row
        BY <1>3, <1>5, <2>1 DEF SearchRaises
      <3>3. [worker[w].row EXCEPT !.status = status, !.retry_count = @ + 1].retry_count
              = ledger[d].retry_count + 1
        BY <1>0, <3>2 DEF LedgerRow
      <3>4. ledger'[d].retry_count = ledger[d].retry_count + 1
        BY <1>0, <3>1, <3>3 DEF TablesOK
      <3> QED  BY <1>0, <3>4
    <2>2. CASE worker[w].day # d \/ ledger' = ledger
      BY <1>0, <1>2, <1>5, <2>2 DEF SearchRaises, TablesOK
    <2> QED  BY <2>1, <2>2
  <1>6. ASSUME NEW w \in Workers, Search(w)
        PROVE  ledger'[d].retry_count >= ledger[d].retry_count
    <2>1. CASE worker[w].day = d
      <3>1. PICK items \in Results[d], exhausted \in BOOLEAN :
               ledger' = [ledger EXCEPT ![d] = FoundRow(w, items, exhausted)]
        BY <1>6, <2>1 DEF Search, FoundRow
      <3>2. ledger[d] = worker[w].row
        BY <1>3, <1>6, <2>1 DEF Search
      <3>3. FoundRow(w, items, exhausted).retry_count = ledger[d].retry_count
        BY <1>0, <3>2 DEF FoundRow, LedgerRow
      <3> QED  BY <1>0, <1>1, <2>1, <3>1, <3>3
    <2>2. CASE worker[w].day # d
      BY <1>0, <1>2, <1>6, <2>2 DEF Search, TablesOK
    <2> QED  BY <2>1, <2>2
  <1>7. ASSUME NEW w \in Workers, CloseDay(w)
        PROVE  ledger'[d].retry_count >= ledger[d].retry_count
    <2>1. CASE worker[w].day = d
      <3>1. ledger[d] = worker[w].row /\ worker[w].failed \in Nat
        BY <1>3, <1>7, <2>1 DEF CloseDay, AtItems
      <3>2. ClosedRow(w).retry_count = ledger[d].retry_count + (IF worker[w].failed > 0 THEN 1 ELSE 0)
        BY <1>0, <3>1 DEF ClosedRow, LedgerRow
      <3>3. ledger' = [ledger EXCEPT ![d] = ClosedRow(w)]
        BY <1>7, <2>1 DEF CloseDay
      <3> QED  BY <1>0, <1>1, <2>1, <3>1, <3>2, <3>3
    <2>2. CASE worker[w].day # d
      BY <1>0, <1>2, <1>7, <2>2 DEF CloseDay, TablesOK
    <2> QED  BY <2>1, <2>2
  <1>8. CASE UNCHANGED ledger
    BY <1>2, <1>8
  <1> QED
    BY <1>4, <1>5, <1>6, <1>7, <1>8 DEF Next, vars, AdvanceClock, scheduled_bangalore_preload,
       ManualBackfill, TakeJob, PickItem, RegisterScene, WriteOutputs, PublishScene, ItemRaises,
       FinishJob, WorkerLost

\* The retry count of a day never goes back, whatever run, failure or lost
\* worker comes between.
THEOREM RetriesKept ==
    ASSUME OneWorker
    PROVE  Spec => RetriesNeverForgotten
  <1>1. SyncInv /\ [Next]_vars =>
            [\A d \in Days : ledger[d] # NoRow => ledger'[d].retry_count >= ledger[d].retry_count]_vars
    BY RetriesStep
  <1> QED  BY <1>1, SyncInvariant, PTL DEF Spec, RetriesNeverForgotten
-----------------------------------------------------------------------------
(***************************************************************************)
(* What the greater of the old and the new count achieves, while no search *)
(* raises and no worker is lost, with a provider whose answers for a day   *)
(* contain one another.                                                    *)
(***************************************************************************)
NestedAnswers == \A d \in Days : \A S, T \in Results[d] : S \subseteq T \/ T \subseteq S

OneDayPerScene == \A d, e \in Days : d # e => (UNION Results[d]) \cap (UNION Results[e]) = {}

Quiet == faults.search = 0 /\ faults.crash = 0

Registered(d) == {s \in UNION Results[d] : scene[s] # "absent"}

Served(d) == {s \in UNION Results[d] : _scene_is_complete(s)}

Answers(d) == Results[d] \cup {{}}

\* The scenes of a day that are registered are among these, and no more than that.
Covers(S, d, size) == Cardinality(S) <= size /\ Registered(d) \subseteq S

\* A row counts all the scenes that are registered and none that is not served.
Counted(d, row) ==
    /\ \E S \in Answers(d) : Covers(S, d, row.scene_count)
    /\ row.processed_count <= Cardinality(Served(d))

VisitedBy(w, d) == worker[w].pc \in {"search"} \cup AtItems /\ worker[w].day = d

RowsCount ==
    \A d \in Days : (\A w \in Workers : ~VisitedBy(w, d)) =>
        IF ledger[d] = NoRow THEN Registered(d) = {} ELSE Counted(d, ledger[d])

\* The same of the row that the worker has read, and has zeroed in the ledger.
VisitCounts ==
    \A w \in Workers :
        /\ worker[w].pc = "search" => Counted(worker[w].day, worker[w].existing)
        /\ worker[w].pc \in AtItems =>
              /\ \E S \in Answers(worker[w].day) :
                    Covers(S, worker[w].day, worker[w].row.scene_count) /\ worker[w].items \subseteq S
              /\ worker[w].existing.processed_count <= Cardinality(Served(worker[w].day))

ItemsOfDay ==
    \A w \in Workers : worker[w].pc \in AtItems =>
        /\ worker[w].items \in Results[worker[w].day]
        /\ worker[w].todo \subseteq worker[w].items /\ worker[w].item \subseteq worker[w].items

QuietInv == ItemsOfDay /\ (Quiet => RowsCount /\ VisitCounts /\ CompleteDayForgetsNothing)

LEMMA CountOfSubset ==
    ASSUME NEW T \in SUBSET Scenes, NEW S \in SUBSET T
    PROVE  /\ Cardinality(S) \in Nat /\ Cardinality(T) \in Nat
           /\ Cardinality(S) <= Cardinality(T)
           /\ Cardinality(S) = Cardinality(T) => S = T
  <1>1. IsFiniteSet(T)
    BY SyncAssumption, FS_Subset
  <1> QED  BY <1>1, FS_Subset, CountOfScenes

LEMMA GreaterOfTwo ==
    ASSUME NEW a \in Nat, NEW b \in Nat
    PROVE  Max({a, b}) \in {a, b} /\ Max({a, b}) >= a /\ Max({a, b}) >= b
  <1>1. \E m \in {a, b} : \A y \in {a, b} : m >= y
    <2>1. CASE a >= b  BY <2>1
    <2>2. CASE a < b   BY <2>2
    <2> QED  BY <2>1, <2>2
  <1> QED  BY <1>1 DEF Max

LEMMA AnswersType ==
    ASSUME NEW d \in Days
    PROVE  /\ Answers(d) \subseteq SUBSET Scenes
           /\ UNION Results[d] \in SUBSET Scenes
           /\ \A S \in Answers(d) : S \in SUBSET (UNION Results[d])
  BY SyncAssumption DEF Answers

\* All the registered scenes of a day are served if as many are as an answer has.
LEMMA AllServed ==
    ASSUME NEW d \in Days, NEW S \in Answers(d), NEW size \in Nat, Covers(S, d, size),
           Cardinality(Served(d)) >= size
    PROVE  Registered(d) \subseteq Served(d)
  <1>1. S \in SUBSET Scenes /\ Served(d) \in SUBSET S
    BY AnswersType DEF Covers, Served, Registered, _scene_is_complete
  <1>2. /\ Cardinality(Served(d)) \in Nat /\ Cardinality(S) \in Nat
        /\ Cardinality(Served(d)) <= Cardinality(S)
        /\ Cardinality(Served(d)) = Cardinality(S) => Served(d) = S
    BY <1>1, CountOfSubset
  <1>3. Served(d) = S
    BY <1>2 DEF Covers
  <1> QED  BY <1>3 DEF Covers

LEMMA ItemsStay ==
    ASSUME OneWorker, WorkersOK, NEW w \in Workers, NEW rec,
           worker' = [worker EXCEPT ![w] = rec],
           rec.pc \in AtItems =>
              /\ rec.items \in Results[rec.day]
              /\ rec.todo \subseteq rec.items /\ rec.item \subseteq rec.items
    PROVE  ItemsOfDay'
  <1>1. \A v \in Workers : worker'[v] = rec
    BY OnlyRecord
  <1> QED  BY <1>1 DEF ItemsOfDay

\* A step that only changes scenes of one day.
LEMMA OtherDays ==
    ASSUME OneDayPerScene, NEW d \in Days, NEW T \in SUBSET (UNION Results[d]),
           \A s \in Scenes \ T : scene'[s] = scene[s],
           NEW e \in Days, e # d
    PROVE  Registered(e)' = Registered(e) /\ Served(e)' = Served(e)
  <1>1. \A s \in UNION Results[e] : s \in Scenes /\ s \notin T
    BY AnswersType DEF OneDayPerScene
  <1> QED  BY <1>1 DEF Registered, Served, _scene_is_complete

\* A step that leaves the scenes alone.
LEMMA SameScenes ==
    ASSUME UNCHANGED scene, NEW d
    PROVE  Registered(d)' = Registered(d) /\ Served(d)' = Served(d)
  BY DEF Registered, Served, _scene_is_complete

\* CompleteDayForgetsNothing in terms of the two sets.
LEMMA ForgetsNothing ==
    CompleteDayForgetsNothing <=>
        \A d \in Days : HasStatus(d, {"complete"}) => Registered(d) \subseteq Served(d)
  BY DEF CompleteDayForgetsNothing, Registered, Served

\* Between days nothing is in hand.
LEMMA QuietBetween ==
    ASSUME OneWorker, WorkersOK, NEW w \in Workers, NEW rec,
           worker' = [worker EXCEPT ![w] = rec],
           worker[w].pc \in {"idle", "day"}, rec.pc \in {"idle", "day"},
           UNCHANGED <<ledger, scene>>,
           RowsCount, CompleteDayForgetsNothing
    PROVE  RowsCount' /\ VisitCounts' /\ CompleteDayForgetsNothing'
  <1>1. \A v \in Workers : v = w /\ worker'[v] = rec
    BY OnlyRecord
  <1>2. \A d \in Days : \A v \in Workers : ~VisitedBy(v, d)
    BY <1>1 DEF VisitedBy, AtItems
  <1>3. \A d \in Days : Registered(d)' = Registered(d) /\ Served(d)' = Served(d)
    BY SameScenes
  <1>4. RowsCount'
    BY <1>2, <1>3 DEF RowsCount, Counted, Covers
  <1>5. VisitCounts'
    BY <1>1 DEF VisitCounts, AtItems
  <1>6. CompleteDayForgetsNothing'
    BY DEF CompleteDayForgetsNothing, HasStatus, _scene_is_complete
  <1> QED  BY <1>4, <1>5, <1>6

\* The worker writes the row of the day it visits, not as complete.
LEMMA QuietRow ==
    ASSUME OneWorker, WorkersOK, TablesOK, NEW w \in Workers, NEW rec, NEW d \in Days, NEW row \in LedgerRow,
           worker' = [worker EXCEPT ![w] = rec], rec.day = d, rec.pc \in {"search"} \cup AtItems,
           worker[w].day = d, ledger' = [ledger EXCEPT ![d] = row], row.status # "complete",
           UNCHANGED scene,
           RowsCount, CompleteDayForgetsNothing
    PROVE  RowsCount' /\ CompleteDayForgetsNothing'
  <1>1. \A v \in Workers : v = w /\ worker'[v] = rec
    BY OnlyRecord
  <1>2. \A e \in Days : Registered(e)' = Registered(e) /\ Served(e)' = Served(e)
    BY SameScenes
  <1>3. \A e \in Days : e # d => ledger'[e] = ledger[e] /\ \A v \in Workers : ~VisitedBy(v, e)
    BY <1>1 DEF TablesOK, VisitedBy
  <1>4. VisitedBy(w, d)'
    BY <1>1 DEF VisitedBy
  <1>5. RowsCount'
    BY <1>2, <1>3, <1>4 DEF RowsCount, Counted, Covers
  <1>6. \A e \in Days : HasStatus(e, {"complete"})' => HasStatus(e, {"complete"})
    BY <1>3 DEF HasStatus, TablesOK
  <1>7. CompleteDayForgetsNothing'
    BY <1>6 DEF CompleteDayForgetsNothing, _scene_is_complete
  <1> QED  BY <1>5, <1>7

LEMMA QuietBegin ==
    ASSUME OneWorker, SyncInv, NEW w \in Workers, BeginDay(w),
           RowsCount, CompleteDayForgetsNothing
    PROVE  RowsCount' /\ VisitCounts' /\ CompleteDayForgetsNothing'
  <1>0. TablesOK /\ WorkersOK
    BY DEF SyncInv, SyncTyping
  <1>1. PICK rec : rec = BegunDay(w)
    OBVIOUS
  <1>2. PICK d : d = worker[w].day
    OBVIOUS
  <1>3. worker[w] \in WorkerRecord /\ d \in Days /\ rec.row \in LedgerRow /\ worker[w].pc = "day"
    BY <1>0, <1>1, <1>2, DayOfWorker, BegunDayType DEF BeginDay
  <1>4. /\ rec.pc = "search" /\ rec.day = d
        /\ rec.existing = IF ledger[d] = NoRow THEN NewRow(0) ELSE ledger[d]
    BY <1>1, <1>2, <1>3 DEF BegunDay, WorkerRecord
  <1>5. rec.row.status = "running" /\ ledger' = [ledger EXCEPT ![d] = rec.row]
    BY <1>1, <1>2, <1>3 DEF BeginDay, BegunDay, WorkerRecord, NewRow
  <1>6. worker' = [worker EXCEPT ![w] = rec] /\ UNCHANGED scene
    BY <1>0, <1>1, RecordSteps DEF BeginDay
  <1>7. RowsCount' /\ CompleteDayForgetsNothing'
    BY <1>0, <1>2, <1>3, <1>4, <1>5, <1>6, QuietRow
  <1>8. \A v \in Workers : v = w /\ worker'[v] = rec
    BY <1>0, <1>6, OnlyRecord
  <1>9. Counted(d, rec.existing)
    <2>1. \A v \in Workers : ~VisitedBy(v, d)
      BY <1>3, <1>8 DEF VisitedBy, AtItems
    <2>2. CASE ledger[d] # NoRow
      BY <1>3, <1>4, <2>1, <2>2 DEF RowsCount
    <2>3. CASE ledger[d] = NoRow
      <3>1. Registered(d) = {} /\ rec.existing.scene_count = 0 /\ rec.existing.processed_count = 0
        BY <1>3, <1>4, <2>1, <2>3 DEF RowsCount, NewRow
      <3>2. Covers({}, d, rec.existing.scene_count) /\ {} \in Answers(d)
        BY <3>1, FS_EmptySet DEF Covers, Answers
      <3>3. Cardinality(Served(d)) \in Nat
        BY <1>3, AnswersType, CountOfScenes DEF Served
      <3> QED  BY <3>1, <3>2, <3>3 DEF Counted
    <2> QED  BY <2>2, <2>3
  <1>10. VisitCounts'
    <2>1. Counted(d, rec.existing)'
      BY <1>6, <1>9, SameScenes DEF Counted, Covers
    <2> QED  BY <1>4, <1>8, <2>1 DEF VisitCounts, AtItems
  <1> QED  BY <1>7, <1>10

\* The greater of the old and the new count covers both answers.
LEMMA QuietSearch ==
    ASSUME OneWorker, NestedAnswers, SyncInv, NEW w \in Workers, Search(w),
           RowsCount, VisitCounts, CompleteDayForgetsNothing
    PROVE  RowsCount' /\ VisitCounts' /\ CompleteDayForgetsNothing'
  <1>0. TablesOK /\ WorkersOK
    BY DEF SyncInv, SyncTyping
  <1>1. PICK d : d = worker[w].day
    OBVIOUS
  <1>2. PICK items \in Results[worker[w].day] : \E exhausted \in BOOLEAN :
           /\ ledger' = [ledger EXCEPT ![worker[w].day] = FoundRow(w, items, exhausted)]
           /\ worker' = [worker EXCEPT ![w].pc = "items", ![w].row = FoundRow(w, items, exhausted),
                  ![w].items = items, ![w].todo = items, ![w].failed = 0]
           /\ lastFound' = [lastFound EXCEPT ![worker[w].day] = items]
    BY SearchStep
  <1>3. PICK exhausted \in BOOLEAN :
           /\ ledger' = [ledger EXCEPT ![worker[w].day] = FoundRow(w, items, exhausted)]
           /\ worker' = [worker EXCEPT ![w].pc = "items", ![w].row = FoundRow(w, items, exhausted),
                  ![w].items = items, ![w].todo = items, ![w].failed = 0]
           /\ lastFound' = [lastFound EXCEPT ![worker[w].day] = items]
    BY <1>2
  <1>a. items \in Results[d] /\ ledger' = [ledger EXCEPT ![d] = FoundRow(w, items, exhausted)]
    BY <1>1, <1>2, <1>3
  <1>4. PICK row : row = FoundRow(w, items, exhausted)
    OBVIOUS
  <1>5. PICK rec : rec = Searched(w, items, row)
    OBVIOUS
  <1>6. /\ worker[w] \in WorkerRecord /\ d \in Days /\ worker[w].pc = "search"
        /\ row \in LedgerRow /\ items \in SUBSET Scenes
    BY <1>0, <1>1, <1>2, <1>4, DayOfWorker, SearchedType DEF Search
  <1>7. /\ rec.pc = "items" /\ rec.row = row /\ rec.day = d
        /\ rec.items = items /\ rec.existing = worker[w].existing
    BY <1>1, <1>5, <1>6 DEF Searched, WorkerRecord
  <1>8. worker' = [worker EXCEPT ![w] = rec] /\ ledger' = [ledger EXCEPT ![d] = row] /\ UNCHANGED scene
    <2>1. worker' = [worker EXCEPT ![w].pc = "items", ![w].row = row,
                  ![w].items = items, ![w].todo = items, ![w].failed = 0]
      BY <1>3, <1>4
    <2>2. worker' = [worker EXCEPT ![w] = Searched(w, items, row)]
      BY <1>0, <2>1 DEF Searched, WorkersOK
    <2> QED  BY <1>a, <1>4, <1>5, <2>2 DEF Search
  <1>9. row.status = "running"
    <2>1. worker[w].row.status = "running" /\ worker[w].row \in LedgerRow
      BY <1>6 DEF SyncInv, RowInHand, WorkerRecord
    <2> QED  BY <1>4, <2>1 DEF FoundRow, LedgerRow
  <1>10. RowsCount' /\ CompleteDayForgetsNothing'
    BY <1>0, <1>1, <1>6, <1>7, <1>8, <1>9, QuietRow DEF AtItems
  <1>11. /\ row.scene_count \in Nat
         /\ row.scene_count >= worker[w].existing.scene_count
         /\ row.scene_count >= Cardinality(items)
         /\ worker[w].existing.scene_count \in Nat /\ Cardinality(items) \in Nat
    <2>1. /\ worker[w].existing.scene_count \in Nat /\ Cardinality(items) \in Nat
          /\ worker[w].row \in LedgerRow
      BY <1>6, CountOfScenes DEF WorkerRecord, LedgerRow
    <2>2. row.scene_count = Max({worker[w].existing.scene_count, Cardinality(items)})
      BY <1>4, <2>1 DEF FoundRow, LedgerRow
    <2> QED  BY <2>1, <2>2, GreaterOfTwo
  <1>12. Counted(d, worker[w].existing)
    BY <1>1, <1>6 DEF VisitCounts
  <1>13. \E S \in Answers(d) : Covers(S, d, row.scene_count) /\ items \subseteq S
    <2>1. PICK S \in Answers(d) : Covers(S, d, worker[w].existing.scene_count)
      BY <1>12 DEF Counted
    <2>2. S \subseteq items \/ items \subseteq S
      BY <1>a, <1>6 DEF NestedAnswers, Answers
    <2>3. S \in SUBSET Scenes /\ Cardinality(S) \in Nat
      BY <1>6, AnswersType, CountOfScenes
    <2>4. CASE S \subseteq items
      BY <1>a, <1>11, <2>1, <2>4 DEF Covers, Answers
    <2>5. CASE items \subseteq S
      BY <1>11, <2>1, <2>3, <2>5 DEF Covers
    <2> QED  BY <2>2, <2>4, <2>5
  <1>14. VisitCounts'
    <2>1. \A v \in Workers : v = w /\ worker'[v] = rec
      BY <1>0, <1>8, OnlyRecord
    <2>2. Registered(d)' = Registered(d) /\ Served(d)' = Served(d)
      BY <1>8, SameScenes
    <2>3. /\ \E S \in Answers(d) : Covers(S, d, row.scene_count)' /\ items \subseteq S
          /\ worker[w].existing.processed_count <= Cardinality(Served(d)')
      BY <1>12, <1>13, <2>2 DEF Covers, Counted
    <2> QED  BY <1>7, <2>1, <2>3 DEF VisitCounts, Covers
  <1> QED  BY <1>10, <1>14

\* The worker goes on with the scenes of its day.
LEMMA QuietGoesOn ==
    ASSUME OneWorker, OneDayPerScene, SyncInv, ItemsOfDay, [Next]_vars, NEW w \in Workers, NEW rec,
           worker' = [worker EXCEPT ![w] = rec], worker[w].pc \in AtItems, rec.pc \in AtItems,
           UNCHANGED ledger,
           \A s \in Scenes \ worker[w].item : scene'[s] = scene[s],
           rec.day = worker[w].day, rec.row = worker[w].row, rec.items = worker[w].items,
           rec.existing = worker[w].existing,
           RowsCount, VisitCounts, CompleteDayForgetsNothing
    PROVE  RowsCount' /\ VisitCounts' /\ CompleteDayForgetsNothing'
  <1>0. TablesOK /\ WorkersOK /\ ItemInHand
    BY DEF SyncInv, SyncTyping
  <1>1. \A v \in Workers : v = w /\ worker'[v] = rec
    BY <1>0, OnlyRecord, ZenonT(30)
  <1>2. PICK d : d = worker[w].day
    OBVIOUS
  <1>3. PICK T : T = worker[w].item
    OBVIOUS
  <1>4. d \in Days /\ worker[w] \in WorkerRecord /\ T \subseteq worker[w].items /\ worker[w].items \in Results[d]
    BY <1>0, <1>2, <1>3, DayOfWorker DEF AtItems, ItemsOfDay
  <1>5. \A e \in Days : e # d => Registered(e)' = Registered(e) /\ Served(e)' = Served(e)
    BY <1>3, <1>4, OtherDays
  <1>6. Registered(d)' \subseteq Registered(d) \cup worker[w].items
    <2>1. \A s \in UNION Results[d] : s \in Scenes
      BY <1>4, AnswersType
    <2> QED  BY <1>3, <1>4, <2>1 DEF Registered
  <1>7. Cardinality(Served(d)) \in Nat /\ Cardinality(Served(d)') \in Nat
        /\ Cardinality(Served(d)) <= Cardinality(Served(d)')
    <2>1. \A s \in UNION Results[d] : s \in Scenes
      BY <1>4, AnswersType
    <2>2. Served(d)' \in SUBSET Scenes
      BY <2>1 DEF Served
    <2>3. \A s \in Served(d) : scene'[s] = "published"
      BY <1>0, <2>1, ScenesStay DEF Served
    <2>4. Served(d) \in SUBSET Served(d)'
      BY <2>3 DEF Served, _scene_is_complete
    <2> QED  BY <2>2, <2>4, CountOfSubset
  <1>8. \A e \in Days : e # d => \A v \in Workers : ~VisitedBy(v, e)
    BY <1>1, <1>2 DEF VisitedBy
  <1>9. VisitedBy(w, d)'
    BY <1>1, <1>2 DEF VisitedBy
  <1>10. RowsCount'
    BY <1>5, <1>8, <1>9 DEF RowsCount, Counted, Covers
  <1>11. VisitCounts'
    <2>1. PICK S \in Answers(d) : Covers(S, d, worker[w].row.scene_count) /\ worker[w].items \subseteq S
      BY <1>2 DEF VisitCounts
    <2>2. Covers(S, d, rec.row.scene_count)' /\ rec.items \subseteq S
      BY <1>6, <2>1 DEF Covers
    <2>3. worker[w].existing.processed_count <= Cardinality(Served(d))
      BY <1>2 DEF VisitCounts
    <2>4. worker[w].existing.processed_count \in Nat
      BY <1>4 DEF WorkerRecord, LedgerRow
    <2>5. rec.existing.processed_count <= Cardinality(Served(d)')
      BY <1>7, <2>3, <2>4
    <2>6. rec.pc # "search"
      BY DEF AtItems
    <2> QED  BY <1>1, <1>2, <2>2, <2>5, <2>6 DEF VisitCounts
  <1>12. CompleteDayForgetsNothing'
    <2>1. ~HasStatus(d, {"complete"})
      BY <1>2 DEF SyncInv, RowInHand, HasStatus
    <2>2. \A e \in Days : HasStatus(e, {"complete"})' => HasStatus(e, {"complete"})
      BY DEF HasStatus
    <2>3. \A e \in Days : HasStatus(e, {"complete"}) => Registered(e) \subseteq Served(e)
      BY ForgetsNothing
    <2>4. \A e \in Days : HasStatus(e, {"complete"})' => Registered(e)' \subseteq Served(e)'
      BY <1>5, <2>1, <2>2, <2>3
    <2> QED  BY <2>4 DEF CompleteDayForgetsNothing, Registered, Served
  <1> QED  BY <1>10, <1>11, <1>12

\* A day is closed as complete only with as many scenes served as it counts.
LEMMA QuietClose ==
    ASSUME OneWorker, SyncInv, ItemsOfDay, NEW w \in Workers, CloseDay(w),
           RowsCount, VisitCounts, CompleteDayForgetsNothing
    PROVE  RowsCount' /\ VisitCounts' /\ CompleteDayForgetsNothing'
  <1>0. TablesOK /\ WorkersOK
    BY DEF SyncInv, SyncTyping
  <1>1. PICK d : d = worker[w].day
    OBVIOUS
  <1>2. PICK row : row = ClosedRow(w)
    OBVIOUS
  <1>3. PICK rec : rec = [IdleWorker EXCEPT !.pc = "day", !.job = worker[w].job, !.day = worker[w].day + 1]
    OBVIOUS
  <1>4. /\ worker[w] \in WorkerRecord /\ d \in Days /\ worker[w].pc = "items"
        /\ row \in LedgerRow /\ worker[w].row \in LedgerRow
    BY <1>0, <1>1, <1>2, DayOfWorker, ClosedRowType DEF CloseDay, WorkerRecord
  <1>5. /\ worker' = [worker EXCEPT ![w] = rec] /\ ledger' = [ledger EXCEPT ![d] = row]
        /\ UNCHANGED scene /\ rec.pc = "day"
    BY <1>1, <1>2, <1>3 DEF CloseDay, IdleWorker
  <1>6. \A v \in Workers : v = w /\ worker'[v] = rec
    BY <1>0, <1>5, OnlyRecord
  <1>7. \A e \in Days : Registered(e)' = Registered(e) /\ Served(e)' = Served(e)
    BY <1>5, SameScenes
  <1>8. \A e \in Days : e # d => ledger'[e] = ledger[e] /\ \A v \in Workers : ~VisitedBy(v, e)
    BY <1>0, <1>1, <1>5, <1>6 DEF TablesOK, VisitedBy
  <1>9. ledger'[d] = row
    BY <1>0, <1>4, <1>5 DEF TablesOK
  <1> DEFINE done == Cardinality({s \in worker[w].items : _scene_is_complete(s)})
             processed == Max({worker[w].existing.processed_count, done})
  <1>10. /\ row.scene_count = worker[w].row.scene_count /\ row.processed_count = processed
         /\ row.status = "complete" => processed >= row.scene_count
    <2> DEFINE status == IF /\ worker[w].row.search_complete
                            /\ worker[w].failed = 0
                            /\ processed >= worker[w].row.scene_count
                            /\ worker[w].job.mode = "full_pipeline" \/ worker[w].items = {}
                         THEN "complete" ELSE "partial"
    <2>1. row = [worker[w].row EXCEPT !.processed_count = processed, !.status = status,
                    !.retry_count = @ + (IF worker[w].failed > 0 THEN 1 ELSE 0)]
      BY <1>2 DEF ClosedRow
    <2>2. status = "complete" => processed >= worker[w].row.scene_count
      OBVIOUS
    <2> HIDE DEF processed, status
    <2> QED  BY <1>4, <2>1, <2>2 DEF LedgerRow
  <1>11. processed <= Cardinality(Served(d)) /\ processed \in Nat /\ Cardinality(Served(d)) \in Nat
    <2>1. Served(d) \in SUBSET Scenes /\ {s \in worker[w].items : _scene_is_complete(s)} \in SUBSET Served(d)
      BY <1>1, <1>4, AnswersType DEF Served, ItemsOfDay, AtItems
    <2>2. done \in Nat /\ Cardinality(Served(d)) \in Nat /\ done <= Cardinality(Served(d))
      BY <2>1, CountOfSubset
    <2>3. worker[w].existing.processed_count \in Nat
          /\ worker[w].existing.processed_count <= Cardinality(Served(d))
      BY <1>1, <1>4 DEF VisitCounts, AtItems, WorkerRecord, LedgerRow
    <2> HIDE DEF done
    <2>4. processed \in {worker[w].existing.processed_count, done}
      BY <2>2, <2>3, GreaterOfTwo
    <2> QED  BY <2>2, <2>3, <2>4
  <1> HIDE DEF processed
  <1>12. PICK S \in Answers(d) : Covers(S, d, row.scene_count)
    BY <1>1, <1>4, <1>10 DEF VisitCounts, AtItems
  <1>13. Counted(d, row)
    BY <1>10, <1>11, <1>12 DEF Counted
  <1>14. RowsCount'
    <2> SUFFICES ASSUME NEW e \in Days
                 PROVE  (\A v \in Workers : ~VisitedBy(v, e)') =>
                           IF ledger'[e] = NoRow THEN Registered(e)' = {} ELSE Counted(e, ledger[e])'
      BY DEF RowsCount
    <2>1. CASE e = d
      <3>1. row # NoRow
        BY <1>4, SyncAssumption
      <3> QED  BY <1>7, <1>9, <1>13, <2>1, <3>1 DEF Counted, Covers
    <2>2. CASE e # d
      BY <1>7, <1>8, <2>2 DEF RowsCount, Counted, Covers
    <2> QED  BY <2>1, <2>2
  <1>15. VisitCounts'
    BY <1>5, <1>6 DEF VisitCounts, AtItems
  <1>16. CompleteDayForgetsNothing'
    <2>1. row.status = "complete" => Registered(d) \subseteq Served(d)
      <3>1. row.scene_count \in Nat
        BY <1>4 DEF LedgerRow
      <3>2. row.status = "complete" => Cardinality(Served(d)) >= row.scene_count
        BY <1>10, <1>11, <3>1
      <3> QED  BY <1>4, <1>12, <3>1, <3>2, AllServed
    <2>2. \A e \in Days : e # d /\ HasStatus(e, {"complete"})' => Registered(e) \subseteq Served(e)
      BY <1>8, ForgetsNothing DEF HasStatus
    <2>3. \A e \in Days : HasStatus(e, {"complete"})' => Registered(e)' \subseteq Served(e)'
      BY <1>7, <1>9, <2>1, <2>2 DEF HasStatus
    <2> QED  BY <2>3 DEF CompleteDayForgetsNothing, Registered, Served
  <1> QED  BY <1>14, <1>15, <1>16

\* A search that raises, or a lost worker, ends the quiet.
LEMMA QuietBefore ==
    ASSUME TablesOK, [Next]_vars, Quiet'
    PROVE  Quiet /\ \A w \in Workers : ~SearchRaises(w) /\ ~WorkerLost(w)
  <1>1. /\ faults \in [{"item", "search", "crash"} -> 0..MaxFaults]
        /\ faults.search \in Nat /\ faults.crash \in Nat
    BY SyncAssumption DEF TablesOK
  <1>2. ASSUME NEW w \in Workers, SearchRaises(w)  PROVE FALSE
    BY <1>1, <1>2 DEF SearchRaises, Fault, Quiet
  <1>3. ASSUME NEW w \in Workers, WorkerLost(w)  PROVE FALSE
    BY <1>1, <1>3 DEF WorkerLost, Fault, Quiet
  <1>4. ASSUME NEW w \in Workers, ItemRaises(w)  PROVE Quiet
    <2>1. faults' = [faults EXCEPT !["item"] = @ + 1]
      BY <1>4 DEF ItemRaises, Fault
    <2>2. faults'.search = faults.search /\ faults'.crash = faults.crash
      BY <1>1, <2>1
    <2> QED  BY <2>2 DEF Quiet
  <1>5. ASSUME UNCHANGED faults  PROVE Quiet
    BY <1>5 DEF Quiet
  <1> QED
    BY <1>2, <1>3, <1>4, <1>5 DEF Next, vars, AdvanceClock, scheduled_bangalore_preload,
       ManualBackfill, TakeJob, BeginDay, Search, PickItem, RegisterScene, WriteOutputs,
       PublishScene, CloseDay, FinishJob

LEMMA QuietStep ==
    ASSUME OneWorker, NestedAnswers, OneDayPerScene, SyncInv, QuietInv, [Next]_vars
    PROVE  QuietInv'
  <1>0. TablesOK /\ WorkersOK /\ ItemsOfDay
    BY DEF SyncInv, SyncTyping, QuietInv
  <1>q. Quiet' => /\ RowsCount /\ VisitCounts /\ CompleteDayForgetsNothing
                  /\ \A w \in Workers : ~SearchRaises(w) /\ ~WorkerLost(w)
    BY <1>0, QuietBefore DEF QuietInv
  <1>1. CASE AdvanceClock \/ scheduled_bangalore_preload \/ ManualBackfill \/ UNCHANGED vars
    <2>1. UNCHANGED <<ledger, scene, worker>>
      BY <1>1 DEF AdvanceClock, scheduled_bangalore_preload, ManualBackfill, vars
    <2>2. ItemsOfDay'
      BY <1>0, <2>1 DEF ItemsOfDay
    <2>3. \A d \in Days : Registered(d)' = Registered(d) /\ Served(d)' = Served(d)
      BY <2>1, SameScenes
    <2>4. RowsCount => RowsCount'
      BY <2>1, <2>3 DEF RowsCount, Counted, Covers, VisitedBy
    <2>5. VisitCounts => VisitCounts'
      BY <2>1 DEF VisitCounts, Counted, Covers, Registered, Served, _scene_is_complete
    <2>6. CompleteDayForgetsNothing => CompleteDayForgetsNothing'
      BY <2>1 DEF CompleteDayForgetsNothing, HasStatus, _scene_is_complete
    <2> QED  BY <1>q, <2>2, <2>4, <2>5, <2>6 DEF QuietInv
  <1>2. ASSUME NEW w \in Workers, TakeJob(w) \/ FinishJob(w)  PROVE QuietInv'
    <2>1. PICK rec : worker' = [worker EXCEPT ![w] = rec] /\ rec.pc \in {"idle", "day"}
      BY <1>2 DEF TakeJob, FinishJob, IdleWorker
    <2>2. worker[w].pc \in {"idle", "day"} /\ UNCHANGED <<ledger, scene>>
      BY <1>2 DEF TakeJob, FinishJob
    <2>3. ItemsOfDay'
      BY <1>0, <2>1, ItemsStay DEF AtItems
    <2> QED  BY <1>0, <1>q, <2>1, <2>2, <2>3, QuietBetween DEF QuietInv
  <1>3. ASSUME NEW w \in Workers, BeginDay(w)  PROVE QuietInv'
    <2>1. PICK rec : rec = BegunDay(w)
      OBVIOUS
    <2>2. rec.pc = "search" /\ worker' = [worker EXCEPT ![w] = rec]
      BY <1>0, <1>3, <2>1, RecordSteps, DayOfWorker DEF BeginDay, BegunDay, WorkerRecord
    <2>3. ItemsOfDay'
      BY <1>0, <2>2, ItemsStay DEF AtItems
    <2> QED  BY <1>3, <1>q, <2>3, QuietBegin DEF QuietInv
  <1>4. ASSUME NEW w \in Workers, SearchRaises(w) \/ WorkerLost(w)  PROVE QuietInv'
    <2>1. worker' = [worker EXCEPT ![w] = IdleWorker] /\ IdleWorker.pc = "idle"
      BY <1>4 DEF SearchRaises, JobRaises, WorkerLost, IdleWorker
    <2>2. ItemsOfDay'
      BY <1>0, <2>1, ItemsStay DEF AtItems
    <2> QED  BY <1>4, <1>q, <2>2 DEF QuietInv
  <1>5. ASSUME NEW w \in Workers, Search(w)  PROVE QuietInv'
    <2>a. PICK items \in Results[worker[w].day] : \E row :
              worker' = [worker EXCEPT ![w].pc = "items", ![w].row = row,
                  ![w].items = items, ![w].todo = items, ![w].failed = 0]
      BY <1>5 DEF Search
    <2>1. PICK row :
              worker' = [worker EXCEPT ![w].pc = "items", ![w].row = row,
                  ![w].items = items, ![w].todo = items, ![w].failed = 0]
      BY <2>a
    <2>2. PICK rec : rec = Searched(w, items, row)
      OBVIOUS
    <2>3. worker' = [worker EXCEPT ![w] = rec]
      BY <1>0, <2>1, <2>2 DEF Searched, WorkersOK
    <2>4. /\ worker[w] \in WorkerRecord /\ worker[w].item = {}
      BY <1>0, <1>5, DayOfWorker DEF Search, SyncInv, ItemInHand
    <2>5. /\ rec.items = items /\ rec.todo = items /\ rec.item = {} /\ rec.day = worker[w].day
      BY <2>2, <2>4 DEF Searched, WorkerRecord
    <2>b. items \in Results[worker[w].day]
      BY <2>a
    <2>6. ItemsOfDay'
      BY <1>0, <2>b, <2>3, <2>5, ItemsStay
    <2> QED  BY <1>5, <1>q, <2>6, QuietSearch DEF QuietInv
  <1>6. ASSUME NEW w \in Workers, NEW rec, worker' = [worker EXCEPT ![w] = rec],
               worker[w].pc \in AtItems, rec.pc \in AtItems, UNCHANGED ledger,
               \A s \in Scenes \ worker[w].item : scene'[s] = scene[s],
               rec.day = worker[w].day, rec.row = worker[w].row, rec.items = worker[w].items,
               rec.existing = worker[w].existing,
               rec.todo \subseteq worker[w].todo, rec.item \subseteq worker[w].item \cup worker[w].todo
        PROVE  QuietInv'
    <2>1. /\ worker[w].items \in Results[worker[w].day]
          /\ worker[w].todo \subseteq worker[w].items /\ worker[w].item \subseteq worker[w].items
      BY <1>0, <1>6 DEF ItemsOfDay
    <2>2. ItemsOfDay'
      BY <1>0, <1>6, <2>1, ItemsStay
    <2>3. RowsCount /\ VisitCounts /\ CompleteDayForgetsNothing =>
              RowsCount' /\ VisitCounts' /\ CompleteDayForgetsNothing'
      BY <1>0, <1>6, QuietGoesOn
    <2> QED  BY <1>q, <2>2, <2>3 DEF QuietInv
  <1>7. ASSUME NEW w \in Workers, PickItem(w)  PROVE QuietInv'
    <2>1. PICK s \in worker[w].todo : worker' = [worker EXCEPT ![w] = Picked(w, s)]
      BY <1>0, <1>7, PickStep
    <2>2. PICK rec : rec = Picked(w, s)
      OBVIOUS
    <2>3. worker[w] \in WorkerRecord /\ worker[w].pc = "items" /\ UNCHANGED <<ledger, scene>>
      BY <1>0, <1>7, DayOfWorker DEF PickItem
    <2>4. /\ rec.pc \in AtItems /\ rec.day = worker[w].day /\ rec.row = worker[w].row
          /\ rec.items = worker[w].items /\ rec.existing = worker[w].existing
          /\ rec.todo = worker[w].todo \ {s} /\ rec.item \subseteq {s}
      BY <2>2, <2>3 DEF Picked, WorkerRecord, AtItems
    <2> QED  BY <1>6, <2>1, <2>2, <2>3, <2>4 DEF AtItems
  <1>8. ASSUME NEW w \in Workers, RegisterScene(w) \/ WriteOutputs(w) \/ PublishScene(w)
        PROVE  QuietInv'
    <2>1. /\ worker[w] \in WorkerRecord /\ worker[w].pc \in AtItems /\ UNCHANGED ledger
      BY <1>0, <1>8, DayOfWorker DEF RegisterScene, WriteOutputs, PublishScene, AtItems
    <2>2. \A s \in Scenes \ worker[w].item : scene'[s] = scene[s]
      BY <1>0, <1>8 DEF RegisterScene, WriteOutputs, PublishScene, TablesOK
    <2>3. \/ worker' = [worker EXCEPT ![w] = [worker[w] EXCEPT !.pc = "process"]]
          \/ worker' = [worker EXCEPT ![w] = [worker[w] EXCEPT !.pc = "publish"]]
          \/ worker' = [worker EXCEPT ![w] = NextTaken(w)]
      BY <1>0, <1>8, RecordSteps DEF RegisterScene, WriteOutputs, PublishScene
    <2>4. PICK rec : /\ worker' = [worker EXCEPT ![w] = rec]
                     /\ \/ rec = [worker[w] EXCEPT !.pc = "process"]
                        \/ rec = [worker[w] EXCEPT !.pc = "publish"]
                        \/ rec = NextTaken(w)
      BY <2>3
    <2>5. /\ rec.pc \in AtItems /\ rec.day = worker[w].day /\ rec.row = worker[w].row
          /\ rec.items = worker[w].items /\ rec.existing = worker[w].existing
          /\ rec.todo = worker[w].todo /\ rec.item \subseteq worker[w].item
      BY <2>1, <2>4 DEF NextTaken, WorkerRecord, AtItems
    <2> QED  BY <1>6, <2>1, <2>2, <2>4, <2>5
  <1>9. ASSUME NEW w \in Workers, ItemRaises(w)  PROVE QuietInv'
    <2>1. /\ worker[w] \in WorkerRecord /\ worker[w].pc \in AtItems /\ UNCHANGED <<ledger, scene>>
      BY <1>0, <1>9, DayOfWorker DEF ItemRaises, AtItems
    <2>2. PICK rec : rec = [NextTaken(w) EXCEPT !.failed = @ + 1]
      OBVIOUS
    <2>3. worker' = [worker EXCEPT ![w] = rec]
      BY <1>0, <1>9, <2>2, RecordSteps DEF ItemRaises
    <2>4. /\ rec.pc \in AtItems /\ rec.day = worker[w].day /\ rec.row = worker[w].row
          /\ rec.items = worker[w].items /\ rec.existing = worker[w].existing
          /\ rec.todo = worker[w].todo /\ rec.item = {}
      BY <2>1, <2>2 DEF NextTaken, WorkerRecord, AtItems
    <2> QED  BY <1>6, <2>1, <2>3, <2>4
  <1>10. ASSUME NEW w \in Workers, CloseDay(w)  PROVE QuietInv'
    <2> DEFINE day == [IdleWorker EXCEPT !.pc = "day", !.job = worker[w].job, !.day = worker[w].day + 1]
    <2>a. worker' = [worker EXCEPT ![w] = day] /\ day.pc = "day"
      BY <1>10 DEF CloseDay, IdleWorker
    <2> HIDE DEF day
    <2>1. PICK rec : worker' = [worker EXCEPT ![w] = rec] /\ rec.pc = "day"
      BY <2>a
    <2>2. ItemsOfDay'
      BY <1>0, <2>1, ItemsStay DEF AtItems
    <2> QED  BY <1>0, <1>10, <1>q, <2>2, QuietClose DEF QuietInv
  <1> QED  BY <1>1, <1>2, <1>3, <1>4, <1>5, <1>7, <1>8, <1>9, <1>10 DEF Next

\* While no search raises and no worker is lost, no day is closed over a scene
\* that was registered: what a row counts covers every scene of its day, in
\* whatever order the runs revisit the days and however many scenes fail. It
\* takes a provider whose answers for a day contain one another, and scenes of
\* one day each; for one worker.
THEOREM NothingForgotten ==
    ASSUME OneWorker, NestedAnswers, OneDayPerScene
    PROVE  Spec => []QuietDayForgetsNothing
<1>1. Init => QuietInv
  <2> SUFFICES ASSUME Init  PROVE QuietInv
    OBVIOUS
  <2>1. \A w \in Workers : worker[w].pc = "idle"
    BY DEF Init, IdleWorker
  <2>2. ItemsOfDay /\ VisitCounts
    BY <2>1 DEF ItemsOfDay, VisitCounts, AtItems
  <2>3. \A d \in Days : ledger[d] = NoRow /\ Registered(d) = {}
    BY AnswersType DEF Init, Registered
  <2>4. RowsCount /\ CompleteDayForgetsNothing
    BY <2>3 DEF RowsCount, CompleteDayForgetsNothing, HasStatus
  <2> QED  BY <2>2, <2>4 DEF QuietInv
<1>2. SyncInv /\ QuietInv /\ [Next]_vars => QuietInv'
  BY QuietStep
<1>3. QuietInv => QuietDayForgetsNothing
  BY DEF QuietInv, Quiet, QuietDayForgetsNothing
<1> QED  BY <1>1, <1>2, <1>3, SyncInvariant, PTL DEF Spec
-----------------------------------------------------------------------------
(***************************************************************************)
(* Scheduled runs leave no day behind.                                     *)
(***************************************************************************)
Closed == {"complete", "partial"}

ScheduledWindows == Windows \ ManualRequests

Active(k) == jobs[k] \in {"queued", "running"}

BusyWith(w, k) == worker[w].pc # "idle" /\ worker[w].job = k

\* A job is running in the hands of a worker.
RunningIsHeld == \A k \in Windows : jobs[k] = "running" <=> \E w \in Workers : BusyWith(w, k)

ClosedSoFar ==
    \A w \in Workers : worker[w].pc # "idle" =>
        \A d \in worker[w].job.start..(worker[w].day - 1) : HasStatus(d, Closed)

\* The planner looks for active jobs first.
OneScheduledRun == \A j, k \in ScheduledWindows : Active(j) /\ Active(k) => j = k

\* A manual run that is to visit the day, again or for the first time.
ToBeVisited(d) ==
    \E m \in ManualRequests :
        /\ d \in m.start..m.end
        /\ \/ jobs[m] \in {"queued", "failed"}
           \/ \E w \in Workers : BusyWith(w, m) /\ d >= worker[w].day

\* What the planner left out of the window, it does not have to look at.
LeftOut(k, d) ==
    \/ ledger[d] = NoRow /\ d <= k.end - SeedDays
    \/ HasStatus(d, Closed)
    \/ ToBeVisited(d)

WindowsCover ==
    \A k \in ScheduledWindows : Active(k) => \A d \in 1..(k.start - 1) : LeftOut(k, d)

GapInv == RunningIsHeld /\ ClosedSoFar /\ OneScheduledRun /\ WindowsCover

\* The scheduled window begins no later than any day that is still to be done.
LEMMA ScheduledCovers ==
    ASSUME TypeOK, clock >= SeedDays, NEW d \in Days, d < ScheduledStart
    PROVE  HasStatus(d, {"complete"}) \/ (ledger[d] = NoRow /\ d <= clock - SeedDays)
  <1> DEFINE seedStart  == clock - SeedDays + 1
             known      == {e \in Days : ledger[e] # NoRow}
             missing    == (seedStart..clock) \ known
             incomplete == {e \in known : ledger[e].status # "complete" /\ e <= clock}
             from       == {clock - RefreshDays + 1} \cup missing \cup incomplete
  <1>1. clock \in Nat /\ SeedDays \in Nat /\ seedStart \in Nat /\ clock - RefreshDays + 1 \in Nat /\ d \in Nat
        /\ clock - RefreshDays + 1 <= clock /\ seedStart <= clock
    BY BoundsType DEF TypeOK, Days
  <1>2. CASE known = {}
    <2>1. ScheduledStart = seedStart
      BY <1>2 DEF ScheduledStart
    <2> QED  BY <1>1, <1>2, <2>1
  <1>3. CASE known # {}
    <2>1. ScheduledStart = Min(from)
      BY <1>3 DEF ScheduledStart
    <2>2. from \in SUBSET Nat /\ from # {} /\ clock - RefreshDays + 1 \in from
      <3>1. missing \in SUBSET Nat /\ incomplete \in SUBSET Nat
        BY <1>1 DEF Days
      <3> QED  BY <1>1, <3>1
    <2>3. Min(from) \in Nat /\ \A e \in from : Min(from) <= e
      <3> HIDE DEF from
      <3> QED  BY <2>2, MinOfDays
    <2>4. d \notin from
      <3> HIDE DEF from
      <3> QED  BY <1>1, <2>1, <2>3
    <2>5. d <= clock
      <3> HIDE DEF from
      <3> QED  BY <1>1, <2>1, <2>2, <2>3
    <2>6. CASE d \in known
      BY <2>4, <2>5, <2>6 DEF HasStatus
    <2>7. CASE d \notin known
      <3>1. ~(seedStart <= d)
        BY <1>1, <2>4, <2>5, <2>7
      <3> QED  BY <1>1, <2>7, <3>1
    <2> QED  BY <2>6, <2>7
  <1> QED  BY <1>2, <1>3

\* The days of a window.
LEMMA WindowDaysType ==
    ASSUME NEW k \in Windows
    PROVE  k.start \in Nat \ {0} /\ k.end \in Nat /\ k.start <= k.end /\ k.end <= LastDay
  BY BoundsType DEF Windows, Days

LEMMA ManualWindows == ManualRequests \subseteq Windows
  BY SyncAssumption

\* A request queues a job that is not active.
LEMMA GapRequest ==
    ASSUME TablesOK, GapInv, NEW k \in Windows, start_backfill(k), UNCHANGED <<worker, ledger>>,
           \/ k \in ManualRequests
           \/ /\ \A j \in Windows : ~Active(j)
              /\ \A d \in 1..(k.start - 1) : LeftOut(k, d)
    PROVE  GapInv'
  <1>1. CASE jobs' = jobs
    BY <1>1 DEF GapInv, RunningIsHeld, BusyWith, ClosedSoFar, HasStatus, OneScheduledRun, Active,
                WindowsCover, LeftOut, ToBeVisited
  <1>2. CASE jobs[k] \in {"none", "failed"} /\ jobs' = [jobs EXCEPT ![k] = "queued"]
    <2>1. /\ \A j \in Windows : j # k => jobs'[j] = jobs[j]
          /\ jobs'[k] = "queued"
      BY <1>2 DEF TablesOK
    <2>2. RunningIsHeld'
      BY <1>2, <2>1 DEF GapInv, RunningIsHeld, BusyWith
    <2>3. ClosedSoFar'
      BY DEF GapInv, ClosedSoFar, HasStatus
    <2>4. \A d : ToBeVisited(d) => ToBeVisited(d)'
      <3> SUFFICES ASSUME NEW d, ToBeVisited(d)  PROVE ToBeVisited(d)'
        OBVIOUS
      <3>1. PICK m \in ManualRequests :
                /\ d \in m.start..m.end
                /\ \/ jobs[m] \in {"queued", "failed"}
                   \/ \E w \in Workers : BusyWith(w, m) /\ d >= worker[w].day
        BY DEF ToBeVisited
      <3>2. jobs[m] \in {"queued", "failed"} => jobs'[m] \in {"queued", "failed"}
        BY <2>1, <3>1, ManualWindows
      <3> QED  BY <3>1, <3>2 DEF ToBeVisited, BusyWith
    <2>5. \A j \in Windows : \A d : LeftOut(j, d) => LeftOut(j, d)'
      BY <2>4 DEF LeftOut, HasStatus
    <2>6. CASE k \in ManualRequests
      <3>1. \A j \in ScheduledWindows : Active(j)' => Active(j)
        BY <2>1, <2>6 DEF Active, ScheduledWindows
      <3> QED  BY <2>2, <2>3, <2>5, <3>1 DEF GapInv, OneScheduledRun, WindowsCover, ScheduledWindows
    <2>7. CASE /\ \A j \in Windows : ~Active(j)
               /\ \A d \in 1..(k.start - 1) : LeftOut(k, d)
      <3>1. \A j \in ScheduledWindows : Active(j)' => j = k
        BY <2>1, <2>7 DEF Active, ScheduledWindows
      <3> QED  BY <2>2, <2>3, <2>5, <2>7, <3>1 DEF GapInv, OneScheduledRun, WindowsCover
    <2> QED  BY <2>6, <2>7
  <1> QED  BY <1>1, <1>2 DEF start_backfill

\* An idle worker takes a job: it will visit all of its days.
LEMMA GapTake ==
    ASSUME OneWorker, SyncTyping, GapInv, NEW w \in Workers, TakeJob(w)
    PROVE  GapInv'
  <1>0. TablesOK /\ WorkersOK
    BY DEF SyncTyping
  <1>1. PICK k \in Windows :
            /\ jobs[k] = "queued"
            /\ jobs' = [jobs EXCEPT ![k] = "running"]
            /\ worker' = [worker EXCEPT ![w] = [IdleWorker EXCEPT !.pc = "day", !.job = k, !.day = k.start]]
    BY DEF TakeJob
  <1>2. PICK rec : rec = [IdleWorker EXCEPT !.pc = "day", !.job = k, !.day = k.start]
    OBVIOUS
  <1>3. rec.pc = "day" /\ rec.job = k /\ rec.day = k.start
    BY <1>2 DEF IdleWorker
  <1>4. \A v \in Workers : v = w /\ worker'[v] = rec
    BY <1>0, <1>1, <1>2, OnlyRecord
  <1>5. \A v \in Workers : \A j : ~BusyWith(v, j) /\ (BusyWith(v, j)' <=> j = k)
    BY <1>3, <1>4 DEF TakeJob, BusyWith
  <1>6. /\ \A j \in Windows : j # k => jobs'[j] = jobs[j]
        /\ jobs'[k] = "running"
    BY <1>0, <1>1 DEF TablesOK
  <1>7. RunningIsHeld'
    BY <1>5, <1>6 DEF GapInv, RunningIsHeld
  <1>8. ClosedSoFar'
    <2>1. \A d : d \notin k.start..(k.start - 1)
      BY WindowDaysType
    <2> QED  BY <1>3, <1>4, <2>1 DEF ClosedSoFar
  <1>9. \A j \in Windows : Active(j)' <=> Active(j)
    BY <1>1, <1>6 DEF Active
  <1>10. \A d : ToBeVisited(d) => ToBeVisited(d)'
    <2> SUFFICES ASSUME NEW d, ToBeVisited(d)  PROVE ToBeVisited(d)'
      OBVIOUS
    <2>1. PICK m \in ManualRequests : d \in m.start..m.end /\ jobs[m] \in {"queued", "failed"}
      BY <1>5 DEF ToBeVisited
    <2>2. m \in Windows
      BY ManualWindows
    <2>3. CASE m = k
      <3>1. BusyWith(w, m)' /\ worker'[w].day = m.start
        BY <1>3, <1>4, <1>5, <2>3
      <3>2. d >= m.start
        BY <2>1, <2>2, WindowDaysType
      <3> QED  BY <2>1, <3>1, <3>2 DEF ToBeVisited
    <2>4. CASE m # k
      BY <1>6, <2>1, <2>2, <2>4 DEF ToBeVisited
    <2> QED  BY <2>3, <2>4
  <1>11. \A j : \A d : LeftOut(j, d) => LeftOut(j, d)'
    BY <1>10 DEF LeftOut, HasStatus, TakeJob
  <1> QED  BY <1>7, <1>8, <1>9, <1>11 DEF GapInv, OneScheduledRun, WindowsCover, ScheduledWindows

\* The job in hand is the scheduled one that is active, or a manual one.
LEMMA JobInHand ==
    ASSUME SyncTyping, GapInv, NEW w \in Workers, worker[w].pc # "idle",
           worker[w].day <= worker[w].job.end, NEW k \in ScheduledWindows, Active(k),
           worker[w].day < k.start
    PROVE  /\ worker[w].job \in ManualRequests
           /\ worker[w].day \in worker[w].job.start..worker[w].job.end
  <1>1. worker[w].job \in Windows /\ worker[w].day \in worker[w].job.start..(worker[w].job.end + 1)
    BY DEF SyncTyping, WorkersOK, WorkerOK
  <1>2. jobs[worker[w].job] = "running"
    BY <1>1 DEF GapInv, RunningIsHeld, BusyWith
  <1>3. worker[w].job # k
    BY <1>1, WindowDaysType
  <1>4. worker[w].job \notin ScheduledWindows
    BY <1>2, <1>3 DEF GapInv, OneScheduledRun, Active
  <1> QED  BY <1>1, <1>4, WindowDaysType DEF ScheduledWindows

\* The worker rewrites the row of its day, and goes on to the next day only
\* when it has closed this one.
LEMMA GapVisit ==
    ASSUME OneWorker, SyncTyping, GapInv, NEW w \in Workers, NEW rec, NEW row \in LedgerRow,
           worker' = [worker EXCEPT ![w] = rec], worker[w].pc # "idle", rec.pc # "idle",
           rec.job = worker[w].job, worker[w].day <= worker[w].job.end,
           ledger' = [ledger EXCEPT ![worker[w].day] = row],
           rec.day = worker[w].day \/ (rec.day = worker[w].day + 1 /\ row.status \in Closed),
           UNCHANGED jobs
    PROVE  GapInv'
  <1>0. TablesOK /\ WorkersOK /\ worker[w].day \in Days /\ worker[w].day \in Nat /\ row # NoRow
    BY DayOfWorker, SyncAssumption DEF SyncTyping
  <1>1. \A v \in Workers : v = w /\ worker'[v] = rec
    BY <1>0, OnlyRecord
  <1>2. \A v \in Workers : \A j : BusyWith(v, j)' <=> BusyWith(v, j)
    BY <1>1 DEF BusyWith
  <1>3. /\ ledger'[worker[w].day] = row
        /\ \A d \in Days : d # worker[w].day => ledger'[d] = ledger[d]
    BY <1>0 DEF TablesOK
  <1>4. RunningIsHeld' /\ OneScheduledRun'
    BY <1>2 DEF GapInv, RunningIsHeld, OneScheduledRun, Active
  <1>5. worker[w].job \in Windows
    BY DEF SyncTyping, WorkersOK, WorkerOK
  <1>6. ClosedSoFar'
    <2> SUFFICES ASSUME NEW d \in rec.job.start..(rec.day - 1)  PROVE HasStatus(d, Closed)'
      BY <1>1 DEF ClosedSoFar
    <2>1. d \in Days /\ d \in Nat /\ d \in worker[w].job.start..(rec.day - 1)
      BY <1>0, <1>5, WindowDaysType, BoundsType DEF Days
    <2>2. CASE d = worker[w].day
      BY <1>0, <1>3, <2>1, <2>2 DEF HasStatus
    <2>3. CASE d # worker[w].day
      <3>1. d \in worker[w].job.start..(worker[w].day - 1)
        BY <1>0, <1>5, <2>1, <2>3, WindowDaysType
      <3>2. HasStatus(d, Closed)
        BY <3>1 DEF GapInv, ClosedSoFar
      <3> QED  BY <1>3, <2>1, <2>3, <3>2 DEF HasStatus
    <2> QED  BY <2>2, <2>3
  <1>7. WindowsCover'
    <2> SUFFICES ASSUME NEW k \in ScheduledWindows, Active(k), NEW d \in 1..(k.start - 1)
                 PROVE  LeftOut(k, d)'
      BY DEF WindowsCover, Active
    <2>1. k \in Windows /\ d \in Days /\ d \in Nat /\ d < k.start
      BY WindowDaysType, BoundsType DEF Days, ScheduledWindows
    <2>2. CASE d = worker[w].day
      <3>1. worker[w].job \in ManualRequests /\ d \in worker[w].job.start..worker[w].job.end
        BY <2>1, <2>2, JobInHand
      <3>2. CASE rec.day = worker[w].day
        <4>1. BusyWith(w, worker[w].job)' /\ d >= worker'[w].day
          BY <1>0, <1>1, <2>2, <3>2 DEF BusyWith
        <4> QED  BY <3>1, <4>1 DEF LeftOut, ToBeVisited
      <3>3. CASE row.status \in Closed
        BY <1>0, <1>3, <2>2, <3>3 DEF LeftOut, HasStatus
      <3> QED  BY <3>2, <3>3
    <2>3. CASE d # worker[w].day
      <3>1. LeftOut(k, d)
        BY DEF GapInv, WindowsCover
      <3>2. ToBeVisited(d) => ToBeVisited(d)'
        <4> SUFFICES ASSUME NEW m \in ManualRequests, d \in m.start..m.end,
                            \/ jobs[m] \in {"queued", "failed"}
                            \/ \E v \in Workers : BusyWith(v, m) /\ d >= worker[v].day
                     PROVE  ToBeVisited(d)'
          BY DEF ToBeVisited
        <4>1. CASE jobs[m] \in {"queued", "failed"}
          BY <4>1 DEF ToBeVisited
        <4>2. CASE BusyWith(w, m) /\ d >= worker[w].day
          <5>1. d >= rec.day
            BY <1>0, <2>1, <2>3, <4>2
          <5> QED  BY <1>1, <1>2, <4>2, <5>1 DEF ToBeVisited
        <4> QED  BY <1>1, <4>1, <4>2
      <3> QED  BY <1>3, <2>1, <2>3, <3>1, <3>2 DEF LeftOut, HasStatus
    <2> QED  BY <2>2, <2>3
  <1> QED  BY <1>4, <1>6, <1>7 DEF GapInv

\* The worker goes on with its day.
LEMMA GapGoesOn ==
    ASSUME OneWorker, SyncTyping, GapInv, NEW w \in Workers, NEW rec,
           worker' = [worker EXCEPT ![w] = rec], worker[w].pc # "idle", rec.pc # "idle",
           rec.job = worker[w].job, rec.day = worker[w].day, UNCHANGED <<jobs, ledger>>
    PROVE  GapInv'
  <1>1. \A v \in Workers : v = w /\ worker'[v] = rec
    BY OnlyRecord DEF SyncTyping
  <1>2. \A v \in Workers : /\ \A j : BusyWith(v, j)' <=> BusyWith(v, j)
                           /\ worker'[v].day = worker[v].day /\ worker'[v].job = worker[v].job
    BY <1>1 DEF BusyWith
  <1>3. RunningIsHeld' /\ OneScheduledRun'
    BY <1>2 DEF GapInv, RunningIsHeld, OneScheduledRun, Active
  <1>4. ClosedSoFar'
    BY <1>1, <1>2 DEF GapInv, ClosedSoFar, HasStatus
  <1>5. \A d : ToBeVisited(d)' <=> ToBeVisited(d)
    BY <1>2 DEF ToBeVisited
  <1>6. WindowsCover'
    BY <1>5 DEF GapInv, WindowsCover, Active, LeftOut, HasStatus
  <1> QED  BY <1>3, <1>4, <1>6 DEF GapInv

\* The worker puts its job down: at the end of it, or with the job still to be
\* run, or failed.
LEMMA GapPutsDown ==
    ASSUME OneWorker, SyncTyping, GapInv, NEW w \in Workers, worker[w].pc # "idle",
           worker' = [worker EXCEPT ![w] = IdleWorker],
           NEW status \in {"queued", "failed", "completed"},
           jobs' = [jobs EXCEPT ![worker[w].job] = status],
           status = "completed" => worker[w].day > worker[w].job.end,
           \/ UNCHANGED ledger
           \/ /\ status # "completed" /\ worker[w].day <= worker[w].job.end
              /\ \E row : ledger' = [ledger EXCEPT ![worker[w].day] = row]
    PROVE  GapInv'
  <1>0. TablesOK /\ WorkersOK /\ worker[w].job \in Windows /\ worker[w].day \in Nat
    BY DayOfWorker DEF SyncTyping
  <1>1. \A v \in Workers : v = w /\ worker'[v] = IdleWorker
    BY <1>0, OnlyRecord
  <1>2. \A v \in Workers : \A j : ~BusyWith(v, j)' /\ (BusyWith(v, j) <=> j = worker[w].job)
    BY <1>1 DEF BusyWith, IdleWorker
  <1>3. /\ \A j \in Windows : j # worker[w].job => jobs'[j] = jobs[j]
        /\ jobs'[worker[w].job] = status
    BY <1>0 DEF TablesOK
  <1>4. jobs[worker[w].job] = "running"
    BY <1>0, <1>2 DEF GapInv, RunningIsHeld
  <1>5. RunningIsHeld'
    BY <1>2, <1>3 DEF GapInv, RunningIsHeld
  <1>6. ClosedSoFar'
    BY <1>1 DEF ClosedSoFar, IdleWorker
  <1>7. \A j \in Windows : Active(j)' => Active(j)
    BY <1>3, <1>4 DEF Active
  <1>8. \A d : ToBeVisited(d) => ToBeVisited(d)'
    <2> SUFFICES ASSUME NEW d, NEW m \in ManualRequests, d \in m.start..m.end,
                        \/ jobs[m] \in {"queued", "failed"}
                        \/ \E v \in Workers : BusyWith(v, m) /\ d >= worker[v].day
                 PROVE  ToBeVisited(d)'
      BY DEF ToBeVisited
    <2>1. m \in Windows
      BY ManualWindows
    <2>2. CASE jobs[m] \in {"queued", "failed"}
      BY <1>3, <1>4, <2>1, <2>2 DEF ToBeVisited
    <2>3. CASE BusyWith(w, m) /\ d >= worker[w].day
      <3>1. m = worker[w].job
        BY <1>2, <2>3
      <3>2. status # "completed"
        BY <1>0, <2>1, <2>3, <3>1, WindowDaysType
      <3>3. jobs'[m] \in {"queued", "failed"}
        BY <1>3, <3>1, <3>2
      <3> QED  BY <3>3 DEF ToBeVisited
    <2> QED  BY <1>1, <2>2, <2>3
  <1>9. WindowsCover'
    <2> SUFFICES ASSUME NEW k \in ScheduledWindows, Active(k)', NEW d \in 1..(k.start - 1)
                 PROVE  LeftOut(k, d)'
      BY DEF WindowsCover
    <2>1. k \in Windows /\ Active(k) /\ d \in Days /\ d \in Nat /\ d < k.start
      BY <1>7, WindowDaysType, BoundsType DEF Days, ScheduledWindows
    <2>2. LeftOut(k, d)
      BY <2>1 DEF GapInv, WindowsCover
    <2>3. CASE ledger'[d] = ledger[d]
      BY <1>8, <2>2, <2>3 DEF LeftOut, HasStatus
    <2>4. CASE ledger'[d] # ledger[d]
      <3>1. d = worker[w].day /\ status # "completed" /\ worker[w].day <= worker[w].job.end
        BY <1>0, <2>1, <2>4 DEF TablesOK
      <3>2. worker[w].job \in ManualRequests /\ d \in worker[w].job.start..worker[w].job.end
        BY <2>1, <3>1, JobInHand
      <3>3. jobs'[worker[w].job] \in {"queued", "failed"}
        BY <1>3, <3>1
      <3> QED  BY <3>2, <3>3 DEF LeftOut, ToBeVisited
    <2> QED  BY <2>3, <2>4
  <1> QED  BY <1>5, <1>6, <1>7, <1>9 DEF GapInv, OneScheduledRun, ScheduledWindows

LEMMA GapStep ==
    ASSUME OneWorker, SyncInv, GapInv, [Next]_vars
    PROVE  GapInv'
  <1>0. SyncTyping /\ TablesOK /\ WorkersOK /\ TypeOK /\ clock >= SeedDays
    BY TypingParts DEF SyncInv, SyncTyping
  <1>1. CASE AdvanceClock \/ UNCHANGED vars
    BY <1>1 DEF AdvanceClock, vars, GapInv, RunningIsHeld, BusyWith, ClosedSoFar, HasStatus,
       OneScheduledRun, Active, WindowsCover, LeftOut, ToBeVisited
  <1>2. CASE scheduled_bangalore_preload
    <2>1. PICK k : k = [start |-> ScheduledStart, end |-> clock, mode |-> "full_pipeline"]
      OBVIOUS
    <2>2. k \in Windows /\ start_backfill(k) /\ UNCHANGED <<worker, ledger>>
      BY <1>0, <1>2, <2>1, ScheduledWindow DEF scheduled_bangalore_preload
    <2>3. \A j \in Windows : ~Active(j)
      BY <1>2 DEF scheduled_bangalore_preload, has_active_backfill, Active
    <2>4. \A d \in 1..(k.start - 1) : LeftOut(k, d)
      <3> TAKE d \in 1..(k.start - 1)
      <3>1. d \in Days /\ d < ScheduledStart /\ k.end = clock
        BY <2>1, <2>2, WindowDaysType, BoundsType DEF Days
      <3>2. HasStatus(d, {"complete"}) \/ (ledger[d] = NoRow /\ d <= clock - SeedDays)
        BY <1>0, <3>1, ScheduledCovers
      <3> QED  BY <3>1, <3>2 DEF LeftOut, HasStatus, Closed
    <2> QED  BY <1>0, <2>2, <2>3, <2>4, GapRequest
  <1>3. CASE ManualBackfill
    <2>1. PICK k \in ManualRequests : start_backfill(k)
      BY <1>3 DEF ManualBackfill
    <2>2. k \in Windows /\ UNCHANGED <<worker, ledger>>
      BY <1>3, ManualWindows DEF ManualBackfill
    <2> QED  BY <1>0, <2>1, <2>2, GapRequest
  <1>4. ASSUME NEW w \in Workers, TakeJob(w)  PROVE GapInv'
    BY <1>0, <1>4, GapTake
  <1>5. ASSUME NEW w \in Workers, BeginDay(w)  PROVE GapInv'
    <2>1. PICK rec : rec = BegunDay(w)
      OBVIOUS
    <2>2. worker[w] \in WorkerRecord /\ rec.row \in LedgerRow
      BY <1>0, <1>5, <2>1, DayOfWorker, BegunDayType DEF BeginDay
    <2>3. /\ rec.pc = "search" /\ rec.day = worker[w].day /\ rec.job = worker[w].job
          /\ ledger' = [ledger EXCEPT ![worker[w].day] = rec.row]
      BY <1>5, <2>1, <2>2 DEF BeginDay, BegunDay, WorkerRecord
    <2>4. worker' = [worker EXCEPT ![w] = rec]
      BY <1>0, <1>5, <2>1, RecordSteps
    <2>5. worker[w].pc = "day" /\ worker[w].day <= worker[w].job.end /\ UNCHANGED jobs
      BY <1>5 DEF BeginDay
    <2> QED  BY <1>0, <2>2, <2>3, <2>4, <2>5, GapVisit
  <1>6. ASSUME NEW w \in Workers, SearchRaises(w)  PROVE GapInv'
    <2>1. /\ worker[w].pc # "idle" /\ worker[w].day <= worker[w].job.end
          /\ jobs' = [jobs EXCEPT ![worker[w].job] = "failed"]
          /\ worker' = [worker EXCEPT ![w] = IdleWorker]
      BY <1>0, <1>6, DayOfWorker DEF SearchRaises, JobRaises
    <2>2. \/ UNCHANGED ledger
          \/ \E row : ledger' = [ledger EXCEPT ![worker[w].day] = row]
      BY <1>6 DEF SearchRaises
    <2> QED  BY <1>0, <2>1, <2>2, GapPutsDown
  <1>7. ASSUME NEW w \in Workers, Search(w)  PROVE GapInv'
    <2>1. PICK items \in Results[worker[w].day] : \E exhausted \in BOOLEAN :
             /\ ledger' = [ledger EXCEPT ![worker[w].day] = FoundRow(w, items, exhausted)]
             /\ worker' = [worker EXCEPT ![w].pc = "items", ![w].row = FoundRow(w, items, exhausted),
                    ![w].items = items, ![w].todo = items, ![w].failed = 0]
             /\ lastFound' = [lastFound EXCEPT ![worker[w].day] = items]
      BY <1>7, SearchStep
    <2>2. PICK exhausted \in BOOLEAN :
             /\ ledger' = [ledger EXCEPT ![worker[w].day] = FoundRow(w, items, exhausted)]
             /\ worker' = [worker EXCEPT ![w].pc = "items", ![w].row = FoundRow(w, items, exhausted),
                    ![w].items = items, ![w].todo = items, ![w].failed = 0]
      BY <2>1
    <2>3. PICK row : row = FoundRow(w, items, exhausted)
      OBVIOUS
    <2>4. PICK rec : rec = Searched(w, items, row)
      OBVIOUS
    <2>5. worker[w] \in WorkerRecord /\ row \in LedgerRow
      BY <1>0, <1>7, <2>3, DayOfWorker, SearchedType DEF Search
    <2>6. rec.pc = "items" /\ rec.day = worker[w].day /\ rec.job = worker[w].job
      BY <2>4, <2>5 DEF Searched, WorkerRecord
    <2>7. worker' = [worker EXCEPT ![w] = rec]
      <3>1. worker' = [worker EXCEPT ![w].pc = "items", ![w].row = row,
                    ![w].items = items, ![w].todo = items, ![w].failed = 0]
        BY <2>2, <2>3
      <3> QED  BY <1>0, <2>4, <3>1 DEF Searched, WorkersOK
    <2>8. worker[w].pc = "search" /\ worker[w].day <= worker[w].job.end /\ UNCHANGED jobs
      BY <1>0, <1>7, DayOfWorker DEF Search
    <2> QED  BY <1>0, <2>2, <2>3, <2>5, <2>6, <2>7, <2>8, GapVisit
  <1>8. ASSUME NEW w \in Workers,
               PickItem(w) \/ RegisterScene(w) \/ WriteOutputs(w) \/ PublishScene(w) \/ ItemRaises(w)
        PROVE  GapInv'
    <2>1. worker[w] \in WorkerRecord /\ worker[w].pc # "idle" /\ UNCHANGED <<jobs, ledger>>
      BY <1>0, <1>8, DayOfWorker DEF PickItem, RegisterScene, WriteOutputs, PublishScene, ItemRaises
    <2>2. \/ \E s : worker' = [worker EXCEPT ![w] = Picked(w, s)]
          \/ worker' = [worker EXCEPT ![w] = [worker[w] EXCEPT !.pc = "process"]]
          \/ worker' = [worker EXCEPT ![w] = [worker[w] EXCEPT !.pc = "publish"]]
          \/ worker' = [worker EXCEPT ![w] = NextTaken(w)]
          \/ worker' = [worker EXCEPT ![w] = [NextTaken(w) EXCEPT !.failed = @ + 1]]
      <3>1. CASE PickItem(w)
        BY <1>0, <3>1, PickStep
      <3>2. CASE RegisterScene(w)
        BY <1>0, <3>2, RecordSteps DEF RegisterScene
      <3>3. CASE WriteOutputs(w)
        BY <1>0, <3>3, RecordSteps DEF WriteOutputs
      <3>4. CASE PublishScene(w)
        BY <1>0, <3>4, RecordSteps DEF PublishScene
      <3>5. CASE ItemRaises(w)
        BY <1>0, <3>5, RecordSteps DEF ItemRaises
      <3> QED  BY <1>8, <3>1, <3>2, <3>3, <3>4, <3>5
    <2>3. PICK rec : /\ worker' = [worker EXCEPT ![w] = rec]
                     /\ \/ \E s : rec = Picked(w, s)
                        \/ rec = [worker[w] EXCEPT !.pc = "process"]
                        \/ rec = [worker[w] EXCEPT !.pc = "publish"]
                        \/ rec = NextTaken(w)
                        \/ rec = [NextTaken(w) EXCEPT !.failed = @ + 1]
      BY <2>2
    <2>4. rec.pc # "idle" /\ rec.day = worker[w].day /\ rec.job = worker[w].job
      BY <2>1, <2>3 DEF Picked, NextTaken, WorkerRecord
    <2> QED  BY <1>0, <2>1, <2>3, <2>4, GapGoesOn
  <1>9. ASSUME NEW w \in Workers, CloseDay(w)  PROVE GapInv'
    <2> DEFINE day == [IdleWorker EXCEPT !.pc = "day", !.job = worker[w].job, !.day = worker[w].day + 1]
    <2>1. day.pc = "day" /\ day.job = worker[w].job /\ day.day = worker[w].day + 1
      BY DEF IdleWorker
    <2>2. worker' = [worker EXCEPT ![w] = day] /\ UNCHANGED jobs
      BY <1>9 DEF CloseDay
    <2> HIDE DEF day
    <2>3. PICK row : row = ClosedRow(w)
      OBVIOUS
    <2>4. worker[w].pc = "items" /\ ledger' = [ledger EXCEPT ![worker[w].day] = row]
      BY <1>9, <2>3 DEF CloseDay
    <2>5. row \in LedgerRow /\ worker[w].day <= worker[w].job.end /\ worker[w].row \in LedgerRow
      BY <1>0, <2>3, <2>4, ClosedRowType, DayOfWorker DEF WorkerRecord
    <2>6. row.status \in Closed
      BY <2>3, <2>5 DEF ClosedRow, LedgerRow, Closed
    <2> QED  BY <1>0, <2>1, <2>2, <2>4, <2>5, <2>6, GapVisit
  <1>10. ASSUME NEW w \in Workers, FinishJob(w)  PROVE GapInv'
    BY <1>0, <1>10, GapPutsDown DEF FinishJob
  <1>11. ASSUME NEW w \in Workers, WorkerLost(w)  PROVE GapInv'
    BY <1>0, <1>11, GapPutsDown DEF WorkerLost
  <1> QED  BY <1>1, <1>2, <1>3, <1>4, <1>5, <1>6, <1>7, <1>8, <1>9, <1>10, <1>11 DEF Next

\* When a scheduled run completes, what it visited is closed and what the
\* planner left out still needs no visit.
LEMMA NoGapStep ==
    ASSUME OneWorker, SyncInv, GapInv, [Next]_vars, NEW k \in ScheduledWindows,
           jobs[k] = "running", jobs'[k] = "completed",
           NEW d \in 1..k.end, ledger[d] # NoRow \/ d > k.end - SeedDays
    PROVE  \/ HasStatus(d, Closed)
           \/ \E m \in ManualRequests : d \in m.start..m.end /\ jobs[m] \in {"queued", "failed"}
  <1>0. SyncTyping /\ TablesOK /\ WorkersOK /\ k \in Windows
    BY DEF SyncInv, SyncTyping, ScheduledWindows
  <1>1. PICK w \in Workers : BusyWith(w, k)
    BY <1>0 DEF GapInv, RunningIsHeld
  <1>2. worker[w].pc = "day" /\ worker[w].day > k.end
    <2>1. PICK v \in Workers : FinishJob(v)
      <3>1. \A v \in Workers : ~TakeJob(v) /\ ~SearchRaises(v) /\ ~WorkerLost(v)
        BY <1>0 DEF TakeJob, SearchRaises, JobRaises, WorkerLost, TablesOK
      <3>2. ~scheduled_bangalore_preload /\ ~ManualBackfill
        BY <1>0 DEF scheduled_bangalore_preload, ManualBackfill, start_backfill, TablesOK
      <3>3. ~UNCHANGED jobs
        OBVIOUS
      <3> QED
        BY <3>1, <3>2, <3>3 DEF Next, vars, AdvanceClock, BeginDay, Search, PickItem,
           RegisterScene, WriteOutputs, PublishScene, ItemRaises, CloseDay
    <2> QED  BY <1>1, <2>1 DEF OneWorker, FinishJob, BusyWith
  <1>3. CASE d >= k.start
    <2>1. d \in k.start..(worker[w].day - 1)
      BY <1>0, <1>1, <1>2, <1>3, WindowDaysType, DayOfWorker
    <2> QED  BY <1>1, <1>2, <2>1 DEF GapInv, ClosedSoFar, BusyWith
  <1>4. CASE d < k.start
    <2>1. LeftOut(k, d)
      BY <1>0, <1>4, WindowDaysType DEF GapInv, WindowsCover, Active
    <2>2. ASSUME NEW m \in ManualRequests, d \in m.start..m.end, NEW v \in Workers, BusyWith(v, m)
          PROVE  FALSE
      BY <1>1, <2>2 DEF OneWorker, BusyWith, ScheduledWindows
    <2>3. ~(ledger[d] = NoRow /\ d <= k.end - SeedDays)
      BY <1>0, WindowDaysType, BoundsType
    <2> QED  BY <2>1, <2>2, <2>3 DEF LeftOut, ToBeVisited
  <1> QED  BY <1>0, <1>3, <1>4, WindowDaysType

\* A scheduled run that completes leaves no day behind: every day of the seed
\* window and every older day the ledger knows has been closed, but for days
\* of a manual run that has failed or waits; for any calendar, windows, requests
\* and faults, and one worker.
THEOREM NoDayLeftBehind ==
    ASSUME OneWorker
    PROVE  Spec => CompletedRunLeavesNoGap
<1>1. Init => GapInv
  <2> SUFFICES ASSUME Init  PROVE GapInv
    OBVIOUS
  <2>1. \A w \in Workers : worker[w].pc = "idle"
    BY DEF Init, IdleWorker
  <2>2. \A k \in Windows : jobs[k] = "none"
    BY DEF Init
  <2> QED  BY <2>1, <2>2 DEF GapInv, RunningIsHeld, BusyWith, ClosedSoFar, OneScheduledRun,
              WindowsCover, Active, ScheduledWindows
<1>2. SyncInv /\ GapInv /\ [Next]_vars => GapInv'
  BY GapStep
<1>3. SyncInv /\ GapInv /\ [Next]_vars =>
        [\A k \in Windows \ ManualRequests : jobs[k] = "running" /\ jobs'[k] = "completed" =>
          \A d \in 1..k.end : ledger[d] # NoRow \/ d > k.end - SeedDays =>
              \/ HasStatus(d, {"complete", "partial"})
              \/ \E m \in ManualRequests : d \in m.start..m.end /\ jobs[m] \in {"queued", "failed"}]_vars
  BY NoGapStep DEF ScheduledWindows, Closed
<1> QED  BY <1>1, <1>2, <1>3, SyncInvariant, PTL DEF Spec, CompletedRunLeavesNoGap
=============================================================================
