------------------------- MODULE ResourceSat_proofs -------------------------
(***************************************************************************)
(* Proofs about ResourceSat: its type invariant, that a completed date is  *)
(* one composite, and that a readiness answer is true.                     *)
(***************************************************************************)
EXTENDS ResourceSat, FiniteSetTheorems, WellFoundedInduction, TLAPS

IndexNames == ToSet(Indices)

Classes == {"uncovered", "clear", "water", "shadow", "cloud"}
Images == [Pixels -> [from : Products \cup {None}, class : Classes]]

JobRows ==
    [window : SUBSET Dates, mode : Modes, status : {"queued", "running", "completed", "failed"},
     produced : BOOLEAN, completedAt : 0..LastTick]

Composites ==
    {None} \cup [of : SUBSET Products]
           \cup [of : SUBSET Products, date : Dates, picture : Images]

CompositeDue ==
    ({"object"} \X CompositeAssets) \cup {<<"scene", None>>}
        \cup ({"asset"} \X {"analytic", "mask"})
IndexDue ==
    ({"cog", "raster", "layer"} \X IndexNames) \cup {<<"item", None>>, <<"scene item", None>>}

Workers ==
    [job : Nat, stage : {"idle", "search", "prepare", "composite", "index"},
     composite : Composites, left : Seq(CompositeDue \cup IndexDue)]

Contents == {None} \cup Pictures \cup [Pixels -> Classes] \cup SUBSET Products
RasterRows == [of : Pictures, created : 0..LastTick]
SceneRows == [of : SUBSET Products, item : BOOLEAN]

CountsOK == now \in 0..LastTick /\ faults \in 0..MaxFaults /\ runs \in 0..MaxRuns

TablesOK ==
    /\ object \in [Dates -> [CompositeAssets -> Contents]]
    /\ scene \in [Dates -> {None} \cup SceneRows]
    /\ asset \in [Dates -> [{"analytic", "mask"} -> Contents]]
    /\ cog \in [Dates -> [IndexNames -> {None} \cup Pictures]]
    /\ raster \in [Dates -> [IndexNames -> {None} \cup RasterRows]]
    /\ layer \in [Dates -> SUBSET IndexNames]
    /\ item \in [Dates -> {None} \cup [IndexNames -> Pictures]]

RunningJobs == {j \in DOMAIN jobs : jobs[j].status = "running"}

JobsOK ==
    /\ jobs \in Seq(JobRows)
    /\ worker \in Workers
    /\ worker.stage = "idle" => worker = Idle
    /\ worker.stage # "idle" => worker.job \in DOMAIN jobs
    /\ worker.stage \notin {"composite", "index"} => worker.left = <<>>
    /\ RunningJobs = IF Active THEN {worker.job} ELSE {}

\* What is below a row: a layer has its raster row, a raster row its object and
\* its scene.
RowsOK ==
    \A d \in Dates, i \in IndexNames :
        /\ i \in layer[d] => HasRow(d, i)
        /\ HasRow(d, i) => cog[d][i] # None /\ scene[d] # None

\* The products in hand are of the window.
Preparing ==
    worker.stage = "prepare" =>
        /\ worker.composite \in [of : SUBSET Products]
        /\ \A p \in worker.composite.of : DateOf[p] \in jobs[worker.job].window

\* The composite in hand is the one of the products it names.
Building ==
    worker.stage \in {"composite", "index"} =>
        /\ worker.composite \in [of : SUBSET Products, date : Dates, picture : Images]
        /\ worker.composite.of # {}
        /\ \A p \in worker.composite.of : DateOf[p] = date
        /\ date \in jobs[worker.job].window
        /\ picture = BestAvailable[worker.composite.of]

Pending(w) == \E n \in DOMAIN worker.left : worker.left[n] = w

\* The write was made, and nothing has undone it.
CompositeWritten(w) ==
    /\ w[1] = "object" => object[date][w[2]] = Held(w[2])
    /\ w[1] = "asset" => asset[date][w[2]] = Held(w[2])
    /\ w[1] = "scene" => scene[date] # None /\ scene[date].of = worker.composite.of

IndexWritten(w) ==
    /\ w[1] = "cog" => cog[date][w[2]] = IndexOf(picture)
    /\ w[1] = "raster" => HasRow(date, w[2]) /\ raster[date][w[2]].of = IndexOf(picture)
    /\ w[1] = "layer" => w[2] \in layer[date]
    /\ w[1] = "item" => item[date] = [i \in IndexNames |-> IndexOf(picture)]
    /\ w[1] = "scene item" => scene[date] = [of |-> worker.composite.of, item |-> TRUE]

Composing ==
    worker.stage = "composite" =>
        /\ worker.left \in Seq(CompositeDue)
        /\ \A w \in CompositeDue : Pending(w) \/ CompositeWritten(w)

\* A row is not written before the object, nor a layer before the row, it is of.
Ordered ==
    \A n \in DOMAIN worker.left, i \in IndexNames :
        /\ worker.left[n] = <<"raster", i>> =>
              cog[date][i] # None \/ \E m \in 1..(n - 1) : worker.left[m] = <<"cog", i>>
        /\ worker.left[n] = <<"layer", i>> =>
              HasRow(date, i) \/ \E m \in 1..(n - 1) : worker.left[m] = <<"raster", i>>

Indexing ==
    worker.stage = "index" =>
        /\ worker.left \in Seq(IndexDue)
        /\ \A w \in CompositeDue : CompositeWritten(w)
        /\ \A w \in IndexDue : Pending(w) \/ IndexWritten(w)
        /\ Ordered

Requests ==
    [step : {"idle", "indices", "jobs"}, left : SUBSET IndexNames, dates : SUBSET Dates,
     found : Seq(SUBSET (Dates \X (0..LastTick)))]
Beginnings ==
    [whole : SUBSET Dates, fresh : {None} \cup 0..LastTick, rows : BOOLEAN, job : BOOLEAN]

Reading(i) == request.step = "indices" /\ i \in request.left

\* A reading found rows of the index, which are still there.
FoundFor(n, i) ==
    \A r \in request.found[n] :
        /\ r[1] \in request.dates
        /\ HasRow(r[1], i) /\ raster[r[1]][i].created = r[2]

RequestTypes ==
    /\ request \in Requests
    /\ request.step # "idle" => begun \in Beginnings
    /\ request.step = "indices" => request.left \subseteq Required

ReadingsTrue ==
    /\ \A n \in DOMAIN request.found : \E i \in Required : FoundFor(n, i)
    /\ \A i \in Required : Reading(i) \/ \E n \in DOMAIN request.found : FoundFor(n, i)

WholeKept ==
    \A d \in begun.whole :
        /\ d \in request.dates /\ \A i \in Required : HasRow(d, i)
        /\ \A n \in DOMAIN request.found : \E r \in request.found[n] : r[1] = d

\* What made the catalogue fresh is found, or is still to be read.
FreshKept ==
    begun.fresh # None =>
        \/ \E j \in SuccessfulJobs : j.completedAt = begun.fresh
        \/ \E d \in request.dates, i \in Required :
              /\ HasRow(d, i) /\ raster[d][i].created = begun.fresh
              /\ \/ Reading(i)
                 \/ \E n \in DOMAIN request.found : <<d, begun.fresh>> \in request.found[n]

RowsKept ==
    begun.rows =>
        /\ \E d \in request.dates, i \in IndexNames : HasRow(d, i)
        /\ request.step = "jobs" => request.left # {}

JobKept == begun.job => SuccessfulJobs # {}

RequestOK ==
    /\ RequestTypes
    /\ request.step # "idle" => ReadingsTrue /\ WholeKept /\ FreshKept /\ RowsKept /\ JobKept

IInv ==
    /\ CountsOK /\ TablesOK /\ JobsOK /\ RowsOK
    /\ Preparing /\ Building /\ Composing /\ Indexing
    /\ RequestOK

-----------------------------------------------------------------------------
(***************************************************************************)
(* Orders on finite sets.                                                  *)
(***************************************************************************)
SmallerThan == {pair \in Nat \X Nat : pair[1] < pair[2]}

LEMMA SmallestOfSet ==
    ASSUME NEW S, S \subseteq Nat, S # {}
    PROVE  \E n \in S : \A m \in S : n <= m
  <1>1. OpToRel(<, Nat) = SmallerThan
    BY DEF OpToRel, SmallerThan
  <1>2. IsWellFoundedOn(SmallerThan, Nat)
    BY <1>1, NatLessThanWellFounded, Zenon
  <1>3. PICK n \in S : \A m \in S : ~(<<m, n>> \in SmallerThan)
    BY <1>2, WFMin
  <1>4. ASSUME NEW m \in S
        PROVE  n <= m
    <2>1. m \in Nat /\ n \in Nat
      OBVIOUS
    <2>2. ~(m < n)
      BY <1>3, <2>1 DEF SmallerThan
    <2> QED  BY <2>1, <2>2
  <1> QED  BY <1>4

\* A finite set of numbers has a greatest one: of the elements, the one that has
\* the fewest above it.
LEMMA GreatestOfSet ==
    ASSUME NEW S, IsFiniteSet(S), S # {}, S \subseteq Int
    PROVE  \E n \in S : \A m \in S : m <= n
  <1> DEFINE above == [n \in S |-> {m \in S : m > n}]
             counts == {Cardinality(above[n]) : n \in S}
  <1>1. ASSUME NEW n \in S
        PROVE  IsFiniteSet(above[n]) /\ Cardinality(above[n]) \in Nat
    <2>1. above[n] \in SUBSET S
      OBVIOUS
    <2> QED  BY <2>1, FS_Subset, FS_CardinalityType
  <1>2. \A m, n \in S : m \in above[n] <=> m > n
    OBVIOUS
  <1>3. \A n \in S : above[n] \subseteq S
    OBVIOUS
  <1> HIDE DEF above
  <1>4. counts \subseteq Nat /\ counts # {}
    BY <1>1
  <1>5. PICK k \in counts : \A l \in counts : k <= l
    BY <1>4, SmallestOfSet
  <1>6. PICK n \in S : k = Cardinality(above[n])
    BY <1>5
  <1>7. ASSUME NEW m \in S, m > n
        PROVE  FALSE
    <2>1. \A l \in S : l > m => l > n
      BY <1>7
    <2>2. ~(m > m)
      OBVIOUS
    <2>3. above[m] \in SUBSET above[n] /\ m \in above[n] /\ m \notin above[m]
      BY <1>2, <1>3, <1>7, <2>1, <2>2
    <2>4. Cardinality(above[m]) <= Cardinality(above[n]) /\ Cardinality(above[m]) # Cardinality(above[n])
      BY <1>1, <2>3, FS_Subset
    <2>5. k <= Cardinality(above[m])
      BY <1>5
    <2> QED  BY <1>1, <1>6, <2>4, <2>5
  <1>8. \A m \in S : ~(m > n)
    BY <1>7
  <1> QED  BY <1>8

LEMMA Constants ==
    /\ IsFiniteSet(Products) /\ Dates \subseteq Int
    /\ MaxAge \in Nat /\ MaxFaults \in Nat /\ MaxRuns \in Nat /\ LastTick \in Nat
    /\ Indices \in Seq(IndexNames)
    /\ Required # {} /\ Required \subseteq IndexNames
    /\ TakenAt \in [Products -> Nat] /\ DateOf \in [Products -> Dates]
    /\ \A p, q \in Products : TakenAt[p] = TakenAt[q] => p = q
    /\ Results \subseteq SUBSET Products
    /\ Submissions \subseteq [window : SUBSET Dates, mode : Modes]
    /\ Footprint \in [Products -> SUBSET Pixels]
    /\ None \notin Products /\ None \notin 0..LastTick /\ None \notin Pictures
    /\ None \notin RasterRows /\ None \notin SceneRows
  BY ResourceSatAssumption DEF IndexNames, Pictures, RasterRows, SceneRows

\* A function with numbers for values has its greatest value somewhere in a
\* finite set.
LEMMA GreatestValue ==
    ASSUME NEW S \in SUBSET Products, S # {}, NEW f \in [Products -> Int]
    PROVE  \E p \in S : \A q \in S : f[q] <= f[p]
  <1>1. IsFiniteSet(S)
    BY Constants, FS_Subset
  <1>2. IsFiniteSet({f[p] : p \in S})
    <2> DEFINE values == {f[p] : p \in S}
               g == [p \in S |-> f[p]]
    <2>1. g \in Surjection(S, values)
      BY DEF Surjection
    <2> QED  BY <1>1, <2>1, FS_Surjection
  <1>3. {f[p] : p \in S} \subseteq Int /\ {f[p] : p \in S} # {}
    OBVIOUS
  <1>4. PICK n \in {f[p] : p \in S} : \A m \in {f[p] : p \in S} : m <= n
    BY <1>2, <1>3, GreatestOfSet
  <1>5. PICK p \in S : n = f[p]
    BY <1>4
  <1> QED  BY <1>4, <1>5

\* The newest product of a set, and the latest date.
LEMMA NewestOfSet ==
    ASSUME NEW S \in SUBSET Products, S # {}
    PROVE  Newest(S) \in S /\ \A q \in S : TakenAt[q] <= TakenAt[Newest(S)]
  <1>1. TakenAt \in [Products -> Int]
    BY Constants
  <1>2. \E p \in S : \A q \in S : TakenAt[q] <= TakenAt[p]
    BY <1>1, GreatestValue
  <1> QED  BY <1>2 DEF Newest

LEMMA LatestOfSet ==
    ASSUME NEW S \in SUBSET Products, S # {}
    PROVE  /\ LatestDate(S) \in {DateOf[p] : p \in S}
           /\ LatestExactDate(S) \in SUBSET S /\ LatestExactDate(S) # {}
           /\ \A p \in LatestExactDate(S) : DateOf[p] = LatestDate(S)
  <1>1. DateOf \in [Products -> Int]
    BY Constants
  <1>2. PICK p \in S : \A q \in S : DateOf[q] <= DateOf[p]
    BY <1>1, GreatestValue
  <1>3. LatestDate(S) \in {DateOf[q] : q \in S}
    BY <1>2 DEF LatestDate
  <1> QED  BY <1>3 DEF LatestExactDate

-----------------------------------------------------------------------------
(***************************************************************************)
(* The compositing lays the scenes over one another in time order; what    *)
(* comes of it is the newest usable scene at each pixel, or the oldest     *)
(* that covers it.                                                         *)
(***************************************************************************)
LEMMA MaskClasses ==
    ASSUME NEW p \in Products, NEW x \in Pixels
    PROVE  /\ MaskOf[p][x] \in Classes
           /\ Covers(p, x) <=> MaskOf[p][x] # "uncovered"
           /\ Usable(p, x) <=> MaskOf[p][x] \in ValidMaskClasses
           /\ Usable(p, x) => Covers(p, x)
  <1> DEFINE masked == [y \in Footprint[p] |-> build_threshold_mask(Bands[p][y])]
  <1>1. MaskOf[p][x] = IF x \in Footprint[p] THEN build_threshold_mask(Bands[p][x]) ELSE "uncovered"
    <2>1. MaskOf[p] = align_prepared_scene(write_prepared_scene_cogs(p))
      BY DEF MaskOf
    <2>2. write_prepared_scene_cogs(p).mask = masked
      BY DEF write_prepared_scene_cogs
    <2>3. DOMAIN masked = Footprint[p]
      OBVIOUS
    <2> QED  BY <2>1, <2>2, <2>3 DEF align_prepared_scene
  <1> DEFINE b == Bands[p][x]
             class == build_threshold_mask(b)
  <1>2. class = IF Gap(b) THEN "uncovered" ELSE IF Water(b) THEN "water"
                ELSE IF Shadow(b) THEN "shadow" ELSE IF Cloud(b) THEN "cloud" ELSE "clear"
    BY DEF build_threshold_mask
  <1> HIDE DEF class
  <1>3. class \in Classes /\ (class # "uncovered" <=> ~Gap(b))
    BY <1>2 DEF Classes
  <1>4. class \in ValidMaskClasses <=> ~Gap(b) /\ (Water(b) \/ (~Cloud(b) /\ ~Shadow(b)))
    <2>1. CASE Gap(b)
      BY <1>2, <2>1 DEF ValidMaskClasses
    <2>2. CASE ~Gap(b) /\ Water(b)
      BY <1>2, <2>2 DEF ValidMaskClasses
    <2>3. CASE ~Gap(b) /\ ~Water(b)
      BY <1>2, <2>3 DEF ValidMaskClasses
    <2> QED  BY <2>1, <2>2, <2>3
  <1>5. MaskOf[p][x] = IF x \in Footprint[p] THEN class ELSE "uncovered"
    BY <1>1 DEF class
  <1>6. Covers(p, x) <=> x \in Footprint[p] /\ ~Gap(b)
    BY DEF Covers
  <1>7. Usable(p, x) <=> x \in Footprint[p] /\ ~Gap(b) /\ (Water(b) \/ (~Cloud(b) /\ ~Shadow(b)))
    BY DEF Usable
  <1>8. "uncovered" \in Classes /\ "uncovered" \notin ValidMaskClasses
    BY DEF Classes, ValidMaskClasses
  <1> HIDE DEF b
  <1>9. CASE x \in Footprint[p]
    BY <1>3, <1>4, <1>5, <1>6, <1>7, <1>8, <1>9
  <1>10. CASE x \notin Footprint[p]
    BY <1>5, <1>6, <1>7, <1>8, <1>10
  <1> QED  BY <1>9, <1>10

\* The reference picture.
Reference(S) == [x \in Pixels |-> [from |-> Shows(S, x), class |-> MaskShown(S, x)]]

\* What is shown is one of the candidates, of which there is one at most.
LEMMA OneCandidate ==
    ASSUME NEW S \in SUBSET Products, NEW x \in Pixels,
           NEW p \in Candidates(S, x)
    PROVE  Shows(S, x) = p
  <1>1. \A q \in Candidates(S, x) : q = p
    BY Constants DEF Candidates
  <1> QED  BY <1>1 DEF Shows

LEMMA CandidatesOfSet ==
    ASSUME NEW S \in SUBSET Products, NEW x \in Pixels
    PROVE  Candidates(S, x) # {} <=> \E p \in S : Covers(p, x)
  <1>1. CASE \E p \in S : Usable(p, x)
    <2> DEFINE U == {p \in S : Usable(p, x)}
    <2>1. U \in SUBSET Products /\ U # {}
      BY <1>1
    <2>2. PICK p \in U : \A q \in U : TakenAt[q] <= TakenAt[p]
      BY <2>1, NewestOfSet
    <2>3. p \in Candidates(S, x)
      BY <1>1, <2>2 DEF Candidates
    <2> QED  BY <2>2, <2>3, MaskClasses
  <1>2. CASE ~(\E p \in S : Usable(p, x)) /\ \E p \in S : Covers(p, x)
    <2> DEFINE C == {p \in S : Covers(p, x)}
               before == [p \in Products |-> 0 - TakenAt[p]]
    <2>1. C \in SUBSET Products /\ C # {}
      BY <1>2
    <2>2. before \in [Products -> Int]
      BY Constants
    <2>3. PICK p \in C : \A q \in C : before[q] <= before[p]
      BY <2>1, <2>2, GreatestValue
    <2>4. \A q \in C : TakenAt[p] <= TakenAt[q]
      <3> SUFFICES ASSUME NEW q \in C PROVE TakenAt[p] <= TakenAt[q]
        OBVIOUS
      <3>1. before[q] <= before[p]
        BY <2>3
      <3>2. TakenAt[p] \in Nat /\ TakenAt[q] \in Nat
        BY Constants
      <3>3. before[p] = 0 - TakenAt[p] /\ before[q] = 0 - TakenAt[q]
        OBVIOUS
      <3> QED  BY <3>1, <3>2, <3>3
    <2>5. p \in Candidates(S, x)
      BY <1>2, <2>3, <2>4 DEF Candidates
    <2> QED  BY <1>2, <2>5
  <1>3. CASE ~(\E p \in S : Covers(p, x))
    BY <1>3, MaskClasses DEF Candidates
  <1> QED  BY <1>1, <1>2, <1>3

LEMMA NothingShown ==
    ASSUME NEW S \in SUBSET Products, NEW x \in Pixels
    PROVE  /\ MaskShown(S, x) = "uncovered" <=> ~(\E p \in S : Covers(p, x))
           /\ Shows(S, x) = None <=> ~(\E p \in S : Covers(p, x))
           /\ Shows(S, x) \in S \cup {None}
  <1>1. CASE Candidates(S, x) = {}
    BY <1>1, CandidatesOfSet DEF Shows, MaskShown
  <1>2. CASE Candidates(S, x) # {}
    <2>1. PICK p \in Candidates(S, x) : TRUE
      BY <1>2
    <2>2. Shows(S, x) = p
      BY <2>1, OneCandidate
    <2>3. p \in S /\ Covers(p, x)
      BY <2>1, MaskClasses DEF Candidates
    <2>4. p # None
      BY <2>3, Constants
    <2>5. MaskShown(S, x) = MaskOf[p][x]
      BY <2>2, <2>4 DEF MaskShown
    <2> QED  BY <2>2, <2>3, <2>4, <2>5, MaskClasses
  <1> QED  BY <1>1, <1>2

\* The newest scene of a set is shown where it is usable, or where it alone covers.
LEMMA NewestScene ==
    ASSUME NEW S \in SUBSET Products, S # {}, NEW x \in Pixels
    PROVE  LET n == Newest(S)
               rest == S \ {n}
           IN  Shows(S, x) = IF Usable(n, x) \/ (Covers(n, x) /\ ~\E q \in rest : Covers(q, x))
                                THEN n ELSE Shows(rest, x)
  <1> DEFINE n == Newest(S)
             rest == S \ {n}
  <1>1. n \in S /\ (\A q \in S : TakenAt[q] <= TakenAt[n]) /\ n \in Products
    BY NewestOfSet
  <1>2. rest \in SUBSET Products /\ \A q \in S : q \in rest \/ q = n
    OBVIOUS
  <1> HIDE DEF n
  <1>T. \A q \in Products : TakenAt[q] \in Nat
    BY Constants
  <1>3. CASE Usable(n, x)
    <2>1. n \in Candidates(S, x)
      BY <1>1, <1>3 DEF Candidates
    <2> QED  BY <1>3, <2>1, OneCandidate DEF n
  <1>4. CASE ~Usable(n, x) /\ Covers(n, x) /\ ~\E q \in rest : Covers(q, x)
    <2>1. \A q \in S : Covers(q, x) => q = n
      BY <1>4
    <2>2. ~\E q \in S : Usable(q, x)
      BY <1>2, <1>4, <2>1, MaskClasses
    <2>3. n \in Candidates(S, x)
      BY <1>1, <1>4, <1>T, <2>1, <2>2 DEF Candidates
    <2> QED  BY <1>4, <2>3, OneCandidate DEF n
  <1>5. CASE ~Usable(n, x) /\ ~(Covers(n, x) /\ ~\E q \in rest : Covers(q, x))
    <2>1. CASE Candidates(rest, x) = {}
      <3>1. ~\E q \in rest : Covers(q, x)
        BY <1>2, <2>1, CandidatesOfSet
      <3>2. ~\E q \in S : Covers(q, x)
        BY <1>5, <3>1
      <3>3. Candidates(S, x) = {}
        BY <3>2, CandidatesOfSet
      <3>4. Shows(S, x) = Shows(rest, x)
        BY <2>1, <3>3 DEF Shows
      <3> QED  BY <1>5, <3>4 DEF n
    <2>2. CASE Candidates(rest, x) # {}
      <3>1. PICK p \in Candidates(rest, x) : TRUE
        BY <2>2
      <3>2. p \in rest /\ p \in Products
        BY <3>1 DEF Candidates
      <3>3. (\E q \in S : Usable(q, x)) <=> \E q \in rest : Usable(q, x)
        BY <1>2, <1>5
      <3>4. p \in Candidates(S, x)
        <4>1. CASE \E q \in rest : Usable(q, x)
          BY <1>2, <1>5, <3>1, <3>3, <4>1 DEF Candidates
        <4>2. CASE ~\E q \in rest : Usable(q, x)
          <5>1. Covers(p, x) /\ \A q \in rest : Covers(q, x) => TakenAt[p] <= TakenAt[q]
            BY <3>1, <4>2 DEF Candidates
          <5>2. TakenAt[p] <= TakenAt[n]
            BY <1>1, <3>2
          <5> QED  BY <1>2, <3>2, <3>3, <4>2, <5>1, <5>2 DEF Candidates
        <4> QED  BY <4>1, <4>2
      <3>5. Shows(rest, x) = p
        BY <1>2, <3>1, OneCandidate
      <3>6. Shows(S, x) = p
        BY <3>4, OneCandidate
      <3> QED  BY <1>5, <3>5, <3>6 DEF n
    <2> QED  BY <2>1, <2>2
  <1> QED  BY <1>3, <1>4, <1>5

LEMMA ReferenceStep ==
    ASSUME NEW S \in SUBSET Products, S # {}
    PROVE  Reference(S) = Overlay(Reference(S \ {Newest(S)}), Newest(S))
  <1> DEFINE n == Newest(S)
             rest == S \ {n}
  <1>1. n \in S /\ n \in Products
    BY NewestOfSet
  <1>2. rest \in SUBSET Products
    OBVIOUS
  <1> HIDE DEF n
  <1>3. ASSUME NEW x \in Pixels
        PROVE  Reference(S)[x] = Overlay(Reference(rest), n)[x]
    <2>1. Overlay(Reference(rest), n)[x] =
            IF Takes(Reference(rest), n, x) THEN [from |-> n, class |-> MaskOf[n][x]]
                                            ELSE Reference(rest)[x]
      BY DEF Overlay
    <2>2. Reference(rest)[x] = [from |-> Shows(rest, x), class |-> MaskShown(rest, x)]
      BY DEF Reference
    <2>3. Takes(Reference(rest), n, x) <=>
            Usable(n, x) \/ (Covers(n, x) /\ ~\E q \in rest : Covers(q, x))
      BY <1>1, <1>2, <2>2, NothingShown, MaskClasses DEF Takes
    <2>4. Shows(S, x) = IF Takes(Reference(rest), n, x) THEN n ELSE Shows(rest, x)
      BY <2>3, NewestScene DEF n
    <2>5. n # None
      BY <1>1, Constants
    <2>6. MaskShown(S, x) = IF Takes(Reference(rest), n, x) THEN MaskOf[n][x] ELSE MaskShown(rest, x)
      BY <2>4, <2>5 DEF MaskShown
    <2> QED  BY <2>1, <2>2, <2>4, <2>6 DEF Reference
  <1>4. Reference(S) = [x \in Pixels |-> Reference(S)[x]]
    BY DEF Reference
  <1>5. Overlay(Reference(rest), n) = [x \in Pixels |-> Overlay(Reference(rest), n)[x]]
    BY DEF Overlay
  <1> QED  BY <1>3, <1>4, <1>5 DEF n

LEMMA ReferenceBlank == Reference({}) = Blank
  <1>1. \A x \in Pixels : Shows({}, x) = None /\ MaskShown({}, x) = "uncovered"
    BY DEF Shows, MaskShown, Candidates
  <1> QED  BY <1>1 DEF Reference, Blank

\* The reference satisfies the recursion, so there is a function that does.
LEMMA BestAvailableUnfolds ==
    ASSUME NEW S \in SUBSET Products
    PROVE  BestAvailable[S] =
              IF S = {} THEN Blank ELSE Overlay(BestAvailable[S \ {Newest(S)}], Newest(S))
  <1> DEFINE W == [T \in SUBSET Products |-> Reference(T)]
  <1>1. W = [T \in SUBSET Products |->
                IF T = {} THEN Blank ELSE Overlay(W[T \ {Newest(T)}], Newest(T))]
    <2>1. \A T \in SUBSET Products : T \ {Newest(T)} \in SUBSET Products
      OBVIOUS
    <2>2. \A T \in SUBSET Products :
             Reference(T) = IF T = {} THEN Blank
                            ELSE Overlay(W[T \ {Newest(T)}], Newest(T))
      BY <2>1, ReferenceStep, ReferenceBlank
    <2> QED  BY <2>2
  <1> HIDE DEF W
  <1>2. BestAvailable = [T \in SUBSET Products |->
                IF T = {} THEN Blank ELSE Overlay(BestAvailable[T \ {Newest(T)}], Newest(T))]
    BY <1>1 DEF BestAvailable
  <1> QED  BY <1>2

\* There is only one such function: of the sets where two differed, take one with
\* the fewest products.
LEMMA BestAvailableIsReference ==
    ASSUME NEW S \in SUBSET Products
    PROVE  BestAvailable[S] = Reference(S)
  <1> DEFINE bad == {T \in SUBSET Products : BestAvailable[T] # Reference(T)}
             sizes == {Cardinality(T) : T \in bad}
  <1>1. SUFFICES ASSUME bad # {} PROVE FALSE
    OBVIOUS
  <1>2. \A T \in SUBSET Products : IsFiniteSet(T) /\ Cardinality(T) \in Nat
    BY Constants, FS_Subset, FS_CardinalityType
  <1>3. sizes \subseteq Nat /\ sizes # {}
    BY <1>1, <1>2
  <1>4. PICK k \in sizes : \A l \in sizes : k <= l
    BY <1>3, SmallestOfSet
  <1>5. PICK T \in bad : k = Cardinality(T)
    BY <1>4
  <1>6. T # {}
    BY <1>5, BestAvailableUnfolds, ReferenceBlank
  <1>7. Newest(T) \in T
    BY <1>6, NewestOfSet
  <1>8. T \ {Newest(T)} \in SUBSET Products /\ Cardinality(T \ {Newest(T)}) = Cardinality(T) - 1
    BY <1>2, <1>7, FS_RemoveElement
  <1>9. T \ {Newest(T)} \notin bad
    <2> SUFFICES ASSUME T \ {Newest(T)} \in bad PROVE FALSE
      OBVIOUS
    <2>1. Cardinality(T \ {Newest(T)}) \in sizes
      OBVIOUS
    <2>2. k <= Cardinality(T \ {Newest(T)}) /\ Cardinality(T) \in Nat
      BY <1>2, <1>4, <1>5, <2>1
    <2> QED  BY <1>5, <1>8, <2>2
  <1>10. BestAvailable[T \ {Newest(T)}] = Reference(T \ {Newest(T)})
    BY <1>8, <1>9
  <1>11. BestAvailable[T] = Reference(T)
    BY <1>6, <1>10, BestAvailableUnfolds, ReferenceStep
  <1> QED  BY <1>5, <1>11

-----------------------------------------------------------------------------
(***************************************************************************)
(* Pictures, and the lists of writes.                                      *)
(***************************************************************************)
LEMMA ReferenceType ==
    ASSUME NEW S \in SUBSET Products
    PROVE  Reference(S) \in Images
  <1>1. ASSUME NEW x \in Pixels
        PROVE  Shows(S, x) \in Products \cup {None} /\ MaskShown(S, x) \in Classes
    <2>1. Shows(S, x) \in S \cup {None}
      BY NothingShown
    <2>2. CASE Shows(S, x) = None
      BY <2>2 DEF MaskShown, Classes
    <2>3. CASE Shows(S, x) # None
      BY <2>1, <2>3, MaskClasses DEF MaskShown
    <2> QED  BY <2>1, <2>2, <2>3
  <1> QED  BY <1>1 DEF Reference, Images

LEMMA IndexOfType ==
    ASSUME NEW image \in Images
    PROVE  /\ IndexOf(image) \in Pictures
           /\ [x \in Pixels |-> image[x].from] \in Pictures
           /\ [x \in Pixels |-> image[x].class] \in [Pixels -> Classes]
  <1>1. \A x \in Pixels : image[x].from \in Products \cup {None} /\ image[x].class \in Classes
    BY DEF Images
  <1> QED  BY <1>1 DEF IndexOf, Pictures

LEMMA CompositeList ==
    /\ CompositeWrites \in Seq(CompositeDue)
    /\ \A w \in CompositeDue : \E n \in DOMAIN CompositeWrites : CompositeWrites[n] = w
  <1>1. \A w \in CompositeDue :
            w \in { <<"object", "analytic">>, <<"object", "mask">>, <<"object", "manifest">>,
                    <<"scene", None>>, <<"asset", "analytic">>, <<"asset", "mask">> }
    BY DEF CompositeDue, CompositeAssets
  <1>2. /\ <<"object", "analytic">> \in CompositeDue /\ <<"object", "mask">> \in CompositeDue
        /\ <<"object", "manifest">> \in CompositeDue /\ <<"scene", None>> \in CompositeDue
        /\ <<"asset", "analytic">> \in CompositeDue /\ <<"asset", "mask">> \in CompositeDue
    BY DEF CompositeDue, CompositeAssets
  <1>3. DOMAIN CompositeWrites = 1..6
    BY DEF CompositeWrites
  <1>4. CompositeWrites \in Seq(CompositeDue)
    BY <1>2 DEF CompositeWrites
  <1>5. /\ CompositeWrites[1] = <<"object", "analytic">> /\ CompositeWrites[2] = <<"object", "mask">>
        /\ CompositeWrites[3] = <<"object", "manifest">> /\ CompositeWrites[4] = <<"scene", None>>
        /\ CompositeWrites[5] = <<"asset", "analytic">> /\ CompositeWrites[6] = <<"asset", "mask">>
    BY DEF CompositeWrites
  <1>6. 1 \in 1..6 /\ 2 \in 1..6 /\ 3 \in 1..6 /\ 4 \in 1..6 /\ 5 \in 1..6 /\ 6 \in 1..6
    OBVIOUS
  <1> HIDE DEF CompositeWrites
  <1> QED  BY <1>1, <1>3, <1>4, <1>5, <1>6

LEMMA ByThrees ==
    ASSUME NEW k \in Nat
    PROVE  /\ (3 * k) % 3 = 0 /\ (3 * k) \div 3 = k
           /\ (3 * k + 1) % 3 = 1 /\ (3 * k + 1) \div 3 = k
           /\ (3 * k + 2) % 3 = 2 /\ (3 * k + 2) \div 3 = k
  OBVIOUS

LEMMA InThrees ==
    ASSUME NEW n \in Nat
    PROVE  \E k \in Nat : n = 3 * k \/ n = 3 * k + 1 \/ n = 3 * k + 2
  <1> DEFINE k == n \div 3
  <1>1. k \in Nat
    OBVIOUS
  <1>2. 3 * k <= n /\ n <= 3 * k + 2
    OBVIOUS
  <1> HIDE DEF k
  <1>3. n = 3 * k \/ n = 3 * k + 1 \/ n = 3 * k + 2
    BY <1>1, <1>2
  <1> QED  BY <1>1, <1>3

\* The writes of the k-th index are at 3k - 2, 3k - 1 and 3k.
LEMMA IndexWritesAt ==
    /\ DOMAIN IndexWrites = 1..(3 * Len(Indices)) /\ Len(Indices) \in Nat
    /\ \A k \in 1..Len(Indices) :
          /\ 3 * k - 2 \in DOMAIN IndexWrites /\ IndexWrites[3 * k - 2] = <<"cog", Indices[k]>>
          /\ 3 * k - 1 \in DOMAIN IndexWrites /\ IndexWrites[3 * k - 1] = <<"raster", Indices[k]>>
          /\ 3 * k \in DOMAIN IndexWrites /\ IndexWrites[3 * k] = <<"layer", Indices[k]>>
    /\ \A n \in DOMAIN IndexWrites : \E k \in 1..Len(Indices) :
          n = 3 * k - 2 \/ n = 3 * k - 1 \/ n = 3 * k
  <1>1. Len(Indices) \in Nat
    BY Constants
  <1>2. DOMAIN IndexWrites = 1..(3 * Len(Indices))
    BY DEF IndexWrites
  <1>3. ASSUME NEW n \in 1..(3 * Len(Indices))
        PROVE  IndexWrites[n] = << <<"cog", "raster", "layer">>[1 + ((n - 1) % 3)],
                                   Indices[1 + ((n - 1) \div 3)] >>
    BY DEF IndexWrites
  <1>4. ASSUME NEW k \in 1..Len(Indices)
        PROVE  /\ 3 * k - 2 \in DOMAIN IndexWrites /\ IndexWrites[3 * k - 2] = <<"cog", Indices[k]>>
               /\ 3 * k - 1 \in DOMAIN IndexWrites /\ IndexWrites[3 * k - 1] = <<"raster", Indices[k]>>
               /\ 3 * k \in DOMAIN IndexWrites /\ IndexWrites[3 * k] = <<"layer", Indices[k]>>
    <2>1. 3 * k - 2 \in 1..(3 * Len(Indices)) /\ 3 * k - 1 \in 1..(3 * Len(Indices))
            /\ 3 * k \in 1..(3 * Len(Indices))
      BY <1>1
    <2>2. k - 1 \in Nat
      BY <1>1
    <2>3. /\ (3 * k - 2) - 1 = 3 * (k - 1) /\ (3 * k - 1) - 1 = 3 * (k - 1) + 1
          /\ 3 * k - 1 = 3 * (k - 1) + 2
      BY <1>1
    <2>4. /\ ((3 * k - 2) - 1) % 3 = 0 /\ ((3 * k - 2) - 1) \div 3 = k - 1
          /\ ((3 * k - 1) - 1) % 3 = 1 /\ ((3 * k - 1) - 1) \div 3 = k - 1
          /\ (3 * k - 1) % 3 = 2 /\ (3 * k - 1) \div 3 = k - 1
      BY <2>2, <2>3, ByThrees
    <2>5. 1 + (k - 1) = k
      BY <1>1
    <2>6. /\ <<"cog", "raster", "layer">>[1 + 0] = "cog"
          /\ <<"cog", "raster", "layer">>[1 + 1] = "raster"
          /\ <<"cog", "raster", "layer">>[1 + 2] = "layer"
      OBVIOUS
    <2>7. IndexWrites[3 * k - 2] = <<"cog", Indices[k]>>
      BY <1>3, <2>1, <2>4, <2>5, <2>6
    <2>8. IndexWrites[3 * k - 1] = <<"raster", Indices[k]>>
      BY <1>3, <2>1, <2>4, <2>5, <2>6
    <2>9. IndexWrites[3 * k] = <<"layer", Indices[k]>>
      BY <1>3, <2>1, <2>4, <2>5, <2>6
    <2> QED  BY <1>2, <2>1, <2>7, <2>8, <2>9
  <1>5. ASSUME NEW n \in DOMAIN IndexWrites
        PROVE  \E k \in 1..Len(Indices) : n = 3 * k - 2 \/ n = 3 * k - 1 \/ n = 3 * k
    <2>1. n \in 1..(3 * Len(Indices)) /\ n - 1 \in Nat
      BY <1>1, <1>2
    <2>2. PICK l \in Nat : n - 1 = 3 * l \/ n - 1 = 3 * l + 1 \/ n - 1 = 3 * l + 2
      BY <2>1, InThrees
    <2>3. l + 1 \in 1..Len(Indices)
      BY <1>1, <2>1, <2>2
    <2>4. n = 3 * (l + 1) - 2 \/ n = 3 * (l + 1) - 1 \/ n = 3 * (l + 1)
      BY <2>1, <2>2
    <2> QED  BY <2>3, <2>4
  <1> QED  BY <1>1, <1>2, <1>4, <1>5

LEMMA Pair ==
    ASSUME NEW S, NEW a \in S, NEW b \in S
    PROVE  /\ <<a, b>> \in Seq(S) /\ Len(<<a, b>>) = 2
           /\ <<a, b>>[1] = a /\ <<a, b>>[2] = b
  OBVIOUS

LEMMA Joined ==
    ASSUME NEW S, NEW s \in Seq(S), NEW t \in Seq(S)
    PROVE  /\ s \o t \in Seq(S) /\ Len(s \o t) = Len(s) + Len(t)
           /\ \A n \in 1..Len(s) : (s \o t)[n] = s[n]
           /\ \A n \in 1..Len(t) : (s \o t)[Len(s) + n] = t[n]
  OBVIOUS

LEMMA IndexList ==
    /\ AllIndexWrites \in Seq(IndexDue)
    /\ \A w \in IndexDue : \E n \in DOMAIN AllIndexWrites : AllIndexWrites[n] = w
    /\ \A n \in DOMAIN AllIndexWrites, i \in IndexNames :
          /\ AllIndexWrites[n] = <<"raster", i>> =>
                \E m \in 1..(n - 1) : AllIndexWrites[m] = <<"cog", i>>
          /\ AllIndexWrites[n] = <<"layer", i>> =>
                \E m \in 1..(n - 1) : AllIndexWrites[m] = <<"raster", i>>
  <1> DEFINE L == Len(Indices)
             last == << <<"item", None>>, <<"scene item", None>> >>
  <1>1. L \in Nat /\ DOMAIN IndexWrites = 1..(3 * L)
    BY IndexWritesAt
  <1>2. \A k \in 1..L : Indices[k] \in IndexNames
    BY Constants
  <1>3. \A i \in IndexNames : \E k \in 1..L : Indices[k] = i
    BY Constants DEF IndexNames, ToSet
  <1>4. ASSUME NEW n \in DOMAIN IndexWrites
        PROVE  IndexWrites[n] \in IndexDue
    <2>1. PICK k \in 1..L : n = 3 * k - 2 \/ n = 3 * k - 1 \/ n = 3 * k
      BY IndexWritesAt
    <2>2. IndexWrites[n] \in {<<"cog", Indices[k]>>, <<"raster", Indices[k]>>, <<"layer", Indices[k]>>}
      BY <2>1, IndexWritesAt
    <2>3. Indices[k] \in IndexNames
      BY <1>2
    <2>4. \A i \in IndexNames : {<<"cog", i>>, <<"raster", i>>, <<"layer", i>>} \subseteq IndexDue
      BY DEF IndexDue
    <2> QED  BY <2>2, <2>3, <2>4
  <1>5. IndexWrites \in Seq(IndexDue) /\ Len(IndexWrites) = 3 * L
    <2>1. IndexWrites = [n \in 1..(3 * L) |-> IndexWrites[n]]
      BY DEF IndexWrites
    <2> QED  BY <1>1, <1>4, <2>1
  <1>6. /\ last \in Seq(IndexDue) /\ Len(last) = 2
        /\ last[1] = <<"item", None>> /\ last[2] = <<"scene item", None>>
    <2>1. <<"item", None>> \in IndexDue /\ <<"scene item", None>> \in IndexDue
      BY DEF IndexDue
    <2> QED  BY <2>1, Pair
  <1>7. AllIndexWrites = IndexWrites \o last
    BY DEF AllIndexWrites
  <1> HIDE DEF L, last
  <1>J. /\ IndexWrites \o last \in Seq(IndexDue)
        /\ Len(IndexWrites \o last) = Len(IndexWrites) + Len(last)
        /\ \A n \in 1..Len(IndexWrites) : (IndexWrites \o last)[n] = IndexWrites[n]
        /\ \A n \in 1..Len(last) : (IndexWrites \o last)[Len(IndexWrites) + n] = last[n]
    <2>1. IndexWrites \in Seq(IndexDue) /\ last \in Seq(IndexDue)
      BY <1>5, <1>6
    <2> QED  BY <2>1, Joined, SMT
  <1>8. AllIndexWrites \in Seq(IndexDue) /\ DOMAIN AllIndexWrites = 1..(3 * L + 2)
    <2>1. AllIndexWrites \in Seq(IndexDue)
      BY <1>5, <1>6, <1>7, <1>J
    <2>2. Len(AllIndexWrites) = 3 * L + 2
      BY <1>5, <1>6, <1>7, <1>J
    <2> QED  BY <2>1, <2>2
  <1>9. \A n \in 1..(3 * L) : AllIndexWrites[n] = IndexWrites[n]
    BY <1>1, <1>5, <1>6, <1>7, <1>J
  <1>10. AllIndexWrites[3 * L + 1] = <<"item", None>> /\ AllIndexWrites[3 * L + 2] = <<"scene item", None>>
    <2>1. 1 \in 1..2 /\ 2 \in 1..2
      OBVIOUS
    <2> QED  BY <1>1, <1>5, <1>6, <1>7, <1>J, <2>1
  <1>11. ASSUME NEW k \in 1..L
         PROVE  /\ 3 * k - 2 \in DOMAIN AllIndexWrites /\ AllIndexWrites[3 * k - 2] = <<"cog", Indices[k]>>
                /\ 3 * k - 1 \in DOMAIN AllIndexWrites /\ AllIndexWrites[3 * k - 1] = <<"raster", Indices[k]>>
                /\ 3 * k \in DOMAIN AllIndexWrites /\ AllIndexWrites[3 * k] = <<"layer", Indices[k]>>
    <2>1. /\ 3 * k - 2 \in 1..(3 * L) /\ 3 * k - 1 \in 1..(3 * L) /\ 3 * k \in 1..(3 * L)
      BY <1>1
    <2>2. \A n \in 1..(3 * L) : n \in DOMAIN AllIndexWrites
      BY <1>1, <1>8
    <2> QED  BY <1>9, <2>1, <2>2, IndexWritesAt DEF L
  <1>12. ASSUME NEW w \in IndexDue
         PROVE  \E n \in DOMAIN AllIndexWrites : AllIndexWrites[n] = w
    <2>1. CASE w = <<"item", None>> \/ w = <<"scene item", None>>
      <3>1. 3 * L + 1 \in DOMAIN AllIndexWrites /\ 3 * L + 2 \in DOMAIN AllIndexWrites
        BY <1>1, <1>8
      <3> QED  BY <1>10, <2>1, <3>1
    <2>2. CASE w \in {"cog", "raster", "layer"} \X IndexNames
      <3>1. PICK kind \in {"cog", "raster", "layer"}, i \in IndexNames : w = <<kind, i>>
        BY <2>2
      <3>2. PICK k \in 1..L : Indices[k] = i
        BY <1>3
      <3> QED  BY <1>11, <3>1, <3>2
    <2> QED  BY <2>1, <2>2 DEF IndexDue
  <1>13. ASSUME NEW n \in DOMAIN AllIndexWrites
         PROVE  \/ \E k \in 1..L : n = 3 * k - 2 \/ n = 3 * k - 1 \/ n = 3 * k
                \/ n = 3 * L + 1 \/ n = 3 * L + 2
    <2>1. n \in 1..(3 * L) \/ n = 3 * L + 1 \/ n = 3 * L + 2
      BY <1>1, <1>8
    <2> QED  BY <1>1, <2>1, IndexWritesAt DEF L
  <1>14. ASSUME NEW n \in DOMAIN AllIndexWrites, NEW i \in IndexNames,
                AllIndexWrites[n] = <<"raster", i>>
         PROVE  \E m \in 1..(n - 1) : AllIndexWrites[m] = <<"cog", i>>
    <2>1. PICK k \in 1..L : n = 3 * k - 1 /\ Indices[k] = i
      <3>1. ~(n = 3 * L + 1 \/ n = 3 * L + 2)
        <4>1. <<"item", None>> # <<"raster", i>> /\ <<"scene item", None>> # <<"raster", i>>
          OBVIOUS
        <4> QED  BY <1>10, <1>14, <4>1
      <3>2. PICK k \in 1..L : n = 3 * k - 2 \/ n = 3 * k - 1 \/ n = 3 * k
        BY <1>13, <3>1
      <3>3. AllIndexWrites[n] = <<"cog", Indices[k]>> \/ n = 3 * k - 1 \/ n = 3 * k
        BY <1>11, <3>2
      <3>4. n = 3 * k - 1
        BY <1>11, <3>2, <3>3, <1>14
      <3>5. Indices[k] = i
        BY <1>11, <3>4, <1>14
      <3> QED  BY <3>4, <3>5
    <2>2. 3 * k - 2 \in 1..(n - 1)
      BY <1>1, <2>1
    <2> QED  BY <1>11, <2>1, <2>2
  <1>15. ASSUME NEW n \in DOMAIN AllIndexWrites, NEW i \in IndexNames,
                AllIndexWrites[n] = <<"layer", i>>
         PROVE  \E m \in 1..(n - 1) : AllIndexWrites[m] = <<"raster", i>>
    <2>1. PICK k \in 1..L : n = 3 * k /\ Indices[k] = i
      <3>1. ~(n = 3 * L + 1 \/ n = 3 * L + 2)
        <4>1. <<"item", None>> # <<"layer", i>> /\ <<"scene item", None>> # <<"layer", i>>
          OBVIOUS
        <4> QED  BY <1>10, <1>15, <4>1
      <3>2. PICK k \in 1..L : n = 3 * k - 2 \/ n = 3 * k - 1 \/ n = 3 * k
        BY <1>13, <3>1
      <3>3. AllIndexWrites[n] = <<"cog", Indices[k]>> \/ n = 3 * k - 1 \/ n = 3 * k
        BY <1>11, <3>2
      <3>4. n = 3 * k
        BY <1>11, <3>2, <3>3, <1>15
      <3>5. Indices[k] = i
        BY <1>11, <3>4, <1>15
      <3> QED  BY <3>4, <3>5
    <2>2. 3 * k - 1 \in 1..(n - 1)
      BY <1>1, <2>1
    <2> QED  BY <1>11, <2>1, <2>2
  <1> QED  BY <1>8, <1>12, <1>14, <1>15

-----------------------------------------------------------------------------
(***************************************************************************)
(* The invariant holds at first, and what keeps its parts.                 *)
(***************************************************************************)
CatalogInv == TablesOK /\ RowsOK
WorkInv == JobsOK /\ Preparing /\ Building /\ Composing /\ Indexing

LEMMA Parts == IInv <=> CountsOK /\ CatalogInv /\ WorkInv /\ RequestOK
  BY DEF IInv, CatalogInv, WorkInv

LEMMA InitInv == Init => IInv
  <1> SUFFICES ASSUME Init PROVE IInv
    OBVIOUS
  <1>1. CountsOK
    BY Constants DEF Init, CountsOK
  <1>2. TablesOK
    BY DEF Init, TablesOK, IndexNames, Contents
  <1>3. RowsOK
    BY DEF Init, RowsOK, HasRow, IndexNames
  <1>4. JobsOK
    <2>1. <<>> \in Seq(CompositeDue \cup IndexDue) /\ jobs \in Seq(JobRows) /\ DOMAIN jobs = {}
      BY DEF Init
    <2>2. Idle \in Workers
      BY <2>1 DEF Idle, Workers, Composites
    <2> QED  BY <2>1, <2>2 DEF Init, JobsOK, RunningJobs, Active, Idle
  <1>5. Preparing /\ Building /\ Composing /\ Indexing
    BY DEF Init, Idle, Preparing, Building, Composing, Indexing
  <1>6. RequestOK
    <2>1. NoRequest \in Requests /\ NoRequest.step = "idle"
      BY DEF NoRequest, Requests
    <2> QED  BY <2>1 DEF Init, RequestOK, RequestTypes
  <1> QED  BY <1>1, <1>2, <1>3, <1>4, <1>5, <1>6 DEF IInv

\* An idle worker has nothing in hand.
LEMMA NothingInHand ==
    ASSUME JobsOK', worker' = Idle
    PROVE  WorkInv'
  BY DEF WorkInv, Idle, Preparing, Building, Composing, Indexing

\* Rows are never taken away, and keep the time they were created.
RowsStay ==
    \A d \in Dates, i \in IndexNames :
        HasRow(d, i) => HasRow(d, i)' /\ raster'[d][i].created = raster[d][i].created

LEMMA ReaderKept ==
    ASSUME RequestOK, UNCHANGED reading, RowsStay, SuccessfulJobs \subseteq SuccessfulJobs'
    PROVE  RequestOK'
  <1> USE DEF reading
  <1>1. RequestTypes'
    BY DEF RequestOK, RequestTypes
  <1>2. SUFFICES ASSUME request'.step # "idle"
                 PROVE  (ReadingsTrue /\ WholeKept /\ FreshKept /\ RowsKept /\ JobKept)'
    BY <1>1 DEF RequestOK
  <1>3. ReadingsTrue /\ WholeKept /\ FreshKept /\ RowsKept /\ JobKept
    BY <1>2 DEF RequestOK
  <1>4. /\ request.dates \subseteq Dates /\ Required \subseteq IndexNames
        /\ begun \in Beginnings
        /\ \A n \in DOMAIN request.found : request.found[n] \subseteq Dates \X (0..LastTick)
    BY <1>2, Constants DEF RequestOK, RequestTypes, Requests
  <1>5. ASSUME NEW n \in DOMAIN request.found, NEW i \in Required, FoundFor(n, i)
        PROVE  FoundFor(n, i)'
    <2> SUFFICES ASSUME NEW r \in request.found[n]
                 PROVE  r[1] \in request.dates /\ HasRow(r[1], i)' /\ raster'[r[1]][i].created = r[2]
      BY DEF FoundFor
    <2>1. r[1] \in request.dates /\ HasRow(r[1], i) /\ raster[r[1]][i].created = r[2]
      BY <1>5 DEF FoundFor
    <2>2. r[1] \in Dates /\ i \in IndexNames
      BY <1>4, <2>1
    <2> QED  BY <2>1, <2>2 DEF RowsStay
  <1>6. ReadingsTrue'
    BY <1>3, <1>5 DEF ReadingsTrue, Reading
  <1>7. WholeKept'
    <2> SUFFICES ASSUME NEW d \in begun.whole
                 PROVE  /\ d \in request.dates /\ \A i \in Required : HasRow(d, i)'
                        /\ \A n \in DOMAIN request.found : \E r \in request.found[n] : r[1] = d
      BY DEF WholeKept
    <2>1. /\ d \in request.dates /\ \A i \in Required : HasRow(d, i)
          /\ \A n \in DOMAIN request.found : \E r \in request.found[n] : r[1] = d
      BY <1>3 DEF WholeKept
    <2> QED  BY <1>4, <2>1 DEF RowsStay
  <1>8. FreshKept'
    <2> SUFFICES ASSUME begun.fresh # None
                 PROVE  FreshKept'
      BY DEF FreshKept
    <2>1. CASE \E j \in SuccessfulJobs : j.completedAt = begun.fresh
      BY <2>1 DEF FreshKept
    <2>2. CASE ~\E j \in SuccessfulJobs : j.completedAt = begun.fresh
      <3>1. PICK d \in request.dates, i \in Required :
               /\ HasRow(d, i) /\ raster[d][i].created = begun.fresh
               /\ \/ Reading(i)
                  \/ \E n \in DOMAIN request.found : <<d, begun.fresh>> \in request.found[n]
        BY <1>3, <2>2 DEF FreshKept
      <3>2. HasRow(d, i)' /\ raster'[d][i].created = begun.fresh
        BY <1>4, <3>1 DEF RowsStay
      <3> QED  BY <3>1, <3>2 DEF FreshKept, Reading
    <2> QED  BY <2>1, <2>2
  <1>9. RowsKept'
    <2> SUFFICES ASSUME begun.rows
                 PROVE  RowsKept'
      BY DEF RowsKept
    <2>1. PICK d \in request.dates, i \in IndexNames : HasRow(d, i)
      BY <1>3 DEF RowsKept
    <2>2. HasRow(d, i)'
      BY <1>4, <2>1 DEF RowsStay
    <2>3. request.step = "jobs" => request.left # {}
      BY <1>3 DEF RowsKept
    <2> QED  BY <2>2, <2>3 DEF RowsKept
  <1>10. JobKept'
    BY <1>3 DEF JobKept
  <1> QED  BY <1>6, <1>7, <1>8, <1>9, <1>10

LEMMA CatalogUnchanged ==
    ASSUME CatalogInv, UNCHANGED catalog
    PROVE  CatalogInv' /\ RowsStay
  BY DEF CatalogInv, catalog, TablesOK, RowsOK, RowsStay, HasRow

\* The worker's job ends, or goes back to the queue.
LEMMA SettleStep ==
    ASSUME JobsOK, Active, NEW row \in JobRows, row.status # "running",
           jobs' = [jobs EXCEPT ![worker.job] = row], worker' = Idle
    PROVE  WorkInv' /\ SuccessfulJobs \subseteq SuccessfulJobs'
  <1>1. worker.job \in DOMAIN jobs /\ jobs \in Seq(JobRows) /\ RunningJobs = {worker.job}
    BY DEF JobsOK, Active, Idle
  <1>2. /\ jobs' \in Seq(JobRows) /\ DOMAIN jobs' = DOMAIN jobs
        /\ jobs'[worker.job] = row
        /\ \A k \in DOMAIN jobs : k # worker.job => jobs'[k] = jobs[k]
    BY <1>1
  <1>3. RunningJobs' = {}
    BY <1>1, <1>2 DEF RunningJobs
  <1>4. Idle \in Workers
    BY DEF Idle, Workers, Composites
  <1>5. JobsOK'
    BY <1>2, <1>3, <1>4 DEF JobsOK, Active, Idle
  <1>6. \A k \in DOMAIN jobs : jobs[k].status = "completed" => k # worker.job
    BY <1>1 DEF RunningJobs
  <1>7. SuccessfulJobs \subseteq SuccessfulJobs'
    BY <1>2, <1>6 DEF SuccessfulJobs, is_output_producing
  <1> QED  BY <1>5, <1>7, NothingInHand

LEMMA CompleteStep ==
    ASSUME JobsOK, CountsOK, Active, NEW produced \in BOOLEAN, CompleteJob(produced)
    PROVE  WorkInv' /\ SuccessfulJobs \subseteq SuccessfulJobs'
  <1> DEFINE j == worker.job
  <1>1. j \in DOMAIN jobs /\ jobs \in Seq(JobRows)
    BY DEF JobsOK, Active, Idle
  <1>2. PICK at : at = IF produced THEN now ELSE 0
    OBVIOUS
  <1>3. at \in 0..LastTick
    BY <1>2, Constants DEF CountsOK
  <1>4. PICK row : row = [window |-> jobs[j].window, mode |-> jobs[j].mode, status |-> "completed",
                          produced |-> produced, completedAt |-> at]
    OBVIOUS
  <1>5. jobs[j] \in JobRows
    BY <1>1
  <1>6. row \in JobRows /\ row.status # "running"
    BY <1>3, <1>4, <1>5 DEF JobRows
  <1>7. [[[jobs[j] EXCEPT !.status = "completed"] EXCEPT !.produced = produced]
            EXCEPT !.completedAt = at] = row
    <2>1. PICK r1 : r1 = [jobs[j] EXCEPT !.status = "completed"]
      OBVIOUS
    <2>2. r1 = [window |-> jobs[j].window, mode |-> jobs[j].mode, status |-> "completed",
                produced |-> jobs[j].produced, completedAt |-> jobs[j].completedAt]
      BY <1>5, <2>1 DEF JobRows
    <2>3. PICK r2 : r2 = [r1 EXCEPT !.produced = produced]
      OBVIOUS
    <2>4. r2 = [window |-> jobs[j].window, mode |-> jobs[j].mode, status |-> "completed",
                produced |-> produced, completedAt |-> jobs[j].completedAt]
      BY <2>2, <2>3
    <2>5. [r2 EXCEPT !.completedAt = at] = row
      BY <1>4, <2>4
    <2> QED  BY <2>1, <2>3, <2>5
  <1>8. jobs' = [jobs EXCEPT ![j].status = "completed", ![j].produced = produced, ![j].completedAt = at]
    BY <1>2 DEF CompleteJob
  <1>9. jobs' = [jobs EXCEPT ![j] = row]
    BY <1>1, <1>7, <1>8
  <1> QED  BY <1>6, <1>9, SettleStep DEF CompleteJob

LEMMA RowWithStatus ==
    ASSUME JobsOK, Active, NEW status \in {"queued", "completed", "failed"},
           jobs' = [jobs EXCEPT ![worker.job].status = status], worker' = Idle
    PROVE  WorkInv' /\ SuccessfulJobs \subseteq SuccessfulJobs'
  <1> DEFINE j == worker.job
  <1>1. j \in DOMAIN jobs /\ jobs \in Seq(JobRows) /\ jobs[j] \in JobRows
    BY DEF JobsOK, Active, Idle
  <1>2. PICK row : row = [jobs[j] EXCEPT !.status = status]
    OBVIOUS
  <1>3. row = [window |-> jobs[j].window, mode |-> jobs[j].mode, status |-> status,
               produced |-> jobs[j].produced, completedAt |-> jobs[j].completedAt]
    BY <1>1, <1>2 DEF JobRows
  <1>4. row \in JobRows /\ row.status # "running"
    BY <1>1, <1>3 DEF JobRows
  <1>5. jobs' = [jobs EXCEPT ![j] = row]
    BY <1>2
  <1> QED  BY <1>4, <1>5, SettleStep

-----------------------------------------------------------------------------
(***************************************************************************)
(* Steps of the jobs: they write no table of the catalogue.                *)
(***************************************************************************)
LEMMA JobStepInv ==
    ASSUME IInv, CountsOK', UNCHANGED <<catalog, reading>>,
           WorkInv', SuccessfulJobs \subseteq SuccessfulJobs'
    PROVE  IInv'
  <1>1. CatalogInv' /\ RowsStay
    BY CatalogUnchanged, Parts
  <1>2. RequestOK'
    BY <1>1, ReaderKept, Parts
  <1> QED  BY <1>1, <1>2 DEF IInv, CatalogInv, WorkInv

LEMMA StartStep ==
    ASSUME IInv, NEW s \in Submissions, StartBackfill(s.window, s.mode)
    PROVE  IInv'
  <1> DEFINE row == JobRow(s.window, s.mode)
  <1>1. row \in JobRows /\ row.status = "queued"
    <2>1. s \in [window : SUBSET Dates, mode : Modes] /\ 0 \in 0..LastTick
      BY Constants
    <2> QED  BY <2>1 DEF JobRow, JobRows
  <1> HIDE DEF row
  <1>2. /\ jobs \in Seq(JobRows) /\ jobs' = Append(jobs, row)
        /\ UNCHANGED <<worker, catalog, reading, now, faults, runs>>
        /\ RunningJobs = {} /\ ~Active
    BY DEF StartBackfill, row, IInv, JobsOK
  <1>3. /\ jobs' \in Seq(JobRows) /\ DOMAIN jobs' = DOMAIN jobs \cup {Len(jobs) + 1}
        /\ jobs'[Len(jobs) + 1] = row /\ Len(jobs) + 1 \notin DOMAIN jobs
        /\ \A k \in DOMAIN jobs : jobs'[k] = jobs[k]
    BY <1>1, <1>2
  <1>4. RunningJobs' = {}
    BY <1>1, <1>2, <1>3 DEF RunningJobs
  <1>5. worker = Idle
    BY <1>2 DEF IInv, JobsOK, Active, Idle
  <1>6. JobsOK'
    BY <1>2, <1>3, <1>4, <1>5 DEF IInv, JobsOK, Active, Idle
  <1>7. SuccessfulJobs \subseteq SuccessfulJobs'
    BY <1>3 DEF SuccessfulJobs, is_output_producing
  <1>8. CountsOK'
    BY <1>2 DEF IInv, CountsOK
  <1> QED  BY <1>2, <1>5, <1>6, <1>7, <1>8, NothingInHand, JobStepInv

LEMMA ExecuteStep ==
    ASSUME IInv, NEW j \in DOMAIN jobs, ExecuteBackfill(j)
    PROVE  IInv'
  <1>1. jobs \in Seq(JobRows) /\ jobs[j] \in JobRows /\ jobs[j].status = "queued"
    BY DEF IInv, JobsOK, ExecuteBackfill
  <1>2. PICK row : row = [jobs[j] EXCEPT !.status = "running"]
    OBVIOUS
  <1>3. row = [window |-> jobs[j].window, mode |-> jobs[j].mode, status |-> "running",
               produced |-> jobs[j].produced, completedAt |-> jobs[j].completedAt]
    BY <1>1, <1>2 DEF JobRows
  <1>4. row \in JobRows /\ row.status = "running"
    BY <1>1, <1>3 DEF JobRows
  <1>5. jobs' = [jobs EXCEPT ![j] = row]
    BY <1>2 DEF ExecuteBackfill
  <1>6. /\ jobs' \in Seq(JobRows) /\ DOMAIN jobs' = DOMAIN jobs /\ jobs'[j] = row
        /\ \A k \in DOMAIN jobs : k # j => jobs'[k] = jobs[k]
    BY <1>1, <1>4, <1>5
  <1>7. RunningJobs = {}
    BY DEF IInv, JobsOK, ExecuteBackfill
  <1>8. RunningJobs' = {j}
    BY <1>4, <1>6, <1>7 DEF RunningJobs
  <1>9. worker' = [job |-> j, stage |-> "search", composite |-> None, left |-> <<>>]
    BY DEF ExecuteBackfill, Idle
  <1>10. j \in Nat /\ j # 0 /\ <<>> \in Seq(CompositeDue \cup IndexDue)
    BY <1>1
  <1>11. worker' \in Workers
    BY <1>9, <1>10 DEF Workers, Composites
  <1>12. JobsOK'
    BY <1>6, <1>8, <1>9, <1>10, <1>11 DEF JobsOK, Active
  <1>13. WorkInv'
    BY <1>9, <1>12 DEF WorkInv, Preparing, Building, Composing, Indexing
  <1>14. SuccessfulJobs \subseteq SuccessfulJobs'
    BY <1>1, <1>6 DEF SuccessfulJobs, is_output_producing
  <1>15. CountsOK' /\ UNCHANGED <<catalog, reading>>
    BY Constants DEF IInv, CountsOK, ExecuteBackfill
  <1> QED  BY <1>13, <1>14, <1>15, JobStepInv

\* A stage that is not idle has its job.
LEMMA AtWork ==
    ASSUME JobsOK, worker.stage # "idle"
    PROVE  /\ Active /\ worker.job \in DOMAIN jobs /\ worker \in Workers
           /\ worker = [job |-> worker.job, stage |-> worker.stage,
                        composite |-> worker.composite, left |-> worker.left]
  BY DEF JobsOK, Active, Workers

LEMMA SearchStep ==
    ASSUME IInv, NEW found \in Results, SearchAndDownload(found)
    PROVE  IInv'
  <1>1. JobsOK /\ CountsOK /\ worker.stage = "search"
    BY DEF IInv, SearchAndDownload
  <1>2. CountsOK' /\ UNCHANGED <<catalog, reading>>
    BY DEF IInv, CountsOK, SearchAndDownload
  <1>3. Active /\ worker.job \in DOMAIN jobs /\ worker \in Workers
    BY <1>1, AtWork
  <1>4. CASE CurrentMode \in {"metadata_only", "download_only"}
    <2>1. CompleteJob(FALSE)
      BY <1>4 DEF SearchAndDownload
    <2> QED  BY <1>1, <1>2, <1>3, <2>1, CompleteStep, JobStepInv
  <1>5. CASE CurrentMode \notin {"metadata_only", "download_only"}
    <2>1. UNCHANGED jobs /\ worker' = [worker EXCEPT !.stage = "prepare", !.composite = [of |-> Selected(found)]]
      BY <1>5 DEF SearchAndDownload
    <2>2. worker' = [job |-> worker.job, stage |-> "prepare", composite |-> [of |-> Selected(found)],
                     left |-> worker.left]
      BY <2>1, <1>3 DEF Workers
    <2>3. Selected(found) \in SUBSET Products /\ Selected(found) \subseteq found
      BY Constants DEF Selected
    <2>4. [of |-> Selected(found)] \in [of : SUBSET Products]
      BY <2>3
    <2>5. worker' \in Workers
      BY <1>3, <2>2, <2>4 DEF Workers, Composites
    <2>6. JobsOK'
      BY <1>1, <1>3, <2>1, <2>2, <2>5 DEF JobsOK, Active, RunningJobs
    <2>7. Preparing'
      BY <2>1, <2>2, <2>3, <2>4 DEF Preparing, SearchAndDownload
    <2>8. WorkInv'
      BY <2>2, <2>6, <2>7 DEF WorkInv, Building, Composing, Indexing
    <2>9. SuccessfulJobs \subseteq SuccessfulJobs'
      BY <2>1 DEF SuccessfulJobs
    <2> QED  BY <1>2, <2>8, <2>9, JobStepInv
  <1> QED  BY <1>4, <1>5

LEMMA BuildStep ==
    ASSUME IInv, BuildComposite
    PROVE  IInv'
  <1> DEFINE S == worker.composite.of
             fit == S # {} /\ Covered(BestAvailable[LatestExactDate(S)])
  <1>1. JobsOK /\ CountsOK /\ Preparing /\ worker.stage = "prepare"
    BY DEF IInv, BuildComposite
  <1>2. CountsOK' /\ UNCHANGED <<catalog, reading>>
    BY DEF IInv, CountsOK, BuildComposite
  <1>3. Active /\ worker.job \in DOMAIN jobs /\ worker \in Workers
    BY <1>1, AtWork
  <1>4. S \in SUBSET Products /\ \A p \in S : DateOf[p] \in jobs[worker.job].window
    BY <1>1 DEF Preparing
  <1>5. CASE CurrentMode = "prepare_only"
    <2>1. CompleteJob(FALSE)
      BY <1>5 DEF BuildComposite
    <2> QED  BY <1>1, <1>2, <1>3, <2>1, CompleteStep, JobStepInv
  <1>6. CASE CurrentMode # "prepare_only" /\ ~fit
    <2>1. jobs' = [jobs EXCEPT ![worker.job].status = "failed"] /\ worker' = Idle
      BY <1>6 DEF BuildComposite
    <2> QED  BY <1>1, <1>2, <1>3, <2>1, RowWithStatus, JobStepInv
  <1>7. CASE CurrentMode # "prepare_only" /\ fit
    <2>1. PICK T, d : T = LatestExactDate(S) /\ d = LatestDate(S)
      OBVIOUS
    <2>2. /\ T \in SUBSET Products /\ T # {} /\ d \in Dates
          /\ d \in jobs[worker.job].window /\ \A p \in T : DateOf[p] = d
      <3>1. S # {}
        BY <1>7
      <3>2. /\ d \in {DateOf[p] : p \in S} /\ T \in SUBSET S /\ T # {}
            /\ \A p \in T : DateOf[p] = d
        BY <1>4, <2>1, <3>1, LatestOfSet
      <3>3. PICK p \in S : d = DateOf[p]
        BY <3>2
      <3>4. d \in Dates /\ d \in jobs[worker.job].window
        <4>1. DateOf \in [Products -> Dates]
          BY Constants
        <4> QED  BY <1>4, <3>3, <4>1
      <3> QED  BY <1>4, <3>2, <3>4
    <2>3. PICK image : image = BestAvailable[T]
      OBVIOUS
    <2>4. image \in Images
      BY <2>2, <2>3, BestAvailableIsReference, ReferenceType
    <2>5. /\ UNCHANGED jobs
          /\ worker' = [worker EXCEPT !.stage = "composite",
                           !.composite = [of |-> T, date |-> d, picture |-> image],
                           !.left = CompositeWrites]
      BY <1>7, <2>1, <2>3 DEF BuildComposite
    <2>6. worker' = [job |-> worker.job, stage |-> "composite",
                     composite |-> [of |-> T, date |-> d, picture |-> image], left |-> CompositeWrites]
      BY <1>3, <2>5 DEF Workers
    <2>7. [of |-> T, date |-> d, picture |-> image] \in [of : SUBSET Products, date : Dates, picture : Images]
      BY <2>2, <2>4
    <2>8. CompositeWrites \in Seq(CompositeDue) /\ CompositeWrites \in Seq(CompositeDue \cup IndexDue)
      BY CompositeList
    <2>9. worker' \in Workers
      BY <1>3, <2>6, <2>7, <2>8 DEF Workers, Composites
    <2>10. JobsOK'
      BY <1>1, <1>3, <2>5, <2>6, <2>9 DEF JobsOK, Active, RunningJobs
    <2>11. Building'
      BY <2>2, <2>3, <2>5, <2>6, <2>7 DEF Building, date, picture
    <2>12. Composing'
      <3>1. \A w \in CompositeDue : Pending(w)'
        BY <2>6, CompositeList DEF Pending
      <3> QED  BY <2>6, <2>8, <3>1 DEF Composing
    <2>13. WorkInv'
      BY <2>6, <2>10, <2>11, <2>12 DEF WorkInv, Preparing, Indexing
    <2>14. SuccessfulJobs \subseteq SuccessfulJobs'
      BY <2>5 DEF SuccessfulJobs
    <2> QED  BY <1>2, <2>13, <2>14, JobStepInv
  <1> QED  BY <1>5, <1>6, <1>7

LEMMA GenerateStep ==
    ASSUME IInv, GenerateIndices
    PROVE  IInv'
  <1>1. JobsOK /\ CountsOK /\ Building /\ Composing /\ worker.stage = "composite" /\ worker.left = <<>>
    BY DEF IInv, GenerateIndices
  <1>2. CountsOK' /\ UNCHANGED <<catalog, reading>>
    BY DEF IInv, CountsOK, GenerateIndices
  <1>3. Active /\ worker.job \in DOMAIN jobs /\ worker \in Workers
    BY <1>1, AtWork
  <1>4. CASE CurrentMode = "composite_only"
    <2>1. CompleteJob(FALSE)
      BY <1>4 DEF GenerateIndices
    <2> QED  BY <1>1, <1>2, <1>3, <2>1, CompleteStep, JobStepInv
  <1>5. CASE CurrentMode # "composite_only"
    <2>1. UNCHANGED jobs /\ worker' = [worker EXCEPT !.stage = "index", !.left = AllIndexWrites]
      BY <1>5 DEF GenerateIndices
    <2>2. worker' = [job |-> worker.job, stage |-> "index", composite |-> worker.composite,
                     left |-> AllIndexWrites]
      BY <1>3, <2>1 DEF Workers
    <2>3. AllIndexWrites \in Seq(IndexDue) /\ AllIndexWrites \in Seq(CompositeDue \cup IndexDue)
      BY IndexList
    <2>4. worker' \in Workers
      BY <1>3, <2>2, <2>3 DEF Workers
    <2>5. JobsOK'
      BY <1>1, <1>3, <2>1, <2>2, <2>4 DEF JobsOK, Active, RunningJobs
    <2>6. Building'
      BY <1>1, <2>1, <2>2 DEF Building, date, picture
    <2>7. \A w \in CompositeDue : CompositeWritten(w)'
      <3>1. \A w \in CompositeDue : CompositeWritten(w)
        BY <1>1 DEF Composing, Pending
      <3>2. date' = date /\ picture' = picture /\ worker'.composite = worker.composite
              /\ UNCHANGED <<object, asset, scene>>
        BY <1>2, <2>2 DEF date, picture, catalog
      <3>3. \A a : Held(a)' = Held(a)
        BY <3>2 DEF Held
      <3> QED  BY <3>1, <3>2, <3>3 DEF CompositeWritten
    <2>8. Indexing'
      <3>1. \A w \in IndexDue : Pending(w)'
        BY <2>2, IndexList DEF Pending
      <3>2. Ordered'
        BY <2>2, IndexList DEF Ordered
      <3> QED  BY <2>2, <2>3, <2>7, <3>1, <3>2 DEF Indexing
    <2>9. WorkInv'
      BY <2>2, <2>5, <2>6, <2>8 DEF WorkInv, Preparing, Composing
    <2>10. SuccessfulJobs \subseteq SuccessfulJobs'
      BY <2>1 DEF SuccessfulJobs
    <2> QED  BY <1>2, <2>9, <2>10, JobStepInv
  <1> QED  BY <1>4, <1>5

LEMMA FinishStep ==
    ASSUME IInv, FinishPipeline
    PROVE  IInv'
  <1>1. JobsOK /\ CountsOK /\ worker.stage = "index" /\ CompleteJob(TRUE)
    BY DEF IInv, FinishPipeline
  <1>2. CountsOK' /\ UNCHANGED <<catalog, reading>>
    BY DEF IInv, CountsOK, FinishPipeline
  <1> QED  BY <1>1, <1>2, AtWork, CompleteStep, JobStepInv

LEMMA FaultStep ==
    ASSUME IInv, StageRaises \/ WorkerLost
    PROVE  IInv'
  <1>1. JobsOK /\ Active /\ worker' = Idle
    BY DEF IInv, StageRaises, WorkerLost
  <1>2. CountsOK' /\ UNCHANGED <<catalog, reading>>
    BY Constants DEF IInv, CountsOK, StageRaises, WorkerLost
  <1>3. PICK status \in {"queued", "completed", "failed"} :
           jobs' = [jobs EXCEPT ![worker.job].status = status]
    BY DEF StageRaises, WorkerLost
  <1> QED  BY <1>1, <1>2, <1>3, RowWithStatus, JobStepInv

LEMMA WorkUnchanged ==
    ASSUME WorkInv, UNCHANGED <<jobs, worker, catalog>>
    PROVE  WorkInv'
  <1> USE DEF catalog
  <1>1. JobsOK' /\ Preparing' /\ Building'
    BY DEF WorkInv, JobsOK, RunningJobs, Active, Preparing, Building, date, picture
  <1>2. \A w : CompositeWritten(w)' <=> CompositeWritten(w)
    BY DEF CompositeWritten, Held, date, picture
  <1>3. \A w : IndexWritten(w)' <=> IndexWritten(w)
    BY DEF IndexWritten, HasRow, date, picture
  <1>4. Composing'
    BY <1>2 DEF WorkInv, Composing, Pending
  <1>5. Indexing'
    BY <1>2, <1>3 DEF WorkInv, Indexing, Pending, Ordered, HasRow, date
  <1> QED  BY <1>1, <1>4, <1>5 DEF WorkInv

LEMMA TickStep ==
    ASSUME IInv, Tick
    PROVE  IInv'
  <1>1. CountsOK'
    BY Constants DEF IInv, CountsOK, Tick
  <1>2. WorkInv'
    BY Parts, WorkUnchanged DEF Tick
  <1> QED  BY <1>1, <1>2, JobStepInv DEF Tick, SuccessfulJobs

-----------------------------------------------------------------------------
(***************************************************************************)
(* The writes of the composite and index stages, one at a time.            *)
(***************************************************************************)
LEMMA TailOfList ==
    ASSUME NEW S, NEW s \in Seq(S), s # <<>>
    PROVE  /\ Head(s) \in S /\ Head(s) = s[1] /\ Tail(s) \in Seq(S)
           /\ Len(s) \in Nat \ {0} /\ DOMAIN s = 1..Len(s)
           /\ DOMAIN Tail(s) = 1..(Len(s) - 1)
           /\ \A n \in 1..(Len(s) - 1) : Tail(s)[n] = s[n + 1]
  OBVIOUS

\* What is left is the rest of the list.
LEMMA Shorter ==
    ASSUME JobsOK, NEW kind, NEW key, Writes(kind, key)
    PROVE  /\ worker.stage \in {"composite", "index"}
           /\ worker'.job = worker.job /\ worker'.stage = worker.stage
           /\ worker'.composite = worker.composite /\ worker'.left = Tail(worker.left)
           /\ worker.left # <<>> /\ worker.left \in Seq(CompositeDue \cup IndexDue)
           /\ worker.left[1] = <<kind, key>>
           /\ JobsOK'
  <1>1. worker \in Workers /\ worker.left # <<>> /\ Head(worker.left) = <<kind, key>>
    BY DEF JobsOK, Writes
  <1>2. worker.stage \in {"composite", "index"}
    BY <1>1 DEF JobsOK
  <1>3. worker.left \in Seq(CompositeDue \cup IndexDue)
    BY <1>1 DEF Workers
  <1>4. worker' = [worker EXCEPT !.left = Tail(worker.left)]
    BY DEF Writes
  <1>5. worker' = [job |-> worker.job, stage |-> worker.stage, composite |-> worker.composite,
                   left |-> Tail(worker.left)]
    BY <1>1, <1>4 DEF Workers
  <1>6. Tail(worker.left) \in Seq(CompositeDue \cup IndexDue) /\ worker.left[1] = <<kind, key>>
    BY <1>1, <1>3, TailOfList
  <1>7. worker' \in Workers
    BY <1>1, <1>5, <1>6 DEF Workers
  <1>8. JobsOK'
    BY <1>2, <1>5, <1>7 DEF JobsOK, Writes, Active, RunningJobs, Idle
  <1> QED  BY <1>1, <1>2, <1>3, <1>5, <1>6, <1>8

LEMMA StillPending ==
    ASSUME JobsOK, NEW kind, NEW key, Writes(kind, key), NEW w, Pending(w), w # <<kind, key>>
    PROVE  Pending(w)'
  <1>1. /\ worker'.left = Tail(worker.left) /\ worker.left # <<>>
        /\ worker.left \in Seq(CompositeDue \cup IndexDue) /\ worker.left[1] = <<kind, key>>
    BY Shorter
  <1>2. PICK n \in DOMAIN worker.left : worker.left[n] = w
    BY DEF Pending
  <1>3. n - 1 \in 1..(Len(worker.left) - 1) /\ (n - 1) + 1 = n
    <2>1. n \in 1..Len(worker.left) /\ Len(worker.left) \in Nat
      BY <1>1, <1>2, TailOfList
    <2>2. n # 1
      BY <1>1, <1>2
    <2> QED  BY <2>1, <2>2
  <1>4. n - 1 \in DOMAIN Tail(worker.left) /\ Tail(worker.left)[n - 1] = w
    BY <1>1, <1>2, <1>3, TailOfList
  <1> QED  BY <1>1, <1>4 DEF Pending

\* What a write finds: its kind is of the stage, and what it rests on is there.
LEMMA WriteDue ==
    ASSUME WorkInv, NEW kind, NEW key, Writes(kind, key)
    PROVE  /\ worker.stage \in {"composite", "index"}
           /\ worker.stage = "composite" => <<kind, key>> \in CompositeDue
           /\ worker.stage = "index" =>
                 /\ <<kind, key>> \in IndexDue
                 /\ kind = "raster" => cog[date][key] # None
                 /\ kind = "layer" => HasRow(date, key)
           /\ worker.composite \in [of : SUBSET Products, date : Dates, picture : Images]
           /\ date' = date /\ picture' = picture /\ worker'.composite = worker.composite
           /\ \A a : Held(a)' = Held(a)
  <1>1. JobsOK
    BY DEF WorkInv
  <1>2. /\ worker.stage \in {"composite", "index"}
        /\ worker'.composite = worker.composite /\ worker.left # <<>>
        /\ worker.left[1] = <<kind, key>>
    BY <1>1, Shorter
  <1>3. worker.composite \in [of : SUBSET Products, date : Dates, picture : Images]
    BY <1>2 DEF WorkInv, Building
  <1>4. date' = date /\ picture' = picture
    BY <1>2 DEF date, picture
  <1>5. \A a : Held(a)' = Held(a)
    BY <1>2, <1>4 DEF Held
  <1>6. ASSUME worker.stage = "composite"
        PROVE  <<kind, key>> \in CompositeDue
    BY <1>2, <1>6, TailOfList DEF WorkInv, Composing
  <1>7. ASSUME worker.stage = "index"
        PROVE  /\ <<kind, key>> \in IndexDue
               /\ kind = "raster" => cog[date][key] # None
               /\ kind = "layer" => HasRow(date, key)
    <2>1. worker.left \in Seq(IndexDue) /\ Ordered
      BY <1>7 DEF WorkInv, Indexing
    <2>2. <<kind, key>> \in IndexDue /\ 1 \in DOMAIN worker.left
      BY <1>2, <2>1, TailOfList
    <2>3. kind \in {"raster", "layer"} => key \in IndexNames
      BY <2>2 DEF IndexDue
    <2>4. \A m : m \notin 1..(1 - 1)
      OBVIOUS
    <2> QED  BY <1>2, <2>1, <2>2, <2>3, <2>4 DEF Ordered
  <1> QED  BY <1>2, <1>3, <1>4, <1>5, <1>6, <1>7

\* A write keeps the invariant if it does its own and undoes no other.
LEMMA WriteInv ==
    ASSUME IInv, NEW kind, NEW key, Writes(kind, key),
           CatalogInv', RowsStay,
           \A w \in CompositeDue : CompositeWritten(w) => CompositeWritten(w)',
           worker.stage = "composite" => CompositeWritten(<<kind, key>>)',
           worker.stage = "index" =>
              /\ IndexWritten(<<kind, key>>)'
              /\ \A w \in IndexDue : IndexWritten(w) => IndexWritten(w)',
           \A i \in IndexNames : cog[date][i] # None => cog'[date][i] # None
    PROVE  IInv'
  <1>1. WorkInv /\ JobsOK
    BY DEF IInv, WorkInv
  <1>2. /\ worker.stage \in {"composite", "index"}
        /\ worker'.job = worker.job /\ worker'.stage = worker.stage
        /\ worker'.composite = worker.composite /\ worker'.left = Tail(worker.left)
        /\ worker.left # <<>> /\ worker.left[1] = <<kind, key>>
        /\ JobsOK'
    BY <1>1, Shorter
  <1>3. UNCHANGED <<jobs, reading, now, faults, runs>>
    BY DEF Writes
  <1>4. date' = date /\ picture' = picture /\ date \in Dates /\ picture \in Images
    BY <1>1, WriteDue DEF date, picture
  <1>5. CountsOK' /\ SuccessfulJobs' = SuccessfulJobs
    BY <1>3 DEF IInv, CountsOK, SuccessfulJobs
  <1>6. RequestOK'
    BY <1>3, <1>5, ReaderKept DEF IInv
  <1>7. Preparing' /\ Building'
    BY <1>1, <1>2, <1>3, <1>4 DEF WorkInv, Preparing, Building
  <1>8. Composing'
    <2> SUFFICES ASSUME worker.stage = "composite"
                 PROVE  /\ worker'.left \in Seq(CompositeDue)
                        /\ \A w \in CompositeDue : Pending(w)' \/ CompositeWritten(w)'
      BY <1>2 DEF Composing
    <2>1. worker'.left \in Seq(CompositeDue)
      BY <1>1, <1>2, TailOfList DEF WorkInv, Composing
    <2>2. ASSUME NEW w \in CompositeDue
          PROVE  Pending(w)' \/ CompositeWritten(w)'
      <3>1. Pending(w) \/ CompositeWritten(w)
        BY <1>1 DEF WorkInv, Composing
      <3>2. CASE w = <<kind, key>>
        BY <3>2
      <3>3. CASE w # <<kind, key>>
        BY <1>1, <3>1, <3>3, StillPending
      <3> QED  BY <3>2, <3>3
    <2> QED  BY <2>1, <2>2
  <1>9. Indexing'
    <2> SUFFICES ASSUME worker.stage = "index"
                 PROVE  /\ worker'.left \in Seq(IndexDue)
                        /\ \A w \in CompositeDue : CompositeWritten(w)'
                        /\ \A w \in IndexDue : Pending(w)' \/ IndexWritten(w)'
                        /\ Ordered'
      BY <1>2 DEF Indexing
    <2>1. worker.left \in Seq(IndexDue) /\ Ordered
      BY <1>1 DEF WorkInv, Indexing
    <2>2. worker'.left \in Seq(IndexDue)
      BY <1>2, <2>1, TailOfList
    <2>3. \A w \in CompositeDue : CompositeWritten(w)'
      BY <1>1 DEF WorkInv, Indexing
    <2>4. ASSUME NEW w \in IndexDue
          PROVE  Pending(w)' \/ IndexWritten(w)'
      <3>1. Pending(w) \/ IndexWritten(w)
        BY <1>1 DEF WorkInv, Indexing
      <3>2. CASE w = <<kind, key>>
        BY <3>2
      <3>3. CASE w # <<kind, key>>
        BY <1>1, <3>1, <3>3, StillPending
      <3> QED  BY <3>2, <3>3
    <2>5. ASSUME NEW n \in DOMAIN worker'.left, NEW i \in IndexNames
          PROVE  /\ worker'.left[n] = <<"raster", i>> =>
                       cog'[date][i] # None \/ \E m \in 1..(n - 1) : worker'.left[m] = <<"cog", i>>
                 /\ worker'.left[n] = <<"layer", i>> =>
                       HasRow(date, i)' \/ \E m \in 1..(n - 1) : worker'.left[m] = <<"raster", i>>
      <3>1. /\ n \in 1..(Len(worker.left) - 1) /\ n + 1 \in DOMAIN worker.left
            /\ worker'.left[n] = worker.left[n + 1]
            /\ \A m \in 1..(Len(worker.left) - 1) : worker'.left[m] = worker.left[m + 1]
            /\ Len(worker.left) \in Nat
        BY <1>2, <2>1, TailOfList
      <3>2. \A m \in 1..n : m = 1 \/ (m - 1 \in 1..(n - 1) /\ worker'.left[m - 1] = worker.left[m])
        BY <3>1
      <3>3. (n + 1) - 1 = n
        BY <3>1
      <3>4. ASSUME worker'.left[n] = <<"raster", i>>
            PROVE  cog'[date][i] # None \/ \E m \in 1..(n - 1) : worker'.left[m] = <<"cog", i>>
        <4>1. cog[date][i] # None \/ \E m \in 1..n : worker.left[m] = <<"cog", i>>
          BY <2>1, <3>1, <3>3, <3>4 DEF Ordered
        <4>2. ASSUME <<kind, key>> = <<"cog", i>>
              PROVE  cog'[date][i] # None
          <5>1. cog'[date][i] = IndexOf(picture)
            BY <1>4, <4>2 DEF IndexWritten
          <5>2. IndexOf(picture) \in Pictures
            BY <1>4, IndexOfType
          <5>3. None \notin Pictures
            BY Constants
          <5> QED  BY <5>1, <5>2, <5>3
        <4> QED  BY <1>2, <3>2, <4>1, <4>2
      <3>5. ASSUME worker'.left[n] = <<"layer", i>>
            PROVE  HasRow(date, i)' \/ \E m \in 1..(n - 1) : worker'.left[m] = <<"raster", i>>
        <4>1. HasRow(date, i) \/ \E m \in 1..n : worker.left[m] = <<"raster", i>>
          BY <2>1, <3>1, <3>3, <3>5 DEF Ordered
        <4>2. HasRow(date, i) => raster'[date][i] # None
          BY <1>4 DEF RowsStay, HasRow
        <4>3. ASSUME <<kind, key>> = <<"raster", i>>
              PROVE  raster'[date][i] # None
          BY <1>4, <4>3 DEF IndexWritten, HasRow
        <4>4. raster'[date][i] # None \/ \E m \in 1..(n - 1) : worker'.left[m] = <<"raster", i>>
          BY <1>2, <3>2, <4>1, <4>2, <4>3
        <4> QED  BY <1>4, <4>4 DEF HasRow
      <3> QED  BY <3>4, <3>5
    <2>6. Ordered'
      BY <1>4, <2>5 DEF Ordered
    <2> QED  BY <2>2, <2>3, <2>4, <2>6
  <1> QED  BY <1>2, <1>5, <1>6, <1>7, <1>8, <1>9 DEF IInv, CatalogInv

LEMMA HeldType ==
    ASSUME WorkInv, worker.stage \in {"composite", "index"}, NEW a
    PROVE  a \in CompositeAssets => Held(a) \in Contents
  <1>1. worker.composite \in [of : SUBSET Products, date : Dates, picture : Images]
    BY DEF WorkInv, Building
  <1>2. picture \in Images /\ worker.composite.of \in SUBSET Products
    BY <1>1 DEF picture
  <1>3. /\ [x \in Pixels |-> picture[x].from] \in Contents
        /\ [x \in Pixels |-> picture[x].class] \in Contents
    BY <1>2, IndexOfType DEF Contents
  <1>4. worker.composite.of \in Contents
    BY <1>2 DEF Contents
  <1> QED  BY <1>3, <1>4 DEF Held, CompositeAssets

\* The kinds of the two stages.
LEMMA Kinds ==
    ASSUME NEW kind, NEW key
    PROVE  /\ <<kind, key>> \in CompositeDue =>
                 kind \in {"object", "scene", "asset"}
           /\ <<kind, key>> \in CompositeDue /\ kind = "object" => key \in CompositeAssets
           /\ <<kind, key>> \in CompositeDue /\ kind = "asset" => key \in {"analytic", "mask"}
           /\ <<kind, key>> \in IndexDue =>
                 kind \in {"cog", "raster", "layer", "item", "scene item"}
           /\ <<kind, key>> \in IndexDue /\ kind \in {"cog", "raster", "layer"} => key \in IndexNames
  BY DEF CompositeDue, IndexDue

\* A write of the kinds of a composite is made in the composite stage.
LEMMA CompositeWrite ==
    ASSUME WorkInv, NEW kind \in {"object", "scene", "asset"}, NEW key, Writes(kind, key)
    PROVE  /\ worker.stage = "composite"
           /\ worker.composite \in [of : SUBSET Products, date : Dates, picture : Images]
           /\ date' = date /\ picture' = picture /\ worker'.composite = worker.composite
           /\ \A b : Held(b)' = Held(b)
  <1>1. <<kind, key>> \notin IndexDue
    BY Kinds
  <1>2. /\ worker.stage \in {"composite", "index"}
        /\ worker.stage = "index" => <<kind, key>> \in IndexDue
    BY WriteDue
  <1> QED  BY <1>1, <1>2, WriteDue

LEMMA DueIsPair ==
    /\ \A w \in CompositeDue : w = <<w[1], w[2]>>
    /\ \A w \in IndexDue : w = <<w[1], w[2]>>
  <1>1. \A A, B : \A w \in A \X B : w = <<w[1], w[2]>>
    OBVIOUS
  <1>2. \A k : <<k, None>> = << <<k, None>>[1], <<k, None>>[2] >>
    OBVIOUS
  <1>3. ASSUME NEW w \in CompositeDue
        PROVE  w = <<w[1], w[2]>>
    <2>1. w = <<"scene", None>> \/ w \in {"object"} \X CompositeAssets \/ w \in {"asset"} \X {"analytic", "mask"}
      BY DEF CompositeDue
    <2> QED  BY <1>1, <1>2, <2>1
  <1>4. ASSUME NEW w \in IndexDue
        PROVE  w = <<w[1], w[2]>>
    <2>1. \/ w = <<"item", None>> \/ w = <<"scene item", None>>
          \/ w \in {"cog", "raster", "layer"} \X IndexNames
      BY DEF IndexDue
    <2> QED  BY <1>1, <1>2, <2>1
  <1> QED  BY <1>3, <1>4

LEMMA PutCompositeStep ==
    ASSUME IInv, NEW a \in CompositeAssets, put_composite(a)
    PROVE  IInv'
  <1>1. /\ Writes("object", a) /\ object' = [object EXCEPT ![date][a] = Held(a)]
        /\ UNCHANGED <<scene, asset, cog, raster, layer, item>>
    BY DEF put_composite
  <1>2. WorkInv /\ CatalogInv
    BY Parts
  <1>3. /\ worker.stage = "composite"
        /\ worker.composite \in [of : SUBSET Products, date : Dates, picture : Images]
        /\ date' = date /\ picture' = picture /\ worker'.composite = worker.composite
        /\ \A b : Held(b)' = Held(b)
    BY <1>1, <1>2, CompositeWrite
  <1>4. date \in Dates /\ Held(a) \in Contents
    BY <1>2, <1>3, HeldType DEF date
  <1>5. object \in [Dates -> [CompositeAssets -> Contents]]
    BY <1>2 DEF CatalogInv, TablesOK
  <1>6. /\ object' \in [Dates -> [CompositeAssets -> Contents]]
        /\ object'[date][a] = Held(a)
        /\ \A b \in CompositeAssets : b # a => object'[date][b] = object[date][b]
    BY <1>1, <1>4, <1>5
  <1>7. CatalogInv' /\ RowsStay
    BY <1>1, <1>2, <1>6 DEF CatalogInv, TablesOK, RowsOK, RowsStay, HasRow
  <1>8. ASSUME NEW w \in CompositeDue, CompositeWritten(w)
        PROVE  CompositeWritten(w)'
    <2>1. w[1] = "object" => w[2] \in CompositeAssets
      <3>1. <<w[1], w[2]>> \in CompositeDue
        BY DueIsPair
      <3> QED  BY <3>1, Kinds
    <2>2. w[1] = "object" => object'[date][w[2]] = Held(w[2])
      BY <1>6, <1>8, <2>1 DEF CompositeWritten
    <2> QED  BY <1>1, <1>3, <1>8, <2>2 DEF CompositeWritten
  <1>9. CompositeWritten(<<"object", a>>)'
    BY <1>3, <1>6 DEF CompositeWritten
  <1> QED  BY <1>1, <1>3, <1>7, <1>8, <1>9, WriteInv

LEMMA RegisterAssetStep ==
    ASSUME IInv, NEW a \in {"analytic", "mask"}, register_composite_asset(a)
    PROVE  IInv'
  <1>1. /\ Writes("asset", a) /\ asset' = [asset EXCEPT ![date][a] = Held(a)]
        /\ UNCHANGED <<object, scene, cog, raster, layer, item>>
    BY DEF register_composite_asset
  <1>2. WorkInv /\ CatalogInv
    BY Parts
  <1>3. /\ worker.stage = "composite"
        /\ worker.composite \in [of : SUBSET Products, date : Dates, picture : Images]
        /\ date' = date /\ picture' = picture /\ worker'.composite = worker.composite
        /\ \A b : Held(b)' = Held(b)
    BY <1>1, <1>2, CompositeWrite
  <1>4. date \in Dates /\ Held(a) \in Contents
    BY <1>2, <1>3, HeldType DEF date, CompositeAssets
  <1>5. asset \in [Dates -> [{"analytic", "mask"} -> Contents]]
    BY <1>2 DEF CatalogInv, TablesOK
  <1>6. /\ asset' \in [Dates -> [{"analytic", "mask"} -> Contents]]
        /\ asset'[date][a] = Held(a)
        /\ \A b \in {"analytic", "mask"} : b # a => asset'[date][b] = asset[date][b]
    BY <1>1, <1>4, <1>5
  <1>7. CatalogInv' /\ RowsStay
    BY <1>1, <1>2, <1>6 DEF CatalogInv, TablesOK, RowsOK, RowsStay, HasRow
  <1>8. ASSUME NEW w \in CompositeDue, CompositeWritten(w)
        PROVE  CompositeWritten(w)'
    <2>1. w[1] = "asset" => w[2] \in {"analytic", "mask"}
      <3>1. <<w[1], w[2]>> \in CompositeDue
        BY DueIsPair
      <3> QED  BY <3>1, Kinds
    <2>2. w[1] = "asset" => asset'[date][w[2]] = Held(w[2])
      BY <1>6, <1>8, <2>1 DEF CompositeWritten
    <2> QED  BY <1>1, <1>3, <1>8, <2>2 DEF CompositeWritten
  <1>9. CompositeWritten(<<"asset", a>>)'
    BY <1>3, <1>6 DEF CompositeWritten
  <1> QED  BY <1>1, <1>3, <1>7, <1>8, <1>9, WriteInv

\* The two writes of the scene row.
LEMMA SceneWrite ==
    ASSUME IInv, NEW named \in BOOLEAN,
           scene' = [scene EXCEPT ![date] = [of |-> worker.composite.of, item |-> named]],
           UNCHANGED <<object, asset, cog, raster, layer, item>>,
           worker.composite \in [of : SUBSET Products, date : Dates, picture : Images],
           date' = date, picture' = picture, worker'.composite = worker.composite,
           \A a : Held(a)' = Held(a)
    PROVE  /\ CatalogInv' /\ RowsStay
           /\ scene'[date] = [of |-> worker.composite.of, item |-> named] /\ scene'[date] # None
           /\ \A w \in CompositeDue : CompositeWritten(w) => CompositeWritten(w)'
           /\ CompositeWritten(<<"scene", None>>)'
  <1>1. CatalogInv
    BY Parts
  <1>2. PICK row : row = [of |-> worker.composite.of, item |-> named]
    OBVIOUS
  <1>3. row \in SceneRows /\ row.of = worker.composite.of /\ date \in Dates
    BY <1>2 DEF SceneRows, date
  <1>4. row # None
    BY <1>3, Constants
  <1>5. scene \in [Dates -> {None} \cup SceneRows]
    BY <1>1 DEF CatalogInv, TablesOK
  <1>6. scene' = [scene EXCEPT ![date] = row]
    BY <1>2
  <1>7. /\ scene' \in [Dates -> {None} \cup SceneRows] /\ scene'[date] = row
        /\ \A d \in Dates : scene[d] # None => scene'[d] # None
    BY <1>3, <1>4, <1>5, <1>6
  <1>8. CatalogInv' /\ RowsStay
    BY <1>1, <1>7 DEF CatalogInv, TablesOK, RowsOK, RowsStay, HasRow
  <1>9. \A w \in CompositeDue : CompositeWritten(w) => CompositeWritten(w)'
    BY <1>3, <1>4, <1>7 DEF CompositeWritten
  <1>10. CompositeWritten(<<"scene", None>>)'
    BY <1>3, <1>4, <1>7 DEF CompositeWritten
  <1> QED  BY <1>2, <1>4, <1>7, <1>8, <1>9, <1>10

LEMMA RegisterSceneStep ==
    ASSUME IInv, register_composite_scene
    PROVE  IInv'
  <1>1. /\ Writes("scene", None)
        /\ scene' = [scene EXCEPT ![date] = [of |-> worker.composite.of, item |-> FALSE]]
        /\ UNCHANGED <<object, asset, cog, raster, layer, item>>
    BY DEF register_composite_scene
  <1>2. WorkInv
    BY Parts
  <1>3. /\ worker.stage = "composite"
        /\ worker.composite \in [of : SUBSET Products, date : Dates, picture : Images]
        /\ date' = date /\ picture' = picture /\ worker'.composite = worker.composite
        /\ \A b : Held(b)' = Held(b)
    BY <1>1, <1>2, CompositeWrite
  <1>4. /\ CatalogInv' /\ RowsStay
        /\ \A w \in CompositeDue : CompositeWritten(w) => CompositeWritten(w)'
        /\ CompositeWritten(<<"scene", None>>)'
    BY <1>1, <1>3, SceneWrite
  <1> QED  BY <1>1, <1>3, <1>4, WriteInv

LEMMA SceneItemStep ==
    ASSUME IInv, scene_names_item
    PROVE  IInv'
  <1>1. /\ Writes("scene item", None)
        /\ scene' = [scene EXCEPT ![date] = [of |-> worker.composite.of, item |-> TRUE]]
        /\ UNCHANGED <<object, asset, cog, raster, layer, item>>
    BY DEF scene_names_item
  <1>2. WorkInv
    BY Parts
  <1>3. /\ worker.stage = "index"
        /\ worker.composite \in [of : SUBSET Products, date : Dates, picture : Images]
        /\ date' = date /\ picture' = picture /\ worker'.composite = worker.composite
        /\ \A b : Held(b)' = Held(b)
    <2>1. "scene item" \notin {"object", "scene", "asset"}
      OBVIOUS
    <2>2. worker.stage # "composite"
      BY <1>1, <1>2, <2>1, WriteDue, Kinds
    <2> QED  BY <1>1, <1>2, <2>2, WriteDue
  <1>4. /\ CatalogInv' /\ RowsStay
        /\ scene'[date] = [of |-> worker.composite.of, item |-> TRUE]
        /\ \A w \in CompositeDue : CompositeWritten(w) => CompositeWritten(w)'
    BY <1>1, <1>3, SceneWrite
  <1>5. IndexWritten(<<"scene item", None>>)'
    BY <1>3, <1>4 DEF IndexWritten
  <1>6. \A w \in IndexDue : IndexWritten(w) => IndexWritten(w)'
    BY <1>1, <1>3, <1>4 DEF IndexWritten, HasRow
  <1> QED  BY <1>1, <1>3, <1>4, <1>5, <1>6, WriteInv

\* What the writes of the index stage have in common: they leave the composite.
LEMMA IndexWrite ==
    ASSUME IInv, NEW kind \in {"cog", "raster", "layer", "item"}, NEW key, Writes(kind, key),
           UNCHANGED <<object, scene, asset>>
    PROVE  /\ worker.stage = "index" /\ date \in Dates /\ IndexOf(picture) \in Pictures
           /\ kind \in {"cog", "raster", "layer"} => key \in IndexNames
           /\ kind = "raster" => cog[date][key] # None
           /\ kind = "layer" => HasRow(date, key)
           /\ date' = date /\ picture' = picture /\ worker'.composite = worker.composite
           /\ scene[date] # None
           /\ \A w \in CompositeDue : CompositeWritten(w) => CompositeWritten(w)'
  <1>1. WorkInv
    BY Parts
  <1>2. /\ worker.stage = "index" /\ <<kind, key>> \in IndexDue
        /\ kind = "raster" => cog[date][key] # None
        /\ kind = "layer" => HasRow(date, key)
        /\ worker.composite \in [of : SUBSET Products, date : Dates, picture : Images]
        /\ date' = date /\ picture' = picture /\ worker'.composite = worker.composite
        /\ \A b : Held(b)' = Held(b)
    BY <1>1, WriteDue, Kinds
  <1>3. date \in Dates /\ picture \in Images
    BY <1>2 DEF date, picture
  <1>4. kind \in {"cog", "raster", "layer"} => key \in IndexNames
    BY <1>2, Kinds
  <1>5. scene[date] # None
    <2>1. <<"scene", None>> \in CompositeDue
      BY DEF CompositeDue
    <2> QED  BY <1>1, <1>2, <2>1 DEF WorkInv, Indexing, CompositeWritten
  <1>6. \A w \in CompositeDue : CompositeWritten(w) => CompositeWritten(w)'
    BY <1>2 DEF CompositeWritten
  <1> QED  BY <1>2, <1>3, <1>4, <1>5, <1>6, IndexOfType

LEMMA PutCogStep ==
    ASSUME IInv, NEW i \in IndexNames, put_derived_cog(i)
    PROVE  IInv'
  <1>1. /\ Writes("cog", i) /\ cog' = [cog EXCEPT ![date][i] = IndexOf(picture)]
        /\ UNCHANGED <<object, scene, asset, raster, layer, item>>
    BY DEF put_derived_cog
  <1>2. /\ worker.stage = "index" /\ date \in Dates /\ IndexOf(picture) \in Pictures
        /\ date' = date /\ picture' = picture /\ worker'.composite = worker.composite
        /\ \A w \in CompositeDue : CompositeWritten(w) => CompositeWritten(w)'
    BY <1>1, IndexWrite
  <1>3. CatalogInv /\ cog \in [Dates -> [IndexNames -> {None} \cup Pictures]]
    BY Parts DEF CatalogInv, TablesOK
  <1>4. PICK image : image = IndexOf(picture)
    OBVIOUS
  <1>5. image \in Pictures /\ image # None
    BY <1>2, <1>4, Constants
  <1>6. /\ cog' \in [Dates -> [IndexNames -> {None} \cup Pictures]]
        /\ cog'[date][i] = image
        /\ \A d \in Dates, k \in IndexNames : cog[d][k] # None => cog'[d][k] # None
        /\ \A k \in IndexNames : k # i => cog'[date][k] = cog[date][k]
    BY <1>1, <1>2, <1>3, <1>4, <1>5
  <1>7. CatalogInv' /\ RowsStay
    BY <1>1, <1>3, <1>6 DEF CatalogInv, TablesOK, RowsOK, RowsStay, HasRow
  <1>8. ASSUME NEW w \in IndexDue, IndexWritten(w)
        PROVE  IndexWritten(w)'
    <2>1. w[1] = "cog" => w[2] \in IndexNames
      BY DueIsPair, Kinds
    <2>2. w[1] = "cog" => cog'[date][w[2]] = IndexOf(picture)
      BY <1>4, <1>6, <1>8, <2>1 DEF IndexWritten
    <2> QED  BY <1>1, <1>2, <1>8, <2>2 DEF IndexWritten, HasRow
  <1>9. IndexWritten(<<"cog", i>>)'
    BY <1>2, <1>4, <1>6 DEF IndexWritten
  <1>10. \A k \in IndexNames : cog[date][k] # None => cog'[date][k] # None
    BY <1>2, <1>6
  <1> QED  BY <1>1, <1>2, <1>7, <1>8, <1>9, <1>10, WriteInv

LEMMA PutRasterStep ==
    ASSUME IInv, NEW i \in IndexNames, upsert_derived_index(i)
    PROVE  IInv'
  <1>1. /\ Writes("raster", i)
        /\ raster' = [raster EXCEPT ![date][i] =
              [of |-> IndexOf(picture),
               created |-> IF raster[date][i] = None THEN now ELSE raster[date][i].created]]
        /\ UNCHANGED <<object, scene, asset, cog, layer, item>>
    BY DEF upsert_derived_index
  <1>2. /\ worker.stage = "index" /\ date \in Dates /\ IndexOf(picture) \in Pictures
        /\ cog[date][i] # None /\ scene[date] # None
        /\ date' = date /\ picture' = picture /\ worker'.composite = worker.composite
        /\ \A w \in CompositeDue : CompositeWritten(w) => CompositeWritten(w)'
    BY <1>1, IndexWrite
  <1>3. CatalogInv /\ raster \in [Dates -> [IndexNames -> {None} \cup RasterRows]]
    BY Parts DEF CatalogInv, TablesOK
  <1>4. PICK at : at = IF raster[date][i] = None THEN now ELSE raster[date][i].created
    OBVIOUS
  <1>5. at \in 0..LastTick
    BY <1>2, <1>3, <1>4, Parts DEF CountsOK, RasterRows
  <1>6. PICK row : row = [of |-> IndexOf(picture), created |-> at]
    OBVIOUS
  <1>7. row \in RasterRows /\ row.of = IndexOf(picture) /\ row.created = at
    BY <1>2, <1>5, <1>6 DEF RasterRows
  <1>8. row # None
    BY <1>7, Constants
  <1>9. raster' = [raster EXCEPT ![date][i] = row]
    BY <1>1, <1>4, <1>6
  <1>10. /\ raster' \in [Dates -> [IndexNames -> {None} \cup RasterRows]]
         /\ raster'[date][i] = row
         /\ \A d \in Dates, k \in IndexNames :
               raster'[d][k] = raster[d][k] \/ (d = date /\ k = i)
    BY <1>2, <1>3, <1>7, <1>9
  <1>11. RowsStay
    <2> SUFFICES ASSUME NEW d \in Dates, NEW k \in IndexNames, raster[d][k] # None
                 PROVE  raster'[d][k] # None /\ raster'[d][k].created = raster[d][k].created
      BY DEF RowsStay, HasRow
    <2>1. CASE d = date /\ k = i
      BY <1>4, <1>7, <1>8, <1>10, <2>1
    <2>2. CASE ~(d = date /\ k = i)
      BY <1>10, <2>2
    <2> QED  BY <2>1, <2>2
  <1>12. TablesOK'
    BY <1>1, <1>3, <1>10 DEF CatalogInv, TablesOK
  <1>13. RowsOK'
    <2> SUFFICES ASSUME NEW d \in Dates, NEW k \in IndexNames
                 PROVE  /\ k \in layer[d] => raster'[d][k] # None
                        /\ raster'[d][k] # None => cog[d][k] # None /\ scene[d] # None
      BY <1>1 DEF RowsOK, HasRow
    <2>1. /\ k \in layer[d] => raster[d][k] # None
          /\ raster[d][k] # None => cog[d][k] # None /\ scene[d] # None
      BY <1>3 DEF CatalogInv, RowsOK, HasRow
    <2>2. CASE d = date /\ k = i
      BY <1>2, <1>8, <1>10, <2>2
    <2>3. CASE ~(d = date /\ k = i)
      BY <1>10, <2>1, <2>3
    <2> QED  BY <2>2, <2>3
  <1>14. ASSUME NEW w \in IndexDue, IndexWritten(w)
         PROVE  IndexWritten(w)'
    <2>1. w[1] = "raster" => w[2] \in IndexNames
      BY DueIsPair, Kinds
    <2>2. w[1] = "raster" => raster'[date][w[2]] # None /\ raster'[date][w[2]].of = IndexOf(picture)
      BY <1>2, <1>7, <1>8, <1>10, <1>14, <2>1 DEF IndexWritten, HasRow
    <2> QED  BY <1>1, <1>2, <1>14, <2>2 DEF IndexWritten, HasRow
  <1>15. IndexWritten(<<"raster", i>>)'
    BY <1>2, <1>7, <1>8, <1>10 DEF IndexWritten, HasRow
  <1> QED  BY <1>1, <1>2, <1>11, <1>12, <1>13, <1>14, <1>15, WriteInv DEF CatalogInv

LEMMA PutLayerStep ==
    ASSUME IInv, NEW i \in IndexNames, upsert_for_raster(i)
    PROVE  IInv'
  <1>1. /\ Writes("layer", i) /\ layer' = [layer EXCEPT ![date] = layer[date] \cup {i}]
        /\ UNCHANGED <<object, scene, asset, cog, raster, item>>
    BY DEF upsert_for_raster
  <1>2. /\ worker.stage = "index" /\ date \in Dates /\ HasRow(date, i)
        /\ date' = date /\ picture' = picture /\ worker'.composite = worker.composite
        /\ \A w \in CompositeDue : CompositeWritten(w) => CompositeWritten(w)'
    BY <1>1, IndexWrite
  <1>3. CatalogInv /\ layer \in [Dates -> SUBSET IndexNames]
    BY Parts DEF CatalogInv, TablesOK
  <1>4. /\ layer' \in [Dates -> SUBSET IndexNames]
        /\ layer'[date] = layer[date] \cup {i}
        /\ \A d \in Dates : d # date => layer'[d] = layer[d]
    BY <1>1, <1>2, <1>3
  <1>5. CatalogInv' /\ RowsStay
    BY <1>1, <1>2, <1>3, <1>4 DEF CatalogInv, TablesOK, RowsOK, RowsStay, HasRow
  <1>6. \A w \in IndexDue : IndexWritten(w) => IndexWritten(w)'
    BY <1>1, <1>2, <1>4 DEF IndexWritten, HasRow
  <1>7. IndexWritten(<<"layer", i>>)'
    BY <1>2, <1>4 DEF IndexWritten
  <1> QED  BY <1>1, <1>2, <1>5, <1>6, <1>7, WriteInv

LEMMA PutItemStep ==
    ASSUME IInv, upsert_item
    PROVE  IInv'
  <1>1. /\ Writes("item", None)
        /\ item' = [item EXCEPT ![date] = [i \in IndexNames |-> IndexOf(picture)]]
        /\ UNCHANGED <<object, scene, asset, cog, raster, layer>>
    BY DEF upsert_item, IndexNames
  <1>2. /\ worker.stage = "index" /\ date \in Dates /\ IndexOf(picture) \in Pictures
        /\ date' = date /\ picture' = picture /\ worker'.composite = worker.composite
        /\ \A w \in CompositeDue : CompositeWritten(w) => CompositeWritten(w)'
    BY <1>1, IndexWrite
  <1>3. CatalogInv /\ item \in [Dates -> {None} \cup [IndexNames -> Pictures]]
    BY Parts DEF CatalogInv, TablesOK
  <1>4. /\ item' \in [Dates -> {None} \cup [IndexNames -> Pictures]]
        /\ item'[date] = [i \in IndexNames |-> IndexOf(picture)]
    BY <1>1, <1>2, <1>3
  <1>5. CatalogInv' /\ RowsStay
    BY <1>1, <1>3, <1>4 DEF CatalogInv, TablesOK, RowsOK, RowsStay, HasRow
  <1>6. \A w \in IndexDue : IndexWritten(w) => IndexWritten(w)'
    BY <1>1, <1>2, <1>4 DEF IndexWritten, HasRow
  <1>7. IndexWritten(<<"item", None>>)'
    BY <1>2, <1>4 DEF IndexWritten
  <1> QED  BY <1>1, <1>2, <1>5, <1>6, <1>7, WriteInv

-----------------------------------------------------------------------------
(***************************************************************************)
(* The readings of a readiness request.                                    *)
(***************************************************************************)
LEMMA LatestOfTicks ==
    ASSUME NEW T \in SUBSET (0..LastTick), T # {}
    PROVE  Latest(T) \in T /\ \A u \in T : u <= Latest(T)
  <1>1. IsFiniteSet(0..LastTick) /\ T \subseteq Int
    BY Constants, FS_Interval
  <1>2. IsFiniteSet(T)
    BY <1>1, FS_Subset
  <1>3. \E t \in T : \A u \in T : u <= t
    BY <1>1, <1>2, GreatestOfSet
  <1> QED  BY <1>3 DEF Latest

LEMMA EventsAreTicks ==
    ASSUME JobsOK, TablesOK
    PROVE  FreshnessEvents \subseteq 0..LastTick
  <1>1. \A j \in SuccessfulJobs : j.completedAt \in 0..LastTick
    <2>1. \A k \in DOMAIN jobs : jobs[k] \in JobRows
      BY DEF JobsOK
    <2>2. \A j \in JobRows : j.completedAt \in 0..LastTick
      BY DEF JobRows
    <2> QED  BY <2>1, <2>2 DEF SuccessfulJobs
  <1>2. \A d \in Dates, i \in IndexNames : HasRow(d, i) => raster[d][i].created \in 0..LastTick
    BY DEF TablesOK, HasRow, RasterRows
  <1>3. \A r \in {s \in Dates \X Required : HasRow(s[1], s[2])} :
            raster[r[1]][r[2]].created \in 0..LastTick
    BY <1>2, Constants
  <1> QED  BY <1>1, <1>3 DEF FreshnessEvents

LEMMA ReaderStepInv ==
    ASSUME IInv, UNCHANGED <<jobs, worker, catalog, now, faults, runs>>, RequestOK'
    PROVE  IInv'
  <1>1. CatalogInv' /\ WorkInv'
    BY CatalogUnchanged, WorkUnchanged, Parts
  <1>2. CountsOK'
    BY DEF IInv, CountsOK
  <1> QED  BY <1>1, <1>2 DEF IInv, CatalogInv, WorkInv

LEMMA ReadScenesStep ==
    ASSUME IInv, ReadScenes
    PROVE  IInv'
  <1>1. UNCHANGED <<jobs, worker, catalog, now, faults, runs>>
    BY DEF ReadScenes
  <1>2. JobsOK /\ TablesOK /\ RowsOK
    BY DEF IInv
  <1>3. PICK dates : dates = {d \in Dates : scene[d] # None}
    OBVIOUS
  <1>4. request' = [step |-> "indices", left |-> Required, dates |-> dates, found |-> <<>>]
    BY <1>3 DEF ReadScenes, NoRequest
  <1>5. PICK fresh : fresh = Latest(FreshnessEvents)
    OBVIOUS
  <1>6. PICK rows \in BOOLEAN : rows <=> \E d \in Dates, i \in IndexNames : HasRow(d, i)
    OBVIOUS
  <1>7. PICK job \in BOOLEAN : job <=> SuccessfulJobs # {}
    OBVIOUS
  <1>8. begun' = [whole |-> WholeDates, fresh |-> fresh, rows |-> rows, job |-> job]
    BY <1>5, <1>6, <1>7 DEF ReadScenes, IndexNames
  <1>9. UNCHANGED <<raster, jobs>>
    BY <1>1 DEF catalog
  <1>10. fresh \in {None} \cup 0..LastTick
    <2>1. CASE FreshnessEvents = {}
      BY <1>5, <2>1 DEF Latest
    <2>2. CASE FreshnessEvents # {}
      BY <1>2, <1>5, <2>2, EventsAreTicks, LatestOfTicks
    <2> QED  BY <2>1, <2>2
  <1>11. RequestTypes'
    <2>1. /\ request' \in Requests /\ request'.step = "indices" /\ request'.left = Required
      BY <1>3, <1>4, Constants DEF Requests
    <2>2. begun' \in Beginnings
      BY <1>8, <1>10 DEF Beginnings, WholeDates
    <2> QED  BY <2>1, <2>2 DEF RequestTypes
  <1>12. DOMAIN request'.found = {} /\ request'.dates = dates
    BY <1>4
  <1>13. \A i \in Required : Reading(i)'
    BY <1>4 DEF Reading
  <1>14. ReadingsTrue'
    BY <1>12, <1>13 DEF ReadingsTrue
  <1>15. \A d \in Dates, i \in IndexNames : HasRow(d, i) => d \in dates /\ HasRow(d, i)'
    BY <1>2, <1>3, <1>9 DEF RowsOK, HasRow
  <1>16. WholeKept'
    <2> SUFFICES ASSUME NEW d \in begun'.whole
                 PROVE  d \in dates /\ \A i \in Required : HasRow(d, i)'
      BY <1>12 DEF WholeKept
    <2>1. d \in Dates /\ scene[d] # None /\ \A i \in Required : HasRow(d, i)
      BY <1>8 DEF WholeDates
    <2> QED  BY <1>3, <1>15, <2>1, Constants
  <1>17. FreshKept'
    <2> SUFFICES ASSUME fresh # None PROVE FreshKept'
      BY <1>8 DEF FreshKept
    <2>1. FreshnessEvents # {}
      BY <1>5 DEF Latest
    <2>2. fresh \in FreshnessEvents
      BY <1>2, <1>5, <2>1, EventsAreTicks, LatestOfTicks
    <2>3. CASE \E j \in SuccessfulJobs : j.completedAt = fresh
      <3>1. SuccessfulJobs' = SuccessfulJobs
        BY <1>9 DEF SuccessfulJobs
      <3> QED  BY <1>8, <2>3, <3>1 DEF FreshKept
    <2>4. CASE \E r \in {s \in Dates \X Required : HasRow(s[1], s[2])} : raster[r[1]][r[2]].created = fresh
      <3>1. PICK d \in Dates, i \in Required : HasRow(d, i) /\ raster[d][i].created = fresh
        BY <2>4
      <3>2. d \in dates /\ HasRow(d, i)' /\ raster'[d][i].created = fresh
        BY <1>9, <1>15, <3>1, Constants
      <3>3. Reading(i)'
        BY <1>13, <3>1
      <3> QED  BY <1>8, <1>12, <3>1, <3>2, <3>3 DEF FreshKept
    <2> QED  BY <2>2, <2>3, <2>4 DEF FreshnessEvents
  <1>18. RowsKept'
    BY <1>4, <1>6, <1>8, <1>12, <1>15 DEF RowsKept
  <1>19. JobKept'
    BY <1>7, <1>8, <1>9 DEF JobKept, SuccessfulJobs
  <1>20. RequestOK'
    BY <1>11, <1>14, <1>16, <1>17, <1>18, <1>19 DEF RequestOK
  <1> QED  BY <1>1, <1>20, ReaderStepInv

\* The index that is read next is one still to be read.
LEMMA NextIndexOfLeft ==
    ASSUME RequestTypes, request.step = "indices", request.left # {}
    PROVE  NextIndex \in request.left
  <1> DEFINE at == {n \in DOMAIN Indices : Indices[n] \in request.left}
  <1>1. request.left \subseteq IndexNames
    BY DEF RequestTypes, Requests
  <1>2. \A i \in IndexNames : \E n \in DOMAIN Indices : Indices[n] = i
    BY DEF IndexNames, ToSet
  <1>3. at # {} /\ at \subseteq Nat
    BY <1>1, <1>2, Constants
  <1>4. PICK n \in at : \A m \in at : n <= m
    BY <1>3, SmallestOfSet
  <1>5. \E k \in DOMAIN Indices :
            /\ Indices[k] \in request.left
            /\ \A m \in DOMAIN Indices : Indices[m] \in request.left => k <= m
    BY <1>4
  <1> QED  BY <1>5 DEF NextIndex

LEMMA RowsListed ==
    ASSUME TablesOK, RequestTypes, NEW i \in IndexNames
    PROVE  /\ ListRows(i) \in SUBSET (Dates \X (0..LastTick))
           /\ \A r \in ListRows(i) :
                 r[1] \in request.dates /\ HasRow(r[1], i) /\ raster[r[1]][i].created = r[2]
           /\ \A d \in request.dates : HasRow(d, i) => <<d, raster[d][i].created>> \in ListRows(i)
  <1>1. request.dates \subseteq Dates
    BY DEF RequestTypes, Requests
  <1>2. \A d \in Dates : HasRow(d, i) => raster[d][i].created \in 0..LastTick
    BY DEF TablesOK, HasRow, RasterRows
  <1> QED  BY <1>1, <1>2 DEF ListRows

LEMMA ReadIndexStep ==
    ASSUME IInv, ReadIndexRows
    PROVE  IInv'
  <1>1. UNCHANGED <<jobs, worker, catalog, now, faults, runs>>
    BY DEF ReadIndexRows
  <1>2. TablesOK /\ RequestOK /\ RequestTypes /\ request \in Requests
    BY DEF IInv, RequestOK, RequestTypes
  <1>3. request.step = "indices" /\ request.left # {} /\ request.left \subseteq Required
    BY <1>2 DEF ReadIndexRows, RequestTypes
  <1>4. ReadingsTrue /\ WholeKept /\ FreshKept /\ RowsKept /\ JobKept /\ begun \in Beginnings
    BY <1>2, <1>3 DEF RequestOK, RequestTypes
  <1>5. PICK i : i = NextIndex
    OBVIOUS
  <1>6. i \in request.left /\ i \in Required /\ i \in IndexNames
    BY <1>2, <1>3, <1>5, NextIndexOfLeft, Constants
  <1>7. PICK rows : rows = ListRows(i)
    OBVIOUS
  <1>8. /\ rows \in SUBSET (Dates \X (0..LastTick))
        /\ \A r \in rows : r[1] \in request.dates /\ HasRow(r[1], i) /\ raster[r[1]][i].created = r[2]
        /\ \A d \in request.dates : HasRow(d, i) => <<d, raster[d][i].created>> \in rows
    BY <1>2, <1>6, <1>7, RowsListed
  <1>9. /\ request' = [request EXCEPT !.left = request.left \ {i}, !.found = Append(request.found, rows)]
        /\ begun' = begun
    BY <1>5, <1>7 DEF ReadIndexRows
  <1>10. request' = [step |-> "indices", left |-> request.left \ {i}, dates |-> request.dates,
                     found |-> Append(request.found, rows)]
    BY <1>2, <1>3, <1>9 DEF Requests
  <1>11. request'.step = "indices" /\ request'.left = request.left \ {i}
            /\ request'.dates = request.dates /\ request'.found = Append(request.found, rows)
    BY <1>10
  <1>12. request.found \in Seq(SUBSET (Dates \X (0..LastTick)))
    BY <1>2 DEF Requests
  <1>13. PICK last : last = Len(request.found) + 1
    OBVIOUS
  <1>14. /\ request'.found \in Seq(SUBSET (Dates \X (0..LastTick)))
         /\ DOMAIN request'.found = DOMAIN request.found \cup {last}
         /\ request'.found[last] = rows
         /\ \A n \in DOMAIN request.found : request'.found[n] = request.found[n]
    BY <1>8, <1>11, <1>12, <1>13
  <1>15. RequestTypes'
    <2>1. request' \in Requests
      BY <1>2, <1>3, <1>10, <1>11, <1>14 DEF Requests
    <2> QED  BY <1>3, <1>4, <1>9, <1>11, <2>1 DEF RequestTypes
  <1>16. UNCHANGED <<raster, jobs>>
    BY <1>1 DEF catalog
  <1>17. \A n \in DOMAIN request.found, k \in Required : FoundFor(n, k) => FoundFor(n, k)'
    BY <1>11, <1>14, <1>16 DEF FoundFor, HasRow
  <1>18. FoundFor(last, i)'
    BY <1>8, <1>11, <1>14, <1>16 DEF FoundFor, HasRow
  <1>19. ReadingsTrue'
    <2>1. \A n \in DOMAIN request'.found : \E k \in Required : FoundFor(n, k)'
      BY <1>4, <1>6, <1>14, <1>17, <1>18 DEF ReadingsTrue
    <2>2. ASSUME NEW k \in Required
          PROVE  Reading(k)' \/ \E n \in DOMAIN request'.found : FoundFor(n, k)'
      <3>1. Reading(k) \/ \E n \in DOMAIN request.found : FoundFor(n, k)
        BY <1>4 DEF ReadingsTrue
      <3>2. CASE k = i
        BY <1>14, <1>18, <3>2
      <3>3. CASE k # i
        BY <1>11, <1>14, <1>17, <3>1, <3>3 DEF Reading
      <3> QED  BY <3>2, <3>3
    <2> QED  BY <2>1, <2>2 DEF ReadingsTrue
  <1>20. WholeKept'
    <2> SUFFICES ASSUME NEW d \in begun.whole
                 PROVE  /\ d \in request.dates /\ \A k \in Required : HasRow(d, k)'
                        /\ \A n \in DOMAIN request'.found : \E r \in request'.found[n] : r[1] = d
      BY <1>9, <1>11 DEF WholeKept
    <2>1. /\ d \in request.dates /\ \A k \in Required : HasRow(d, k)
          /\ \A n \in DOMAIN request.found : \E r \in request.found[n] : r[1] = d
      BY <1>4 DEF WholeKept
    <2>2. <<d, raster[d][i].created>> \in rows
      BY <1>6, <1>8, <2>1
    <2>3. \E r \in request'.found[last] : r[1] = d
      BY <1>14, <2>2
    <2>4. \A n \in DOMAIN request'.found : \E r \in request'.found[n] : r[1] = d
      BY <1>14, <2>1, <2>3
    <2> QED  BY <1>16, <2>1, <2>4 DEF HasRow
  <1>21. FreshKept'
    <2> SUFFICES ASSUME begun.fresh # None PROVE FreshKept'
      BY <1>9 DEF FreshKept
    <2>1. CASE \E j \in SuccessfulJobs : j.completedAt = begun.fresh
      BY <1>9, <1>16, <2>1 DEF FreshKept, SuccessfulJobs
    <2>2. CASE ~\E j \in SuccessfulJobs : j.completedAt = begun.fresh
      <3>1. PICK d \in request.dates, k \in Required :
               /\ HasRow(d, k) /\ raster[d][k].created = begun.fresh
               /\ \/ Reading(k)
                  \/ \E n \in DOMAIN request.found : <<d, begun.fresh>> \in request.found[n]
        BY <1>4, <2>2 DEF FreshKept
      <3>2. HasRow(d, k)' /\ raster'[d][k].created = begun.fresh
        BY <1>16, <3>1 DEF HasRow
      <3>3. Reading(k)' \/ \E n \in DOMAIN request'.found : <<d, begun.fresh>> \in request'.found[n]
        <4>1. CASE k = i
          BY <1>8, <1>14, <3>1, <4>1
        <4>2. CASE k # i
          BY <1>11, <1>14, <3>1, <4>2 DEF Reading
        <4> QED  BY <4>1, <4>2
      <3> QED  BY <1>9, <1>11, <3>1, <3>2, <3>3 DEF FreshKept
    <2> QED  BY <2>1, <2>2
  <1>22. RowsKept'
    BY <1>4, <1>9, <1>11, <1>16 DEF RowsKept, HasRow
  <1>23. JobKept'
    BY <1>4, <1>9, <1>16 DEF JobKept, SuccessfulJobs
  <1>24. RequestOK'
    BY <1>15, <1>19, <1>20, <1>21, <1>22, <1>23 DEF RequestOK
  <1> QED  BY <1>1, <1>24, ReaderStepInv

LEMMA ReadAllStep ==
    ASSUME IInv, ReadAllRows
    PROVE  IInv'
  <1>1. UNCHANGED <<jobs, worker, catalog, now, faults, runs>>
    BY DEF ReadAllRows
  <1>2. TablesOK /\ RequestOK /\ RequestTypes /\ request \in Requests
    BY DEF IInv, RequestOK, RequestTypes
  <1>3. request.step = "indices" /\ request.left = {}
    BY DEF ReadAllRows
  <1>4. ReadingsTrue /\ WholeKept /\ FreshKept /\ RowsKept /\ JobKept /\ begun \in Beginnings
    BY <1>2, <1>3 DEF RequestOK, RequestTypes
  <1>5. PICK seen : seen = {i \in IndexNames : ListRows(i) # {}}
    OBVIOUS
  <1>6. request' = [request EXCEPT !.step = "jobs", !.left = seen] /\ begun' = begun
    BY <1>5 DEF ReadAllRows, IndexNames
  <1>7. request' = [step |-> "jobs", left |-> seen, dates |-> request.dates, found |-> request.found]
    BY <1>2, <1>6 DEF Requests
  <1>8. request'.step = "jobs" /\ request'.left = seen /\ request'.dates = request.dates
            /\ request'.found = request.found
    BY <1>7
  <1>9. RequestTypes'
    <2>1. request' \in Requests
      BY <1>2, <1>5, <1>7 DEF Requests
    <2> QED  BY <1>4, <1>6, <1>8, <2>1 DEF RequestTypes
  <1>10. UNCHANGED <<raster, jobs>>
    BY <1>1 DEF catalog
  <1>11. \A i \in Required : ~Reading(i)
    BY <1>3 DEF Reading
  <1>12. \A n \in DOMAIN request.found, k \in Required : FoundFor(n, k) => FoundFor(n, k)'
    BY <1>8, <1>10 DEF FoundFor, HasRow
  <1>13. ReadingsTrue'
    BY <1>4, <1>8, <1>11, <1>12 DEF ReadingsTrue
  <1>14. WholeKept'
    BY <1>4, <1>6, <1>8, <1>10 DEF WholeKept, HasRow
  <1>15. FreshKept'
    BY <1>4, <1>6, <1>8, <1>10, <1>11 DEF FreshKept, HasRow, SuccessfulJobs
  <1>16. RowsKept'
    <2> SUFFICES ASSUME begun.rows PROVE RowsKept'
      BY <1>6 DEF RowsKept
    <2>1. PICK d \in request.dates, i \in IndexNames : HasRow(d, i)
      BY <1>4 DEF RowsKept
    <2>2. <<d, raster[d][i].created>> \in ListRows(i)
      BY <1>2, <2>1, RowsListed
    <2>3. i \in seen
      BY <1>5, <2>2
    <2> QED  BY <1>8, <1>10, <2>1, <2>3 DEF RowsKept, HasRow
  <1>17. JobKept'
    BY <1>4, <1>6, <1>10 DEF JobKept, SuccessfulJobs
  <1>18. RequestOK'
    BY <1>9, <1>13, <1>14, <1>15, <1>16, <1>17 DEF RequestOK
  <1> QED  BY <1>1, <1>18, ReaderStepInv

LEMMA AnswerStep ==
    ASSUME IInv, ReadJobsAndAnswer
    PROVE  IInv'
  <1>1. NoRequest \in Requests /\ NoRequest.step = "idle"
    BY DEF NoRequest, Requests
  <1>2. RequestOK'
    BY <1>1 DEF ReadJobsAndAnswer, RequestOK, RequestTypes
  <1> QED  BY <1>2, ReaderStepInv DEF ReadJobsAndAnswer

LEMMA StutterStep ==
    ASSUME IInv, UNCHANGED vars
    PROVE  IInv'
  <1>1. UNCHANGED <<jobs, worker, catalog, reading, now, faults, runs>>
    BY DEF vars
  <1>2. RequestOK'
    <2>1. RowsStay
      BY <1>1, CatalogUnchanged, Parts
    <2>2. SuccessfulJobs' = SuccessfulJobs
      BY <1>1 DEF SuccessfulJobs
    <2> QED  BY <1>1, <2>1, <2>2, ReaderKept DEF IInv
  <1> QED  BY <1>1, <1>2, ReaderStepInv

LEMMA NextInv == IInv /\ [Next]_vars => IInv'
  <1> SUFFICES ASSUME IInv, [Next]_vars PROVE IInv'
    OBVIOUS
  <1>1. CASE \E s \in Submissions : StartBackfill(s.window, s.mode)
    BY <1>1, StartStep
  <1>2. CASE \E j \in DOMAIN jobs : ExecuteBackfill(j)
    BY <1>2, ExecuteStep
  <1>3. CASE \E found \in Results : SearchAndDownload(found)
    BY <1>3, SearchStep
  <1>4. CASE BuildComposite
    BY <1>4, BuildStep
  <1>5. CASE \E a \in CompositeAssets : put_composite(a)
    BY <1>5, PutCompositeStep
  <1>6. CASE register_composite_scene
    BY <1>6, RegisterSceneStep
  <1>7. CASE \E a \in {"analytic", "mask"} : register_composite_asset(a)
    BY <1>7, RegisterAssetStep
  <1>8. CASE GenerateIndices
    BY <1>8, GenerateStep
  <1>9. CASE \E i \in IndexNames : put_derived_cog(i) \/ upsert_derived_index(i) \/ upsert_for_raster(i)
    BY <1>9, PutCogStep, PutRasterStep, PutLayerStep
  <1>10. CASE upsert_item \/ scene_names_item
    BY <1>10, PutItemStep, SceneItemStep
  <1>11. CASE FinishPipeline
    BY <1>11, FinishStep
  <1>12. CASE StageRaises \/ WorkerLost
    BY <1>12, FaultStep
  <1>13. CASE Tick
    BY <1>13, TickStep
  <1>14. CASE ReadScenes \/ ReadIndexRows \/ ReadAllRows \/ ReadJobsAndAnswer
    BY <1>14, ReadScenesStep, ReadIndexStep, ReadAllStep, AnswerStep
  <1>15. CASE UNCHANGED vars
    BY <1>15, StutterStep
  <1> QED  BY <1>1, <1>2, <1>3, <1>4, <1>5, <1>6, <1>7, <1>8, <1>9, <1>10, <1>11, <1>12, <1>13,
              <1>14, <1>15 DEF Next, IndexNames

LEMMA AlwaysIInv == Spec => []IInv
  <1> QED  BY InitInv, NextInv, PTL DEF Spec

-----------------------------------------------------------------------------
(***************************************************************************)
(* The theorems.                                                           *)
(***************************************************************************)
LEMMA TypesOfIInv == IInv => TypeOK
  <1> SUFFICES ASSUME IInv PROVE TypeOK
    OBVIOUS
  <1>1. CountsOK /\ JobsOK /\ RowsOK /\ TablesOK
    BY DEF IInv
  <1>2. {j \in DOMAIN jobs : jobs[j].status = "running"} = (IF Active THEN {worker.job} ELSE {})
    BY <1>1 DEF JobsOK, RunningJobs
  <1>3. ASSUME NEW d \in Dates
        PROVE  /\ layer[d] \subseteq {i \in IndexNames : HasRow(d, i)}
               /\ scene[d] = None => \A i \in IndexNames : raster[d][i] = None
               /\ \A i \in IndexNames : cog[d][i] \in Pictures \cup {None}
    <2>1. layer[d] \subseteq IndexNames
      BY <1>1 DEF TablesOK
    <2>2. \A i \in IndexNames : cog[d][i] \in Pictures \cup {None}
      BY <1>1 DEF TablesOK
    <2> QED  BY <1>1, <2>1, <2>2 DEF RowsOK, HasRow
  <1> QED  BY <1>1, <1>2, <1>3 DEF CountsOK, TypeOK, IndexNames

(***************************************************************************)
(* The types, that exactly the job in the worker's hands is marked         *)
(* running, and that rows stand only below a scene and layers only below a *)
(* row (JobRepository, DerivedIndexRepository, TileLayerRepository).       *)
(***************************************************************************)
THEOREM Types == Spec => []TypeOK
  <1> QED  BY AlwaysIInv, TypesOfIInv, PTL

\* What a request has read when it reads the jobs.
LEMMA ReadSoFar ==
    ASSUME IInv, request.step = "jobs"
    PROVE  /\ TablesOK /\ JobsOK /\ RowsOK /\ CountsOK
           /\ request \in Requests /\ begun \in Beginnings
           /\ WholeKept /\ RowsKept /\ JobKept
           /\ \A n \in DOMAIN request.found : \E i \in Required : FoundFor(n, i)
           /\ \A i \in Required : \E n \in DOMAIN request.found : FoundFor(n, i)
           /\ begun.fresh # None =>
                 \/ \E j \in SuccessfulJobs : j.completedAt = begun.fresh
                 \/ \E n \in DOMAIN request.found : \E r \in request.found[n] : r[2] = begun.fresh
  <1>1. TablesOK /\ JobsOK /\ RowsOK /\ CountsOK /\ RequestOK
    BY DEF IInv
  <1>2. RequestTypes /\ ReadingsTrue /\ WholeKept /\ FreshKept /\ RowsKept /\ JobKept
    BY <1>1 DEF RequestOK
  <1>3. \A i \in Required : ~Reading(i)
    BY DEF Reading
  <1>4. request \in Requests /\ begun \in Beginnings
    BY <1>2 DEF RequestTypes
  <1>5. ASSUME begun.fresh # None
        PROVE  \/ \E j \in SuccessfulJobs : j.completedAt = begun.fresh
               \/ \E n \in DOMAIN request.found : \E r \in request.found[n] : r[2] = begun.fresh
    <2>1. CASE \E j \in SuccessfulJobs : j.completedAt = begun.fresh
      BY <2>1
    <2>2. CASE ~\E j \in SuccessfulJobs : j.completedAt = begun.fresh
      <3>1. PICK d \in request.dates, i \in Required, n \in DOMAIN request.found :
               <<d, begun.fresh>> \in request.found[n]
        BY <1>2, <1>3, <1>5, <2>2 DEF FreshKept
      <3> QED  BY <3>1
    <2> QED  BY <2>1, <2>2
  <1> QED  BY <1>1, <1>2, <1>3, <1>4, <1>5 DEF ReadingsTrue

\* The times the answer is dated by: those of the rows found and of the jobs.
FoundTimes ==
    {r[2] : r \in UNION ToSet(request.found)} \cup {j.completedAt : j \in SuccessfulJobs}

LEMMA TimesFound ==
    ASSUME IInv, request.step = "jobs"
    PROVE  /\ freshness_at = Latest(FoundTimes)
           /\ FoundTimes \subseteq FreshnessEvents
           /\ FoundTimes \subseteq 0..LastTick
           /\ begun.fresh # None => begun.fresh \in FoundTimes
  <1>1. ToSet(request.found) = {request.found[n] : n \in DOMAIN request.found}
    BY DEF ToSet
  <1>2. UNION ToSet(request.found) = UNION {request.found[n] : n \in DOMAIN request.found}
    BY <1>1
  <1>3. freshness_at = Latest(FoundTimes)
    BY DEF freshness_at, FoundTimes
  <1>4. ASSUME NEW n \in DOMAIN request.found, NEW r \in request.found[n]
        PROVE  r[2] \in FreshnessEvents /\ r[2] \in FoundTimes
    <2>1. PICK i \in Required : FoundFor(n, i)
      BY ReadSoFar
    <2>2. r[1] \in request.dates /\ HasRow(r[1], i) /\ raster[r[1]][i].created = r[2]
      BY <2>1 DEF FoundFor
    <2>3. r[1] \in Dates
      BY <2>2, ReadSoFar DEF Requests
    <2>4. <<r[1], i>> \in {s \in Dates \X Required : HasRow(s[1], s[2])}
      BY <2>2, <2>3
    <2>5. r[2] \in FreshnessEvents
      BY <2>2, <2>4 DEF FreshnessEvents
    <2> QED  BY <1>2, <2>5 DEF FoundTimes
  <1>5. FoundTimes \subseteq FreshnessEvents
    <2> SUFFICES ASSUME NEW t \in FoundTimes PROVE t \in FreshnessEvents
      OBVIOUS
    <2>1. CASE t \in {j.completedAt : j \in SuccessfulJobs}
      BY <2>1 DEF FreshnessEvents
    <2>2. CASE t \in {r[2] : r \in UNION ToSet(request.found)}
      <3>1. PICK n \in DOMAIN request.found : \E r \in request.found[n] : t = r[2]
        BY <1>2, <2>2
      <3> QED  BY <1>4, <3>1
    <2> QED  BY <2>1, <2>2 DEF FoundTimes
  <1>6. FreshnessEvents \subseteq 0..LastTick
    BY ReadSoFar, EventsAreTicks
  <1>7. begun.fresh # None => begun.fresh \in FoundTimes
    <2> SUFFICES ASSUME begun.fresh # None PROVE begun.fresh \in FoundTimes
      OBVIOUS
    <2>1. CASE \E j \in SuccessfulJobs : j.completedAt = begun.fresh
      BY <2>1 DEF FoundTimes
    <2>2. CASE \E n \in DOMAIN request.found : \E r \in request.found[n] : r[2] = begun.fresh
      BY <1>4, <2>2
    <2> QED  BY <2>1, <2>2, ReadSoFar
  <1> QED  BY <1>3, <1>5, <1>6, <1>7
LEMMA AnswerOfIInv == IInv => ReadinessIsTrue
  <1> SUFFICES ASSUME IInv, request.step = "jobs" PROVE ReadinessIsTrue
    BY DEF ReadinessIsTrue
  <1>1. /\ Answer.dates = available_dates /\ Answer.reasons = unavailable_reasons
        /\ Answer.status = IF unavailable_reasons # {} THEN "UNAVAILABLE"
                           ELSE IF Stale THEN "STALE" ELSE "AVAILABLE"
    BY DEF Answer
  <1>2. begun.whole \subseteq available_dates
    BY ReadSoFar DEF WholeKept, available_dates
  <1>3. ASSUME NEW d \in available_dates, NEW i \in Required
        PROVE  HasRow(d, i) /\ cog[d][i] # None
    <2>1. PICK n \in DOMAIN request.found : FoundFor(n, i)
      BY ReadSoFar
    <2>2. PICK r \in request.found[n] : r[1] = d
      BY DEF available_dates
    <2>3. HasRow(d, i)
      BY <2>1, <2>2 DEF FoundFor
    <2>4. d \in Dates /\ i \in IndexNames
      BY ReadSoFar, Constants DEF available_dates, Requests
    <2> QED  BY <2>3, <2>4, ReadSoFar DEF RowsOK
  <1>4. ASSUME unavailable_reasons = {}
        PROVE  available_dates # {} /\ SuccessfulJobs # {} /\ FoundTimes # {}
    <2>1. SuccessfulJobs # {}
      BY <1>4 DEF unavailable_reasons
    <2>2. available_dates # {}
      BY <1>4 DEF unavailable_reasons
    <2> QED  BY <2>1, <2>2 DEF FoundTimes
  <1>5. /\ freshness_at = Latest(FoundTimes) /\ FoundTimes \subseteq FreshnessEvents
        /\ FoundTimes \subseteq 0..LastTick
        /\ begun.fresh # None => begun.fresh \in FoundTimes
    BY TimesFound
  <1>6. /\ None \notin 0..LastTick /\ MaxAge \in Nat /\ LastTick \in Nat /\ now \in 0..LastTick
    BY Constants, ReadSoFar DEF CountsOK
  <1>7. ASSUME FoundTimes # {}
        PROVE  /\ freshness_at \in FoundTimes /\ freshness_at \in 0..LastTick /\ freshness_at # None
               /\ \A t \in FoundTimes : t <= freshness_at
    BY <1>5, <1>6, <1>7, LatestOfTicks
  <1>8. ASSUME Answer.status = "AVAILABLE"
        PROVE  /\ Answer.dates # {} /\ SuccessfulJobs # {}
               /\ \E t \in FreshnessEvents : now <= t + MaxAge
    <2>1. unavailable_reasons = {} /\ ~Stale
      BY <1>1, <1>8
    <2>2. now <= freshness_at + MaxAge
      BY <1>4, <1>6, <1>7, <2>1 DEF Stale
    <2> QED  BY <1>1, <1>4, <1>5, <1>7, <2>1, <2>2
  <1>9. ASSUME Answer.status = "STALE", begun.fresh # None
        PROVE  now > begun.fresh + MaxAge
    <2>1. unavailable_reasons = {} /\ Stale
      BY <1>1, <1>9
    <2>2. begun.fresh <= freshness_at /\ begun.fresh \in 0..LastTick
      BY <1>4, <1>5, <1>7, <1>9, <2>1
    <2>3. now > freshness_at + MaxAge
      BY <2>1 DEF Stale
    <2> QED  BY <1>4, <1>6, <1>7, <2>1, <2>2, <2>3
  <1>10. Answer.status = "UNAVAILABLE" => Answer.reasons # {}
    BY <1>1
  <1>11. ASSUME "NO_SUCCESSFUL_RESOURCE_SAT_JOB" \in Answer.reasons
         PROVE  ~begun.job
    BY <1>1, <1>11, ReadSoFar DEF unavailable_reasons, JobKept
  <1>12. ASSUME "NO_RESOURCE_SAT_OUTPUTS" \in Answer.reasons
         PROVE  ~begun.rows
    BY <1>1, <1>12, ReadSoFar DEF unavailable_reasons, RowsKept
  <1>13. ASSUME "MISSING_INDEX_COVERAGE" \in Answer.reasons
         PROVE  begun.whole = {}
    BY <1>1, <1>2, <1>13 DEF unavailable_reasons
  <1> QED  BY <1>1, <1>2, <1>3, <1>8, <1>9, <1>10, <1>11, <1>12, <1>13 DEF ReadinessIsTrue

(***************************************************************************)
(* The answer of AnalyticsReadinessService, made of four queries between   *)
(* which jobs go on writing, is true: it names no date that lacks a row or *)
(* an object, leaves out no date that was whole when it began, is          *)
(* AVAILABLE only on a completed output-producing job and something recent *)
(* enough, and gives no reason that did not hold when it began.            *)
(***************************************************************************)
THEOREM AnswersAreTrue == Spec => []ReadinessIsTrue
  <1> QED  BY AlwaysIInv, AnswerOfIInv, PTL

-----------------------------------------------------------------------------
(***************************************************************************)
(* A completed date.                                                       *)
(***************************************************************************)
\* Only the job in hand is ever completed, and of a full pipeline only after
\* its last write.
LEMMA OnlyFinishCompletes ==
    ASSUME IInv, [Next]_vars, NEW j \in DOMAIN jobs, Completes(j), jobs[j].mode = "full_pipeline"
    PROVE  FinishPipeline /\ j = worker.job
  <1>1. JobsOK /\ jobs \in Seq(JobRows)
    BY DEF IInv, JobsOK
  <1>2. jobs[j].status # "completed" /\ jobs'[j].status = "completed"
    BY DEF Completes
  <1>3. CASE UNCHANGED jobs
    BY <1>2, <1>3
  <1>4. CASE \E s \in Submissions : StartBackfill(s.window, s.mode)
    <2>1. PICK row : jobs' = Append(jobs, row)
      BY <1>4 DEF StartBackfill
    <2>2. jobs'[j] = jobs[j]
      BY <1>1, <2>1
    <2> QED  BY <1>2, <2>2
  <1>5. ASSUME NEW k \in DOMAIN jobs, NEW status \in {"queued", "running", "failed"},
               jobs' = [jobs EXCEPT ![k].status = status]
        PROVE  FALSE
    <2>1. CASE k = j
      <3>1. jobs'[j] = [jobs[j] EXCEPT !.status = status]
        BY <1>1, <1>5, <2>1
      <3>2. "status" \in DOMAIN jobs[j]
        <4>1. jobs[j] \in JobRows
          BY <1>1
        <4> QED  BY <4>1 DEF JobRows
      <3>3. jobs'[j].status = status
        BY <3>1, <3>2
      <3> QED  BY <1>2, <3>3
    <2>2. CASE k # j
      BY <1>1, <1>2, <1>5, <2>2
    <2> QED  BY <2>1, <2>2
  <1>6. worker.stage # "idle" => worker.job \in DOMAIN jobs
    BY <1>1 DEF JobsOK
  <1>7. ASSUME Active
        PROVE  worker.job \in DOMAIN jobs
    <2>1. worker # Idle
      BY <1>7 DEF Active, Idle
    <2> QED  BY <1>1, <1>6, <2>1 DEF JobsOK
  <1>8. ASSUME NEW produced, CompleteJob(produced), worker.job \in DOMAIN jobs
        PROVE  j = worker.job
    <2>1. CASE j # worker.job
      <3>1. jobs'[j] = jobs[j]
        BY <1>1, <1>8, <2>1 DEF CompleteJob
      <3> QED  BY <1>2, <3>1
    <2> QED  BY <2>1
  <1>9. CASE \E k \in DOMAIN jobs : ExecuteBackfill(k)
    BY <1>5, <1>9 DEF ExecuteBackfill
  <1>10. CASE \E found \in Results : SearchAndDownload(found)
    <2>1. CurrentMode \in {"metadata_only", "download_only"} \/ UNCHANGED jobs
      BY <1>10 DEF SearchAndDownload
    <2>2. CASE UNCHANGED jobs
      BY <1>3, <2>2
    <2>3. CASE CurrentMode \in {"metadata_only", "download_only"}
      <3>1. worker.job \in DOMAIN jobs /\ CompleteJob(FALSE)
        BY <1>6, <1>10, <2>3 DEF SearchAndDownload
      <3>2. j = worker.job
        BY <1>8, <3>1
      <3> QED  BY <2>3, <3>2 DEF CurrentMode
    <2> QED  BY <2>1, <2>2, <2>3
  <1>11. CASE BuildComposite
    <2>1. worker.job \in DOMAIN jobs
      BY <1>6, <1>11 DEF BuildComposite
    <2>2. CASE CurrentMode = "prepare_only"
      <3>1. CompleteJob(FALSE)
        BY <1>11, <2>2 DEF BuildComposite
      <3>2. j = worker.job
        BY <1>8, <2>1, <3>1
      <3> QED  BY <2>2, <3>2 DEF CurrentMode
    <2>3. CASE CurrentMode # "prepare_only"
      <3>1. UNCHANGED jobs \/ jobs' = [jobs EXCEPT ![worker.job].status = "failed"]
        BY <1>11, <2>3 DEF BuildComposite
      <3> QED  BY <1>3, <1>5, <2>1, <3>1
    <2> QED  BY <2>2, <2>3
  <1>12. CASE \/ \E a \in CompositeAssets : put_composite(a)
              \/ register_composite_scene
              \/ \E a \in {"analytic", "mask"} : register_composite_asset(a)
    BY <1>3, <1>12 DEF put_composite, register_composite_scene, register_composite_asset, Writes
  <1>13. CASE GenerateIndices
    <2>1. CASE CurrentMode = "composite_only"
      <3>1. worker.job \in DOMAIN jobs /\ CompleteJob(FALSE)
        BY <1>6, <1>13, <2>1 DEF GenerateIndices
      <3>2. j = worker.job
        BY <1>8, <3>1
      <3> QED  BY <2>1, <3>2 DEF CurrentMode
    <2>2. CASE CurrentMode # "composite_only"
      BY <1>3, <1>13, <2>2 DEF GenerateIndices
    <2> QED  BY <2>1, <2>2
  <1>14. CASE \/ \E i \in IndexNames :
                    put_derived_cog(i) \/ upsert_derived_index(i) \/ upsert_for_raster(i)
              \/ upsert_item \/ scene_names_item
    BY <1>3, <1>14 DEF put_derived_cog, upsert_derived_index, upsert_for_raster, upsert_item,
                       scene_names_item, Writes
  <1>15. CASE FinishPipeline
    BY <1>6, <1>8, <1>15 DEF FinishPipeline
  <1>16. CASE StageRaises
    BY <1>5, <1>7, <1>16 DEF StageRaises
  <1>17. CASE WorkerLost
    BY <1>5, <1>7, <1>17 DEF WorkerLost
  <1>18. CASE Tick \/ ReadScenes \/ ReadIndexRows \/ ReadAllRows \/ ReadJobsAndAnswer \/ UNCHANGED vars
    BY <1>3, <1>18 DEF Tick, ReadScenes, ReadIndexRows, ReadAllRows, ReadJobsAndAnswer, vars
  <1> QED  BY <1>4, <1>9, <1>10, <1>11, <1>12, <1>13, <1>14, <1>15, <1>16, <1>17, <1>18
           DEF Next, IndexNames
\* Of the products in hand the pictures are those of the reference.
LEMMA PictureIsShown ==
    ASSUME NEW S \in SUBSET Products, NEW index,
           index = [x \in Pixels |-> IF Shows(S, x) # None /\ Usable(Shows(S, x), x)
                                        THEN Shows(S, x) ELSE None]
    PROVE  /\ [x \in Pixels |-> Reference(S)[x].from] = [x \in Pixels |-> Shows(S, x)]
           /\ [x \in Pixels |-> Reference(S)[x].class] = [x \in Pixels |-> MaskShown(S, x)]
           /\ IndexOf(Reference(S)) = index
  <1>1. \A x \in Pixels : /\ Reference(S)[x].from = Shows(S, x)
                          /\ Reference(S)[x].class = MaskShown(S, x)
    BY DEF Reference
  <1>2. ASSUME NEW x \in Pixels
        PROVE  IndexOf(Reference(S))[x] = index[x]
    <2>1. IndexOf(Reference(S))[x] =
             IF MaskShown(S, x) \in ValidMaskClasses THEN Shows(S, x) ELSE None
      BY <1>1 DEF IndexOf
    <2>2. CASE Shows(S, x) = None
      <3>1. index[x] = None
        BY <2>2
      <3> QED  BY <2>1, <2>2, <3>1
    <2>3. CASE Shows(S, x) # None
      <3>1. PICK p \in Products : Shows(S, x) = p
        BY <2>3, NothingShown
      <3>2. MaskShown(S, x) = MaskOf[p][x]
        BY <2>3, <3>1 DEF MaskShown
      <3>3. MaskShown(S, x) \in ValidMaskClasses <=> Usable(p, x)
        BY <3>1, <3>2, MaskClasses
      <3>4. index[x] = IF Usable(p, x) THEN p ELSE None
        BY <2>3, <3>1
      <3> QED  BY <2>1, <3>1, <3>3, <3>4
    <2> QED  BY <2>2, <2>3
  <1>3. IndexOf(Reference(S)) = [x \in Pixels |-> IndexOf(Reference(S))[x]]
    BY DEF IndexOf
  <1>4. index = [x \in Pixels |-> index[x]]
    OBVIOUS
  <1>5. IndexOf(Reference(S)) = index
    BY <1>2, <1>3, <1>4
  <1> QED  BY <1>1, <1>5

\* When nothing of the index stage is left, the whole date is of the products
\* in hand.
LEMMA NothingLeft ==
    ASSUME IInv, worker.stage = "index", worker.left = <<>>
    PROVE  /\ date \in jobs[worker.job].window
           /\ worker.composite.of \in SUBSET Products /\ worker.composite.of # {}
           /\ \A p \in worker.composite.of : DateOf[p] = date
           /\ DateComesFrom(date, worker.composite.of)
  <1>1. TablesOK /\ Building /\ Indexing
    BY DEF IInv
  <1>2. /\ worker.composite \in [of : SUBSET Products, date : Dates, picture : Images]
        /\ worker.composite.of # {} /\ \A p \in worker.composite.of : DateOf[p] = date
        /\ date \in jobs[worker.job].window /\ picture = BestAvailable[worker.composite.of]
    BY <1>1 DEF Building
  <1>3. PICK S : S = worker.composite.of
    OBVIOUS
  <1>4. S \in SUBSET Products /\ date \in Dates /\ picture = Reference(S)
    BY <1>2, <1>3, BestAvailableIsReference DEF date
  <1>5. \A w \in CompositeDue : CompositeWritten(w)
    BY <1>1 DEF Indexing
  <1>6. \A w \in IndexDue : IndexWritten(w)
    BY <1>1 DEF Indexing, Pending
  <1>7. PICK shown : shown = [x \in Pixels |-> Shows(S, x)]
    OBVIOUS
  <1>8. PICK masks : masks = [x \in Pixels |-> MaskShown(S, x)]
    OBVIOUS
  <1>9. PICK index : index = [x \in Pixels |-> IF Shows(S, x) # None /\ Usable(Shows(S, x), x)
                                                  THEN Shows(S, x) ELSE None]
    OBVIOUS
  <1>10. index = [x \in Pixels |-> IF shown[x] # None /\ Usable(shown[x], x) THEN shown[x] ELSE None]
    BY <1>7, <1>9
  <1>11. /\ [x \in Pixels |-> picture[x].from] = shown
         /\ [x \in Pixels |-> picture[x].class] = masks
         /\ IndexOf(picture) = index
    BY <1>4, <1>7, <1>8, <1>9, PictureIsShown
  <1>12. Held("analytic") = shown /\ Held("mask") = masks /\ Held("manifest") = S
    BY <1>3, <1>11 DEF Held
  <1>13. object[date] = [analytic |-> shown, mask |-> masks, manifest |-> S]
    <2>1. /\ <<"object", "analytic">> \in CompositeDue /\ <<"object", "mask">> \in CompositeDue
          /\ <<"object", "manifest">> \in CompositeDue
      BY DEF CompositeDue, CompositeAssets
    <2>2. /\ object[date]["analytic"] = shown /\ object[date]["mask"] = masks
          /\ object[date]["manifest"] = S
      BY <1>5, <1>12, <2>1 DEF CompositeWritten
    <2>3. object[date] \in [CompositeAssets -> Contents]
      BY <1>1, <1>4 DEF TablesOK
    <2> QED  BY <2>2, <2>3 DEF CompositeAssets
  <1>14. asset[date] = [analytic |-> shown, mask |-> masks]
    <2>1. <<"asset", "analytic">> \in CompositeDue /\ <<"asset", "mask">> \in CompositeDue
      BY DEF CompositeDue
    <2>2. asset[date]["analytic"] = shown /\ asset[date]["mask"] = masks
      BY <1>5, <1>12, <2>1 DEF CompositeWritten
    <2>3. asset[date] \in [{"analytic", "mask"} -> Contents]
      BY <1>1, <1>4 DEF TablesOK
    <2> QED  BY <2>2, <2>3
  <1>15. scene[date] = [of |-> S, item |-> TRUE]
    <2>1. <<"scene item", None>> \in IndexDue
      BY DEF IndexDue
    <2> QED  BY <1>3, <1>6, <2>1 DEF IndexWritten
  <1>16. item[date] = [i \in IndexNames |-> index]
    <2>1. <<"item", None>> \in IndexDue
      BY DEF IndexDue
    <2> QED  BY <1>6, <1>11, <2>1 DEF IndexWritten
  <1>17. ASSUME NEW i \in IndexNames
         PROVE  /\ i \in layer[date] /\ cog[date][i] = index
                /\ raster[date][i].of = index /\ item[date][i] = index
    <2>1. <<"cog", i>> \in IndexDue /\ <<"raster", i>> \in IndexDue /\ <<"layer", i>> \in IndexDue
      BY DEF IndexDue
    <2> QED  BY <1>6, <1>11, <1>16, <2>1 DEF IndexWritten
  <1>18. layer[date] = IndexNames
    <2>1. layer[date] \subseteq IndexNames
      BY <1>1, <1>4 DEF TablesOK
    <2> QED  BY <1>17, <2>1
  <1>19. DateComesFrom(date, S)
    BY <1>7, <1>8, <1>10, <1>13, <1>14, <1>15, <1>17, <1>18 DEF DateComesFrom, IndexNames
  <1> QED  BY <1>2, <1>3, <1>4, <1>19

LEMMA CompletedStep ==
    ASSUME IInv, [Next]_vars, NEW j \in DOMAIN jobs, Completes(j), jobs[j].mode = "full_pipeline"
    PROVE  \E d \in jobs[j].window, S \in SUBSET Products :
              /\ S # {} /\ \A p \in S : DateOf[p] = d
              /\ worker.composite.of = S
              /\ DateComesFrom(d, S)
  <1>1. FinishPipeline /\ j = worker.job
    BY OnlyFinishCompletes
  <1>2. worker.stage = "index" /\ worker.left = <<>>
    BY <1>1 DEF FinishPipeline
  <1> QED  BY <1>1, <1>2, NothingLeft

(***************************************************************************)
(* When a full pipeline completes, everything its date serves - composite  *)
(* objects, scene, asset, raster and layer rows, derived objects, pgSTAC   *)
(* item - comes from one set of products of that date, and each pixel      *)
(* shows the newest usable product or else the oldest that covers it, as   *)
(* build_best_available_composite is documented to choose; whatever        *)
(* failed, lost or composite-only jobs had left on the date before.        *)
(***************************************************************************)
THEOREM CompletedDates == Spec => CompletedDateIsOneComposite
  <1>1. IInv /\ [Next]_vars =>
          (\A j \in DOMAIN jobs : Completes(j) /\ jobs[j].mode = "full_pipeline" =>
             \E d \in jobs[j].window, S \in SUBSET Products :
                /\ S # {} /\ \A p \in S : DateOf[p] = d
                /\ worker.composite.of = S
                /\ DateComesFrom(d, S))
    BY CompletedStep
  <1> QED  BY <1>1, AlwaysIInv, PTL DEF Spec, CompletedDateIsOneComposite
=============================================================================
