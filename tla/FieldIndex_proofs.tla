-------------------------- MODULE FieldIndex_proofs --------------------------
(***************************************************************************)
(* Proofs about FieldIndex: its type invariant, that an answer is the best *)
(* of what the request cannot have missed, and that the reason given for a *)
(* date without data is true.                                              *)
(***************************************************************************)
EXTENDS FieldIndex, FiniteSetTheorems, WellFoundedInduction, TLAPS

Calls ==
    [pc : {"idle", "list", "examine", "explain", "done"}, kind : {"", "index", "dates"},
     date : Int, dates : SUBSET Dates, limit : Nat, queue : SUBSET Scenes,
     options : SUBSET Scenes, failures : Nat, rejections : SUBSET Rejections,
     answer : [Dates -> [status : Statuses, scene : Scenes \cup {NoScene}]],
     derived0 : SUBSET Scenes, unsure : SUBSET Scenes]

Working(c) == c.pc \in {"list", "examine", "explain"}

\* A request that was made is for days and a limit that are asked for.
Made(c) ==
    /\ c.kind \in {"index", "dates"} /\ c.limit \in CloudLimits
    /\ c.date \in Asked(c) /\ Asked(c) \subseteq Dates
    /\ c.kind = "index" => c.dates = {}

\* What a request has in hand at each of its steps.
InHand(c) ==
    /\ c.queue \cup c.options \subseteq InWindow(c.date, Window(c))
    /\ c.failures + Cardinality(c.queue) <= MaxCandidates
    /\ c.pc \notin {"examine", "explain"} => c.queue = {} /\ c.failures = 0
    /\ c.pc # "examine" => c.options = {} /\ c.failures = 0
    /\ c.pc = "explain" => c.kind = "dates"
    /\ c.pc # "explain" => c.rejections = {}

AnswersTyped(c) ==
    \A d \in Dates : c.answer[d].scene \in Scenes <=> c.answer[d].status = "AVAILABLE"

\* Processing only goes on, and what a request met unreadable it remembers.
Remembered(c) ==
    /\ c.derived0 \subseteq derived
    /\ Working(c) => unreadable \subseteq c.unsure

CatalogueOK ==
    /\ derived \subseteq registered /\ registered \subseteq Scenes
    /\ unreadable \subseteq derived /\ outages \in 0..MaxOutages
    /\ \A s \in derived : Seen[s].composite

CallOK(c) ==
    /\ c \in Calls
    /\ c.pc = "idle" => c = Idle
    /\ c.pc # "idle" => Made(c)
    /\ InHand(c) /\ AnswersTyped(c) /\ Remembered(c)

Types == CatalogueOK /\ call \in [Requests -> Calls] /\ \A r \in Requests : CallOK(call[r])

\* The days that have been settled.
Answered(c) ==
    IF c.pc = "done" THEN Asked(c)
    ELSE IF Working(c) THEN {d \in Asked(c) : d > c.date} ELSE {}

\* The best of what the request cannot have missed.
BestOf(c, d, status, chosen) ==
    IF status = "AVAILABLE"
    THEN /\ Eligible(chosen, c.limit) /\ Seen[chosen].composite
         /\ _date_distance_days(chosen, d) <= Window(c)
         /\ \A t \in Sure(c, d) : Eligible(t, c.limit) => ~Preferred(t, chosen, d)
    ELSE \A t \in Sure(c, d) : ~Eligible(t, c.limit)

\* No scene that the request cannot have missed is lost between the list and
\* the choice.
OptionsOK(c) ==
    /\ \A s \in c.options : Eligible(s, c.limit) /\ Seen[s].composite
    /\ c.pc = "examine" =>
          \A s \in Sure(c, c.date) : s \in c.queue \/ (Eligible(s, c.limit) => s \in c.options)
    /\ c.pc = "explain" => \A s \in Sure(c, c.date) : ~Eligible(s, c.limit)

Best(c) ==
    /\ OptionsOK(c)
    /\ \A d \in Answered(c) : BestOf(c, d, c.answer[d].status, c.answer[d].scene)

OfDay(d) == {s \in registered : Seen[s].day = d}

\* As many scenes are listed before this one as a list has room for.
Crowded(s, d) == Cardinality({t \in InWindow(d, 0) : ListedBefore(t, s, d)}) >= MaxCandidates

TooCloudy(s, limit) ==
    Seen[s].onField /\ Seen[s].coverage >= MinCoverage /\ Seen[s].obscured > limit

\* A reason that is true of the day.
TrueOf(c, d, reason) ==
    /\ reason = "PROCESSING_PENDING" => OfDay(d) \ c.derived0 # {}
    /\ reason = "PROCESSING_FAILED" =>
          c.unsure # {} \/ \E s \in OfDay(d) : Seen[s].pixels < MinPixels

ReasonOK(c, d, status) ==
    /\ TrueOf(c, d, status)
    /\ status = "NO_FIELD_INTERSECTION" => \A s \in Sure(c, d) : ~Seen[s].onField
    /\ \A s \in Sure(c, d) : TooCloudy(s, c.limit) =>
          \/ status \in {"AVAILABLE", "CLOUD_THRESHOLD_EXCEEDED"}
          \/ status = "PROCESSING_FAILED" /\ c.unsure # {}

\* A scene that was ready when the request began and is not an option is one
\* that could not be read, that was beyond the list, or that fails a gate.
Accounted(c) ==
    \A s \in c.derived0 \cap InWindow(c.date, 0) :
        \/ s \in c.queue \/ c.failures > 0 \/ Crowded(s, c.date)
        \/ Eligible(s, c.limit) => s \in c.options

Explaining(c) ==
    /\ \A s \in c.queue : s \in c.derived0 => ~Eligible(s, c.limit)
    /\ c.queue # {} \/ c.rejections # {} \/ OfDay(c.date) \ c.derived0 # {}
    /\ \A reason \in c.rejections : TrueOf(c, c.date, reason)
    /\ \A s \in Sure(c, c.date) :
          \/ s \in c.queue \/ ~Seen[s].onField
          \/ /\ c.rejections \ {"NO_FIELD_INTERSECTION"} # {}
             /\ TooCloudy(s, c.limit) => "CLOUD_THRESHOLD_EXCEEDED" \in c.rejections

Reasons(c) ==
    c.kind = "dates" =>
        /\ c.failures > 0 => c.unsure # {}
        /\ c.pc = "examine" => Accounted(c)
        /\ c.pc = "explain" => Explaining(c)
        /\ \A d \in Answered(c) : ReasonOK(c, d, c.answer[d].status)

AllBest == \A r \in Requests : Best(call[r])
AllReasons == \A r \in Requests : Reasons(call[r])

\* Two scenes of one instant are not on either side of the end of a list.
NoTieAtCut ==
    \A s, t \in Scenes :
        s # t /\ Seen[s].day = Seen[t].day /\ Seen[s].acquired = Seen[t].acquired
        => Cardinality({u \in Scenes : Seen[u].day = Seen[s].day}) <= MaxCandidates

-----------------------------------------------------------------------------
(***************************************************************************)
(* Numbers and finite sets of them.                                        *)
(***************************************************************************)
SmallerThan == {pair \in Nat \X Nat : pair[1] < pair[2]}

LEMMA SmallestOfSet ==
    ASSUME NEW S, S \subseteq Nat, S # {}
    PROVE  \E n \in S : \A m \in S : n <= m
  <1>1. OpToRel(<, Nat) = SmallerThan
    BY DEF OpToRel, SmallerThan
  <1>2. IsWellFoundedOn(SmallerThan, Nat)
    BY <1>1, NatLessThanWellFounded, Zenon
  <1>3. PICK n \in S : \A m \in S : ~(<<m, n>> \in SmallerThan)
    BY <1>2, WFMin
  <1>4. ASSUME NEW m \in S
        PROVE  n <= m
    <2>1. m \in Nat /\ n \in Nat
      OBVIOUS
    <2>2. ~(m < n)
      BY <1>3, <2>1 DEF SmallerThan
    <2> QED  BY <2>1, <2>2
  <1> QED  BY <1>4

\* A finite set of numbers has a greatest one: of the elements, the one that has
\* the fewest above it.
LEMMA GreatestOfSet ==
    ASSUME NEW S, IsFiniteSet(S), S # {}, S \subseteq Int
    PROVE  \E n \in S : \A m \in S : m <= n
  <1> DEFINE above == [n \in S |-> {m \in S : m > n}]
             counts == {Cardinality(above[n]) : n \in S}
  <1>1. ASSUME NEW n \in S
        PROVE  IsFiniteSet(above[n]) /\ Cardinality(above[n]) \in Nat
    <2>1. above[n] \in SUBSET S
      OBVIOUS
    <2> QED  BY <2>1, FS_Subset, FS_CardinalityType
  <1>2. \A m, n \in S : m \in above[n] <=> m > n
    OBVIOUS
  <1>3. \A n \in S : above[n] \subseteq S
    OBVIOUS
  <1> HIDE DEF above
  <1>4. counts \subseteq Nat /\ counts # {}
    BY <1>1
  <1>5. PICK k \in counts : \A l \in counts : k <= l
    BY <1>4, SmallestOfSet
  <1>6. PICK n \in S : k = Cardinality(above[n])
    BY <1>5
  <1>7. ASSUME NEW m \in S, m > n
        PROVE  FALSE
    <2>1. \A l \in S : l > m => l > n
      BY <1>7
    <2>2. ~(m > m)
      OBVIOUS
    <2>3. above[m] \in SUBSET above[n] /\ m \in above[n] /\ m \notin above[m]
      BY <1>2, <1>3, <1>7, <2>1, <2>2
    <2>4. Cardinality(above[m]) <= Cardinality(above[n]) /\ Cardinality(above[m]) # Cardinality(above[n])
      BY <1>1, <2>3, FS_Subset
    <2>5. k <= Cardinality(above[m])
      BY <1>5
    <2> QED  BY <1>1, <1>6, <2>4, <2>5
  <1>8. \A m \in S : ~(m > n)
    BY <1>7
  <1> QED  BY <1>8

\* The latest of some days is one of them, and no day is between.
LEMMA LatestOfDays ==
    ASSUME NEW days, days \subseteq Dates, days # {}
    PROVE  Max(days) \in days /\ \A d \in days : d <= Max(days)
  <1>1. IsFiniteSet(days) /\ days \subseteq Int
    BY BoundsAssumption, FS_Subset
  <1>2. PICK n \in days : \A m \in days : m <= n
    BY <1>1, GreatestOfSet
  <1>3. n \in days /\ \A m \in days : n >= m
    BY <1>1, <1>2
  <1>4. Max(days) \in days /\ \A m \in days : Max(days) >= m
    BY <1>3, Zenon DEF Max
  <1> QED  BY <1>1, <1>4

LEMMA LowerOfTwo ==
    ASSUME NEW a \in Int, NEW b \in Int
    PROVE  Min({a, b}) \in {a, b} /\ Min({a, b}) <= a /\ Min({a, b}) <= b
  <1>1. \E n \in {a, b} : \A m \in {a, b} : n <= m
    OBVIOUS
  <1>2. Min({a, b}) \in {a, b} /\ \A m \in {a, b} : Min({a, b}) <= m
    BY <1>1, Zenon DEF Min
  <1> QED  BY <1>2

LEMMA PercentageType ==
    ASSUME NEW part, NEW whole, IsFiniteSet(part), IsFiniteSet(whole)
    PROVE  _percentage(part, whole) \in Int
  <1>1. CASE whole = {}
    BY <1>1 DEF _percentage
  <1>2. CASE whole # {}
    <2>1. Cardinality(part) \in Nat /\ Cardinality(whole) \in Nat \ {0}
      BY <1>2, FS_CardinalityType, FS_EmptySet
    <2>2. \A n \in Nat, m \in Nat \ {0} : (100 * n) \div m \in Int
      OBVIOUS
    <2> QED  BY <1>2, <2>1, <2>2 DEF _percentage
  <1> QED  BY <1>1, <1>2

LEMMA SeenTypes ==
    ASSUME NEW s \in Scenes
    PROVE  /\ Seen[s].day \in Int /\ Seen[s].acquired \in Int /\ Seen[s].cloud \in Int
           /\ Seen[s].product \in Int /\ Seen[s].coverage \in Int
           /\ Seen[s].obscured \in Int /\ Seen[s].pixels \in Int /\ Seen[s].usable \in Int
           /\ Seen[s].composite \in BOOLEAN /\ Seen[s].onField \in BOOLEAN
  <1> DEFINE field == DOMAIN Mask[s]
             Of(classes) == {x \in field : Mask[s][x] \in classes}
  <1>1. IsFiniteSet(field) /\ IsFiniteSet(Valued[s]) /\ \A classes : IsFiniteSet(Of(classes))
    <2>1. IsFiniteSet(field) /\ Valued[s] \subseteq field
      BY SeenAssumption
    <2>2. \A classes : Of(classes) \subseteq field
      OBVIOUS
    <2> QED  BY <2>1, <2>2, FS_Subset
  <1>2. Cardinality(Of({"usable"})) \in Int /\ Cardinality(Valued[s]) \in Int
    <2>1. IsFiniteSet(Of({"usable"}))
      BY <1>1
    <2> HIDE DEF Of, field
    <2>2. Cardinality(Of({"usable"})) \in Nat /\ Cardinality(Valued[s]) \in Nat
      BY <1>1, <2>1, FS_CardinalityType
    <2> QED  BY <2>2
  <1> DEFINE mask == categorical_mask_stats(Mask[s])
             raster == raster_stats(Valued[s], field)
  <1>3. /\ mask.onField \in BOOLEAN /\ mask.usablePixels \in Int /\ mask.usable \in Int
        /\ mask.coverage \in Int /\ mask.obscured \in Int
    <2>1. /\ mask.onField = (field # {}) /\ mask.usablePixels = Cardinality(Of({"usable"}))
          /\ mask.usable = _percentage(Of({"usable"}), field)
          /\ mask.coverage = _percentage(Of(MaskClasses \ {"nodata"}), field)
          /\ mask.obscured = _percentage(Of({"cloud", "shadow"}), field)
      BY DEF categorical_mask_stats
    <2> HIDE DEF Of, field, mask
    <2>2. /\ _percentage(Of({"usable"}), field) \in Int
          /\ _percentage(Of(MaskClasses \ {"nodata"}), field) \in Int
          /\ _percentage(Of({"cloud", "shadow"}), field) \in Int
      BY <1>1, PercentageType
    <2> QED  BY <1>2, <2>1, <2>2
  <1>4. raster.validPixels \in Int /\ raster.usable \in Int
    <2>1. raster.validPixels = Cardinality(Valued[s]) /\ raster.usable = _percentage(Valued[s], field)
      BY DEF raster_stats
    <2>2. _percentage(Valued[s], field) \in Int
      BY <1>1, PercentageType
    <2> QED  BY <1>2, <2>1, <2>2
  <1>5. Measured(s) = [onField |-> mask.onField, coverage |-> mask.coverage,
                       obscured |-> mask.obscured,
                       pixels |-> Min({mask.usablePixels, raster.validPixels}),
                       usable |-> Min({mask.usable, raster.usable})]
    BY DEF Measured
  <1> HIDE DEF mask, raster, Of, field
  <1>6. Min({mask.usablePixels, raster.validPixels}) \in Int /\ Min({mask.usable, raster.usable}) \in Int
    BY <1>3, <1>4, LowerOfTwo
  <1>7. /\ Measured(s).onField \in BOOLEAN /\ Measured(s).coverage \in Int
        /\ Measured(s).obscured \in Int /\ Measured(s).pixels \in Int /\ Measured(s).usable \in Int
    BY <1>3, <1>5, <1>6
  <1>8. Row[s] \in [day : Int, acquired : Int, cloud : Nat, product : Nat, composite : BOOLEAN]
    BY SeenAssumption
  <1>9. Seen[s] = [day |-> Row[s].day, acquired |-> Row[s].acquired, cloud |-> Row[s].cloud,
                   product |-> Row[s].product, composite |-> Row[s].composite,
                   onField |-> Measured(s).onField, coverage |-> Measured(s).coverage,
                   obscured |-> Measured(s).obscured, pixels |-> Measured(s).pixels,
                   usable |-> Measured(s).usable]
    BY DEF Seen
  <1> QED  BY <1>7, <1>8, <1>9

-----------------------------------------------------------------------------
(***************************************************************************)
(* The orders of the lists and of the options.                             *)
(***************************************************************************)
LEMMA DistanceType ==
    ASSUME NEW s \in Scenes, NEW d \in Int
    PROVE  _date_distance_days(s, d) \in Nat /\ (_date_distance_days(s, d) <= 0 <=> Seen[s].day = d)
  BY SeenTypes DEF _date_distance_days

LEMMA ListOrder ==
    ASSUME NEW s \in Scenes, NEW t \in Scenes, NEW d \in Int
    PROVE  ListedBefore(t, s, d) <=>
               \/ _date_distance_days(t, d) < _date_distance_days(s, d)
               \/ /\ _date_distance_days(t, d) = _date_distance_days(s, d)
                  /\ Seen[t].acquired > Seen[s].acquired
  <1> DEFINE key == <<_date_distance_days(t, d), -Seen[t].acquired>>
             other == <<_date_distance_days(s, d), -Seen[s].acquired>>
  <1>1. /\ _date_distance_days(t, d) \in Nat /\ _date_distance_days(s, d) \in Nat
        /\ Seen[t].acquired \in Int /\ Seen[s].acquired \in Int
    BY DistanceType, SeenTypes
  <1>2. DOMAIN key = {1, 2} /\ 1..(1 - 1) = {} /\ 1..(2 - 1) = {1}
    OBVIOUS
  <1>3. ListedBefore(t, s, d) <=>
            key[1] < other[1] \/ (key[2] < other[2] /\ key[1] = other[1])
    <2>1. ListedBefore(t, s, d) <=>
            \E i \in {1, 2} : key[i] < other[i] /\ \A j \in 1..(i - 1) : key[j] = other[j]
      BY <1>2 DEF ListedBefore, Precedes
    <2> HIDE DEF key, other
    <2> QED  BY <1>2, <2>1
  <1>4. key[2] < other[2] <=> Seen[t].acquired > Seen[s].acquired
    BY <1>1
  <1> QED  BY <1>3, <1>4

\* What is preferred has the smaller key.
LEMMA PreferredIsBetter ==
    ASSUME NEW s \in Scenes, NEW t \in Scenes, NEW d \in Int, Preferred(t, s, d)
    PROVE  BetterOption(t, s, d)
  <1> DEFINE key == _candidate_quality_key(t, d)
             other == _candidate_quality_key(s, d)
  <1>1. DOMAIN key = {1, 2, 3, 4, 5}
    BY DEF _candidate_quality_key
  <1>2. /\ key[1] = _date_distance_days(t, d) /\ key[2] = -Seen[t].usable
        /\ key[3] = -Seen[t].coverage /\ key[4] = Seen[t].obscured /\ key[5] = Seen[t].product
        /\ other[1] = _date_distance_days(s, d) /\ other[2] = -Seen[s].usable
        /\ other[3] = -Seen[s].coverage /\ other[4] = Seen[s].obscured /\ other[5] = Seen[s].product
    BY DEF _candidate_quality_key
  <1>3. ASSUME NEW i \in {1, 2, 3, 4, 5}, key[i] < other[i], \A j \in 1..(i - 1) : key[j] = other[j]
        PROVE  BetterOption(t, s, d)
    BY <1>1, <1>3 DEF BetterOption, Precedes
  <1> HIDE DEF key, other
  <1>4. /\ _date_distance_days(t, d) \in Nat /\ _date_distance_days(s, d) \in Nat
        /\ Seen[t].usable \in Int /\ Seen[t].coverage \in Int /\ Seen[t].obscured \in Int
        /\ Seen[t].product \in Int
        /\ Seen[s].usable \in Int /\ Seen[s].coverage \in Int /\ Seen[s].obscured \in Int
        /\ Seen[s].product \in Int
    BY DistanceType, SeenTypes
  <1>5. /\ 1..(1 - 1) = {} /\ 1..(2 - 1) = {1} /\ 1..(3 - 1) = {1, 2} /\ 1..(4 - 1) = {1, 2, 3}
        /\ 1..(5 - 1) = {1, 2, 3, 4}
    OBVIOUS
  <1>6. \/ key[1] < other[1]
        \/ key[2] < other[2] /\ key[1] = other[1]
        \/ key[3] < other[3] /\ key[1] = other[1] /\ key[2] = other[2]
        \/ key[4] < other[4] /\ key[1] = other[1] /\ key[2] = other[2] /\ key[3] = other[3]
        \/ /\ key[5] < other[5] /\ key[1] = other[1] /\ key[2] = other[2] /\ key[3] = other[3]
           /\ key[4] = other[4]
    BY <1>2, <1>4 DEF Preferred
  <1> QED  BY <1>3, <1>5, <1>6

-----------------------------------------------------------------------------
(***************************************************************************)
(* Lists, and the scenes that no list misses.                              *)
(***************************************************************************)
LEMMA WindowTypes ==
    ASSUME registered \subseteq Scenes, NEW d, NEW w
    PROVE  InWindow(d, w) \subseteq Scenes /\ IsFiniteSet(InWindow(d, w))
  <1>1. InWindow(d, w) \subseteq Scenes
    BY DEF InWindow
  <1> QED  BY <1>1, BoundsAssumption, FS_Subset

LEMMA ListTypes ==
    ASSUME NEW rows, IsFiniteSet(rows), NEW d, NEW listed \in FirstOf(rows, d)
    PROVE  /\ listed \subseteq rows /\ IsFiniteSet(listed) /\ Cardinality(listed) \in Nat
           /\ Cardinality(listed) <= MaxCandidates
           /\ listed = rows \/ Cardinality(listed) = MaxCandidates
           /\ listed = {} => rows = {}
           /\ \A s \in listed, t \in rows \ listed : ~ListedBefore(t, s, d)
  <1>1. /\ listed \in SUBSET rows /\ Cardinality(listed) = Min({MaxCandidates, Cardinality(rows)})
        /\ \A s \in listed, t \in rows \ listed : ~ListedBefore(t, s, d)
    BY DEF FirstOf
  <1>2. IsFiniteSet(listed) /\ Cardinality(listed) \in Nat /\ Cardinality(rows) \in Nat
    BY <1>1, FS_Subset, FS_CardinalityType
  <1>3. MaxCandidates \in Nat \ {0}
    BY BoundsAssumption
  <1>4. Cardinality(listed) \in {MaxCandidates, Cardinality(rows)} /\ Cardinality(listed) <= MaxCandidates
    BY <1>1, <1>2, <1>3, LowerOfTwo, SMTT(30)
  <1>5. listed = rows \/ Cardinality(listed) = MaxCandidates
    <2>1. Cardinality(listed) = Cardinality(rows) => listed = rows
      BY <1>1, FS_Subset
    <2> QED  BY <1>4, <2>1
  <1>6. listed = {} => rows = {}
    BY <1>3, <1>5, FS_EmptySet
  <1> QED  BY <1>1, <1>2, <1>4, <1>5, <1>6

\* A scene that has fewer rivals than a list has room for is on every list.
LEMMA SureIsListed ==
    ASSUME registered \subseteq Scenes, NEW c, NEW d \in Int,
           NEW listed \in list_candidates(d, Window(c)), NEW s \in Sure(c, d)
    PROVE  s \in listed
  <1> DEFINE rows == InWindow(d, Window(c))
             rivals == {t \in rows \ {s} : ~ListedBefore(s, t, d)}
  <1>1. rows \subseteq Scenes /\ IsFiniteSet(rows) /\ listed \in FirstOf(rows, d)
    BY WindowTypes DEF list_candidates
  <1>2. s \in rows /\ Cardinality(rivals) < MaxCandidates
    BY DEF Sure
  <1>3. SUFFICES ASSUME s \notin listed
                 PROVE  FALSE
    OBVIOUS
  <1>4. /\ listed \subseteq rows /\ Cardinality(listed) = MaxCandidates
        /\ \A t \in listed : ~ListedBefore(s, t, d)
    <2> HIDE DEF rows
    <2> QED  BY <1>1, <1>2, <1>3, ListTypes
  <1>5. listed \subseteq rivals
    BY <1>3, <1>4
  <1>6. IsFiniteSet(rivals)
    <2>1. rivals \subseteq rows
      OBVIOUS
    <2> QED  BY <1>1, <2>1, FS_Subset
  <1> HIDE DEF rows, rivals
  <1>7. Cardinality(listed) <= Cardinality(rivals)
    BY <1>5, <1>6, FS_Subset
  <1>8. Cardinality(rivals) \in Nat /\ MaxCandidates \in Nat
    BY <1>6, FS_CardinalityType, BoundsAssumption
  <1> QED  BY <1>2, <1>4, <1>7, <1>8

\* What is sure does not depend on what the request has in hand.
LEMMA SameSure ==
    ASSUME NEW c, NEW e, NEW d, e.kind = c.kind, e.derived0 = c.derived0, e.unsure = c.unsure
    PROVE  Sure(e, d) = Sure(c, d)
  <1>1. Window(e) = Window(c)
    BY DEF Window
  <1> QED  BY <1>1, Zenon DEF Sure

LEMMA SameRequest ==
    ASSUME NEW c, NEW e, NEW d, e.kind = c.kind, e.limit = c.limit,
           e.derived0 = c.derived0, e.unsure = c.unsure
    PROVE  /\ Sure(e, d) = Sure(c, d)
           /\ \A status, chosen : BestOf(c, d, status, chosen) => BestOf(e, d, status, chosen)
           /\ \A status : ReasonOK(c, d, status) => ReasonOK(e, d, status)
  <1>1. Window(e) = Window(c)
    BY DEF Window
  <1>2. Sure(e, d) = Sure(c, d)
    BY SameSure, Zenon
  <1>3. ASSUME NEW status, NEW chosen, BestOf(c, d, status, chosen)
        PROVE  BestOf(e, d, status, chosen)
    BY <1>1, <1>2, <1>3 DEF BestOf
  <1>4. ASSUME NEW status, ReasonOK(c, d, status)
        PROVE  ReasonOK(e, d, status)
    BY <1>2, <1>4 DEF ReasonOK, TrueOf
  <1> QED  BY <1>2, <1>3, <1>4

\* The catalogue grows, and less is sure.
LEMMA SureShrinks ==
    ASSUME registered \subseteq registered', registered' \subseteq Scenes,
           NEW c, NEW e, NEW d, e.kind = c.kind,
           e.derived0 = c.derived0, c.derived0 \subseteq registered, c.unsure \subseteq e.unsure
    PROVE  Sure(e, d)' \subseteq Sure(c, d)
  <1> DEFINE before == InWindow(d, Window(c))
             rivals(s) == {t \in before \ {s} : ~ListedBefore(s, t, d)}
  <1>1. PICK after : after = InWindow(d, Window(c))'
    OBVIOUS
  <1>2. Window(e) = Window(c)
    BY DEF Window
  <1>3. before \subseteq after /\ IsFiniteSet(after)
    <2>1. after = {s \in registered' : _date_distance_days(s, d) <= Window(c)}
      BY <1>1 DEF InWindow
    <2>2. before \subseteq after /\ after \subseteq Scenes
      BY <2>1 DEF InWindow
    <2> QED  BY <2>2, BoundsAssumption, FS_Subset
  <1>4. SUFFICES ASSUME NEW s \in Sure(e, d)'
                 PROVE  s \in Sure(c, d)
    OBVIOUS
  <1>5. /\ s \in after /\ Seen[s].composite /\ s \in e.derived0 \ e.unsure
        /\ Cardinality({t \in after \ {s} : ~ListedBefore(s, t, d)}) < MaxCandidates
    <2>1. s \in {u \in InWindow(d, Window(e))' :
                    /\ Seen[u].composite /\ u \in e.derived0 \ e.unsure
                    /\ Cardinality({t \in InWindow(d, Window(e))' \ {u} : ~ListedBefore(u, t, d)})
                          < MaxCandidates}
      BY <1>4 DEF Sure, Window
    <2>2. InWindow(d, Window(e))' = after
      BY <1>1, <1>2 DEF Window, InWindow
    <2> QED  BY <2>1, <2>2
  <1>6. s \in before
    <2>1. s \in registered /\ _date_distance_days(s, d) <= Window(c)
      BY <1>1, <1>5 DEF InWindow, Window
    <2> QED  BY <2>1 DEF InWindow
  <1>7. Cardinality(rivals(s)) < MaxCandidates
    <2> DEFINE later == {t \in after \ {s} : ~ListedBefore(s, t, d)}
    <2>1. rivals(s) \subseteq later /\ later \subseteq after
      BY <1>3
    <2>2. Cardinality(later) < MaxCandidates
      BY <1>5
    <2> HIDE DEF rivals, later
    <2>3. IsFiniteSet(later) /\ Cardinality(later) \in Nat
      BY <1>3, <2>1, FS_Subset, FS_CardinalityType
    <2>4. Cardinality(rivals(s)) \in Nat /\ Cardinality(rivals(s)) <= Cardinality(later)
      BY <2>1, <2>3, FS_Subset, FS_CardinalityType
    <2> QED  BY <2>2, <2>3, <2>4, BoundsAssumption
  <1>8. s \in c.derived0 \ c.unsure
    BY <1>5
  <1> QED  BY <1>5, <1>6, <1>7, <1>8 DEF Sure
-----------------------------------------------------------------------------
(***************************************************************************)
(* The steps of a request, from what it holds to what it holds next.       *)
(***************************************************************************)
LEMMA CallType ==
    ASSUME NEW pc \in {"idle", "list", "examine", "explain", "done"},
           NEW kind \in {"", "index", "dates"}, NEW date \in Int, NEW dates \in SUBSET Dates,
           NEW limit \in Nat,
           NEW answer \in [Dates -> [status : Statuses, scene : Scenes \cup {NoScene}]],
           NEW derived0 \in SUBSET Scenes, NEW unsure \in SUBSET Scenes
    PROVE  [pc |-> pc, kind |-> kind, date |-> date, dates |-> dates, limit |-> limit,
            queue |-> {}, options |-> {}, failures |-> 0, rejections |-> {},
            answer |-> answer, derived0 |-> derived0, unsure |-> unsure] \in Calls
  BY DEF Calls

LEMMA AskedTypes ==
    ASSUME NEW c, CallOK(c), c.pc # "idle"
    PROVE  /\ c.date \in Dates /\ c.date \in Int /\ c.date \in Asked(c) /\ Asked(c) \subseteq Dates
           /\ Asked(c) \subseteq Int /\ c.dates \subseteq Dates /\ c.limit \in CloudLimits
           /\ c.kind \in {"index", "dates"}
  BY BoundsAssumption DEF CallOK, Made, Asked

\* Idle is the request that holds nothing.
LEMMA IdleOK == CallOK(Idle) /\ Best(Idle) /\ Reasons(Idle) /\ Idle \in Calls /\ Idle.pc = "idle"
  <1>1. Idle \in Calls
    BY DEF Calls, Idle, Unanswered, Statuses, Rejections
  <1>2. Idle.answer = [d \in Dates |-> Unanswered]
    BY DEF Idle
  <1>3. AnswersTyped(Idle)
    <2>1. \A d \in Dates : Idle.answer[d] = Unanswered
      BY <1>2
    <2>2. Unanswered.scene = NoScene /\ Unanswered.status = ""
      BY DEF Unanswered
    <2> QED  BY <2>1, <2>2, BoundsAssumption DEF AnswersTyped
  <1>4. /\ Idle.pc = "idle" /\ Idle.queue = {} /\ Idle.options = {} /\ Idle.failures = 0
        /\ Idle.rejections = {} /\ Idle.derived0 = {} /\ Idle.kind = ""
    BY DEF Idle
  <1>5. InHand(Idle)
    <2>1. Cardinality({}) = 0 /\ MaxCandidates \in Nat
      BY FS_EmptySet, BoundsAssumption
    <2>2. Idle.failures + Cardinality(Idle.queue) <= MaxCandidates
      <3>1. Idle.failures = 0 /\ Cardinality(Idle.queue) = 0
        BY <1>4, <2>1, Zenon
      <3> QED  BY <2>1, <3>1
    <2>3. Idle.queue \cup Idle.options \subseteq InWindow(Idle.date, Window(Idle))
      BY <1>4
    <2> QED  BY <1>4, <2>2, <2>3 DEF InHand
  <1>6. Remembered(Idle)
    BY <1>4 DEF Remembered, Working
  <1>7. CallOK(Idle)
    BY <1>1, <1>3, <1>4, <1>5, <1>6 DEF CallOK
  <1>8. Best(Idle) /\ Reasons(Idle)
    BY <1>4 DEF Best, OptionsOK, Answered, Working, Reasons
  <1> QED  BY <1>1, <1>4, <1>7, <1>8

LEMMA BeginOK ==
    ASSUME CatalogueOK, NEW kind \in {"index", "dates"}, NEW date, NEW dates, NEW limit \in CloudLimits,
           dates \subseteq Dates, date \in Dates,
           kind = "index" => dates = {},
           kind = "dates" => date \in dates /\ \A d \in dates : d <= date,
           NEW e,
           e = [pc |-> "list", kind |-> kind, date |-> date, dates |-> dates, limit |-> limit,
                queue |-> {}, options |-> {}, failures |-> 0, rejections |-> {},
                answer |-> Idle.answer, derived0 |-> derived, unsure |-> unreadable]
    PROVE  CallOK(e) /\ Best(e) /\ Reasons(e)
  <1>2. /\ e.pc = "list" /\ e.kind = kind /\ e.date = date /\ e.dates = dates /\ e.limit = limit
        /\ e.derived0 = derived /\ e.unsure = unreadable /\ e.queue = {} /\ e.options = {}
        /\ e.failures = 0 /\ e.rejections = {} /\ e.answer = Idle.answer
    OBVIOUS
  <1>3. date \in Int /\ limit \in Nat /\ dates \subseteq Int
    BY BoundsAssumption
  <1>4. derived \subseteq Scenes /\ unreadable \subseteq Scenes
    BY DEF CatalogueOK
  <1>5. e \in Calls
    <2>1. Idle.answer \in [Dates -> [status : Statuses, scene : Scenes \cup {NoScene}]]
      BY IdleOK DEF Calls
    <2>2. /\ derived \in SUBSET Scenes /\ unreadable \in SUBSET Scenes /\ dates \in SUBSET Dates
          /\ "list" \in {"idle", "list", "examine", "explain", "done"}
          /\ kind \in {"", "index", "dates"}
      BY <1>4
    <2> QED  BY <1>3, <2>1, <2>2, CallType, Zenon
  <1>6. AnswersTyped(e)
    BY <1>2, IdleOK DEF AnswersTyped, CallOK
  <1>7. Made(e)
    BY <1>2 DEF Made, Asked
  <1>8. InHand(e)
    BY <1>2, FS_EmptySet, BoundsAssumption DEF InHand
  <1>9. Remembered(e)
    BY <1>2 DEF Remembered
  <1>10. Answered(e) = {}
    <2>1. \A d \in Asked(e) : ~(d > date)
      BY <1>2, <1>3 DEF Asked
    <2> QED  BY <1>2, <2>1 DEF Answered, Working
  <1>11. CallOK(e)
    BY <1>2, <1>5, <1>6, <1>7, <1>8, <1>9 DEF CallOK
  <1>12. Best(e) /\ Reasons(e)
    <2>1. ~(e.failures > 0) /\ e.pc # "examine" /\ e.pc # "explain" /\ e.options = {}
      BY <1>2
    <2> QED  BY <1>10, <2>1, Zenon DEF Best, OptionsOK, Reasons
  <1> QED  BY <1>11, <1>12

LEMMA ListOptionsTypes ==
    ASSUME CatalogueOK, NEW c, CallOK(c), c.pc = "list",
           NEW listed \in list_candidates(c.date, Window(c)), NEW e,
           e = [c EXCEPT !.pc = "examine", !.queue = listed, !.options = {}, !.failures = 0]
    PROVE  CallOK(e)
  <1>1. c \in Calls /\ Made(c) /\ InHand(c) /\ AnswersTyped(c) /\ Remembered(c)
    BY DEF CallOK
  <1>2. registered \subseteq Scenes
    BY DEF CatalogueOK
  <1> DEFINE rows == InWindow(c.date, Window(c))
  <1>3. rows \subseteq Scenes /\ IsFiniteSet(rows) /\ listed \in FirstOf(rows, c.date)
    BY <1>2, WindowTypes DEF list_candidates
  <1>4. /\ e.pc = "examine" /\ e.queue = listed /\ e.options = {} /\ e.failures = 0
        /\ e.kind = c.kind /\ e.date = c.date /\ e.dates = c.dates /\ e.limit = c.limit
        /\ e.rejections = c.rejections /\ e.answer = c.answer /\ e.derived0 = c.derived0
        /\ e.unsure = c.unsure
    BY <1>1 DEF Calls
  <1>5. listed \subseteq rows /\ Cardinality(listed) \in Nat /\ Cardinality(listed) <= MaxCandidates
    <2> HIDE DEF rows
    <2> QED  BY <1>3, ListTypes
  <1>6. e \in Calls
    BY <1>1, <1>3, <1>5 DEF Calls
  <1>7. Made(e) /\ AnswersTyped(e) /\ Remembered(e)
    BY <1>1, <1>4 DEF Made, Asked, AnswersTyped, Remembered, Working
  <1>8. InHand(e)
    <2>1. c.rejections = {}
      BY <1>1 DEF InHand
    <2>2. Window(e) = Window(c)
      BY <1>4 DEF Window
    <2> QED  BY <1>4, <1>5, <2>1, <2>2 DEF InHand
  <1> QED  BY <1>4, <1>6, <1>7, <1>8 DEF CallOK

\* The scene has a raster that is there to be read ...
Refused(s) == (Seen[s].composite /\ s \in derived) /\ s \in unreadable

\* ... and it is, and its field passes the gates.
Offered(c, s) == (Seen[s].composite /\ s \in derived) /\ s \notin unreadable /\ Eligible(s, c.limit)

LEMMA ExaminedFields ==
    ASSUME NEW c \in Calls, NEW s, NEW e, e = Examined(c, s)
    PROVE  /\ e.pc = c.pc /\ e.kind = c.kind /\ e.date = c.date /\ e.dates = c.dates
           /\ e.limit = c.limit /\ e.rejections = c.rejections /\ e.answer = c.answer
           /\ e.derived0 = c.derived0 /\ e.unsure = c.unsure
           /\ e.queue = c.queue \ {s}
           /\ Refused(s) => e.failures = c.failures + 1
           /\ ~Refused(s) => e.failures = c.failures
           /\ Offered(c, s) => e.options = c.options \cup {s}
           /\ ~Offered(c, s) => e.options = c.options
           /\ s \in c.queue => e \in Calls
  <1>1. PICK failures : failures = IF Refused(s) THEN c.failures + 1 ELSE c.failures
    OBVIOUS
  <1>2. PICK options : options = IF Offered(c, s) THEN c.options \cup {s} ELSE c.options
    OBVIOUS
  <1>3. PICK queue : queue = c.queue \ {s}
    OBVIOUS
  <1>4. e = [c EXCEPT !.queue = queue, !.failures = failures, !.options = options]
    BY <1>1, <1>2, <1>3 DEF Examined, Refused, Offered
  <1>5. /\ e.pc = c.pc /\ e.kind = c.kind /\ e.date = c.date /\ e.dates = c.dates
        /\ e.limit = c.limit /\ e.rejections = c.rejections /\ e.answer = c.answer
        /\ e.derived0 = c.derived0 /\ e.unsure = c.unsure
        /\ e.queue = queue /\ e.failures = failures /\ e.options = options
    BY <1>4 DEF Calls
  <1>6. ASSUME s \in c.queue
        PROVE  e \in Calls
    <2>0. c.queue \subseteq Scenes /\ c.options \subseteq Scenes /\ c.failures \in Nat
      BY DEF Calls
    <2>1. queue \subseteq Scenes /\ options \subseteq Scenes /\ failures \in Nat
      BY <1>1, <1>2, <1>3, <1>6, <2>0
    <2> QED  BY <1>4, <2>1 DEF Calls
  <1> QED  BY <1>1, <1>2, <1>3, <1>5, <1>6

LEMMA ExaminedTypes ==
    ASSUME CatalogueOK, NEW c, CallOK(c), c.pc = "examine", NEW s \in c.queue, NEW e, e = Examined(c, s)
    PROVE  CallOK(e)
  <1>1. c \in Calls /\ Made(c) /\ InHand(c) /\ AnswersTyped(c) /\ Remembered(c)
    BY DEF CallOK
  <1>2. registered \subseteq Scenes
    BY DEF CatalogueOK
  <1>3. /\ e.pc = c.pc /\ e.kind = c.kind /\ e.date = c.date /\ e.dates = c.dates
        /\ e.limit = c.limit /\ e.rejections = c.rejections /\ e.answer = c.answer
        /\ e.derived0 = c.derived0 /\ e.unsure = c.unsure
        /\ e.queue = c.queue \ {s} /\ e \in Calls
    BY <1>1, ExaminedFields
  <1>4. e.failures \in {c.failures, c.failures + 1}
    BY <1>1, ExaminedFields
  <1>5. e.options \subseteq c.options \cup {s}
    BY <1>1, ExaminedFields
  <1>6. Made(e) /\ AnswersTyped(e) /\ Remembered(e)
    BY <1>1, <1>3 DEF Made, Asked, AnswersTyped, Remembered, Working
  <1>7. InHand(e)
    <2>1. Window(e) = Window(c)
      BY <1>3 DEF Window
    <2>2. c.queue \subseteq InWindow(c.date, Window(c))
      BY <1>1 DEF InHand
    <2>3. IsFiniteSet(c.queue)
      BY <1>2, <2>2, WindowTypes, FS_Subset
    <2>4. Cardinality(e.queue) = Cardinality(c.queue) - 1 /\ Cardinality(c.queue) \in Nat
      BY <1>3, <2>3, FS_RemoveElement, FS_CardinalityType
    <2>5. c.failures + Cardinality(c.queue) <= MaxCandidates /\ c.failures \in Nat /\ c.rejections = {}
      BY <1>1 DEF InHand, Calls
    <2>6. e.failures + Cardinality(e.queue) <= MaxCandidates
      BY <1>4, <2>4, <2>5, BoundsAssumption
    <2>7. e.queue \cup e.options \subseteq InWindow(c.date, Window(c))
      BY <1>1, <1>3, <1>5 DEF InHand
    <2> QED  BY <1>3, <2>1, <2>5, <2>6, <2>7 DEF InHand
  <1> QED  BY <1>3, <1>6, <1>7 DEF CallOK

LEMMA SettledFields ==
    ASSUME NEW c, CallOK(c), Working(c), NEW status \in Statuses, NEW scene \in Scenes \cup {NoScene},
           NEW e, e = Settled(c, status, scene), NEW rest, rest = {d \in c.dates : d < c.date}
    PROVE  /\ e.pc = (IF rest = {} THEN "done" ELSE "list")
           /\ e.date = (IF rest = {} THEN c.date ELSE Max(rest))
           /\ e.answer = [c.answer EXCEPT ![c.date] = [status |-> status, scene |-> scene]]
           /\ e.queue = {} /\ e.options = {} /\ e.rejections = {} /\ e.failures = 0
           /\ e.kind = c.kind /\ e.dates = c.dates /\ e.limit = c.limit
           /\ e.derived0 = c.derived0 /\ e.unsure = c.unsure
           /\ rest # {} => Max(rest) \in rest /\ \A d \in rest : d <= Max(rest)
           /\ e \in Calls
  <1>1. c \in Calls
    BY DEF CallOK
  <1>2. PICK date : date = IF rest = {} THEN c.date ELSE Max(rest)
    OBVIOUS
  <1>3. PICK pc : pc = IF rest = {} THEN "done" ELSE "list"
    OBVIOUS
  <1>4. PICK answer : answer = [c.answer EXCEPT ![c.date] = [status |-> status, scene |-> scene]]
    OBVIOUS
  <1>5. e = [pc |-> pc, kind |-> c.kind, date |-> date, dates |-> c.dates, limit |-> c.limit,
             queue |-> {}, options |-> {}, failures |-> 0, rejections |-> {},
             answer |-> answer, derived0 |-> c.derived0, unsure |-> c.unsure]
    BY <1>1, <1>2, <1>3, <1>4 DEF Settled, Calls
  <1>6. rest # {} => Max(rest) \in rest /\ \A d \in rest : d <= Max(rest)
    <2>1. rest \subseteq Dates
      BY AskedTypes DEF Working
    <2> QED  BY <2>1, LatestOfDays
  <1>7. date \in Int
    <2>1. c.date \in Int /\ c.dates \subseteq Dates /\ Dates \subseteq Int
      BY AskedTypes, BoundsAssumption DEF Working
    <2> QED  BY <1>2, <1>6, <2>1
  <1>8. answer \in [Dates -> [status : Statuses, scene : Scenes \cup {NoScene}]]
    <2>1. c.answer \in [Dates -> [status : Statuses, scene : Scenes \cup {NoScene}]]
      BY <1>1 DEF Calls
    <2> QED  BY <1>4, <2>1
  <1>9. e \in Calls
    <2>1. /\ c.kind \in {"", "index", "dates"} /\ c.dates \in SUBSET Dates /\ c.limit \in Nat
          /\ c.derived0 \in SUBSET Scenes /\ c.unsure \in SUBSET Scenes
      BY <1>1 DEF Calls
    <2>2. PICK kind, dates, limit, derived0, unsure :
             /\ kind = c.kind /\ dates = c.dates /\ limit = c.limit
             /\ derived0 = c.derived0 /\ unsure = c.unsure
      OBVIOUS
    <2>3. e = [pc |-> pc, kind |-> kind, date |-> date, dates |-> dates, limit |-> limit,
               queue |-> {}, options |-> {}, failures |-> 0, rejections |-> {},
               answer |-> answer, derived0 |-> derived0, unsure |-> unsure]
      BY <1>5, <2>2
    <2>4. /\ kind \in {"", "index", "dates"} /\ dates \in SUBSET Dates /\ limit \in Nat
          /\ derived0 \in SUBSET Scenes /\ unsure \in SUBSET Scenes
          /\ pc \in {"idle", "list", "examine", "explain", "done"}
      BY <1>3, <2>1, <2>2
    <2>5. [pc |-> pc, kind |-> kind, date |-> date, dates |-> dates, limit |-> limit,
           queue |-> {}, options |-> {}, failures |-> 0, rejections |-> {},
           answer |-> answer, derived0 |-> derived0, unsure |-> unsure] \in Calls
      BY <1>7, <1>8, <2>4, CallType, ZenonT(60)
    <2> QED  BY <2>3, <2>5, Zenon
  <1> QED  BY <1>2, <1>3, <1>4, <1>5, <1>6, <1>9

LEMMA SettledTypes ==
    ASSUME CatalogueOK, NEW c, CallOK(c), Working(c),
           NEW status \in Statuses, NEW scene \in Scenes \cup {NoScene},
           scene \in Scenes <=> status = "AVAILABLE",
           NEW e, e = Settled(c, status, scene)
    PROVE  CallOK(e)
  <1>1. c \in Calls /\ Made(c) /\ AnswersTyped(c) /\ Remembered(c)
    BY DEF CallOK, Working
  <1>2. PICK rest : rest = {d \in c.dates : d < c.date}
    OBVIOUS
  <1>3. /\ e.pc = (IF rest = {} THEN "done" ELSE "list")
        /\ e.date = (IF rest = {} THEN c.date ELSE Max(rest))
        /\ e.answer = [c.answer EXCEPT ![c.date] = [status |-> status, scene |-> scene]]
        /\ e.queue = {} /\ e.options = {} /\ e.rejections = {} /\ e.failures = 0
        /\ e.kind = c.kind /\ e.dates = c.dates /\ e.limit = c.limit
        /\ e.derived0 = c.derived0 /\ e.unsure = c.unsure
        /\ rest # {} => Max(rest) \in rest
        /\ e \in Calls
    BY <1>2, SettledFields
  <1>4. Made(e)
    <2>1. CASE c.kind = "index"
      BY <1>1, <1>2, <1>3, <2>1 DEF Made, Asked
    <2>2. CASE c.kind = "dates"
      BY <1>1, <1>2, <1>3, <2>2 DEF Made, Asked
    <2> QED  BY <1>1, <2>1, <2>2 DEF Made
  <1>5. AnswersTyped(e)
    <2>1. c.answer \in [Dates -> [status : Statuses, scene : Scenes \cup {NoScene}]]
      BY <1>1 DEF Calls
    <2>2. \A d \in Dates : e.answer[d] = IF d = c.date THEN [status |-> status, scene |-> scene]
                                         ELSE c.answer[d]
      BY <1>3, <2>1
    <2> QED  BY <1>1, <2>2 DEF AnswersTyped
  <1>6. InHand(e)
    <2>1. Cardinality({}) = 0
      BY FS_EmptySet
    <2> QED  BY <1>3, <2>1, BoundsAssumption DEF InHand
  <1>7. Remembered(e)
    BY <1>1, <1>3 DEF Remembered
  <1> QED  BY <1>3, <1>4, <1>5, <1>6, <1>7 DEF CallOK

LEMMA ListRejectionsTypes ==
    ASSUME CatalogueOK, NEW c, CallOK(c), c.pc = "examine", c.kind = "dates",
           c.options = {}, c.failures = 0,
           NEW listed \in list_candidates(c.date, 0), NEW e,
           e = [c EXCEPT !.pc = "explain", !.queue = listed]
    PROVE  CallOK(e)
  <1>1. c \in Calls /\ Made(c) /\ InHand(c) /\ AnswersTyped(c) /\ Remembered(c)
    BY DEF CallOK
  <1>2. registered \subseteq Scenes
    BY DEF CatalogueOK
  <1> DEFINE rows == InWindow(c.date, 0)
  <1>3. rows \subseteq Scenes /\ IsFiniteSet(rows) /\ listed \in FirstOf(rows, c.date)
    BY <1>2, WindowTypes DEF list_candidates
  <1>4. /\ e.pc = "explain" /\ e.queue = listed /\ e.options = {} /\ e.failures = 0
        /\ e.kind = c.kind /\ e.date = c.date /\ e.dates = c.dates /\ e.limit = c.limit
        /\ e.rejections = c.rejections /\ e.answer = c.answer /\ e.derived0 = c.derived0
        /\ e.unsure = c.unsure
    BY <1>1 DEF Calls
  <1>5. listed \subseteq rows /\ Cardinality(listed) \in Nat /\ Cardinality(listed) <= MaxCandidates
    <2> HIDE DEF rows
    <2> QED  BY <1>3, ListTypes
  <1>6. e \in Calls
    BY <1>1, <1>3, <1>5 DEF Calls
  <1>7. Made(e) /\ AnswersTyped(e) /\ Remembered(e)
    BY <1>1, <1>4 DEF Made, Asked, AnswersTyped, Remembered, Working
  <1>8. InHand(e)
    <2>1. Window(e) = 0
      BY <1>4 DEF Window
    <2> QED  BY <1>4, <1>5, <2>1 DEF InHand
  <1> QED  BY <1>4, <1>6, <1>7, <1>8 DEF CallOK

LEMMA RejectionTypes ==
    ASSUME NEW s \in Scenes, NEW limit \in Int
    PROVE  RejectionOf(s, limit) \subseteq Rejections
  <1>1. CASE s \notin derived
    BY <1>1 DEF RejectionOf, Rejections
  <1>2. CASE s \in derived \cap unreadable
    BY <1>2 DEF RejectionOf, Rejections
  <1>3. CASE s \in derived \ unreadable
    <2>1. PICK coverage, obscured : coverage = Seen[s].coverage /\ obscured = Seen[s].obscured
      OBVIOUS
    <2>2. coverage \in Int /\ obscured \in Int /\ MinCoverage \in Int
      BY <2>1, SeenTypes, BoundsAssumption
    <2>3. /\ coverage < MinCoverage \/ coverage >= MinCoverage
          /\ obscured > limit \/ obscured <= limit
      BY <2>2
    <2> QED  BY <1>3, <2>1, <2>3 DEF RejectionOf, Rejections
  <1> QED  BY <1>1, <1>2, <1>3

LEMMA ExplainedTypes ==
    ASSUME CatalogueOK, NEW c, CallOK(c), c.pc = "explain", NEW s \in c.queue, NEW e,
           e = [c EXCEPT !.queue = @ \ {s}, !.rejections = @ \cup RejectionOf(s, c.limit)]
    PROVE  CallOK(e)
  <1>1. c \in Calls /\ Made(c) /\ InHand(c) /\ AnswersTyped(c) /\ Remembered(c)
    BY DEF CallOK
  <1>2. registered \subseteq Scenes
    BY DEF CatalogueOK
  <1>3. /\ e.pc = c.pc /\ e.queue = c.queue \ {s} /\ e.options = c.options /\ e.failures = c.failures
        /\ e.kind = c.kind /\ e.date = c.date /\ e.dates = c.dates /\ e.limit = c.limit
        /\ e.rejections = c.rejections \cup RejectionOf(s, c.limit) /\ e.answer = c.answer
        /\ e.derived0 = c.derived0 /\ e.unsure = c.unsure
    BY <1>1 DEF Calls
  <1>4. e \in Calls
    <2>1. s \in Scenes /\ c.limit \in Int
      <3>1. c.queue \subseteq Scenes /\ c.limit \in Nat
        BY <1>1 DEF Calls
      <3> QED  BY <3>1
    <2>2. RejectionOf(s, c.limit) \subseteq Rejections
      BY <2>1, RejectionTypes
    <2> QED  BY <1>1, <2>2 DEF Calls
  <1>5. Made(e) /\ AnswersTyped(e) /\ Remembered(e)
    BY <1>1, <1>3 DEF Made, Asked, AnswersTyped, Remembered, Working
  <1>6. InHand(e)
    <2>1. Window(e) = Window(c)
      BY <1>3 DEF Window
    <2>2. c.queue \subseteq InWindow(c.date, Window(c))
      BY <1>1 DEF InHand
    <2>3. IsFiniteSet(c.queue)
      BY <1>2, <2>2, WindowTypes, FS_Subset
    <2>4. Cardinality(e.queue) = Cardinality(c.queue) - 1 /\ Cardinality(c.queue) \in Nat
      BY <1>3, <2>3, FS_RemoveElement, FS_CardinalityType
    <2>5. e.failures + Cardinality(e.queue) <= MaxCandidates
      <3>1. c.failures \in Nat /\ c.failures + Cardinality(c.queue) <= MaxCandidates
        BY <1>1 DEF InHand, Calls
      <3>2. MaxCandidates \in Nat
        BY BoundsAssumption
      <3> QED  BY <1>3, <2>4, <3>1, <3>2
    <2> QED  BY <1>1, <1>3, <2>1, <2>5 DEF InHand
  <1> QED  BY <1>3, <1>4, <1>5, <1>6 DEF CallOK
-----------------------------------------------------------------------------
(***************************************************************************)
(* No step loses the best.                                                 *)
(***************************************************************************)
LEMMA SameAnswers ==
    ASSUME NEW c, NEW e, e.kind = c.kind, e.limit = c.limit, e.derived0 = c.derived0,
           e.unsure = c.unsure, e.answer = c.answer, e.date = c.date, e.dates = c.dates,
           Working(c), Working(e)
    PROVE  /\ (\A d \in Answered(c) : BestOf(c, d, c.answer[d].status, c.answer[d].scene))
              => \A d \in Answered(e) : BestOf(e, d, e.answer[d].status, e.answer[d].scene)
           /\ (\A d \in Answered(c) : ReasonOK(c, d, c.answer[d].status))
              => \A d \in Answered(e) : ReasonOK(e, d, e.answer[d].status)
  <1>1. Answered(e) = Answered(c)
    BY DEF Answered, Working, Asked
  <1>2. \A d : /\ \A status, chosen : BestOf(c, d, status, chosen) => BestOf(e, d, status, chosen)
               /\ \A status : ReasonOK(c, d, status) => ReasonOK(e, d, status)
    BY SameRequest
  <1> QED  BY <1>1, <1>2

LEMMA SettledAnswers ==
    ASSUME NEW c, CallOK(c), Working(c), NEW status \in Statuses, NEW scene \in Scenes \cup {NoScene},
           NEW e, e = Settled(c, status, scene), NEW d \in Answered(e)
    PROVE  \/ d = c.date /\ e.answer[d] = [status |-> status, scene |-> scene]
           \/ d \in Answered(c) /\ e.answer[d] = c.answer[d]
  <1>1. PICK rest : rest = {x \in c.dates : x < c.date}
    OBVIOUS
  <1>2. /\ e.pc = (IF rest = {} THEN "done" ELSE "list")
        /\ e.date = (IF rest = {} THEN c.date ELSE Max(rest))
        /\ e.answer = [c.answer EXCEPT ![c.date] = [status |-> status, scene |-> scene]]
        /\ e.kind = c.kind /\ e.dates = c.dates
        /\ rest # {} => Max(rest) \in rest /\ \A x \in rest : x <= Max(rest)
    BY <1>1, SettledFields
  <1>3. /\ c.date \in Int /\ Asked(c) \subseteq Dates /\ Asked(c) \subseteq Int
        /\ c.dates \subseteq Dates /\ c.kind \in {"index", "dates"}
        /\ c.kind = "index" => c.dates = {}
    BY AskedTypes DEF Working, CallOK, Made
  <1>4. d \in Asked(c) /\ (d = c.date \/ d > c.date)
    <2>1. CASE rest = {}
      <3>1. d \in Asked(e)
        BY <1>2, <2>1 DEF Answered
      <3>2. Asked(e) = Asked(c)
        BY <1>2, <2>1 DEF Asked
      <3>3. c.kind = "dates" => ~(d < c.date)
        BY <1>1, <2>1, <3>1, <3>2 DEF Asked
      <3>4. c.kind = "index" => d = c.date
        BY <3>1, <3>2 DEF Asked
      <3> QED  BY <1>3, <3>1, <3>2, <3>3, <3>4
    <2>2. CASE rest # {}
      <3>1. d \in Asked(e) /\ d > e.date
        BY <1>2, <2>2 DEF Answered, Working
      <3>2. c.kind = "dates"
        BY <1>1, <1>3, <2>2
      <3>3. Asked(e) = c.dates /\ Asked(c) = c.dates
        BY <1>2, <3>2 DEF Asked
      <3>4. d \in Int /\ Max(rest) \in Int
        BY <1>1, <1>2, <1>3, <2>2, <3>1, <3>3
      <3>5. d \notin rest
        <4>1. SUFFICES ASSUME d \in rest
                       PROVE  FALSE
          OBVIOUS
        <4> QED  BY <1>2, <2>2, <3>1, <3>4, <4>1
      <3> QED  BY <1>1, <1>3, <3>1, <3>3, <3>4, <3>5
    <2> QED  BY <2>1, <2>2
  <1>5. e.answer[d] = IF d = c.date THEN [status |-> status, scene |-> scene] ELSE c.answer[d]
    <2>1. c.answer \in [Dates -> [status : Statuses, scene : Scenes \cup {NoScene}]]
      BY DEF CallOK, Calls
    <2>2. d \in Dates
      BY <1>3, <1>4
    <2> QED  BY <1>2, <2>1, <2>2
  <1>6. d > c.date => d \in Answered(c)
    BY <1>4 DEF Answered, Working
  <1> QED  BY <1>4, <1>5, <1>6

LEMMA SettledKeeps ==
    ASSUME NEW c \in Calls, NEW status, NEW scene, NEW e, e = Settled(c, status, scene)
    PROVE  /\ e.pc \in {"done", "list"} /\ e.options = {} /\ e.failures = 0
           /\ e.kind = c.kind /\ e.limit = c.limit /\ e.derived0 = c.derived0 /\ e.unsure = c.unsure
  BY DEF Settled, Calls

LEMMA SettledBest ==
    ASSUME NEW c, CallOK(c), Working(c), Best(c),
           NEW status \in Statuses, NEW scene \in Scenes \cup {NoScene},
           BestOf(c, c.date, status, scene),
           NEW e, e = Settled(c, status, scene)
    PROVE  Best(e)
  <1>1. /\ e.pc \in {"done", "list"} /\ e.options = {}
        /\ e.kind = c.kind /\ e.limit = c.limit /\ e.derived0 = c.derived0 /\ e.unsure = c.unsure
    <2>1. c \in Calls
      BY DEF CallOK
    <2> QED  BY <2>1, SettledKeeps
  <1>2. \A d : \A s, chosen : BestOf(c, d, s, chosen) => BestOf(e, d, s, chosen)
    BY <1>1, SameRequest
  <1>3. ASSUME NEW d \in Answered(e)
        PROVE  BestOf(e, d, e.answer[d].status, e.answer[d].scene)
    <2>1. \/ d = c.date /\ e.answer[d] = [status |-> status, scene |-> scene]
          \/ d \in Answered(c) /\ e.answer[d] = c.answer[d]
      BY SettledAnswers
    <2>2. CASE d = c.date /\ e.answer[d] = [status |-> status, scene |-> scene]
      BY <1>2, <2>2
    <2>3. CASE d \in Answered(c) /\ e.answer[d] = c.answer[d]
      BY <1>2, <2>3 DEF Best
    <2> QED  BY <2>1, <2>2, <2>3
  <1>4. OptionsOK(e)
    BY <1>1 DEF OptionsOK
  <1> QED  BY <1>3, <1>4 DEF Best

LEMMA ListOptionsBest ==
    ASSUME CatalogueOK, NEW c, CallOK(c), Best(c), c.pc = "list",
           NEW listed \in list_candidates(c.date, Window(c)), NEW e,
           e = [c EXCEPT !.pc = "examine", !.queue = listed, !.options = {}, !.failures = 0]
    PROVE  Best(e)
  <1>1. c \in Calls /\ c.date \in Int /\ registered \subseteq Scenes
    BY AskedTypes DEF CallOK, CatalogueOK
  <1>2. /\ e.pc = "examine" /\ e.queue = listed /\ e.options = {}
        /\ e.kind = c.kind /\ e.date = c.date /\ e.dates = c.dates /\ e.limit = c.limit
        /\ e.answer = c.answer /\ e.derived0 = c.derived0 /\ e.unsure = c.unsure
    BY <1>1 DEF Calls
  <1>3. \A s \in Sure(c, c.date) : s \in listed
    BY <1>1, SureIsListed
  <1>4. Sure(e, e.date) = Sure(c, c.date)
    <2>1. e.kind = c.kind /\ e.derived0 = c.derived0 /\ e.unsure = c.unsure
      BY <1>2
    <2>2. Sure(e, c.date) = Sure(c, c.date)
      BY <2>1, SameSure, ZenonT(60)
    <2> QED  BY <1>2, <2>2
  <1>5. OptionsOK(e)
    BY <1>2, <1>3, <1>4 DEF OptionsOK
  <1>6. \A d \in Answered(e) : BestOf(e, d, e.answer[d].status, e.answer[d].scene)
    <2>1. Working(c) /\ Working(e)
      BY <1>2 DEF Working
    <2>2. \A d \in Answered(c) : BestOf(c, d, c.answer[d].status, c.answer[d].scene)
      BY DEF Best
    <2> QED  BY <1>2, <2>1, <2>2, SameAnswers, ZenonT(60)
  <1> QED  BY <1>5, <1>6 DEF Best

LEMMA SureIsReadable ==
    ASSUME CatalogueOK, NEW c, Remembered(c), Working(c), NEW d, NEW s \in Sure(c, d)
    PROVE  s \in derived /\ s \notin unreadable /\ Seen[s].composite /\ s \in Scenes
  BY DEF Sure, Remembered, CatalogueOK

LEMMA ExaminedBest ==
    ASSUME CatalogueOK, NEW c, CallOK(c), Best(c), c.pc = "examine", NEW s \in c.queue, NEW e, e = Examined(c, s)
    PROVE  Best(e)
  <1>1. c \in Calls /\ Remembered(c) /\ Working(c)
    BY DEF CallOK, Working
  <1>2. /\ e.pc = c.pc /\ e.kind = c.kind /\ e.date = c.date /\ e.dates = c.dates
        /\ e.limit = c.limit /\ e.answer = c.answer
        /\ e.derived0 = c.derived0 /\ e.unsure = c.unsure
        /\ e.queue = c.queue \ {s}
        /\ Offered(c, s) => e.options = c.options \cup {s}
        /\ ~Offered(c, s) => e.options = c.options
    BY <1>1, ExaminedFields
  <1>3. Sure(e, e.date) = Sure(c, c.date)
    <2>1. e.kind = c.kind /\ e.derived0 = c.derived0 /\ e.unsure = c.unsure
      BY <1>2
    <2>2. Sure(e, c.date) = Sure(c, c.date)
      BY <2>1, SameSure, ZenonT(60)
    <2> QED  BY <1>2, <2>2
  <1>4. \A t \in e.options : Eligible(t, e.limit) /\ Seen[t].composite
    BY <1>2 DEF Best, OptionsOK, Offered
  <1>5. ASSUME NEW t \in Sure(c, c.date)
        PROVE  t \in e.queue \/ (Eligible(t, e.limit) => t \in e.options)
    <2>1. t \in c.queue \/ (Eligible(t, c.limit) => t \in c.options)
      BY DEF Best, OptionsOK
    <2>2. CASE t # s
      BY <1>2, <2>1, <2>2
    <2>3. CASE t = s
      <3>1. Eligible(t, c.limit) => Offered(c, s)
        BY <1>1, <2>3, SureIsReadable DEF Offered
      <3> QED  BY <1>2, <2>3, <3>1
    <2> QED  BY <2>2, <2>3
  <1>6. OptionsOK(e)
    BY <1>2, <1>3, <1>4, <1>5 DEF OptionsOK
  <1>7. \A d \in Answered(e) : BestOf(e, d, e.answer[d].status, e.answer[d].scene)
    <2>1. Working(e)
      BY <1>2 DEF Working
    <2>2. \A d \in Answered(c) : BestOf(c, d, c.answer[d].status, c.answer[d].scene)
      BY DEF Best
    <2> QED  BY <1>1, <1>2, <2>1, <2>2, SameAnswers, ZenonT(60)
  <1> QED  BY <1>6, <1>7 DEF Best

\* What is selected is not worse than any scene that cannot have been missed.
LEMMA SelectedIsBest ==
    ASSUME CatalogueOK, NEW c, CallOK(c), Best(c), c.pc = "examine", c.queue = {}, NEW s \in Selected(c)
    PROVE  s \in Scenes /\ BestOf(c, c.date, "AVAILABLE", s)
  <1>1. s \in c.options /\ \A t \in c.options : ~BetterOption(t, s, c.date)
    BY DEF Selected
  <1>2. /\ c.options \subseteq Scenes /\ c.date \in Int
        /\ c.options \subseteq InWindow(c.date, Window(c))
    BY AskedTypes DEF CallOK, Calls, InHand
  <1>3. Eligible(s, c.limit) /\ Seen[s].composite /\ _date_distance_days(s, c.date) <= Window(c)
    BY <1>1, <1>2 DEF Best, OptionsOK, InWindow
  <1>4. ASSUME NEW t \in Sure(c, c.date), Eligible(t, c.limit)
        PROVE  ~Preferred(t, s, c.date)
    <2>1. t \in c.options
      BY <1>4 DEF Best, OptionsOK
    <2>2. ~BetterOption(t, s, c.date)
      BY <1>1, <2>1
    <2> QED  BY <1>1, <1>2, <2>1, <2>2, PreferredIsBetter
  <1> QED  BY <1>1, <1>2, <1>3, <1>4 DEF BestOf

LEMMA NothingIsBest ==
    ASSUME NEW c, Best(c), c.pc = "examine", c.queue = {}, c.options = {}
    PROVE  \A s \in Sure(c, c.date) : ~Eligible(s, c.limit)
  BY DEF Best, OptionsOK

LEMMA ListRejectionsBest ==
    ASSUME NEW c, CallOK(c), Best(c), c.pc = "examine", c.queue = {}, c.options = {},
           NEW listed, NEW e, e = [c EXCEPT !.pc = "explain", !.queue = listed]
    PROVE  Best(e)
  <1>1. c \in Calls
    BY DEF CallOK
  <1>2. /\ e.pc = "explain" /\ e.options = {}
        /\ e.kind = c.kind /\ e.date = c.date /\ e.dates = c.dates /\ e.limit = c.limit
        /\ e.answer = c.answer /\ e.derived0 = c.derived0 /\ e.unsure = c.unsure
    BY <1>1 DEF Calls
  <1>3. Sure(e, e.date) = Sure(c, c.date)
    <2>1. e.kind = c.kind /\ e.derived0 = c.derived0 /\ e.unsure = c.unsure
      BY <1>2
    <2>2. Sure(e, c.date) = Sure(c, c.date)
      BY <2>1, SameSure, ZenonT(60)
    <2> QED  BY <1>2, <2>2
  <1>4. OptionsOK(e)
    BY <1>2, <1>3, NothingIsBest DEF OptionsOK
  <1>5. \A d \in Answered(e) : BestOf(e, d, e.answer[d].status, e.answer[d].scene)
    <2>1. Working(c) /\ Working(e)
      BY <1>2 DEF Working
    <2>2. \A d \in Answered(c) : BestOf(c, d, c.answer[d].status, c.answer[d].scene)
      BY DEF Best
    <2> QED  BY <1>2, <2>1, <2>2, SameAnswers, ZenonT(60)
  <1> QED  BY <1>4, <1>5 DEF Best

LEMMA ExplainedBest ==
    ASSUME NEW c, CallOK(c), Best(c), c.pc = "explain", NEW s, NEW e,
           e = [c EXCEPT !.queue = @ \ {s}, !.rejections = @ \cup RejectionOf(s, c.limit)]
    PROVE  Best(e)
  <1>1. c \in Calls
    BY DEF CallOK
  <1>2. /\ e.pc = "explain" /\ e.options = c.options
        /\ e.kind = c.kind /\ e.date = c.date /\ e.dates = c.dates /\ e.limit = c.limit
        /\ e.answer = c.answer /\ e.derived0 = c.derived0 /\ e.unsure = c.unsure
    BY <1>1 DEF Calls
  <1>3. Sure(e, e.date) = Sure(c, c.date)
    <2>1. e.kind = c.kind /\ e.derived0 = c.derived0 /\ e.unsure = c.unsure
      BY <1>2
    <2>2. Sure(e, c.date) = Sure(c, c.date)
      BY <2>1, SameSure, ZenonT(60)
    <2> QED  BY <1>2, <2>2
  <1>4. OptionsOK(e)
    BY <1>2, <1>3 DEF Best, OptionsOK
  <1>5. \A d \in Answered(e) : BestOf(e, d, e.answer[d].status, e.answer[d].scene)
    <2>1. Working(c) /\ Working(e)
      BY <1>2 DEF Working
    <2>2. \A d \in Answered(c) : BestOf(c, d, c.answer[d].status, c.answer[d].scene)
      BY DEF Best
    <2> QED  BY <1>2, <2>1, <2>2, SameAnswers, ZenonT(60)
  <1> QED  BY <1>4, <1>5 DEF Best
-----------------------------------------------------------------------------
(***************************************************************************)
(* No step makes a reason false.                                           *)
(***************************************************************************)
LEMMA SettledReasons ==
    ASSUME NEW c, CallOK(c), Working(c), Reasons(c),
           NEW status \in Statuses, NEW scene \in Scenes \cup {NoScene},
           c.kind = "dates" => ReasonOK(c, c.date, status),
           NEW e, e = Settled(c, status, scene)
    PROVE  Reasons(e)
  <1>1. /\ e.pc \in {"done", "list"} /\ e.failures = 0
        /\ e.kind = c.kind /\ e.limit = c.limit /\ e.derived0 = c.derived0 /\ e.unsure = c.unsure
    <2>1. c \in Calls
      BY DEF CallOK
    <2> QED  BY <2>1, SettledKeeps
  <1>2. \A d : \A s : ReasonOK(c, d, s) => ReasonOK(e, d, s)
    BY <1>1, SameRequest
  <1>3. ASSUME c.kind = "dates", NEW d \in Answered(e)
        PROVE  ReasonOK(e, d, e.answer[d].status)
    <2>1. \/ d = c.date /\ e.answer[d] = [status |-> status, scene |-> scene]
          \/ d \in Answered(c) /\ e.answer[d] = c.answer[d]
      BY SettledAnswers
    <2>2. CASE d = c.date /\ e.answer[d] = [status |-> status, scene |-> scene]
      BY <1>2, <1>3, <2>2
    <2>3. CASE d \in Answered(c) /\ e.answer[d] = c.answer[d]
      BY <1>2, <1>3, <2>3 DEF Reasons
    <2> QED  BY <2>1, <2>2, <2>3
  <1>4. ~(e.failures > 0) /\ e.pc # "examine" /\ e.pc # "explain"
    BY <1>1
  <1> QED  BY <1>1, <1>3, <1>4, Zenon DEF Reasons

\* A scene of the day that is not on its list has a list's room of scenes before
\* it, for none of them is of its instant.
LEMMA CrowdedOut ==
    ASSUME NoTieAtCut, registered \subseteq Scenes, NEW d \in Int,
           NEW listed \in list_candidates(d, 0), NEW s \in InWindow(d, 0), s \notin listed
    PROVE  Crowded(s, d)
  <1> DEFINE rows == InWindow(d, 0)
             crowd == {t \in rows : ListedBefore(t, s, d)}
             ofDay == {u \in Scenes : Seen[u].day = Seen[s].day}
  <1>1. rows \subseteq Scenes /\ IsFiniteSet(rows) /\ listed \in FirstOf(rows, d)
    BY WindowTypes DEF list_candidates
  <1>2. /\ listed \subseteq rows /\ IsFiniteSet(listed) /\ Cardinality(listed) = MaxCandidates
        /\ \A t \in listed : ~ListedBefore(s, t, d)
    <2>1. s \in rows \ listed
      OBVIOUS
    <2> HIDE DEF rows
    <2> QED  BY <1>1, <2>1, ListTypes
  <1>3. \A t \in rows : Seen[t].day = d /\ _date_distance_days(t, d) = 0 /\ Seen[t].acquired \in Int
    <2>1. \A t \in rows : _date_distance_days(t, d) <= 0
      BY DEF InWindow
    <2> SUFFICES ASSUME NEW t \in rows
                 PROVE  Seen[t].day = d /\ _date_distance_days(t, d) = 0 /\ Seen[t].acquired \in Int
      OBVIOUS
    <2>2. t \in Scenes
      BY <1>1
    <2>3. /\ _date_distance_days(t, d) \in Nat /\ _date_distance_days(t, d) <= 0 /\ Seen[t].day = d
          /\ Seen[t].acquired \in Int
      BY <2>1, <2>2, DistanceType, SeenTypes
    <2> QED  BY <2>3
  <1>4. ASSUME NEW t \in listed
        PROVE  ListedBefore(t, s, d)
    <2>1. t \in Scenes /\ s \in Scenes /\ t # s /\ t \in rows /\ s \in rows
      BY <1>1, <1>2
    <2>2. ~(Seen[s].acquired > Seen[t].acquired)
      BY <1>2, <1>3, <2>1, ListOrder
    <2>3. Seen[s].acquired # Seen[t].acquired
      <3>1. SUFFICES ASSUME Seen[s].acquired = Seen[t].acquired
                     PROVE  FALSE
        OBVIOUS
      <3>2. Seen[s].day = Seen[t].day
        BY <1>3, <2>1
      <3>3. Cardinality(ofDay) <= MaxCandidates
        BY <2>1, <3>1, <3>2 DEF NoTieAtCut
      <3>4. listed \cup {s} \subseteq ofDay
        BY <1>1, <1>2, <1>3, <2>1
      <3>5. IsFiniteSet(ofDay)
        <4>1. ofDay \subseteq Scenes
          OBVIOUS
        <4> QED  BY <4>1, BoundsAssumption, FS_Subset
      <3> HIDE DEF ofDay
      <3>6. Cardinality(listed \cup {s}) = MaxCandidates + 1
        BY <1>2, FS_AddElement
      <3>7. Cardinality(listed \cup {s}) <= Cardinality(ofDay) /\ Cardinality(ofDay) \in Nat
        BY <3>4, <3>5, FS_Subset, FS_CardinalityType
      <3>8. MaxCandidates \in Nat
        BY BoundsAssumption
      <3> QED  BY <3>3, <3>6, <3>7, <3>8
    <2>4. Seen[t].acquired > Seen[s].acquired
      BY <1>3, <2>1, <2>2, <2>3
    <2> QED  BY <1>3, <2>1, <2>4, ListOrder
  <1>5. listed \subseteq crowd /\ crowd \subseteq rows
    BY <1>2, <1>4
  <1>6. Crowded(s, d) <=> Cardinality(crowd) >= MaxCandidates
    BY DEF Crowded
  <1> HIDE DEF crowd, rows
  <1>7. IsFiniteSet(crowd)
    BY <1>1, <1>5, FS_Subset
  <1>8. Cardinality(listed) <= Cardinality(crowd) /\ Cardinality(crowd) \in Nat
    BY <1>5, <1>7, FS_Subset, FS_CardinalityType
  <1> QED  BY <1>2, <1>6, <1>8

\* A scene on a list has less than a list's room of scenes before it.
LEMMA ListedIsNotCrowded ==
    ASSUME registered \subseteq Scenes, NEW d \in Int,
           NEW listed \in list_candidates(d, 0), NEW s \in listed
    PROVE  ~Crowded(s, d)
  <1> DEFINE rows == InWindow(d, 0)
             crowd == {t \in rows : ListedBefore(t, s, d)}
  <1>1. rows \subseteq Scenes /\ IsFiniteSet(rows) /\ listed \in FirstOf(rows, d)
    BY WindowTypes DEF list_candidates
  <1>2. /\ listed \subseteq rows /\ IsFiniteSet(listed)
        /\ Cardinality(listed) <= MaxCandidates /\ Cardinality(listed) \in Nat
        /\ \A t \in rows \ listed : ~ListedBefore(t, s, d)
    <2> HIDE DEF rows
    <2> QED  BY <1>1, ListTypes
  <1>3. ~ListedBefore(s, s, d)
    <2>1. s \in Scenes
      BY <1>1, <1>2
    <2>2. _date_distance_days(s, d) \in Nat /\ Seen[s].acquired \in Int
      BY <2>1, DistanceType, SeenTypes
    <2> QED  BY <2>1, <2>2, ListOrder
  <1>4. crowd \subseteq listed /\ s \notin crowd /\ s \in listed
    BY <1>2, <1>3
  <1>5. Crowded(s, d) <=> Cardinality(crowd) >= MaxCandidates
    BY DEF Crowded
  <1> HIDE DEF crowd, rows
  <1>6. Cardinality(crowd) <= Cardinality(listed) /\ Cardinality(crowd) # Cardinality(listed)
    BY <1>2, <1>4, FS_Subset
  <1>7. Cardinality(crowd) \in Nat
    BY <1>2, <1>4, FS_Subset, FS_CardinalityType
  <1>8. MaxCandidates \in Nat
    BY BoundsAssumption
  <1> QED  BY <1>2, <1>5, <1>6, <1>7, <1>8

LEMMA ListOptionsReasons ==
    ASSUME NoTieAtCut, CatalogueOK, NEW c, CallOK(c), Reasons(c), c.pc = "list",
           NEW listed \in list_candidates(c.date, Window(c)), NEW e,
           e = [c EXCEPT !.pc = "examine", !.queue = listed, !.options = {}, !.failures = 0]
    PROVE  Reasons(e)
  <1>1. c \in Calls /\ c.date \in Int /\ registered \subseteq Scenes
    BY AskedTypes DEF CallOK, CatalogueOK
  <1>2. /\ e.pc = "examine" /\ e.queue = listed /\ e.failures = 0
        /\ e.kind = c.kind /\ e.date = c.date /\ e.dates = c.dates /\ e.limit = c.limit
        /\ e.answer = c.answer /\ e.derived0 = c.derived0 /\ e.unsure = c.unsure
    BY <1>1 DEF Calls
  <1>3. ASSUME c.kind = "dates"
        PROVE  Accounted(e)
    <2>1. listed \in list_candidates(c.date, 0)
      BY <1>3 DEF Window
    <2>2. \A s \in InWindow(c.date, 0) : s \in listed \/ Crowded(s, c.date)
      BY <1>1, <2>1, CrowdedOut
    <2> QED  BY <1>2, <2>2 DEF Accounted
  <1>4. ASSUME c.kind = "dates"
        PROVE  \A d \in Answered(e) : ReasonOK(e, d, e.answer[d].status)
    <2>1. Working(c) /\ Working(e)
      BY <1>2 DEF Working
    <2>2. \A d \in Answered(c) : ReasonOK(c, d, c.answer[d].status)
      BY <1>4 DEF Reasons
    <2> QED  BY <1>2, <2>1, <2>2, SameAnswers, ZenonT(60)
  <1>5. ~(e.failures > 0)
    BY <1>2
  <1> QED  BY <1>2, <1>3, <1>4, <1>5 DEF Reasons

LEMMA ExaminedReasons ==
    ASSUME CatalogueOK, NEW c, CallOK(c), Reasons(c), c.pc = "examine", NEW s \in c.queue,
           NEW e, e = Examined(c, s)
    PROVE  Reasons(e)
  <1>1. c \in Calls /\ Remembered(c) /\ Working(c)
    BY DEF CallOK, Working
  <1>2. /\ e.pc = c.pc /\ e.kind = c.kind /\ e.date = c.date /\ e.dates = c.dates
        /\ e.limit = c.limit /\ e.answer = c.answer
        /\ e.derived0 = c.derived0 /\ e.unsure = c.unsure
        /\ e.queue = c.queue \ {s}
        /\ Refused(s) => e.failures = c.failures + 1
        /\ ~Refused(s) => e.failures = c.failures
        /\ Offered(c, s) => e.options = c.options \cup {s}
        /\ ~Offered(c, s) => e.options = c.options
    BY <1>1, ExaminedFields
  <1>3. c.failures \in Nat
    BY <1>1 DEF Calls
  <1>4. ASSUME c.kind = "dates", e.failures > 0
        PROVE  e.unsure # {}
    <2>1. CASE Refused(s)
      BY <1>1, <1>2, <2>1 DEF Refused, Remembered
    <2>2. CASE ~Refused(s)
      BY <1>2, <1>4, <2>2 DEF Reasons
    <2> QED  BY <2>1, <2>2
  <1>5. ASSUME c.kind = "dates"
        PROVE  Accounted(e)
    <2>1. SUFFICES ASSUME NEW t \in c.derived0 \cap InWindow(c.date, 0)
                   PROVE  \/ t \in e.queue \/ e.failures > 0 \/ Crowded(t, c.date)
                          \/ Eligible(t, c.limit) => t \in e.options
      BY <1>2 DEF Accounted
    <2>2. \/ t \in c.queue \/ c.failures > 0 \/ Crowded(t, c.date)
          \/ Eligible(t, c.limit) => t \in c.options
      BY <1>5, <2>1 DEF Reasons, Accounted
    <2>3. c.failures > 0 => e.failures > 0
      BY <1>2, <1>3
    <2>4. CASE t # s
      BY <1>2, <2>2, <2>3, <2>4
    <2>5. CASE t = s
      <3>1. t \in derived /\ Seen[t].composite
        BY <1>1, <2>1 DEF Remembered, CatalogueOK
      <3>2. Refused(s) => e.failures > 0
        BY <1>2, <1>3
      <3>3. ~Refused(s) /\ Eligible(t, c.limit) => Offered(c, s)
        BY <2>5, <3>1 DEF Refused, Offered
      <3> QED  BY <1>2, <2>5, <3>2, <3>3
    <2> QED  BY <2>4, <2>5
  <1>6. ASSUME c.kind = "dates"
        PROVE  \A d \in Answered(e) : ReasonOK(e, d, e.answer[d].status)
    <2>1. Working(e)
      BY <1>2 DEF Working
    <2>2. \A d \in Answered(c) : ReasonOK(c, d, c.answer[d].status)
      BY <1>6 DEF Reasons
    <2> QED  BY <1>1, <1>2, <2>1, <2>2, SameAnswers, ZenonT(60)
  <1> QED  BY <1>2, <1>4, <1>5, <1>6 DEF Reasons

LEMMA ListRejectionsReasons ==
    ASSUME CatalogueOK, NEW c, CallOK(c), Reasons(c), c.pc = "examine", c.queue = {}, c.options = {},
           c.kind = "dates", c.failures = 0,
           NEW listed \in list_candidates(c.date, 0), listed # {},
           NEW e, e = [c EXCEPT !.pc = "explain", !.queue = listed]
    PROVE  Reasons(e)
  <1>1. c \in Calls /\ c.date \in Int /\ registered \subseteq Scenes
    BY AskedTypes DEF CallOK, CatalogueOK
  <1>2. /\ e.pc = "explain" /\ e.queue = listed /\ e.failures = 0 /\ e.rejections = {}
        /\ e.kind = c.kind /\ e.date = c.date /\ e.dates = c.dates /\ e.limit = c.limit
        /\ e.answer = c.answer /\ e.derived0 = c.derived0 /\ e.unsure = c.unsure
    <2>1. c.rejections = {}
      BY DEF CallOK, InHand
    <2> QED  BY <1>1, <2>1 DEF Calls
  <1>3. ASSUME NEW s \in listed, s \in c.derived0
        PROVE  ~Eligible(s, c.limit)
    <2>1. ~Crowded(s, c.date)
      BY <1>1, ListedIsNotCrowded
    <2>2. s \in InWindow(c.date, 0)
      BY DEF list_candidates, FirstOf
    <2>3. ~(c.failures > 0)
      OBVIOUS
    <2> QED  BY <1>3, <2>1, <2>2, <2>3 DEF Reasons, Accounted
  <1>4. \A s \in Sure(c, c.date) : s \in listed
    <2>1. Window(c) = 0
      BY DEF Window
    <2> QED  BY <1>1, <2>1, SureIsListed
  <1>5. Sure(e, e.date) = Sure(c, c.date)
    <2>1. e.kind = c.kind /\ e.derived0 = c.derived0 /\ e.unsure = c.unsure
      BY <1>2
    <2>2. Sure(e, c.date) = Sure(c, c.date)
      BY <2>1, SameSure, ZenonT(60)
    <2> QED  BY <1>2, <2>2
  <1>6. Explaining(e)
    BY <1>2, <1>3, <1>4, <1>5 DEF Explaining
  <1>7. \A d \in Answered(e) : ReasonOK(e, d, e.answer[d].status)
    <2>1. Working(c) /\ Working(e)
      BY <1>2 DEF Working
    <2>2. \A d \in Answered(c) : ReasonOK(c, d, c.answer[d].status)
      BY DEF Reasons
    <2> QED  BY <1>2, <2>1, <2>2, SameAnswers, ZenonT(60)
  <1>8. ~(e.failures > 0)
    BY <1>2
  <1> QED  BY <1>2, <1>6, <1>7, <1>8 DEF Reasons

LEMMA RejectionFacts ==
    ASSUME NEW s \in Scenes, NEW limit \in Int
    PROVE  /\ s \notin derived => RejectionOf(s, limit) = {"PROCESSING_PENDING"}
           /\ s \in derived \cap unreadable => RejectionOf(s, limit) = {"PROCESSING_FAILED"}
           /\ s \in derived \ unreadable =>
                 /\ ~Seen[s].onField => RejectionOf(s, limit) = {"NO_FIELD_INTERSECTION"}
                 /\ Seen[s].onField =>
                       /\ Seen[s].coverage < MinCoverage
                          => RejectionOf(s, limit) = {"INSUFFICIENT_FIELD_COVERAGE"}
                       /\ TooCloudy(s, limit) => RejectionOf(s, limit) = {"CLOUD_THRESHOLD_EXCEEDED"}
                       /\ Seen[s].coverage >= MinCoverage /\ Seen[s].obscured <= limit =>
                             /\ Seen[s].pixels < MinPixels => RejectionOf(s, limit) = {"PROCESSING_FAILED"}
                             /\ ~(Seen[s].pixels < MinPixels) => RejectionOf(s, limit) = {}
  <1>1. ASSUME s \notin derived
        PROVE  RejectionOf(s, limit) = {"PROCESSING_PENDING"}
    BY <1>1 DEF RejectionOf
  <1>2. ASSUME s \in derived \cap unreadable
        PROVE  RejectionOf(s, limit) = {"PROCESSING_FAILED"}
    BY <1>2 DEF RejectionOf
  <1>3. PICK coverage, obscured : coverage = Seen[s].coverage /\ obscured = Seen[s].obscured
    OBVIOUS
  <1>4. coverage \in Int /\ obscured \in Int /\ MinCoverage \in Int
    BY <1>3, SeenTypes, BoundsAssumption
  <1>5. /\ coverage < MinCoverage <=> ~(coverage >= MinCoverage)
        /\ obscured > limit <=> ~(obscured <= limit)
    BY <1>4
  <1>6. ASSUME s \in derived \ unreadable, ~Seen[s].onField
        PROVE  RejectionOf(s, limit) = {"NO_FIELD_INTERSECTION"}
    BY <1>6 DEF RejectionOf
  <1>7. ASSUME s \in derived \ unreadable, Seen[s].onField, coverage < MinCoverage
        PROVE  RejectionOf(s, limit) = {"INSUFFICIENT_FIELD_COVERAGE"}
    BY <1>3, <1>5, <1>7 DEF RejectionOf
  <1>8. ASSUME s \in derived \ unreadable, TooCloudy(s, limit)
        PROVE  RejectionOf(s, limit) = {"CLOUD_THRESHOLD_EXCEEDED"}
    BY <1>3, <1>5, <1>8 DEF RejectionOf, TooCloudy
  <1>9. ASSUME s \in derived \ unreadable, Seen[s].onField, coverage >= MinCoverage, obscured <= limit
        PROVE  RejectionOf(s, limit) = IF Seen[s].pixels < MinPixels THEN {"PROCESSING_FAILED"} ELSE {}
    BY <1>3, <1>5, <1>9 DEF RejectionOf
  <1> QED  BY <1>1, <1>2, <1>3, <1>6, <1>7, <1>8, <1>9

\* The day is blamed on a reason that was found, of those on one that comes first.
LEMMA BlamedFacts ==
    ASSUME NEW reasons, reasons \subseteq Rejections
    PROVE  /\ reasons = {} => Blamed(reasons) = "PROCESSING_PENDING"
           /\ reasons # {} => Blamed(reasons) \in reasons
           /\ "CLOUD_THRESHOLD_EXCEEDED" \in reasons => Blamed(reasons) = "CLOUD_THRESHOLD_EXCEEDED"
           /\ reasons # {} /\ Blamed(reasons) = "NO_FIELD_INTERSECTION" =>
                 reasons \ {"NO_FIELD_INTERSECTION"} = {}
           /\ Blamed(reasons) \in Statuses /\ Blamed(reasons) # "AVAILABLE"
  <1>1. /\ priority["CLOUD_THRESHOLD_EXCEEDED"] = 0 /\ priority["PROCESSING_FAILED"] = 1
        /\ priority["PROCESSING_PENDING"] = 2 /\ priority["INSUFFICIENT_FIELD_COVERAGE"] = 3
        /\ priority["NO_FIELD_INTERSECTION"] = 4
    BY DEF priority, Rejections
  <1>2. ASSUME reasons # {}
        PROVE  /\ Blamed(reasons) \in reasons
               /\ \A y \in reasons : priority[Blamed(reasons)] <= priority[y]
    <2> DEFINE ranks == {priority[x] : x \in reasons}
    <2>1. ranks \subseteq Nat /\ ranks # {}
      <3>1. \A x \in Rejections : priority[x] \in Nat
        BY <1>1 DEF Rejections
      <3> QED  BY <1>2, <3>1
    <2>2. PICK n \in ranks : \A m \in ranks : n <= m
      BY <2>1, SmallestOfSet
    <2>3. \E x \in reasons : \A y \in reasons : priority[x] <= priority[y]
      BY <2>2
    <2> QED  BY <1>2, <2>3, Zenon DEF Blamed
  <1>3. reasons = {} => Blamed(reasons) = "PROCESSING_PENDING"
    BY DEF Blamed
  <1>4. PICK blamed : blamed = Blamed(reasons)
    OBVIOUS
  <1>5. ASSUME "CLOUD_THRESHOLD_EXCEEDED" \in reasons
        PROVE  blamed = "CLOUD_THRESHOLD_EXCEEDED"
    <2>1. blamed \in Rejections /\ priority[blamed] <= 0
      BY <1>1, <1>2, <1>4, <1>5
    <2> QED  BY <1>1, <2>1 DEF Rejections
  <1>6. ASSUME reasons # {}, blamed = "NO_FIELD_INTERSECTION", NEW x \in reasons
        PROVE  x = "NO_FIELD_INTERSECTION"
    <2>1. x \in Rejections /\ 4 <= priority[x]
      BY <1>1, <1>2, <1>4, <1>6
    <2> QED  BY <1>1, <2>1 DEF Rejections
  <1>7. blamed \in Rejections
    <2>1. reasons # {} => blamed \in reasons
      BY <1>2, <1>4
    <2>2. "PROCESSING_PENDING" \in Rejections
      BY DEF Rejections
    <2> QED  BY <1>3, <1>4, <2>1, <2>2
  <1>8. blamed \in Statuses /\ blamed # "AVAILABLE"
    BY <1>7 DEF Statuses, Rejections
  <1> QED  BY <1>2, <1>3, <1>4, <1>5, <1>6, <1>8

\* Explaining one scene of the list adds a reason that is true, or leaves a scene
\* of the day that was still to be processed.
LEMMA ExplainedReasons ==
    ASSUME CatalogueOK, NEW c, CallOK(c), Best(c), Reasons(c), c.pc = "explain", NEW s \in c.queue,
           NEW e, e = [c EXCEPT !.queue = @ \ {s}, !.rejections = @ \cup RejectionOf(s, c.limit)]
    PROVE  Reasons(e)
  <1>1. c \in Calls /\ InHand(c) /\ Remembered(c) /\ Working(c) /\ registered \subseteq Scenes
    BY DEF CallOK, Working, CatalogueOK
  <1>2. /\ e.pc = "explain" /\ e.queue = c.queue \ {s} /\ e.failures = c.failures
        /\ e.kind = c.kind /\ e.date = c.date /\ e.dates = c.dates /\ e.limit = c.limit
        /\ e.rejections = c.rejections \cup RejectionOf(s, c.limit) /\ e.answer = c.answer
        /\ e.derived0 = c.derived0 /\ e.unsure = c.unsure
    BY <1>1 DEF Calls
  <1>3. /\ c.kind = "dates" /\ c.failures = 0 /\ s \in InWindow(c.date, 0) /\ s \in Scenes
        /\ c.date \in Int /\ c.limit \in Int
    <2>1. c.kind = "dates" /\ c.failures = 0
      BY <1>1 DEF InHand
    <2>2. s \in InWindow(c.date, 0)
      BY <1>1, <2>1 DEF InHand, Window
    <2>3. c.limit \in Nat /\ c.date \in Int /\ c.queue \subseteq Scenes
      BY <1>1 DEF Calls
    <2> QED  BY <2>1, <2>2, <2>3
  <1>4. s \in OfDay(c.date)
    <2>1. _date_distance_days(s, c.date) <= 0 /\ s \in registered
      BY <1>3 DEF InWindow
    <2>2. Seen[s].day = c.date
      BY <1>3, <2>1, DistanceType
    <2> QED  BY <2>1, <2>2 DEF OfDay
  <1>5. Explaining(c)
    BY <1>3 DEF Reasons
  <1>6. Sure(e, e.date) = Sure(c, c.date)
    <2>1. e.kind = c.kind /\ e.derived0 = c.derived0 /\ e.unsure = c.unsure
      BY <1>2
    <2>2. Sure(e, c.date) = Sure(c, c.date)
      BY <2>1, SameSure, ZenonT(60)
    <2> QED  BY <1>2, <2>2
  <1> DEFINE reason == RejectionOf(s, c.limit)
             facts ==
               /\ s \notin derived => reason = {"PROCESSING_PENDING"}
               /\ s \in derived \cap unreadable => reason = {"PROCESSING_FAILED"}
               /\ s \in derived \ unreadable =>
                     /\ ~Seen[s].onField => reason = {"NO_FIELD_INTERSECTION"}
                     /\ Seen[s].onField =>
                           /\ Seen[s].coverage < MinCoverage
                              => reason = {"INSUFFICIENT_FIELD_COVERAGE"}
                           /\ TooCloudy(s, c.limit) => reason = {"CLOUD_THRESHOLD_EXCEEDED"}
                           /\ Seen[s].coverage >= MinCoverage /\ Seen[s].obscured <= c.limit =>
                                 /\ Seen[s].pixels < MinPixels => reason = {"PROCESSING_FAILED"}
                                 /\ ~(Seen[s].pixels < MinPixels) => reason = {}
  <1>7. facts
    BY <1>3, RejectionFacts
  <1> HIDE DEF reason
  <1>8. PICK coverage, obscured, pixels :
           coverage = Seen[s].coverage /\ obscured = Seen[s].obscured /\ pixels = Seen[s].pixels
    OBVIOUS
  <1>9. /\ coverage >= MinCoverage \/ coverage < MinCoverage
        /\ obscured <= c.limit \/ obscured > c.limit
        /\ pixels >= MinPixels \/ pixels < MinPixels
    <2>1. coverage \in Int /\ obscured \in Int /\ pixels \in Int /\ MinCoverage \in Int /\ MinPixels \in Int
      BY <1>3, <1>8, SeenTypes, BoundsAssumption
    <2> QED  BY <1>3, <2>1
  <1>10. ASSUME reason = {}
         PROVE  OfDay(c.date) \ c.derived0 # {}
    <2>1. s \in derived \ unreadable /\ Seen[s].onField
      BY <1>3, <1>7, <1>10, SeenTypes
    <2>2. Eligible(s, c.limit)
      BY <1>7, <1>8, <1>9, <1>10, <2>1 DEF Eligible, TooCloudy
    <2>3. s \notin c.derived0
      BY <1>5, <2>2 DEF Explaining
    <2> QED  BY <1>4, <2>3
  <1>11. ASSUME NEW r \in reason
         PROVE  TrueOf(c, c.date, r)
    <2>1. CASE s \notin derived
      <3>1. r = "PROCESSING_PENDING" /\ s \notin c.derived0
        BY <1>1, <1>7, <1>11, <2>1 DEF Remembered
      <3> QED  BY <1>4, <3>1 DEF TrueOf
    <2>2. CASE s \in derived \cap unreadable
      <3>1. r = "PROCESSING_FAILED" /\ s \in c.unsure
        BY <1>1, <1>7, <1>11, <2>2 DEF Remembered
      <3> QED  BY <3>1 DEF TrueOf
    <2>3. CASE s \in derived \ unreadable
      <3>1. r # "PROCESSING_PENDING"
        BY <1>3, <1>7, <1>8, <1>9, <1>11, <2>3, SeenTypes DEF TooCloudy
      <3>2. r = "PROCESSING_FAILED" => Seen[s].pixels < MinPixels
        BY <1>3, <1>7, <1>8, <1>9, <1>11, <2>3, SeenTypes DEF TooCloudy
      <3> QED  BY <1>4, <3>1, <3>2 DEF TrueOf
    <2> QED  BY <2>1, <2>2, <2>3
  <1>12. ASSUME NEW t \in Sure(c, c.date)
         PROVE  \/ t \in e.queue \/ ~Seen[t].onField
                \/ /\ e.rejections \ {"NO_FIELD_INTERSECTION"} # {}
                   /\ TooCloudy(t, c.limit) => "CLOUD_THRESHOLD_EXCEEDED" \in e.rejections
    <2>1. \/ t \in c.queue \/ ~Seen[t].onField
          \/ /\ c.rejections \ {"NO_FIELD_INTERSECTION"} # {}
             /\ TooCloudy(t, c.limit) => "CLOUD_THRESHOLD_EXCEEDED" \in c.rejections
      BY <1>5 DEF Explaining
    <2>2. CASE t # s
      BY <1>2, <2>1, <2>2
    <2>3. CASE t = s /\ Seen[s].onField
      <3>1. s \in derived \ unreadable
        BY <1>1, <2>3, SureIsReadable
      <3>2. ~Eligible(s, c.limit)
        BY <2>3 DEF Best, OptionsOK
      <3>3. reason # {} /\ reason # {"NO_FIELD_INTERSECTION"}
               /\ \E r : reason = {r} /\ r # "NO_FIELD_INTERSECTION"
        BY <1>7, <1>8, <1>9, <2>3, <3>1, <3>2 DEF Eligible, TooCloudy
      <3>4. TooCloudy(s, c.limit) => "CLOUD_THRESHOLD_EXCEEDED" \in reason
        BY <1>7, <2>3, <3>1
      <3>5. e.rejections = c.rejections \cup reason
        BY <1>2 DEF reason
      <3> QED  BY <2>3, <3>3, <3>4, <3>5
    <2>4. CASE t = s /\ ~Seen[s].onField
      BY <2>4
    <2> QED  BY <2>2, <2>3, <2>4
  <1>13. Explaining(e)
    <2>1. e.rejections = c.rejections \cup reason
      BY <1>2 DEF reason
    <2>2. \A t \in e.queue : t \in e.derived0 => ~Eligible(t, e.limit)
      BY <1>2, <1>5 DEF Explaining
    <2>3. e.queue # {} \/ e.rejections # {} \/ OfDay(e.date) \ e.derived0 # {}
      BY <1>2, <1>10, <2>1
    <2>4. \A r \in e.rejections : TrueOf(e, e.date, r)
      <3>1. \A r : TrueOf(c, c.date, r) => TrueOf(e, e.date, r)
        BY <1>2 DEF TrueOf
      <3> QED  BY <1>5, <1>11, <2>1, <3>1 DEF Explaining
    <2> QED  BY <1>2, <1>6, <1>12, <2>2, <2>3, <2>4 DEF Explaining
  <1>14. \A d \in Answered(e) : ReasonOK(e, d, e.answer[d].status)
    <2>1. Working(e)
      BY <1>2 DEF Working
    <2>2. \A d \in Answered(c) : ReasonOK(c, d, c.answer[d].status)
      BY <1>3 DEF Reasons
    <2> QED  BY <1>1, <1>2, <2>1, <2>2, SameAnswers, ZenonT(60)
  <1>15. ~(e.failures > 0)
    BY <1>2, <1>3
  <1> QED  BY <1>2, <1>13, <1>14, <1>15 DEF Reasons

\* The reason that is given when every scene of the list has been explained.
LEMMA BlamedIsTrue ==
    ASSUME NEW c, CallOK(c), Reasons(c), c.pc = "explain", c.queue = {}
    PROVE  ReasonOK(c, c.date, Blamed(c.rejections))
  <1>1. Explaining(c) /\ c.rejections \subseteq Rejections
    BY DEF Reasons, CallOK, InHand, Calls
  <1>2. PICK blamed : blamed = Blamed(c.rejections)
    OBVIOUS
  <1>3. /\ c.rejections = {} => blamed = "PROCESSING_PENDING"
        /\ c.rejections # {} => blamed \in c.rejections
        /\ "CLOUD_THRESHOLD_EXCEEDED" \in c.rejections => blamed = "CLOUD_THRESHOLD_EXCEEDED"
        /\ c.rejections # {} /\ blamed = "NO_FIELD_INTERSECTION" =>
              c.rejections \ {"NO_FIELD_INTERSECTION"} = {}
    BY <1>1, <1>2, BlamedFacts
  <1>4. TrueOf(c, c.date, blamed)
    <2>1. CASE c.rejections = {}
      BY <1>1, <1>3, <2>1 DEF Explaining, TrueOf
    <2>2. CASE c.rejections # {}
      BY <1>1, <1>3, <2>2 DEF Explaining
    <2> QED  BY <2>1, <2>2
  <1>5. ASSUME NEW s \in Sure(c, c.date), Seen[s].onField
        PROVE  /\ c.rejections \ {"NO_FIELD_INTERSECTION"} # {}
               /\ TooCloudy(s, c.limit) => "CLOUD_THRESHOLD_EXCEEDED" \in c.rejections
    BY <1>1, <1>5 DEF Explaining
  <1>6. blamed = "NO_FIELD_INTERSECTION" => \A s \in Sure(c, c.date) : ~Seen[s].onField
    BY <1>3, <1>5
  <1>7. \A s \in Sure(c, c.date) : TooCloudy(s, c.limit) => blamed = "CLOUD_THRESHOLD_EXCEEDED"
    BY <1>3, <1>5 DEF TooCloudy
  <1> QED  BY <1>2, <1>4, <1>6, <1>7 DEF ReasonOK

LEMMA FailureIsTrue ==
    ASSUME NEW c, Reasons(c), c.kind = "dates", c.failures > 0
    PROVE  ReasonOK(c, c.date, "PROCESSING_FAILED")
  BY DEF Reasons, ReasonOK, TrueOf

LEMMA AvailableIsTrue ==
    ASSUME NEW c, NEW d
    PROVE  ReasonOK(c, d, "AVAILABLE")
  BY DEF ReasonOK, TrueOf

\* A day without a listed scene is a day without a scene.
LEMMA NoSceneIsTrue ==
    ASSUME registered \subseteq Scenes, NEW c, c.kind = "dates", NEW d,
           {} \in list_candidates(d, 0)
    PROVE  ReasonOK(c, d, "NO_FIELD_INTERSECTION")
  <1>1. InWindow(d, 0) = {}
    <2>1. IsFiniteSet(InWindow(d, 0)) /\ {} \in FirstOf(InWindow(d, 0), d)
      BY WindowTypes DEF list_candidates
    <2> QED  BY <2>1, ListTypes
  <1>2. Sure(c, d) = {}
    BY <1>1 DEF Sure, Window
  <1> QED  BY <1>2 DEF ReasonOK, TrueOf

-----------------------------------------------------------------------------
(***************************************************************************)
(* The catalogue grows under a request.                                    *)
(***************************************************************************)
LEMMA CrowdGrows ==
    ASSUME registered \subseteq registered', registered' \subseteq Scenes, NEW s, NEW d, Crowded(s, d)
    PROVE  Crowded(s, d)'
  <1> DEFINE crowd == {t \in InWindow(d, 0) : ListedBefore(t, s, d)}
  <1>1. PICK later : later = {t \in InWindow(d, 0)' : ListedBefore(t, s, d)}
    OBVIOUS
  <1>2. crowd \subseteq later /\ later \subseteq Scenes
    BY <1>1 DEF InWindow
  <1>3. Cardinality(crowd) >= MaxCandidates
    BY DEF Crowded
  <1> HIDE DEF crowd
  <1>4. IsFiniteSet(later) /\ IsFiniteSet(crowd)
    BY <1>2, BoundsAssumption, FS_Subset
  <1>5. Cardinality(crowd) <= Cardinality(later)
    BY <1>2, <1>4, FS_Subset
  <1>6. Cardinality(crowd) \in Nat /\ Cardinality(later) \in Nat /\ MaxCandidates \in Nat
    BY <1>4, FS_CardinalityType, BoundsAssumption
  <1>7. Cardinality(later) >= MaxCandidates
    BY <1>3, <1>5, <1>6
  <1>8. Cardinality({t \in InWindow(d, 0)' : ListedBefore(t, s, d)}) >= MaxCandidates
    BY <1>1, <1>7
  <1> QED  BY <1>8 DEF Crowded

LEMMA KeptFields ==
    ASSUME NEW c \in Calls, NEW e, e = c \/ \E s \in Scenes : e = [c EXCEPT !.unsure = @ \cup {s}]
    PROVE  /\ e \in Calls /\ e.pc = c.pc /\ e.kind = c.kind /\ e.date = c.date /\ e.dates = c.dates
           /\ e.limit = c.limit /\ e.queue = c.queue /\ e.options = c.options
           /\ e.failures = c.failures /\ e.rejections = c.rejections /\ e.answer = c.answer
           /\ e.derived0 = c.derived0 /\ c.unsure \subseteq e.unsure
  <1>1. CASE e = c
    BY <1>1
  <1>2. CASE \E s \in Scenes : e = [c EXCEPT !.unsure = @ \cup {s}]
    <2>1. PICK s \in Scenes : e = [c EXCEPT !.unsure = @ \cup {s}]
      BY <1>2
    <2> QED  BY <2>1 DEF Calls
  <1> QED  BY <1>1, <1>2

LEMMA KeptCall ==
    ASSUME CatalogueOK, CatalogueOK', registered \subseteq registered', derived \subseteq derived',
           NEW c, CallOK(c), NEW e,
           e = c \/ (c.pc # "idle" /\ \E s \in Scenes : e = [c EXCEPT !.unsure = @ \cup {s}]),
           Working(c) => unreadable' \subseteq e.unsure
    PROVE  CallOK(e)' /\ (Best(c) => Best(e)') /\ (Reasons(c) => Reasons(e)')
  <1>1. c \in Calls /\ InHand(c) /\ AnswersTyped(c) /\ Remembered(c)
    BY DEF CallOK
  <1>2. /\ e \in Calls /\ e.pc = c.pc /\ e.kind = c.kind /\ e.date = c.date /\ e.dates = c.dates
        /\ e.limit = c.limit /\ e.queue = c.queue /\ e.options = c.options
        /\ e.failures = c.failures /\ e.rejections = c.rejections /\ e.answer = c.answer
        /\ e.derived0 = c.derived0 /\ c.unsure \subseteq e.unsure
    BY <1>1, KeptFields
  <1>3. registered' \subseteq Scenes /\ c.derived0 \subseteq registered
    BY <1>1 DEF CatalogueOK, Remembered
  <1>4. Asked(e) = Asked(c) /\ Window(e) = Window(c) /\ Answered(e) = Answered(c)
    BY <1>2 DEF Asked, Window, Answered, Working
  <1>5. \A d : Sure(e, d)' \subseteq Sure(c, d)
    BY <1>2, <1>3, SureShrinks
  <1>6. CallOK(e)'
    <2>1. (e.pc = "idle" => e = Idle)'
      BY <1>2 DEF CallOK, Idle, Unanswered
    <2>2. (e.pc # "idle" => Made(e))'
      <3>1. c.pc # "idle" => Made(c)
        BY DEF CallOK
      <3> QED  BY <1>2, <1>4, <3>1 DEF Made, Asked
    <2>3. InHand(e)'
      <3>1. InWindow(c.date, Window(c)) \subseteq InWindow(e.date, Window(e))'
        BY <1>2, <1>4 DEF InWindow, Window
      <3>2. (e.queue \cup e.options \subseteq InWindow(e.date, Window(e)))'
        BY <1>1, <1>2, <3>1 DEF InHand
      <3> QED  BY <1>1, <1>2, <3>2 DEF InHand
    <2>4. AnswersTyped(e)'
      BY <1>1, <1>2 DEF AnswersTyped
    <2>5. Remembered(e)'
      <3>1. e.derived0 \subseteq derived'
        BY <1>1, <1>2 DEF Remembered
      <3>2. Working(e) => unreadable' \subseteq e.unsure
        BY <1>2 DEF Working
      <3> QED  BY <3>1, <3>2 DEF Remembered, Working
    <2> QED  BY <1>2, <2>1, <2>2, <2>3, <2>4, <2>5 DEF CallOK, Calls
  <1>7. ASSUME Best(c)
        PROVE  Best(e)'
    <2>1. OptionsOK(e)'
      <3>1. \A s \in Sure(e, e.date)' : s \in Sure(c, c.date)
        BY <1>2, <1>5
      <3> QED  BY <1>2, <1>7, <3>1 DEF Best, OptionsOK, Eligible
    <2>2. ASSUME NEW d \in Answered(c)
          PROVE  BestOf(e, d, e.answer[d].status, e.answer[d].scene)'
      <3>1. BestOf(c, d, c.answer[d].status, c.answer[d].scene)
        BY <1>7 DEF Best
      <3> QED  BY <1>2, <1>4, <1>5, <3>1, ZenonT(60) DEF BestOf, Eligible, Preferred, Window
    <2>3. (\A d \in Answered(e) : BestOf(e, d, e.answer[d].status, e.answer[d].scene))'
      BY <1>4, <2>2 DEF Answered, Working, Asked
    <2> QED  BY <2>1, <2>3 DEF Best
  <1>8. \A d : OfDay(d) \subseteq OfDay(d)'
    BY DEF OfDay
  <1>9. \A d, r : TrueOf(c, d, r) => TrueOf(e, d, r)'
    BY <1>2, <1>8 DEF TrueOf
  <1>10. ASSUME Reasons(c)
         PROVE  Reasons(e)'
    <2>1. SUFFICES ASSUME c.kind = "dates"
                   PROVE  /\ c.failures > 0 => e.unsure # {}
                          /\ c.pc = "examine" => Accounted(e)'
                          /\ c.pc = "explain" => Explaining(e)'
                          /\ \A d \in Answered(c) : ReasonOK(e, d, e.answer[d].status)'
      BY <1>2, <1>4 DEF Reasons, Answered, Working, Asked
    <2>2. c.failures > 0 => e.unsure # {}
      BY <1>2, <1>10, <2>1 DEF Reasons
    <2>3. ASSUME c.pc = "examine"
          PROVE  Accounted(e)'
      <3>1. \A s \in c.derived0 : s \in InWindow(c.date, 0)' => s \in InWindow(c.date, 0)
        BY <1>3 DEF InWindow
      <3>2. \A s : Crowded(s, c.date) => Crowded(s, c.date)'
        BY <1>3, CrowdGrows
      <3>3. Accounted(c)
        BY <1>10, <2>1, <2>3 DEF Reasons
      <3>4. InWindow(e.date, 0)' = InWindow(c.date, 0)'
        BY <1>2 DEF InWindow
      <3>5. \A s : Crowded(s, e.date)' = Crowded(s, c.date)'
        BY <1>2 DEF Crowded, InWindow
      <3> QED  BY <1>2, <3>1, <3>2, <3>3, <3>4, <3>5 DEF Accounted, Eligible
    <2>4. ASSUME c.pc = "explain"
          PROVE  Explaining(e)'
      <3>1. Explaining(c)
        BY <1>10, <2>1, <2>4 DEF Reasons
      <3>2. (\A s \in e.queue : s \in e.derived0 => ~Eligible(s, e.limit))'
        BY <1>2, <3>1 DEF Explaining, Eligible
      <3>3. (e.queue # {} \/ e.rejections # {} \/ OfDay(e.date) \ e.derived0 # {})'
        BY <1>2, <1>8, <3>1 DEF Explaining, OfDay
      <3>4. (\A reason \in e.rejections : TrueOf(e, e.date, reason))'
        BY <1>2, <1>9, <3>1 DEF Explaining
      <3>5. \A s \in Sure(e, e.date)' : s \in Sure(c, c.date)
        BY <1>2, <1>5
      <3> QED  BY <1>2, <3>1, <3>2, <3>3, <3>4, <3>5 DEF Explaining, TooCloudy
    <2>5. ASSUME NEW d \in Answered(c)
          PROVE  ReasonOK(e, d, e.answer[d].status)'
      <3>1. ReasonOK(c, d, c.answer[d].status)
        BY <1>10, <2>1 DEF Reasons
      <3> QED  BY <1>2, <1>5, <1>9, <3>1 DEF ReasonOK, TooCloudy
    <2> QED  BY <2>2, <2>3, <2>4, <2>5
  <1> QED  BY <1>6, <1>7, <1>10

-----------------------------------------------------------------------------
(***************************************************************************)
(* The steps of the specification.                                         *)
(***************************************************************************)
IInv == Types /\ AllBest

StepsTo(r, e) ==
    /\ call' = [call EXCEPT ![r] = e]
    /\ UNCHANGED <<registered, derived, unreadable, outages>>
    /\ CallOK(e) /\ Best(e)
    /\ NoTieAtCut /\ Reasons(call[r]) => Reasons(e)

LEMMA InitOK == Init => IInv /\ AllReasons
  <1> SUFFICES ASSUME Init
               PROVE  IInv /\ AllReasons
    OBVIOUS
  <1>1. CatalogueOK
    BY BoundsAssumption DEF Init, CatalogueOK
  <1>2. call \in [Requests -> Calls] /\ \A r \in Requests : call[r] = Idle
    BY IdleOK DEF Init
  <1>3. \A r \in Requests : CallOK(call[r]) /\ Best(call[r]) /\ Reasons(call[r])
    BY <1>2, IdleOK
  <1> QED  BY <1>1, <1>2, <1>3 DEF IInv, Types, AllBest, AllReasons

LEMMA BeginSteps ==
    ASSUME IInv, NEW r \in Requests, NEW kind \in {"index", "dates"}, NEW date \in Dates,
           NEW dates \in SUBSET Dates, NEW limit \in CloudLimits,
           kind = "index" => dates = {},
           kind = "dates" => date \in dates /\ \A d \in dates : d <= date,
           Begin(r, kind, date, dates, limit)
    PROVE  \E e : StepsTo(r, e)
  <1>1. PICK e : e = [pc |-> "list", kind |-> kind, date |-> date, dates |-> dates, limit |-> limit,
                      queue |-> {}, options |-> {}, failures |-> 0, rejections |-> {},
                      answer |-> Idle.answer, derived0 |-> derived, unsure |-> unreadable]
    OBVIOUS
  <1>2. [Idle EXCEPT !.pc = "list", !.kind = kind, !.date = date, !.dates = dates,
                     !.limit = limit, !.derived0 = derived, !.unsure = unreadable] = e
    <2>1. PICK f : f = [Idle EXCEPT !.pc = "list", !.kind = kind, !.date = date, !.dates = dates,
                                    !.limit = limit, !.derived0 = derived, !.unsure = unreadable]
      OBVIOUS
    <2>2. f = [pc |-> "list", kind |-> kind, date |-> date, dates |-> dates, limit |-> limit,
               queue |-> {}, options |-> {}, failures |-> 0, rejections |-> {},
               answer |-> Idle.answer, derived0 |-> derived, unsure |-> unreadable]
      BY <2>1 DEF Idle
    <2> QED  BY <1>1, <2>1, <2>2, Zenon
  <1>3. CatalogueOK
    BY DEF IInv, Types
  <1>4. CallOK(e) /\ Best(e) /\ Reasons(e)
    BY <1>1, <1>3, BeginOK
  <1> QED  BY <1>2, <1>4 DEF Begin, StepsTo

LEMMA FieldIndexSteps ==
    ASSUME IInv, NEW r \in Requests, NEW date \in Dates, NEW limit \in CloudLimits,
           field_index(r, date, limit)
    PROVE  \E e : StepsTo(r, e)
  BY BeginSteps DEF field_index

LEMMA FieldDatesSteps ==
    ASSUME IInv, NEW r \in Requests, NEW dates \in (SUBSET Dates) \ {{}}, NEW limit \in CloudLimits,
           field_dates(r, dates, limit)
    PROVE  \E e : StepsTo(r, e)
  <1>1. Max(dates) \in dates /\ \A d \in dates : d <= Max(dates)
    <2>1. dates \subseteq Dates /\ dates # {}
      OBVIOUS
    <2> QED  BY <2>1, LatestOfDays
  <1>2. PICK date : date = Max(dates)
    OBVIOUS
  <1>3. date \in Dates /\ date \in dates /\ \A d \in dates : d <= date
    BY <1>1, <1>2
  <1>4. Begin(r, "dates", date, dates, limit)
    BY <1>2 DEF field_dates
  <1> QED  BY <1>3, <1>4, BeginSteps

LEMMA InFlight ==
    ASSUME IInv, NEW r \in Requests
    PROVE  CatalogueOK /\ registered \subseteq Scenes /\ CallOK(call[r]) /\ Best(call[r])
  BY DEF IInv, Types, AllBest, CatalogueOK

LEMMA ListOptionsSteps ==
    ASSUME IInv, NEW r \in Requests, ListOptions(r)
    PROVE  \E e : StepsTo(r, e)
  <1>1. PICK c : c = call[r]
    OBVIOUS
  <1>2. CatalogueOK /\ CallOK(c) /\ Best(c) /\ c.pc = "list"
    BY <1>1, InFlight DEF ListOptions
  <1>3. PICK listed \in list_candidates(c.date, Window(c)) :
           call' = [call EXCEPT ![r] = [c EXCEPT !.pc = "examine", !.queue = listed,
                                                 !.options = {}, !.failures = 0]]
    BY <1>1 DEF ListOptions
  <1>4. PICK e : e = [c EXCEPT !.pc = "examine", !.queue = listed, !.options = {}, !.failures = 0]
    OBVIOUS
  <1>5. CallOK(e)
    BY <1>2, <1>4, ListOptionsTypes
  <1>6. Best(e)
    BY <1>2, <1>4, ListOptionsBest
  <1>7. NoTieAtCut /\ Reasons(c) => Reasons(e)
    BY <1>2, <1>4, ListOptionsReasons
  <1> QED  BY <1>1, <1>3, <1>4, <1>5, <1>6, <1>7 DEF ListOptions, StepsTo

LEMMA ExamineSteps ==
    ASSUME IInv, NEW r \in Requests, Examine(r)
    PROVE  \E e : StepsTo(r, e)
  <1>1. PICK c : c = call[r]
    OBVIOUS
  <1>2. CatalogueOK /\ CallOK(c) /\ Best(c) /\ c.pc = "examine"
    BY <1>1, InFlight DEF Examine
  <1>3. PICK s \in c.queue : call' = [call EXCEPT ![r] = Examined(c, s)]
    BY <1>1 DEF Examine
  <1>4. PICK e : e = Examined(c, s)
    OBVIOUS
  <1>5. CallOK(e)
    BY <1>2, <1>4, ExaminedTypes
  <1>6. Best(e)
    BY <1>2, <1>4, ExaminedBest
  <1>7. Reasons(c) => Reasons(e)
    BY <1>2, <1>4, ExaminedReasons
  <1> QED  BY <1>1, <1>3, <1>4, <1>5, <1>6, <1>7 DEF Examine, StepsTo

LEMMA SettleSteps ==
    ASSUME IInv, NEW r \in Requests, NEW c, c = call[r], Working(c),
           NEW status \in Statuses, NEW scene \in Scenes \cup {NoScene},
           scene \in Scenes <=> status = "AVAILABLE", BestOf(c, c.date, status, scene),
           Reasons(c) /\ c.kind = "dates" => ReasonOK(c, c.date, status),
           Settle(r, status, scene)
    PROVE  \E e : StepsTo(r, e)
  <1>1. CatalogueOK /\ CallOK(c) /\ Best(c)
    BY InFlight
  <1>2. PICK e : e = Settled(c, status, scene)
    OBVIOUS
  <1>3. CallOK(e)
    BY <1>1, <1>2, SettledTypes
  <1>4. Best(e)
    BY <1>1, <1>2, SettledBest
  <1>5. Reasons(c) => Reasons(e)
    BY <1>1, <1>2, SettledReasons
  <1> QED  BY <1>2, <1>3, <1>4, <1>5 DEF Settle, StepsTo

LEMMA SelectSteps ==
    ASSUME IInv, NEW r \in Requests, Select(r)
    PROVE  \E e : StepsTo(r, e)
  <1>1. PICK c : c = call[r]
    OBVIOUS
  <1>2. CatalogueOK /\ CallOK(c) /\ Best(c) /\ c.pc = "examine" /\ c.queue = {}
    BY <1>1, InFlight DEF Select
  <1>3. PICK s \in Selected(c) : Settle(r, "AVAILABLE", s)
    BY <1>1 DEF Select
  <1>4. s \in Scenes /\ BestOf(c, c.date, "AVAILABLE", s)
    BY <1>2, SelectedIsBest
  <1>5. ReasonOK(c, c.date, "AVAILABLE")
    BY AvailableIsTrue
  <1>6. Working(c) /\ "AVAILABLE" \in Statuses
    BY <1>2 DEF Working, Statuses
  <1> QED  BY <1>1, <1>3, <1>4, <1>5, <1>6, SettleSteps

\* Without an option there is no best.
LEMMA NothingToSettle ==
    ASSUME NEW c, Best(c), NEW status, status # "AVAILABLE",
           (c.pc = "examine" /\ c.queue = {} /\ c.options = {}) \/ c.pc = "explain"
    PROVE  BestOf(c, c.date, status, NoScene) /\ (NoScene \in Scenes <=> status = "AVAILABLE")
  <1>1. \A s \in Sure(c, c.date) : ~Eligible(s, c.limit)
    BY DEF Best, OptionsOK
  <1> QED  BY <1>1, BoundsAssumption DEF BestOf

LEMMA SelectNothingSteps ==
    ASSUME IInv, NEW r \in Requests, SelectNothing(r)
    PROVE  \E e : StepsTo(r, e)
  <1>1. PICK c : c = call[r]
    OBVIOUS
  <1>2. /\ Best(c) /\ c.pc = "examine" /\ c.queue = {} /\ c.options = {} /\ c.kind = "index"
    BY <1>1, InFlight DEF SelectNothing
  <1>3. PICK status : status = IF c.failures > 0 THEN "RASTER_UNAVAILABLE" ELSE "UNAVAILABLE"
    OBVIOUS
  <1>4. Settle(r, status, NoScene)
    BY <1>1, <1>3 DEF SelectNothing
  <1>5. status \in Statuses /\ status # "AVAILABLE" /\ Working(c)
    BY <1>2, <1>3 DEF Statuses, Working
  <1>6. BestOf(c, c.date, status, NoScene) /\ (NoScene \in Scenes <=> status = "AVAILABLE")
    BY <1>2, <1>5, NothingToSettle
  <1> QED  BY <1>1, <1>2, <1>4, <1>5, <1>6, SettleSteps

LEMMA DateFailedSteps ==
    ASSUME IInv, NEW r \in Requests, DateFailed(r)
    PROVE  \E e : StepsTo(r, e)
  <1>1. PICK c : c = call[r]
    OBVIOUS
  <1>2. /\ Best(c) /\ c.pc = "examine" /\ c.queue = {} /\ c.options = {} /\ c.kind = "dates"
        /\ c.failures > 0 /\ Settle(r, "PROCESSING_FAILED", NoScene)
    BY <1>1, InFlight DEF DateFailed
  <1>3. "PROCESSING_FAILED" \in Statuses /\ "PROCESSING_FAILED" # "AVAILABLE" /\ Working(c)
    BY <1>2 DEF Statuses, Rejections, Working
  <1>4. /\ BestOf(c, c.date, "PROCESSING_FAILED", NoScene)
        /\ NoScene \in Scenes <=> "PROCESSING_FAILED" = "AVAILABLE"
    BY <1>2, <1>3, NothingToSettle
  <1>5. Reasons(c) => ReasonOK(c, c.date, "PROCESSING_FAILED")
    BY <1>2, FailureIsTrue
  <1> QED  BY <1>1, <1>2, <1>3, <1>4, <1>5, SettleSteps

LEMMA ListRejectionsSteps ==
    ASSUME IInv, NEW r \in Requests, ListRejections(r)
    PROVE  \E e : StepsTo(r, e)
  <1>1. PICK c : c = call[r]
    OBVIOUS
  <1>2. /\ CatalogueOK /\ registered \subseteq Scenes /\ CallOK(c) /\ Best(c)
        /\ c.pc = "examine" /\ c.queue = {} /\ c.options = {} /\ c.kind = "dates" /\ c.failures = 0
    BY <1>1, InFlight DEF ListRejections
  <1>3. PICK listed \in list_candidates(c.date, 0) :
          \/ listed = {} /\ Settle(r, "NO_FIELD_INTERSECTION", NoScene)
          \/ /\ listed # {}
             /\ call' = [call EXCEPT ![r] = [c EXCEPT !.pc = "explain", !.queue = listed]]
             /\ UNCHANGED <<registered, derived, unreadable, outages>>
    BY <1>1 DEF ListRejections
  <1>4. CASE listed = {} /\ Settle(r, "NO_FIELD_INTERSECTION", NoScene)
    <2>1. /\ "NO_FIELD_INTERSECTION" \in Statuses /\ "NO_FIELD_INTERSECTION" # "AVAILABLE"
          /\ Working(c)
      BY <1>2 DEF Statuses, Rejections, Working
    <2>2. /\ BestOf(c, c.date, "NO_FIELD_INTERSECTION", NoScene)
          /\ NoScene \in Scenes <=> "NO_FIELD_INTERSECTION" = "AVAILABLE"
      BY <1>2, <2>1, NothingToSettle
    <2>3. ReasonOK(c, c.date, "NO_FIELD_INTERSECTION")
      BY <1>2, <1>4, NoSceneIsTrue
    <2> QED  BY <1>1, <1>4, <2>1, <2>2, <2>3, SettleSteps
  <1>5. CASE /\ listed # {}
             /\ call' = [call EXCEPT ![r] = [c EXCEPT !.pc = "explain", !.queue = listed]]
             /\ UNCHANGED <<registered, derived, unreadable, outages>>
    <2>1. PICK e : e = [c EXCEPT !.pc = "explain", !.queue = listed]
      OBVIOUS
    <2>2. CallOK(e)
      BY <1>2, <2>1, ListRejectionsTypes
    <2>3. Best(e)
      BY <1>2, <2>1, ListRejectionsBest
    <2>4. Reasons(c) => Reasons(e)
      BY <1>2, <1>5, <2>1, ListRejectionsReasons
    <2> QED  BY <1>1, <1>5, <2>1, <2>2, <2>3, <2>4 DEF StepsTo
  <1> QED  BY <1>3, <1>4, <1>5

LEMMA ExplainSteps ==
    ASSUME IInv, NEW r \in Requests, Explain(r)
    PROVE  \E e : StepsTo(r, e)
  <1>1. PICK c : c = call[r]
    OBVIOUS
  <1>2. CatalogueOK /\ CallOK(c) /\ Best(c) /\ c.pc = "explain"
    BY <1>1, InFlight DEF Explain
  <1>3. PICK s \in c.queue :
           call' = [call EXCEPT ![r] =
              [c EXCEPT !.queue = @ \ {s}, !.rejections = @ \cup RejectionOf(s, c.limit)]]
    BY <1>1 DEF Explain
  <1>4. PICK e : e = [c EXCEPT !.queue = @ \ {s}, !.rejections = @ \cup RejectionOf(s, c.limit)]
    OBVIOUS
  <1>5. CallOK(e)
    BY <1>2, <1>4, ExplainedTypes
  <1>6. Best(e)
    BY <1>2, <1>4, ExplainedBest
  <1>7. Reasons(c) => Reasons(e)
    BY <1>2, <1>4, ExplainedReasons
  <1> QED  BY <1>1, <1>3, <1>4, <1>5, <1>6, <1>7 DEF Explain, StepsTo

LEMMA RejectSteps ==
    ASSUME IInv, NEW r \in Requests, Reject(r)
    PROVE  \E e : StepsTo(r, e)
  <1>1. PICK c : c = call[r]
    OBVIOUS
  <1>2. PICK status : status = Blamed(c.rejections)
    OBVIOUS
  <1>3. /\ CallOK(c) /\ Best(c) /\ c.pc = "explain" /\ c.queue = {}
        /\ Settle(r, status, NoScene)
    BY <1>1, <1>2, InFlight DEF Reject
  <1>4. c.rejections \subseteq Rejections
    BY <1>3 DEF CallOK, Calls
  <1>5. status \in Statuses /\ status # "AVAILABLE" /\ Working(c)
    BY <1>2, <1>3, <1>4, BlamedFacts DEF Working
  <1>6. BestOf(c, c.date, status, NoScene) /\ (NoScene \in Scenes <=> status = "AVAILABLE")
    BY <1>3, <1>5, NothingToSettle
  <1>7. Reasons(c) => ReasonOK(c, c.date, status)
    BY <1>2, <1>3, BlamedIsTrue
  <1> QED  BY <1>1, <1>3, <1>5, <1>6, <1>7, SettleSteps

LEMMA SendSteps ==
    ASSUME NEW r \in Requests, Send(r)
    PROVE  \E e : StepsTo(r, e)
  BY IdleOK DEF Send, StepsTo

\* A step of one request leaves the others as they were.
LEMMA RequestStep ==
    ASSUME IInv, NEW r \in Requests, NEW e, StepsTo(r, e)
    PROVE  IInv' /\ (NoTieAtCut /\ AllReasons => AllReasons')
  <1>1. /\ call' = [call EXCEPT ![r] = e] /\ CallOK(e) /\ Best(e)
        /\ NoTieAtCut /\ Reasons(call[r]) => Reasons(e)
        /\ registered' = registered /\ derived' = derived
        /\ unreadable' = unreadable /\ outages' = outages
    BY DEF StepsTo
  <1>2. CatalogueOK /\ call \in [Requests -> Calls] /\ e \in Calls
    BY <1>1 DEF IInv, Types, CallOK
  <1>3. CatalogueOK'
    BY <1>1, <1>2 DEF CatalogueOK
  <1>4. call' \in [Requests -> Calls]
    BY <1>1, <1>2
  <1>5. ASSUME NEW c, CallOK(c)
        PROVE  CallOK(c)' /\ (Best(c) => Best(c)') /\ (Reasons(c) => Reasons(c)')
    <2>1. Working(c) => unreadable' \subseteq c.unsure
      BY <1>1, <1>5 DEF CallOK, Remembered
    <2> QED  BY <1>1, <1>2, <1>3, <1>5, <2>1, KeptCall
  <1>6. ASSUME NEW q \in Requests, NEW c, c = call'[q]
        PROVE  /\ CallOK(c) /\ Best(c)
               /\ NoTieAtCut /\ AllReasons => Reasons(c)
    <2>1. CASE q = r
      <3>1. c = e
        BY <1>1, <1>2, <1>6, <2>1
      <3> QED  BY <1>1, <3>1 DEF AllReasons
    <2>2. CASE q # r
      <3>1. c = call[q]
        BY <1>1, <1>2, <1>6, <2>2
      <3> QED  BY <3>1, InFlight DEF AllReasons
    <2> QED  BY <2>1, <2>2
  <1>7. ASSUME NEW q \in Requests
        PROVE  /\ CallOK(call[q])' /\ Best(call[q])'
               /\ NoTieAtCut /\ AllReasons => Reasons(call[q])'
    <2>1. PICK c : c = call'[q]
      OBVIOUS
    <2>2. CallOK(c)' /\ Best(c)' /\ (NoTieAtCut /\ AllReasons => Reasons(c)')
      BY <1>5, <1>6, <2>1
    <2>3. CallOK(call[q])' = CallOK(c)' /\ Best(call[q])' = Best(c)' /\ Reasons(call[q])' = Reasons(c)'
      BY <2>1
    <2> QED  BY <2>2, <2>3
  <1> QED  BY <1>3, <1>4, <1>7 DEF IInv, Types, AllBest, AllReasons

\* The catalogue changes, and the requests in flight remember what became
\* unreadable.
LEMMA CatalogueStep ==
    ASSUME IInv, NEW s \in Scenes,
           Register(s) \/ Derive(s) \/ BecomeUnreadable(s) \/ BecomeReadable(s)
    PROVE  IInv' /\ (AllReasons => AllReasons')
  <1>1. CatalogueOK /\ call \in [Requests -> Calls]
    BY DEF IInv, Types
  <1>2. /\ CatalogueOK' /\ registered \subseteq registered' /\ derived \subseteq derived'
        /\ unreadable' \subseteq unreadable \cup {s}
    <2>1. CASE Register(s)
      BY <1>1, <2>1 DEF Register, CatalogueOK
    <2>2. CASE Derive(s)
      BY <1>1, <2>2 DEF Derive, CatalogueOK
    <2>3. CASE BecomeUnreadable(s)
      <3>1. outages \in 0..MaxOutages /\ outages < MaxOutages /\ outages' = outages + 1
        BY <1>1, <2>3 DEF BecomeUnreadable, CatalogueOK
      <3>2. outages' \in 0..MaxOutages
        BY <3>1, BoundsAssumption
      <3> QED  BY <1>1, <2>3, <3>2 DEF BecomeUnreadable, CatalogueOK
    <2>4. CASE BecomeReadable(s)
      BY <1>1, <2>4 DEF BecomeReadable, CatalogueOK
    <2> QED  BY <2>1, <2>2, <2>3, <2>4
  <1>3. ASSUME NEW r \in Requests, NEW c, c = call[r], NEW e, e = call'[r]
        PROVE  /\ e = c \/ (c.pc # "idle" /\ e = [c EXCEPT !.unsure = @ \cup {s}])
               /\ Working(c) => unreadable' \subseteq e.unsure
    <2>1. CallOK(c) /\ c \in Calls
      BY <1>3, InFlight DEF CallOK
    <2>2. Working(c) => unreadable \subseteq c.unsure
      BY <2>1 DEF CallOK, Remembered
    <2>3. CASE Register(s) \/ Derive(s) \/ BecomeReadable(s)
      <3>1. e = c /\ unreadable' \subseteq unreadable
        BY <1>3, <2>3 DEF Register, Derive, BecomeReadable
      <3> QED  BY <2>2, <3>1
    <2>4. CASE BecomeUnreadable(s)
      <3>1. e = IF c.pc \in {"idle", "done"} THEN c ELSE [c EXCEPT !.unsure = @ \cup {s}]
        BY <1>3, <2>4 DEF BecomeUnreadable
      <3>2. CASE c.pc \in {"idle", "done"}
        BY <3>1, <3>2 DEF Working
      <3>3. CASE c.pc \notin {"idle", "done"}
        <4>1. e = [c EXCEPT !.unsure = @ \cup {s}]
          BY <3>1, <3>3
        <4>2. e.unsure = c.unsure \cup {s}
          BY <2>1, <4>1 DEF Calls
        <4>3. unreadable' = unreadable \cup {s}
          BY <2>4 DEF BecomeUnreadable
        <4> QED  BY <2>2, <3>3, <4>1, <4>2, <4>3
      <3> QED  BY <3>2, <3>3
    <2> QED  BY <2>3, <2>4
  <1>4. call' \in [Requests -> Calls]
    <2>1. CASE Register(s) \/ Derive(s) \/ BecomeReadable(s)
      BY <1>1, <2>1 DEF Register, Derive, BecomeReadable
    <2>2. CASE BecomeUnreadable(s)
      <3>1. DOMAIN call' = Requests /\ call' = [r \in Requests |-> call'[r]]
        BY <2>2 DEF BecomeUnreadable
      <3>2. ASSUME NEW r \in Requests
            PROVE  call'[r] \in Calls
        <4>1. PICK c, e : c = call[r] /\ e = call'[r]
          OBVIOUS
        <4>2. c \in Calls
          BY <1>1, <4>1
        <4>3. e = c \/ e = [c EXCEPT !.unsure = @ \cup {s}]
          BY <1>3, <4>1
        <4>4. e \in Calls
          BY <4>2, <4>3, KeptFields
        <4> QED  BY <4>1, <4>4
      <3> QED  BY <3>1, <3>2
    <2> QED  BY <2>1, <2>2
  <1>5. ASSUME NEW r \in Requests
        PROVE  CallOK(call[r])' /\ Best(call[r])' /\ (AllReasons => Reasons(call[r])')
    <2>1. PICK c, e : c = call[r] /\ e = call'[r]
      OBVIOUS
    <2>2. CallOK(c) /\ Best(c) /\ (AllReasons => Reasons(c))
      BY <2>1, InFlight DEF AllReasons
    <2>3. /\ e = c \/ (c.pc # "idle" /\ \E t \in Scenes : e = [c EXCEPT !.unsure = @ \cup {t}])
          /\ Working(c) => unreadable' \subseteq e.unsure
      BY <1>3, <2>1
    <2>4. CallOK(e)' /\ Best(e)' /\ (AllReasons => Reasons(e)')
      BY <1>1, <1>2, <2>2, <2>3, KeptCall
    <2>5. CallOK(call[r])' = CallOK(e)' /\ Best(call[r])' = Best(e)' /\ Reasons(call[r])' = Reasons(e)'
      BY <2>1
    <2> QED  BY <2>4, <2>5
  <1> QED  BY <1>2, <1>4, <1>5 DEF IInv, Types, AllBest, AllReasons

LEMMA StutterStep ==
    ASSUME IInv, UNCHANGED vars
    PROVE  IInv' /\ (AllReasons => AllReasons')
  <1>1. /\ registered' = registered /\ derived' = derived /\ unreadable' = unreadable
        /\ outages' = outages /\ call' = call
    BY DEF vars
  <1>2. CatalogueOK /\ CatalogueOK' /\ call \in [Requests -> Calls]
    BY <1>1 DEF IInv, Types, CatalogueOK
  <1>3. ASSUME NEW r \in Requests
        PROVE  CallOK(call[r])' /\ Best(call[r])' /\ (AllReasons => Reasons(call[r])')
    <2>1. PICK c : c = call[r]
      OBVIOUS
    <2>2. CallOK(c) /\ Best(c) /\ (AllReasons => Reasons(c)) /\ (Working(c) => unreadable' \subseteq c.unsure)
      BY <1>1, <2>1, InFlight DEF AllReasons, CallOK, Remembered
    <2>3. CallOK(c)' /\ Best(c)' /\ (AllReasons => Reasons(c)')
      BY <1>1, <1>2, <2>2, KeptCall
    <2>4. c = call'[r]
      BY <1>1, <2>1
    <2>5. CallOK(call[r])' = CallOK(c)' /\ Best(call[r])' = Best(c)' /\ Reasons(call[r])' = Reasons(c)'
      BY <2>4
    <2> QED  BY <2>3, <2>5
  <1> QED  BY <1>1, <1>2, <1>3 DEF IInv, Types, AllBest, AllReasons

LEMMA NextOK ==
    ASSUME IInv, [Next]_vars
    PROVE  IInv' /\ (NoTieAtCut /\ AllReasons => AllReasons')
  <1>1. CASE UNCHANGED vars
    BY <1>1, StutterStep
  <1>2. ASSUME NEW s \in Scenes,
               Register(s) \/ Derive(s) \/ BecomeUnreadable(s) \/ BecomeReadable(s)
        PROVE  IInv' /\ (NoTieAtCut /\ AllReasons => AllReasons')
    BY <1>2, CatalogueStep
  <1>3. ASSUME NEW r \in Requests, \E e : StepsTo(r, e)
        PROVE  IInv' /\ (NoTieAtCut /\ AllReasons => AllReasons')
    BY <1>3, RequestStep
  <1>4. ASSUME NEW r \in Requests, NEW limit \in CloudLimits, NEW date \in Dates,
               field_index(r, date, limit)
        PROVE  IInv' /\ (NoTieAtCut /\ AllReasons => AllReasons')
    BY <1>3, <1>4, FieldIndexSteps
  <1>5. ASSUME NEW r \in Requests, NEW limit \in CloudLimits, NEW dates \in (SUBSET Dates) \ {{}},
               field_dates(r, dates, limit)
        PROVE  IInv' /\ (NoTieAtCut /\ AllReasons => AllReasons')
    BY <1>3, <1>5, FieldDatesSteps
  <1>6. ASSUME NEW r \in Requests,
               \/ ListOptions(r) \/ Examine(r) \/ Select(r) \/ SelectNothing(r) \/ DateFailed(r)
               \/ ListRejections(r) \/ Explain(r) \/ Reject(r) \/ Send(r)
        PROVE  IInv' /\ (NoTieAtCut /\ AllReasons => AllReasons')
    <2>1. \E e : StepsTo(r, e)
      BY <1>6, ListOptionsSteps, ExamineSteps, SelectSteps, SelectNothingSteps, DateFailedSteps,
         ListRejectionsSteps, ExplainSteps, RejectSteps, SendSteps
    <2> QED  BY <1>3, <2>1
  <1> QED  BY <1>1, <1>2, <1>4, <1>5, <1>6 DEF Next

-----------------------------------------------------------------------------
\* What is true of every request at every step: what it has in hand, and that no
\* scene it cannot have missed has been lost on the way to its answer.
THEOREM InvariantHolds == Spec => []IInv
  <1>1. Init => IInv
    BY InitOK
  <1>2. IInv /\ [Next]_vars => IInv'
    BY NextOK
  <1> QED  BY <1>1, <1>2, PTL DEF Spec

\* TypeOK: an answer names a scene just when it has one to offer, and what a
\* request has in hand it could have listed.
THEOREM TypesHold == Spec => []TypeOK
  <1>1. IInv => TypeOK
    <2>1. SUFFICES ASSUME IInv
                   PROVE  TypeOK
      OBVIOUS
    <2>2. ASSUME NEW r \in Requests, NEW c, c = call[r]
          PROVE  /\ c.pc \in {"idle", "list", "examine", "explain", "done"}
                 /\ c.pc # "idle" => c.date \in Dates /\ c.dates \subseteq Dates /\ c.limit \in CloudLimits
                 /\ c.queue \cup c.options \subseteq InWindow(c.date, Window(c))
                 /\ c.failures \in 0..MaxCandidates /\ c.rejections \subseteq Rejections
                 /\ \A d \in Dates :
                       /\ c.answer[d].status \in Statuses
                       /\ c.answer[d].scene \in Scenes \cup {NoScene}
                       /\ c.answer[d].scene \in Scenes <=> c.answer[d].status = "AVAILABLE"
      <3>1. CallOK(c) /\ c \in Calls /\ registered \subseteq Scenes
        BY <2>1, <2>2, InFlight DEF CallOK
      <3>2. c.pc # "idle" => c.date \in Dates /\ c.dates \subseteq Dates /\ c.limit \in CloudLimits
        BY <3>1, AskedTypes
      <3>3. c.queue \cup c.options \subseteq InWindow(c.date, Window(c))
        BY <3>1 DEF CallOK, InHand
      <3>4. c.failures \in 0..MaxCandidates
        <4>1. IsFiniteSet(c.queue)
          BY <3>1, <3>3, WindowTypes, FS_Subset
        <4>2. Cardinality(c.queue) \in Nat
          BY <4>1, FS_CardinalityType
        <4>3. c.failures \in Nat /\ c.failures + Cardinality(c.queue) <= MaxCandidates
          BY <3>1 DEF CallOK, InHand, Calls
        <4> QED  BY <4>2, <4>3, BoundsAssumption
      <3>5. c.answer \in [Dates -> [status : Statuses, scene : Scenes \cup {NoScene}]]
        BY <3>1 DEF Calls
      <3>6. AnswersTyped(c)
        BY <3>1 DEF CallOK
      <3>7. /\ c.pc \in {"idle", "list", "examine", "explain", "done"}
            /\ c.rejections \subseteq Rejections
        BY <3>1 DEF Calls
      <3> QED  BY <3>2, <3>3, <3>4, <3>5, <3>6, <3>7 DEF AnswersTyped
    <2>3. CatalogueOK
      BY <2>1 DEF IInv, Types
    <2> QED  BY <2>2, <2>3 DEF TypeOK, CatalogueOK
  <1> QED  BY <1>1, InvariantHolds, PTL

\* AnswerIsBest, for any number of requests, scenes and days, and whatever scenes
\* of one instant the database puts first.
THEOREM AnswersAreBest == Spec => []AnswerIsBest
  <1>1. IInv => AnswerIsBest
    <2>1. SUFFICES ASSUME IInv, NEW r \in Requests, call[r].pc = "done", NEW d \in Asked(call[r])
                   PROVE  LET c == call[r]
                              chosen == c.answer[d].scene
                              sure == {s \in Sure(c, d) : Eligible(s, c.limit)}
                          IN  IF c.answer[d].status = "AVAILABLE"
                              THEN /\ Eligible(chosen, c.limit) /\ Seen[chosen].composite
                                   /\ _date_distance_days(chosen, d) <= Window(c)
                                   /\ \A t \in sure : ~Preferred(t, chosen, d)
                              ELSE sure = {}
      BY DEF AnswerIsBest
    <2>2. PICK c : c = call[r]
      OBVIOUS
    <2>3. BestOf(c, d, c.answer[d].status, c.answer[d].scene)
      BY <2>1, <2>2 DEF IInv, AllBest, Best, Answered
    <2>4. IF c.answer[d].status = "AVAILABLE"
          THEN /\ Eligible(c.answer[d].scene, c.limit) /\ Seen[c.answer[d].scene].composite
               /\ _date_distance_days(c.answer[d].scene, d) <= Window(c)
               /\ \A t \in {s \in Sure(c, d) : Eligible(s, c.limit)} :
                     ~Preferred(t, c.answer[d].scene, d)
          ELSE {s \in Sure(c, d) : Eligible(s, c.limit)} = {}
      BY <2>3 DEF BestOf
    <2> QED  BY <2>2, <2>4
  <1> QED  BY <1>1, InvariantHolds, PTL

\* RejectionIsTrue, where no two scenes of one instant are on either side of the
\* end of a list: the two lists that field_dates makes of a day could then differ,
\* and a day that was processed be said to be pending.
THEOREM RejectionsAreTrue ==
    ASSUME NoTieAtCut
    PROVE  Spec => []RejectionIsTrue
  <1>1. Init => IInv /\ AllReasons
    BY InitOK
  <1>2. (IInv /\ AllReasons) /\ [Next]_vars => (IInv /\ AllReasons)'
    BY NextOK
  <1>3. IInv /\ AllReasons => RejectionIsTrue
    <2>1. SUFFICES ASSUME IInv, AllReasons, NEW r \in Requests, call[r].pc = "done",
                          call[r].kind = "dates", NEW d \in Asked(call[r])
                   PROVE  LET c == call[r]
                              status == c.answer[d].status
                              OfDay_ == {s \in registered : Seen[s].day = d}
                              TooCloudy_ == {s \in Sure(c, d) :
                                               /\ Seen[s].onField /\ Seen[s].coverage >= MinCoverage
                                               /\ Seen[s].obscured > c.limit}
                          IN
                          /\ status = "PROCESSING_PENDING" => OfDay_ \ c.derived0 # {}
                          /\ status = "PROCESSING_FAILED" =>
                                c.unsure # {} \/ \E s \in OfDay_ : Seen[s].pixels < MinPixels
                          /\ status = "NO_FIELD_INTERSECTION" => \A s \in Sure(c, d) : ~Seen[s].onField
                          /\ TooCloudy_ # {} =>
                                \/ status \in {"AVAILABLE", "CLOUD_THRESHOLD_EXCEEDED"}
                                \/ status = "PROCESSING_FAILED" /\ c.unsure # {}
      BY DEF RejectionIsTrue
    <2>2. PICK c : c = call[r]
      OBVIOUS
    <2>3. ReasonOK(c, d, c.answer[d].status)
      BY <2>1, <2>2 DEF AllReasons, Reasons, Answered
    <2> QED  BY <2>2, <2>3 DEF ReasonOK, TrueOf, OfDay, TooCloudy
  <1> QED  BY <1>1, <1>2, <1>3, PTL DEF Spec
=============================================================================
