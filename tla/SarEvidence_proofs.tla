-------------------------- MODULE SarEvidence_proofs --------------------------
(***************************************************************************)
(* Proofs about SarEvidence, for any products, coverages, profiles, bounds *)
(* and lifetimes of rows and links: a link opens for as long as it is      *)
(* good, a reported change is of one processing profile, and a backfill    *)
(* that completed left its products whole.                                 *)
(***************************************************************************)
EXTENDS SarEvidence, FiniteSetTheorems, WellFoundedInduction, TLAPS

SmallerThan == {pair \in Nat \X Nat : pair[1] < pair[2]}

LEMMA SmallestOfSet ==
    ASSUME NEW S, S \subseteq Nat, S # {}
    PROVE  \E n \in S : \A m \in S : n <= m
  <1>1. OpToRel(<, Nat) = SmallerThan
    BY DEF OpToRel, SmallerThan
  <1>2. IsWellFoundedOn(SmallerThan, Nat)
    BY <1>1, NatLessThanWellFounded, Zenon
  <1>3. PICK n \in S : \A m \in S : ~(<<m, n>> \in SmallerThan)
    BY <1>2, WFMin
  <1>4. \A m \in S : n <= m
    <2> TAKE m \in S
    <2>1. m \in Nat /\ n \in Nat
      OBVIOUS
    <2>2. ~(m < n)
      BY <1>3, <2>1 DEF SmallerThan
    <2> QED  BY <2>1, <2>2
  <1> QED  BY <1>4

\* In a finite set some element has none before it in a strict order: the one
\* that has the fewest.
LEMMA FirstOfFinite ==
    ASSUME NEW S, IsFiniteSet(S), S # {}, NEW R,
           \A x \in S : <<x, x>> \notin R,
           \A x, y, z \in S : <<x, y>> \in R /\ <<y, z>> \in R => <<x, z>> \in R
    PROVE  \E x \in S : \A y \in S : <<y, x>> \notin R
  <1> DEFINE before == [x \in S |-> {y \in S : <<y, x>> \in R}]
             count  == [x \in S |-> Cardinality(before[x])]
             counts == {count[x] : x \in S}
  <1>1. ASSUME NEW x \in S
        PROVE  IsFiniteSet(before[x]) /\ count[x] = Cardinality(before[x]) /\ count[x] \in Nat
    <2>1. before[x] \in SUBSET S
      OBVIOUS
    <2>2. IsFiniteSet(before[x]) /\ Cardinality(before[x]) \in Nat
      BY <2>1, FS_Subset, FS_CardinalityType
    <2> QED  BY <2>2
  <1>A. \A x, y \in S : y \in before[x] <=> <<y, x>> \in R
    OBVIOUS
  <1>B. \A x \in S : before[x] \subseteq S
    OBVIOUS
  <1> HIDE DEF before, count
  <1>2. counts \subseteq Nat /\ counts # {}
    BY <1>1
  <1>3. PICK n \in counts : \A m \in counts : n <= m
    BY <1>2, SmallestOfSet
  <1>4. PICK x \in S : n = count[x]
    BY <1>3
  <1>5. ASSUME NEW y \in S, <<y, x>> \in R
        PROVE  FALSE
    <2>1. before[y] \in SUBSET before[x] /\ y \in before[x] /\ y \notin before[y]
      BY <1>A, <1>B, <1>5
    <2>2. count[y] <= count[x] /\ count[y] # count[x]
      BY <1>1, <2>1, FS_Subset
    <2>3. n <= count[y]
      BY <1>3
    <2> QED  BY <1>1, <1>4, <2>2, <2>3
  <1> QED  BY <1>5

LEMMA Constants ==
    /\ IsFiniteSet(Products) /\ Profiles # {} /\ Profiles \subseteq Nat \ {0}
    /\ SignedTtl \in Nat /\ QueryTtl \in Nat
    /\ \A p \in Products : Day[p] \in Nat /\ Overlap[p] \in Nat /\ Coverage[p] \in Nat
    /\ LastTick \in Nat /\ MaxFaults \in Nat /\ MaxJobs \in Nat /\ MaxRequests \in Nat /\ MaxHistory \in Nat
    /\ MaxDownloads \in Nat \ {0}
    /\ Backfills \subseteq
          [mode : {"metadata_only", "download_only", "prepare_only", "full_pipeline"},
           from : Nat, to : Nat]
    /\ None \notin [version : Profiles, item : BOOLEAN]
    /\ IncludeHistory \in BOOLEAN
  BY TtlAssumption, BoundsAssumption

-----------------------------------------------------------------------------
(***************************************************************************)
(* What the variables hold.                                                *)
(***************************************************************************)
Modes == {"metadata_only", "download_only", "prepare_only", "full_pipeline"}

SceneRow == [version : Profiles, item : BOOLEAN]

Keys == Modes \X Nat \X Nat \X Profiles

Jobs == [pc : {"none", "completed", "failed", "lost"} \cup Working, mode : Modes \cup {""},
         from : Nat, to : Nat, selected : SUBSET Products, todo : SUBSET Products,
         version : {0} \cup Profiles, key : Keys \cup {<<>>}]

Reads == [scene : Products, version : Profiles]

Options == [scene : Products, version : Profiles, stats : Profiles]

Observations == [scene : Products, version : Profiles, stats : Profiles, at : 0..LastTick]

Changes == [scene : Products, from : Profiles, to : Profiles, at : 0..LastTick]

Statuses == {"", "AVAILABLE", "DEGENERATE_BASELINE", "INSUFFICIENT_BASELINE", "NO_COMPARABLE_HISTORY",
             "METADATA_INCOMPLETE"}

Answers == [status : Statuses, change : Changes \cup {None}, row : Rows]

Requests == [pc : {"none", "examine", "history", "reply"}, day : Nat, queue : SUBSET Reads,
             options : SUBSET Options, failures : Nat, chosen : Options \cup {None},
             history : SUBSET Observations, link : 0..(LastTick + SignedTtl), calm : BOOLEAN,
             answer : Answers \cup {None}]

TablesOK ==
    /\ clock \in 0..LastTick /\ profile \in Profiles
    /\ scene \in [Products -> {None} \cup SceneRow]
    /\ asset \in [Products -> {0} \cup Profiles]
    /\ object \in [Products -> {0} \cup Profiles]
    /\ items \in [Products -> {0} \cup Profiles]
    /\ replaced \in [Products -> 0..LastTick]
    /\ \A p \in Products : asset[p] # 0 => object[p] # 0
    /\ completed \subseteq Keys
    /\ used \in [fault : 0..MaxFaults, job : 0..MaxJobs, request : 0..MaxRequests]

Storing == {"object", "scene", "asset", "name", "item"}

JobOK ==
    /\ job \in Jobs
    /\ job.todo \subseteq job.selected /\ Cardinality(job.selected) <= MaxDownloads
    /\ job.pc \in Working \cup {"lost"} => job.version \in Profiles /\ job.key \in Keys
    /\ job.pc \in Storing => job.todo # {}
    /\ job.pc \in {"search", "lost"} => job.todo = {}

(***************************************************************************)
(* How far the backfill has come.                                          *)
(***************************************************************************)
Registered(p) ==
    /\ object[p] = job.version /\ asset[p] = job.version
    /\ scene[p] # None /\ scene[p].version = job.version

Published(p) ==
    /\ scene[p] = [version |-> job.version, item |-> TRUE]
    /\ {asset[p], object[p], items[p]} = {job.version}

Progress ==
    /\ job.pc \in {"object", "scene", "asset"} => \A p \in job.selected \ job.todo : Registered(p)
    /\ job.pc \in {"scene", "asset"} => object[Current] = job.version
    /\ job.pc = "asset" => scene[Current] # None /\ scene[Current].version = job.version
    /\ job.pc \in {"name", "item"} =>
          /\ \A p \in job.selected : Registered(p)
          /\ \A p \in job.selected \ job.todo : Published(p)
    /\ job.pc = "item" => scene[Current] = [version |-> job.version, item |-> TRUE]
    /\ job.pc = "cleanup" \/ (job.pc = "completed" /\ job.mode = "full_pipeline") =>
          \A p \in job.selected : Published(p)

(***************************************************************************)
(* What the saved rows and their links rest on.                            *)
(***************************************************************************)
\* Statistics that are cached are those of the object, or of one that was
\* overwritten after they were computed.
CachesOK ==
    /\ queries \subseteq Rows
    /\ \A q \in queries : q.kind = "history" =>
          /\ q.scene \in Products /\ q.stats \in Profiles /\ object[q.scene] # 0
          /\ q.expires <= clock + QueryTtl
          /\ q.stats = object[q.scene] \/ q.expires - QueryTtl <= replaced[q.scene]

Opens(row, expires) ==
    /\ row \in Rows /\ expires \in 0..(LastTick + SignedTtl)
    /\ LinksEndFirst => expires < row.expires
    /\ row.expires > clock => row \in queries
    /\ row.kind = "sar" => row.scene \in Products /\ asset[row.scene] # 0 /\ object[row.scene] # 0

LinksOK == \A l \in links : Opens(l.row, l.expires)

(***************************************************************************)
(* What the request in flight has read.                                    *)
(***************************************************************************)
RequestOK ==
    /\ request \in Requests
    /\ IsFiniteSet(request.options) /\ IsFiniteSet(request.history)
    /\ Cardinality(request.history) <= MaxHistory
    /\ request.pc = "none" => ~request.calm
    /\ request.link <= clock + SignedTtl
    /\ \A o \in request.options : asset[o.scene] # 0
    /\ request.pc = "history" =>
          request.chosen \in Options /\ asset[request.chosen.scene] # 0
    /\ request.pc = "reply" =>
          request.answer \in Answers /\ Opens(request.answer.row, request.link)

\* While nothing is overwritten, a scene's row names the version of its object.
Calm ==
    request.calm =>
        /\ \A p \in Products : scene[p] # None => scene[p].version = object[p]
        /\ \A c \in request.queue : c.version = object[c.scene]
        /\ \A o \in request.options : o.version = object[o.scene] /\ o.stats = object[o.scene]
        /\ request.pc = "history" => request.chosen.version = request.chosen.stats
        /\ \A o \in request.history :
              /\ o.version = object[o.scene]
              /\ o.stats = object[o.scene] \/ o.at - replaced[o.scene] < QueryTtl
        /\ request.pc = "reply" /\ request.answer.change # None =>
              LET change == request.answer.change
              IN  change.from = change.to \/ change.at - replaced[change.scene] < QueryTtl

IInv == TablesOK /\ JobOK /\ Progress /\ CachesOK /\ LinksOK /\ RequestOK /\ Calm
-----------------------------------------------------------------------------
(***************************************************************************)
(* The choices of the backfill.                                            *)
(***************************************************************************)
\* The largest of a set of products.
LEMMA LargestOverlap ==
    ASSUME NEW S, S \subseteq Products, S # {}
    PROVE  \E p \in S : \A q \in S : Overlap[q] <= Overlap[p]
  <1> DEFINE R == {pair \in S \X S : Overlap[pair[1]] > Overlap[pair[2]]}
  <1>1. IsFiniteSet(S)
    BY Constants, FS_Subset
  <1>2. \A p \in S : Overlap[p] \in Nat
    BY Constants
  <1>3. \A p, q \in S : <<q, p>> \in R <=> Overlap[q] > Overlap[p]
    OBVIOUS
  <1>4. /\ \A p \in S : <<p, p>> \notin R
        /\ \A x, y, z \in S : <<x, y>> \in R /\ <<y, z>> \in R => <<x, z>> \in R
    BY <1>2, <1>3
  <1> HIDE DEF R
  <1>5. PICK p \in S : \A q \in S : <<q, p>> \notin R
    BY <1>1, <1>4, FirstOfFinite
  <1>6. \A q \in S : ~(Overlap[q] > Overlap[p])
    BY <1>3, <1>5
  <1> QED  BY <1>2, <1>6

LEMMA SmallestOverlap ==
    ASSUME NEW S, S \subseteq Products, S # {}
    PROVE  \E p \in S : \A q \in S : Overlap[p] <= Overlap[q]
  <1> DEFINE overlaps == {Overlap[p] : p \in S}
  <1>1. overlaps \subseteq Nat /\ overlaps # {}
    BY Constants
  <1>2. PICK n \in overlaps : \A m \in overlaps : n <= m
    BY <1>1, SmallestOfSet
  <1> QED  BY <1>2

LEMMA CurrentIsToDo ==
    ASSUME job.todo \subseteq Products, job.todo # {}
    PROVE  Current \in job.todo
  <1>1. \E p \in job.todo : \A q \in job.todo : Overlap[q] <= Overlap[p]
    BY LargestOverlap
  <1> QED  BY <1>1 DEF Current

\* No more products are selected than may be downloaded: all but the last have
\* more overlap than it.
LEMMA SelectionIsBounded ==
    ASSUME NEW found, found \subseteq Products,
           NEW selected, selected = {p \in found :
               Cardinality({q \in found : Overlap[q] > Overlap[p]}) < MaxDownloads}
    PROVE  Cardinality(selected) <= MaxDownloads
  <1>1. IsFiniteSet(found) /\ IsFiniteSet(selected)
    BY Constants, FS_Subset
  <1>2. CASE selected = {}
    <2>1. Cardinality(selected) = 0
      BY <1>2, FS_EmptySet, Zenon
    <2> QED  BY <2>1, Constants
  <1>3. CASE selected # {}
    <2>1. PICK last \in selected : \A q \in selected : Overlap[last] <= Overlap[q]
      BY <1>3, SmallestOverlap
    <2> DEFINE larger == {q \in found : Overlap[q] > Overlap[last]}
    <2>2. \A q \in selected \ {last} : Overlap[q] > Overlap[last]
      BY <2>1, BoundsAssumption, SMTT(30)
    <2>3. selected \ {last} \in SUBSET larger /\ larger \in SUBSET found
      BY <2>2
    <2>4. IsFiniteSet(larger) /\ Cardinality(larger) \in Nat
      BY <1>1, <2>3, FS_Subset, FS_CardinalityType
    <2>5. Cardinality(selected \ {last}) <= Cardinality(larger) /\ Cardinality(larger) < MaxDownloads
      BY <2>3, <2>4, FS_Subset
    <2>6. Cardinality(selected \ {last}) = Cardinality(selected) - 1 /\ Cardinality(selected) \in Nat
      BY <1>1, FS_RemoveElement, FS_CardinalityType
    <2> QED  BY <2>4, <2>5, <2>6, Constants
  <1> QED  BY <1>2, <1>3

LEMMA MinOfProfiles ==
    ASSUME NEW S, S \subseteq Profiles, S # {}
    PROVE  Min(S) \in S
  <1>1. PICK n \in S : \A m \in S : n <= m
    BY Constants, SmallestOfSet
  <1>2. Min(S) = CHOOSE x \in S : \A y \in S : x <= y
    BY DEF Min
  <1> QED  BY <1>1, <1>2

LEMMA NextProfile ==
    ASSUME profile \in Profiles, profile # Max(Profiles)
    PROVE  Min({v \in Profiles : v > profile}) \in Profiles
  <1>1. CASE {v \in Profiles : v > profile} = {}
    <2>1. \A v \in Profiles : profile >= v
      BY <1>1, Constants
    <2>2. Max(Profiles) = CHOOSE x \in Profiles : \A y \in Profiles : x >= y
      BY DEF Max
    <2>3. Max(Profiles) \in Profiles /\ \A y \in Profiles : Max(Profiles) >= y
      BY <2>1, <2>2
    <2>4. Max(Profiles) >= profile /\ profile >= Max(Profiles)
      BY <2>1, <2>3
    <2>5. Max(Profiles) \in Nat /\ profile \in Nat
      BY <2>3, Constants
    <2> QED  BY <2>4, <2>5
  <1>2. CASE {v \in Profiles : v > profile} # {}
    BY <1>2, MinOfProfiles
  <1> QED  BY <1>1, <1>2
-----------------------------------------------------------------------------
(***************************************************************************)
(* What the two sides leave alone of each other.                           *)
(***************************************************************************)
LEMMA CatalogKept ==
    ASSUME TablesOK, UNCHANGED catalog, clock' \in 0..LastTick, profile' \in Profiles,
           completed' \subseteq Keys,
           used' \in [fault : 0..MaxFaults, job : 0..MaxJobs, request : 0..MaxRequests]
    PROVE  TablesOK'
  BY DEF TablesOK, catalog

LEMMA CurrentKept ==
    ASSUME job'.todo = job.todo
    PROVE  Current' = Current
  BY DEF Current

LEMMA BackfillKept ==
    ASSUME JobOK, Progress, UNCHANGED <<catalog, job>>
    PROVE  JobOK' /\ Progress'
  <1>1. Current' = Current
    BY CurrentKept
  <1>2. JobOK'
    BY DEF JobOK
  <1>3. Progress'
    BY <1>1 DEF Progress, Registered, Published, catalog
  <1> QED  BY <1>2, <1>3

LEMMA LinkKept ==
    ASSUME NEW row, NEW expires, Opens(row, expires),
           clock \in Nat, clock' \in Nat, clock <= clock',
           \A p \in Products : (asset[p] # 0 => asset'[p] # 0) /\ (object[p] # 0 => object'[p] # 0),
           row.expires > clock' /\ row \in queries => row \in queries'
    PROVE  Opens(row, expires)'
  <1>1. row.expires \in Nat
    BY Constants DEF Opens, Rows, Forever
  <1>2. row.expires > clock' => row.expires > clock
    BY <1>1
  <1>3. row.kind = "sar" => row.scene \in Products /\ asset'[row.scene] # 0 /\ object'[row.scene] # 0
    BY DEF Opens
  <1>4. row \in Rows /\ expires \in 0..(LastTick + SignedTtl)
        /\ (LinksEndFirst => expires < row.expires)
    BY DEF Opens
  <1>5. row.expires > clock' => row \in queries'
    BY <1>2 DEF Opens
  <1> QED  BY <1>3, <1>4, <1>5 DEF Opens, Rows, Forever

LEMMA ReadersKept ==
    ASSUME CachesOK, LinksOK, RequestOK, Calm, clock \in Nat,
           UNCHANGED <<clock, catalog, queries, links, request>>
    PROVE  CachesOK' /\ LinksOK' /\ RequestOK' /\ Calm'
  <1>1. \A row, expires : Opens(row, expires) => Opens(row, expires)'
    BY LinkKept DEF catalog
  <1>2. CachesOK'
    BY DEF CachesOK, catalog, Rows
  <1>3. LinksOK'
    BY <1>1 DEF LinksOK
  <1>4. RequestOK'
    BY <1>1 DEF RequestOK, catalog
  <1>5. Calm'
    BY DEF Calm, catalog
  <1> QED  BY <1>2, <1>3, <1>4, <1>5

LEMMA UsedOfFault ==
    ASSUME TablesOK, Fault
    PROVE  used' \in [fault : 0..MaxFaults, job : 0..MaxJobs, request : 0..MaxRequests]
  <1>1. used \in [fault : 0..MaxFaults, job : 0..MaxJobs, request : 0..MaxRequests]
    BY DEF TablesOK
  <1>2. used.fault + 1 \in 0..MaxFaults /\ used' = [used EXCEPT !.fault = @ + 1]
    BY <1>1, Constants DEF Fault
  <1> QED  BY <1>1, <1>2

LEMMA ClockType ==
    ASSUME TablesOK
    PROVE  clock \in Nat /\ clock <= LastTick /\ clock + SignedTtl \in Nat /\ clock + QueryTtl \in Nat
  BY Constants DEF TablesOK

LEMMA InitInv == Init => IInv
  <1> SUFFICES ASSUME Init
               PROVE  IInv
    OBVIOUS
  <1>1. Min(Profiles) \in Profiles
    BY Constants, MinOfProfiles
  <1>2. IsFiniteSet({}) /\ Cardinality({}) = 0
    BY FS_EmptySet
  <1>3. TablesOK
    BY <1>1, Constants DEF Init, TablesOK
  <1>4. JobOK
    <2>1. job \in Jobs
      BY Constants DEF Init, NoJob, Jobs, Modes
    <2>2. job.pc = "none" /\ job.todo = {} /\ job.selected = {}
      BY DEF Init, NoJob
    <2> QED  BY <1>2, <2>1, <2>2, Constants DEF JobOK, Working, Storing
  <1>5. Progress
    BY DEF Init, NoJob, Progress
  <1>6. CachesOK /\ LinksOK
    BY DEF Init, CachesOK, LinksOK
  <1>7. request \in Requests
    BY Constants DEF Init, NoRequest, Requests
  <1>8. /\ request.pc = "none" /\ ~request.calm /\ request.link = 0
        /\ request.queue = {} /\ request.options = {} /\ request.history = {}
    BY DEF Init, NoRequest
  <1>9. RequestOK
    <2>1. 0 <= clock + SignedTtl
      BY Constants DEF Init
    <2> QED  BY <1>2, <1>7, <1>8, <2>1, Constants DEF RequestOK
  <1>10. Calm
    BY <1>8 DEF Calm
  <1> QED  BY <1>3, <1>4, <1>5, <1>6, <1>9, <1>10 DEF IInv

LEMMA TickStep ==
    ASSUME IInv, Tick
    PROVE  IInv'
  <1>1. /\ clock' = clock + 1 /\ clock' \in 0..LastTick /\ clock \in Nat /\ clock <= clock' /\ clock' \in Nat
        /\ UNCHANGED <<profile, catalog, job, completed, queries, request, used>>
        /\ links' \subseteq links
    BY Constants DEF Tick, IInv, TablesOK
  <1>2. TablesOK'
    BY <1>1, CatalogKept DEF IInv, TablesOK
  <1>3. JobOK' /\ Progress'
    BY <1>1, BackfillKept DEF IInv
  <1>4. \A row, expires : Opens(row, expires) => Opens(row, expires)'
    BY <1>1, LinkKept DEF catalog
  <1>5. CachesOK'
    <2>1. \A q \in queries : q.expires \in Nat
      BY Constants DEF IInv, CachesOK, Rows, Forever
    <2>2. \A q \in queries : q.kind = "history" => q.expires <= clock' + QueryTtl
      BY <1>1, <2>1, Constants DEF IInv, CachesOK
    <2> QED  BY <1>1, <2>2 DEF IInv, CachesOK, catalog, Rows
  <1>6. LinksOK'
    BY <1>1, <1>4 DEF IInv, LinksOK
  <1>7. RequestOK'
    <2>1. request.link \in Nat /\ request.link <= clock' + SignedTtl
      BY <1>1, Constants DEF IInv, RequestOK, Requests
    <2> QED  BY <1>1, <1>4, <2>1 DEF IInv, RequestOK, catalog
  <1>8. Calm'
    BY <1>1 DEF IInv, Calm, catalog
  <1> QED  BY <1>2, <1>3, <1>5, <1>6, <1>7, <1>8 DEF IInv

LEMMA UpgradeStep ==
    ASSUME IInv, Upgrade
    PROVE  IInv'
  <1>1. profile' \in Profiles
    BY NextProfile DEF Upgrade, IInv, TablesOK
  <1>2. UNCHANGED <<clock, catalog, job, completed, queries, links, request, used>>
    BY DEF Upgrade
  <1>3. TablesOK'
    BY <1>1, <1>2, CatalogKept DEF IInv, TablesOK
  <1> QED  BY <1>2, <1>3, ClockType, BackfillKept, ReadersKept DEF IInv
-----------------------------------------------------------------------------
(***************************************************************************)
(* The backfill.                                                           *)
(***************************************************************************)
\* A step of the job that leaves the catalog alone.
LEMMA JobStepInv ==
    ASSUME IInv, UNCHANGED <<clock, profile, catalog, queries, links, request>>,
           completed' \subseteq Keys,
           used' \in [fault : 0..MaxFaults, job : 0..MaxJobs, request : 0..MaxRequests],
           JobOK', Progress'
    PROVE  IInv'
  <1>1. TablesOK'
    BY CatalogKept DEF IInv, TablesOK
  <1> QED  BY <1>1, ClockType, ReadersKept DEF IInv

LEMMA CompletedKeys ==
    ASSUME IInv, NEW new, JobStep(new), new.pc = "completed" => new.key \in Keys
    PROVE  /\ job' = new /\ completed' \subseteq Keys
           /\ UNCHANGED <<clock, profile, queries, links, used>>
           /\ used' \in [fault : 0..MaxFaults, job : 0..MaxJobs, request : 0..MaxRequests]
  BY DEF JobStep, IInv, TablesOK

LEMMA StartStep ==
    ASSUME IInv, NEW asked \in Backfills, start_backfill(asked)
    PROVE  IInv'
  <1>1. /\ job' = [NoJob EXCEPT !.pc = "search", !.mode = asked.mode, !.from = asked.from,
                                !.to = asked.to, !.version = profile, !.key = IdempotencyKey(asked)]
        /\ used.job < MaxJobs /\ used' = [used EXCEPT !.job = @ + 1]
        /\ UNCHANGED <<clock, profile, catalog, completed, queries, links, request>>
    BY DEF start_backfill
  <1>2. asked.mode \in Modes /\ asked.from \in Nat /\ asked.to \in Nat /\ profile \in Profiles
    BY Constants DEF Modes, IInv, TablesOK
  <1>3. IdempotencyKey(asked) \in Keys
    BY <1>2 DEF IdempotencyKey, Keys
  <1>4. job' = [pc |-> "search", mode |-> asked.mode, from |-> asked.from, to |-> asked.to,
                selected |-> {}, todo |-> {}, version |-> profile, key |-> IdempotencyKey(asked)]
    BY <1>1 DEF NoJob
  <1>5. job' \in Jobs
    BY <1>2, <1>3, <1>4 DEF Jobs, Working
  <1>6. JobOK'
    <2>1. Cardinality({}) = 0
      BY FS_EmptySet
    <2> QED  BY <1>2, <1>3, <1>4, <1>5, <2>1, Constants DEF JobOK, Storing
  <1>7. Progress'
    BY <1>4 DEF Progress
  <1>8. used' \in [fault : 0..MaxFaults, job : 0..MaxJobs, request : 0..MaxRequests]
    <2>1. used \in [fault : 0..MaxFaults, job : 0..MaxJobs, request : 0..MaxRequests]
      BY DEF IInv, TablesOK
    <2>2. used.job + 1 \in 0..MaxJobs
      BY <1>1, <2>1, Constants
    <2> QED  BY <1>1, <2>1, <2>2
  <1>9. completed' \subseteq Keys
    BY <1>1 DEF IInv, TablesOK
  <1> QED  BY <1>1, <1>6, <1>7, <1>8, <1>9, JobStepInv

\* The job in its next phase.
Phase(pc, selected, todo, version) ==
    [pc |-> pc, mode |-> job.mode, from |-> job.from, to |-> job.to,
     selected |-> selected, todo |-> todo, version |-> version, key |-> job.key]

LEMMA JobFields ==
    ASSUME IInv
    PROVE  /\ job \in Jobs /\ job.selected \subseteq Products
           /\ Cardinality(job.selected) <= MaxDownloads /\ job.todo \subseteq job.selected
           /\ job.pc \in Working \cup {"lost"} =>
                 job.version \in Profiles /\ job.version # 0 /\ job.key \in Keys
  BY Constants DEF IInv, JobOK, Jobs

LEMMA JobPhase ==
    ASSUME IInv, NEW pc \in {"none", "completed", "failed", "lost"} \cup Working,
           NEW selected, selected \subseteq Products, Cardinality(selected) <= MaxDownloads,
           NEW todo, todo \subseteq selected, NEW version \in Profiles,
           pc \in Storing => todo # {},
           pc \in {"search", "lost"} => todo = {},
           job.pc \in Working \cup {"lost"},
           job' = Phase(pc, selected, todo, version)
    PROVE  /\ JobOK'
           /\ job'.pc = pc /\ job'.selected = selected /\ job'.todo = todo /\ job'.version = version
           /\ job'.mode = job.mode /\ job'.key = job.key
  <1>1. job \in Jobs /\ job.key \in Keys
    BY DEF IInv, JobOK
  <1>2. job' \in Jobs
    BY <1>1 DEF Jobs, Phase
  <1> QED  BY <1>1, <1>2 DEF JobOK, Phase

\* A step of the job that moves it on and stores nothing.
LEMMA PhaseStep ==
    ASSUME IInv, NEW pc \in {"none", "completed", "failed", "lost"} \cup Working,
           NEW selected, selected \subseteq Products, Cardinality(selected) <= MaxDownloads,
           NEW todo, todo \subseteq selected, NEW version \in Profiles,
           pc \in Storing => todo # {},
           pc \in {"search", "lost"} => todo = {},
           pc \notin {"scene", "asset", "name", "item"},
           pc = "object" => selected = todo,
           pc = "cleanup" \/ (pc = "completed" /\ job.mode = "full_pipeline") =>
              \/ selected = {}
              \/ selected = job.selected /\ version = job.version /\ \A p \in job.selected : Published(p),
           job.pc \in Working \cup {"lost"},
           job' = Phase(pc, selected, todo, version),
           UNCHANGED <<clock, profile, catalog, queries, links, request>>,
           completed' \subseteq Keys,
           used' \in [fault : 0..MaxFaults, job : 0..MaxJobs, request : 0..MaxRequests]
    PROVE  IInv'
  <1>1. /\ JobOK'
        /\ job'.pc = pc /\ job'.selected = selected /\ job'.todo = todo /\ job'.version = version
        /\ job'.mode = job.mode
    BY JobPhase
  <1>2. Progress'
    <2>1. pc = "object" => selected \ todo = {}
      OBVIOUS
    <2>2. CASE pc = "cleanup" \/ (pc = "completed" /\ job.mode = "full_pipeline")
      <3>1. \A p \in job'.selected : Published(p)'
        BY <1>1, <2>2 DEF Published, catalog
      <3> QED  BY <1>1, <2>1, <3>1 DEF Progress
    <2>3. CASE ~(pc = "cleanup" \/ (pc = "completed" /\ job.mode = "full_pipeline"))
      BY <1>1, <2>1, <2>3 DEF Progress
    <2> QED  BY <2>2, <2>3
  <1> QED  BY <1>1, <1>2, JobStepInv

LEMMA SearchStep ==
    ASSUME IInv, _search
    PROVE  IInv'
  <1> DEFINE found == {p \in Products : Day[p] \in job.from..job.to}
             selected == {p \in found :
                             Cardinality({q \in found : Overlap[q] > Overlap[p]}) < MaxDownloads}
             pc == IF job.mode = "metadata_only" THEN "completed" ELSE "download"
  <1>1. /\ job.pc = "search" /\ job.todo = {}
        /\ JobStep([job EXCEPT !.selected = selected, !.pc = pc])
        /\ UNCHANGED <<catalog, request>>
    BY DEF _search, IInv, JobOK
  <1>2. selected \subseteq Products /\ Cardinality(selected) <= MaxDownloads
    BY SelectionIsBounded
  <1>3. pc \in {"completed", "download"} /\ (pc = "completed" => job.mode # "full_pipeline")
    OBVIOUS
  <1> HIDE DEF found, selected, pc
  <1>3a. PICK new : new = [job EXCEPT !.selected = selected, !.pc = pc]
    OBVIOUS
  <1>4. new = Phase(pc, selected, {}, job.version)
    BY <1>3a, <1>1, JobFields DEF Phase, Jobs
  <1>5. /\ job' = Phase(pc, selected, {}, job.version) /\ completed' \subseteq Keys
        /\ UNCHANGED <<clock, profile, queries, links>>
        /\ used' \in [fault : 0..MaxFaults, job : 0..MaxJobs, request : 0..MaxRequests]
    BY <1>1, <1>3a, <1>4, JobFields, CompletedKeys DEF Phase, Working
  <1>6. pc \in {"none", "completed", "failed", "lost"} \cup Working /\ pc \notin Storing
    BY <1>3 DEF Working, Storing
  <1>7. job.version \in Profiles /\ job.pc \in Working
    BY <1>1, JobFields DEF Working
  <1> QED  BY <1>1, <1>2, <1>3, <1>5, <1>6, <1>7, PhaseStep

LEMMA DownloadStep ==
    ASSUME IInv, _download
    PROVE  IInv'
  <1> DEFINE pc == IF job.mode = "download_only" THEN "completed" ELSE "prepare"
  <1>1. /\ job.pc = "download" /\ JobStep([job EXCEPT !.pc = pc])
        /\ UNCHANGED <<catalog, request>>
    BY DEF _download
  <1>3. pc \in {"completed", "prepare"} /\ (pc = "completed" => job.mode # "full_pipeline")
    OBVIOUS
  <1> HIDE DEF pc
  <1>3a. PICK new : new = [job EXCEPT !.pc = pc]
    OBVIOUS
  <1>4. new = Phase(pc, job.selected, job.todo, job.version)
    BY <1>3a, JobFields DEF Phase, Jobs
  <1>5. /\ job' = Phase(pc, job.selected, job.todo, job.version) /\ completed' \subseteq Keys
        /\ UNCHANGED <<clock, profile, queries, links>>
        /\ used' \in [fault : 0..MaxFaults, job : 0..MaxJobs, request : 0..MaxRequests]
    BY <1>1, <1>3a, <1>4, JobFields, CompletedKeys DEF Phase, Working
  <1>6. pc \in {"none", "completed", "failed", "lost"} \cup Working /\ pc \notin Storing
    BY <1>3 DEF Working, Storing
  <1>7. job.version \in Profiles /\ job.pc \in Working
    BY <1>1, JobFields DEF Working
  <1> QED  BY <1>1, <1>3, <1>5, <1>6, <1>7, JobFields, PhaseStep

LEMMA PrepareStep ==
    ASSUME IInv, _prepare
    PROVE  IInv'
  <1> DEFINE pc == CASE job.mode = "prepare_only" -> "completed"
                     [] job.mode # "prepare_only" /\ job.selected = {} -> "cleanup"
                     [] job.mode # "prepare_only" /\ job.selected # {} -> "object"
  <1>1. /\ job.pc = "prepare" /\ JobStep([job EXCEPT !.todo = job.selected, !.pc = pc])
        /\ UNCHANGED <<catalog, request>>
    BY DEF _prepare
  <1>3. /\ pc \in {"completed", "cleanup", "object"} /\ (pc = "completed" => job.mode # "full_pipeline")
        /\ pc = "cleanup" => job.selected = {}
        /\ pc = "object" => job.selected # {}
    OBVIOUS
  <1> HIDE DEF pc
  <1>3a. PICK new : new = [job EXCEPT !.todo = job.selected, !.pc = pc]
    OBVIOUS
  <1>4. new = Phase(pc, job.selected, job.selected, job.version)
    BY <1>3a, JobFields DEF Phase, Jobs
  <1>5. /\ job' = Phase(pc, job.selected, job.selected, job.version) /\ completed' \subseteq Keys
        /\ UNCHANGED <<clock, profile, queries, links>>
        /\ used' \in [fault : 0..MaxFaults, job : 0..MaxJobs, request : 0..MaxRequests]
    BY <1>1, <1>3a, <1>4, JobFields, CompletedKeys DEF Phase, Working
  <1>6. pc \in {"none", "completed", "failed", "lost"} \cup Working
    BY <1>3 DEF Working
  <1>7. job.version \in Profiles /\ job.pc \in Working /\ (pc \in Storing => job.selected # {})
    BY <1>1, <1>3, JobFields DEF Working, Storing
  <1> QED  BY <1>1, <1>3, <1>5, <1>6, <1>7, JobFields, PhaseStep

LEMMA CompleteStep ==
    ASSUME IInv, Complete
    PROVE  IInv'
  <1>1. /\ job.pc = "cleanup" /\ JobStep([job EXCEPT !.pc = "completed"])
        /\ UNCHANGED <<catalog, request>>
    BY DEF Complete
  <1>2. \A p \in job.selected : Published(p)
    BY <1>1 DEF IInv, Progress
  <1>3a. PICK new : new = [job EXCEPT !.pc = "completed"]
    OBVIOUS
  <1>4. new = Phase("completed", job.selected, job.todo, job.version)
    BY <1>3a, JobFields DEF Phase, Jobs
  <1>5. /\ job' = Phase("completed", job.selected, job.todo, job.version) /\ completed' \subseteq Keys
        /\ UNCHANGED <<clock, profile, queries, links>>
        /\ used' \in [fault : 0..MaxFaults, job : 0..MaxJobs, request : 0..MaxRequests]
    BY <1>1, <1>3a, <1>4, JobFields, CompletedKeys DEF Phase, Working
  <1>7. job.version \in Profiles /\ job.pc \in Working /\ "completed" \notin Storing
    BY <1>1, JobFields DEF Working, Storing
  <1> QED  BY <1>1, <1>2, <1>5, <1>7, JobFields, PhaseStep

LEMMA JobFailsStep ==
    ASSUME IInv, JobFails
    PROVE  IInv'
  <1>1. /\ job.pc \in Working /\ Fault /\ job' = [job EXCEPT !.pc = "failed"]
        /\ UNCHANGED <<clock, profile, catalog, completed, queries, links, request>>
    BY DEF JobFails
  <1>4. job' = Phase("failed", job.selected, job.todo, job.version)
    BY <1>1, JobFields DEF Phase, Jobs
  <1>5. completed' \subseteq Keys
    BY <1>1 DEF IInv, TablesOK
  <1>6. used' \in [fault : 0..MaxFaults, job : 0..MaxJobs, request : 0..MaxRequests]
    BY <1>1, UsedOfFault DEF IInv
  <1>7. job.version \in Profiles /\ "failed" \notin Storing
    BY <1>1, JobFields DEF Storing
  <1> QED  BY <1>1, <1>4, <1>5, <1>6, <1>7, JobFields, PhaseStep

LEMMA WorkerLostStep ==
    ASSUME IInv, WorkerLost
    PROVE  IInv'
  <1>1. /\ job.pc \in Working /\ Fault /\ job' = [job EXCEPT !.pc = "lost", !.selected = {}, !.todo = {}]
        /\ UNCHANGED <<clock, profile, catalog, completed, queries, links, request>>
    BY DEF WorkerLost
  <1>4. job' = Phase("lost", {}, {}, job.version)
    BY <1>1, JobFields DEF Phase, Jobs
  <1>5. completed' \subseteq Keys
    BY <1>1 DEF IInv, TablesOK
  <1>6. used' \in [fault : 0..MaxFaults, job : 0..MaxJobs, request : 0..MaxRequests]
    BY <1>1, UsedOfFault DEF IInv
  <1>7. job.version \in Profiles /\ "lost" \notin Storing
    BY <1>1, JobFields DEF Storing
  <1>8. Cardinality({}) <= MaxDownloads
    BY Constants, FS_EmptySet
  <1> QED  BY <1>1, <1>4, <1>5, <1>6, <1>7, <1>8, JobFields, PhaseStep

LEMMA RecoverStep ==
    ASSUME IInv, recover_worker_lost
    PROVE  IInv'
  <1>1. /\ job.pc = "lost" /\ JobStep([job EXCEPT !.pc = "search", !.version = profile])
        /\ UNCHANGED <<catalog, request>>
    BY DEF recover_worker_lost
  <1>2. job.todo = {} /\ profile \in Profiles
    BY <1>1 DEF IInv, JobOK, TablesOK
  <1>3a. PICK new : new = [job EXCEPT !.pc = "search", !.version = profile]
    OBVIOUS
  <1>4. new = Phase("search", job.selected, job.todo, profile)
    BY <1>3a, JobFields DEF Phase, Jobs
  <1>5. /\ job' = Phase("search", job.selected, job.todo, profile) /\ completed' \subseteq Keys
        /\ UNCHANGED <<clock, profile, queries, links>>
        /\ used' \in [fault : 0..MaxFaults, job : 0..MaxJobs, request : 0..MaxRequests]
    BY <1>1, <1>3a, <1>4, JobFields, CompletedKeys DEF Phase, Working
  <1>7. "search" \notin Storing /\ "search" \in Working
    BY DEF Storing, Working
  <1> QED  BY <1>1, <1>2, <1>5, <1>7, JobFields, PhaseStep

\* What is stored is one more product of one version: readers that had found it
\* still do.
LEMMA ReadersOfCatalog ==
    ASSUME CachesOK, LinksOK, RequestOK, clock \in Nat,
           UNCHANGED <<clock, object, replaced, queries, links, request>>,
           \A p \in Products : asset[p] # 0 => asset'[p] # 0
    PROVE  CachesOK' /\ LinksOK' /\ RequestOK'
  <1>1. \A row, expires : Opens(row, expires) => Opens(row, expires)'
    BY LinkKept
  <1>2. CachesOK'
    BY DEF CachesOK, Rows
  <1>3. LinksOK'
    BY <1>1 DEF LinksOK
  <1>4. \A o \in request.options : o.scene \in Products
    BY DEF RequestOK, Requests, Options
  <1>5. request.pc = "history" => request.chosen.scene \in Products
    BY DEF RequestOK, Options
  <1>6. RequestOK'
    BY <1>1, <1>4, <1>5 DEF RequestOK
  <1> QED  BY <1>2, <1>3, <1>6

\* The rest of the invariant while an object is as its scene's row says.
LEMMA CalmOfScenes ==
    ASSUME Calm, UNCHANGED <<object, replaced, request>>,
           \A p \in Products : scene'[p] # None =>
               scene'[p].version = object[p] \/ (scene[p] # None /\ scene'[p] = scene[p])
    PROVE  Calm'
  BY DEF Calm

LEMMA StoringJob ==
    ASSUME IInv, job.pc \in Storing
    PROVE  /\ job.pc \in Working /\ Current \in job.todo /\ Current \in job.selected /\ Current \in Products
           /\ job.version \in Profiles /\ job.version # 0 /\ job.version \in Nat
           /\ job.todo # {} /\ job.todo \subseteq job.selected /\ job.selected \subseteq Products
  <1>1. job.pc \in Working /\ job.todo # {}
    BY DEF IInv, JobOK, Storing, Working
  <1>2. Current \in job.todo
    BY <1>1, JobFields, CurrentIsToDo
  <1> QED  BY <1>1, <1>2, JobFields, Constants

LEMMA StoreObjectStep ==
    ASSUME IInv, StoreObject
    PROVE  IInv'
  <1>1. PICK p \in Products : p = Current
    BY StoringJob DEF StoreObject, Storing
  <1>2. /\ job.pc = "object" /\ JobStep([job EXCEPT !.pc = "scene"])
        /\ object' = [object EXCEPT ![p] = job.version]
        /\ replaced' = IF object[p] \in {0, job.version} THEN replaced
                       ELSE [replaced EXCEPT ![p] = clock]
        /\ request' = [request EXCEPT !.calm = @ /\ object' = object]
        /\ UNCHANGED <<scene, asset, items>>
    BY <1>1 DEF StoreObject, put_prepared_cog_file
  <1>3. /\ job.version \in Profiles /\ job.version # 0 /\ job.pc \in Working
        /\ job.todo # {} /\ job.todo \subseteq job.selected /\ p \in job.todo /\ job.selected \subseteq Products
    BY <1>1, <1>2, StoringJob DEF Storing
  <1>4. PICK new : new = [job EXCEPT !.pc = "scene"]
    OBVIOUS
  <1>5. new = Phase("scene", job.selected, job.todo, job.version)
    BY <1>4, JobFields DEF Phase, Jobs
  <1>6. /\ job' = Phase("scene", job.selected, job.todo, job.version) /\ completed' \subseteq Keys
        /\ UNCHANGED <<clock, profile, queries, links>>
        /\ used' \in [fault : 0..MaxFaults, job : 0..MaxJobs, request : 0..MaxRequests]
    BY <1>2, <1>4, <1>5, JobFields, CompletedKeys DEF Phase, Working
  <1>7. /\ JobOK'
        /\ job'.pc = "scene" /\ job'.selected = job.selected /\ job'.todo = job.todo
        /\ job'.version = job.version
    BY <1>3, <1>6, JobFields, JobPhase DEF Working
  <1>8. TablesOK'
    BY <1>2, <1>3, <1>6, Constants DEF IInv, TablesOK
  <1>9. \A q \in Products : q # p => object'[q] = object[q] /\ replaced'[q] = replaced[q]
    BY <1>2 DEF IInv, TablesOK
  <1>10. object'[p] = job.version /\ (object[p] \in {0, job.version} => replaced'[p] = replaced[p])
         /\ (object[p] \notin {0, job.version} => replaced'[p] = clock)
    BY <1>2 DEF IInv, TablesOK
  <1>11. Progress'
    <2>1. Current' = p
      BY <1>1, <1>7, CurrentKept
    <2>2. \A q \in job.selected \ job.todo : Registered(q)'
      BY <1>2, <1>3, <1>7, <1>9 DEF IInv, Progress, Registered
    <2> QED  BY <1>7, <1>10, <2>1, <2>2 DEF Progress
  <1>12. CachesOK'
    <2> SUFFICES ASSUME NEW q \in queries, q.kind = "history"
                 PROVE  /\ q.scene \in Products /\ q.stats \in Profiles /\ object'[q.scene] # 0
                        /\ q.expires <= clock + QueryTtl
                        /\ q.stats = object'[q.scene] \/ q.expires - QueryTtl <= replaced'[q.scene]
      BY <1>6 DEF IInv, CachesOK, Rows
    <2>1. /\ q.scene \in Products /\ q.stats \in Profiles /\ object[q.scene] # 0
          /\ q.expires <= clock + QueryTtl
          /\ q.stats = object[q.scene] \/ q.expires - QueryTtl <= replaced[q.scene]
      BY DEF IInv, CachesOK
    <2>2. CASE q.scene # p
      BY <1>9, <2>1, <2>2
    <2>3. CASE q.scene = p /\ object[p] = job.version
      BY <1>10, <2>1, <2>3
    <2>4. CASE q.scene = p /\ object[p] # job.version
      <3>1. replaced'[p] = clock
        BY <1>10, <2>1, <2>4
      <3>2. q.expires \in Nat /\ clock \in Nat
        BY ClockType, Constants DEF IInv, CachesOK, Rows, Forever
      <3>3. q.expires - QueryTtl <= clock
        BY <2>1, <3>2, Constants
      <3> QED  BY <1>3, <1>10, <2>1, <2>4, <3>1, <3>3
    <2> QED  BY <2>2, <2>3, <2>4
  <1>13. \A row, expires : Opens(row, expires) => Opens(row, expires)'
    <2>1. \A q \in Products : (asset[q] # 0 => asset'[q] # 0) /\ (object[q] # 0 => object'[q] # 0)
      BY <1>2, <1>3, <1>9, <1>10
    <2> QED  BY <1>6, <2>1, ClockType, LinkKept DEF IInv
  <1>14. LinksOK'
    BY <1>6, <1>13 DEF IInv, LinksOK
  <1>15. /\ request \in Requests /\ request' \in Requests
         /\ request'.pc = request.pc /\ request'.queue = request.queue /\ request'.options = request.options
         /\ request'.history = request.history /\ request'.link = request.link
         /\ request'.chosen = request.chosen /\ request'.answer = request.answer
         /\ request'.calm => request.calm /\ object' = object
    <2>1. request \in Requests /\ request.calm \in BOOLEAN
      BY DEF IInv, RequestOK, Requests
    <2>2. (request.calm /\ object' = object) \in BOOLEAN
      OBVIOUS
    <2> QED  BY <1>2, <2>1, <2>2 DEF Requests
  <1>16. RequestOK'
    <2>1. request.pc = "none" => ~request'.calm
      BY <1>15 DEF IInv, RequestOK
    <2> QED  BY <1>2, <1>6, <1>13, <1>15, <2>1 DEF IInv, RequestOK
  <1>17. Calm'
    <2> SUFFICES ASSUME request'.calm
                 PROVE  Calm'
      BY DEF Calm
    <2>1. object' = object /\ request.calm
      BY <1>15
    <2>2. replaced' = replaced
      BY <1>2, <1>10, <2>1
    <2> QED  BY <1>2, <1>15, <2>1, <2>2 DEF IInv, Calm
  <1> QED  BY <1>7, <1>8, <1>11, <1>12, <1>14, <1>16, <1>17 DEF IInv

LEMMA StoreSceneStep ==
    ASSUME IInv, StoreScene
    PROVE  IInv'
  <1>1. PICK p \in Products : p = Current
    BY StoringJob DEF StoreScene, Storing
  <1>2. /\ job.pc = "scene" /\ JobStep([job EXCEPT !.pc = "asset"])
        /\ scene' = [scene EXCEPT ![p] = [version |-> job.version, item |-> FALSE]]
        /\ UNCHANGED <<asset, object, replaced, items, request>>
    BY <1>1 DEF StoreScene
  <1>3. /\ job.version \in Profiles /\ job.version # 0 /\ job.pc \in Working
        /\ job.todo # {} /\ job.todo \subseteq job.selected /\ p \in job.todo /\ job.selected \subseteq Products
    BY <1>1, <1>2, StoringJob DEF Storing
  <1>4. PICK new : new = [job EXCEPT !.pc = "asset"]
    OBVIOUS
  <1>5. new = Phase("asset", job.selected, job.todo, job.version)
    BY <1>4, JobFields DEF Phase, Jobs
  <1>6. /\ job' = Phase("asset", job.selected, job.todo, job.version) /\ completed' \subseteq Keys
        /\ UNCHANGED <<clock, profile, queries, links>>
        /\ used' \in [fault : 0..MaxFaults, job : 0..MaxJobs, request : 0..MaxRequests]
    BY <1>2, <1>4, <1>5, JobFields, CompletedKeys DEF Phase, Working
  <1>7. /\ JobOK'
        /\ job'.pc = "asset" /\ job'.selected = job.selected /\ job'.todo = job.todo
        /\ job'.version = job.version
    BY <1>3, <1>6, JobFields, JobPhase DEF Working
  <1>8. PICK row \in SceneRow : row = [version |-> job.version, item |-> FALSE]
    BY <1>3 DEF SceneRow
  <1>9. row # None /\ row.version = job.version
    BY <1>8, Constants DEF SceneRow
  <1>10. scene'[p] = row /\ \A q \in Products : q # p => scene'[q] = scene[q]
    BY <1>2, <1>8 DEF IInv, TablesOK
  <1>11. TablesOK'
    BY <1>2, <1>6, <1>8 DEF IInv, TablesOK
  <1>12. object[p] = job.version
    BY <1>1, <1>2 DEF IInv, Progress
  <1>13. Progress'
    <2>1. Current' = p
      BY <1>1, <1>7, CurrentKept
    <2>2. \A q \in job.selected \ job.todo : Registered(q)'
      BY <1>2, <1>3, <1>7, <1>10 DEF IInv, Progress, Registered
    <2> QED  BY <1>2, <1>7, <1>9, <1>10, <1>12, <2>1, <2>2 DEF Progress
  <1>14. CachesOK' /\ LinksOK' /\ RequestOK'
    BY <1>2, <1>6, ClockType, ReadersOfCatalog DEF IInv
  <1>15. Calm'
    BY <1>2, <1>9, <1>10, <1>12, CalmOfScenes DEF IInv
  <1> QED  BY <1>7, <1>11, <1>13, <1>14, <1>15 DEF IInv

LEMMA StoreAssetStep ==
    ASSUME IInv, StoreAsset
    PROVE  IInv'
  <1>1. PICK p \in Products : p = Current
    BY StoringJob DEF StoreAsset, Storing
  <1>2. PICK rest : rest = job.todo \ {p}
    OBVIOUS
  <1>3. PICK new : new = IF rest # {} THEN [job EXCEPT !.pc = "object", !.todo = rest]
                         ELSE [job EXCEPT !.pc = "name", !.todo = job.selected]
    OBVIOUS
  <1>4. /\ job.pc = "asset" /\ JobStep(new)
        /\ asset' = [asset EXCEPT ![p] = job.version]
        /\ UNCHANGED <<scene, object, replaced, items, request>>
    BY <1>1, <1>2, <1>3 DEF StoreAsset
  <1>5. /\ job.version \in Profiles /\ job.version # 0 /\ job.pc \in Working
        /\ job.todo # {} /\ job.todo \subseteq job.selected /\ p \in job.todo /\ job.selected \subseteq Products
    BY <1>1, <1>4, StoringJob DEF Storing
  <1>6. PICK pc : pc = IF rest # {} THEN "object" ELSE "name"
    OBVIOUS
  <1>7. PICK todo : todo = IF rest # {} THEN rest ELSE job.selected
    OBVIOUS
  <1>8. new = Phase(pc, job.selected, todo, job.version)
    BY <1>3, <1>6, <1>7, JobFields DEF Phase, Jobs
  <1>9. pc \in {"object", "name"} /\ todo \subseteq job.selected /\ todo # {}
    BY <1>2, <1>5, <1>6, <1>7
  <1>10. /\ job' = Phase(pc, job.selected, todo, job.version) /\ completed' \subseteq Keys
         /\ UNCHANGED <<clock, profile, queries, links>>
         /\ used' \in [fault : 0..MaxFaults, job : 0..MaxJobs, request : 0..MaxRequests]
    BY <1>4, <1>5, <1>8, JobFields, CompletedKeys DEF Phase
  <1>11. /\ JobOK'
         /\ job'.pc = pc /\ job'.selected = job.selected /\ job'.todo = todo
         /\ job'.version = job.version
    BY <1>5, <1>9, <1>10, JobFields, JobPhase DEF Working
  <1>12. asset'[p] = job.version /\ \A q \in Products : q # p => asset'[q] = asset[q]
    BY <1>4 DEF IInv, TablesOK
  <1>13. /\ object[p] = job.version /\ scene[p] # None /\ scene[p].version = job.version
         /\ \A q \in job.selected \ job.todo : Registered(q)
    BY <1>1, <1>4 DEF IInv, Progress
  <1>14. TablesOK'
    BY <1>4, <1>5, <1>10, <1>13 DEF IInv, TablesOK
  <1>15. Progress'
    <2>1. Registered(p)'
      BY <1>4, <1>11, <1>12, <1>13 DEF Registered
    <2>2. \A q \in job.selected \ job.todo : Registered(q)'
      BY <1>4, <1>5, <1>11, <1>12, <1>13 DEF Registered
    <2>3. \A q \in job.selected \ rest : Registered(q)'
      BY <1>2, <2>1, <2>2
    <2>4. CASE rest # {}
      <3>1. job'.pc = "object" /\ job'.todo = rest
        BY <1>6, <1>7, <1>11, <2>4
      <3> QED  BY <1>11, <2>3, <3>1 DEF Progress
    <2>5. CASE rest = {}
      <3>1. job'.pc = "name" /\ job'.todo = job'.selected
        BY <1>6, <1>7, <1>11, <2>5
      <3>2. \A q \in job'.selected : Registered(q)'
        BY <1>11, <2>3, <2>5
      <3> QED  BY <3>1, <3>2 DEF Progress
    <2> QED  BY <2>4, <2>5
  <1>16. CachesOK' /\ LinksOK' /\ RequestOK'
    BY <1>4, <1>5, <1>10, <1>12, ClockType, ReadersOfCatalog DEF IInv
  <1>17. Calm'
    BY <1>4, CalmOfScenes DEF IInv
  <1> QED  BY <1>11, <1>14, <1>15, <1>16, <1>17 DEF IInv

LEMMA NameItemStep ==
    ASSUME IInv, NameItem
    PROVE  IInv'
  <1>1. PICK p \in Products : p = Current
    BY StoringJob DEF NameItem, Storing
  <1>2. /\ job.pc = "name" /\ JobStep([job EXCEPT !.pc = "item"])
        /\ scene' = [scene EXCEPT ![p] = [version |-> job.version, item |-> TRUE]]
        /\ UNCHANGED <<asset, object, replaced, items, request>>
    BY <1>1 DEF NameItem
  <1>3. /\ job.version \in Profiles /\ job.version # 0 /\ job.pc \in Working
        /\ job.todo # {} /\ job.todo \subseteq job.selected /\ p \in job.todo /\ job.selected \subseteq Products
    BY <1>1, <1>2, StoringJob DEF Storing
  <1>4. PICK new : new = [job EXCEPT !.pc = "item"]
    OBVIOUS
  <1>5. new = Phase("item", job.selected, job.todo, job.version)
    BY <1>4, JobFields DEF Phase, Jobs
  <1>6. /\ job' = Phase("item", job.selected, job.todo, job.version) /\ completed' \subseteq Keys
        /\ UNCHANGED <<clock, profile, queries, links>>
        /\ used' \in [fault : 0..MaxFaults, job : 0..MaxJobs, request : 0..MaxRequests]
    BY <1>2, <1>4, <1>5, JobFields, CompletedKeys DEF Phase, Working
  <1>7. /\ JobOK'
        /\ job'.pc = "item" /\ job'.selected = job.selected /\ job'.todo = job.todo
        /\ job'.version = job.version
    BY <1>3, <1>6, JobFields, JobPhase DEF Working
  <1>8. PICK row \in SceneRow : row = [version |-> job.version, item |-> TRUE]
    BY <1>3 DEF SceneRow
  <1>9. row # None /\ row.version = job.version
    BY <1>8, Constants DEF SceneRow
  <1>10. scene'[p] = row /\ \A q \in Products : q # p => scene'[q] = scene[q]
    BY <1>2, <1>8 DEF IInv, TablesOK
  <1>11. TablesOK'
    BY <1>2, <1>6, <1>8 DEF IInv, TablesOK
  <1>12. /\ \A q \in job.selected : Registered(q)
         /\ \A q \in job.selected \ job.todo : Published(q)
    BY <1>2 DEF IInv, Progress
  <1>13. Progress'
    <2>1. Current' = p
      BY <1>1, <1>7, CurrentKept
    <2>2. \A q \in job.selected : Registered(q)'
      BY <1>2, <1>3, <1>7, <1>9, <1>10, <1>12 DEF Registered
    <2>3. \A q \in job.selected \ job.todo : Published(q)'
      BY <1>2, <1>3, <1>7, <1>10, <1>12 DEF Published
    <2> QED  BY <1>7, <1>8, <1>10, <2>1, <2>2, <2>3 DEF Progress
  <1>14. CachesOK' /\ LinksOK' /\ RequestOK'
    BY <1>2, <1>6, ClockType, ReadersOfCatalog DEF IInv
  <1>15. Calm'
    <2>1. object[p] = job.version
      BY <1>3, <1>12 DEF Registered
    <2> QED  BY <1>2, <1>9, <1>10, <2>1, CalmOfScenes DEF IInv
  <1> QED  BY <1>7, <1>11, <1>13, <1>14, <1>15 DEF IInv

LEMMA StoreItemStep ==
    ASSUME IInv, StoreItem
    PROVE  IInv'
  <1>1. PICK p \in Products : p = Current
    BY StoringJob DEF StoreItem, Storing
  <1>2. PICK rest : rest = job.todo \ {p}
    OBVIOUS
  <1>3. PICK pc : pc = IF rest # {} THEN "name" ELSE "cleanup"
    OBVIOUS
  <1>4. PICK new : new = [job EXCEPT !.todo = rest, !.pc = pc]
    OBVIOUS
  <1>5. /\ job.pc = "item" /\ JobStep(new)
        /\ items' = [items EXCEPT ![p] = job.version]
        /\ UNCHANGED <<scene, asset, object, replaced, request>>
    BY <1>1, <1>2, <1>3, <1>4 DEF StoreItem
  <1>6. /\ job.version \in Profiles /\ job.version # 0 /\ job.pc \in Working
        /\ job.todo # {} /\ job.todo \subseteq job.selected /\ p \in job.todo /\ job.selected \subseteq Products
    BY <1>1, <1>5, StoringJob DEF Storing
  <1>7. new = Phase(pc, job.selected, rest, job.version)
    BY <1>4, JobFields DEF Phase, Jobs
  <1>8. pc \in {"name", "cleanup"} /\ rest \subseteq job.selected /\ (pc = "name" => rest # {})
    BY <1>2, <1>3, <1>6
  <1>9. /\ job' = Phase(pc, job.selected, rest, job.version) /\ completed' \subseteq Keys
        /\ UNCHANGED <<clock, profile, queries, links>>
        /\ used' \in [fault : 0..MaxFaults, job : 0..MaxJobs, request : 0..MaxRequests]
    BY <1>5, <1>6, <1>7, JobFields, CompletedKeys DEF Phase
  <1>10. /\ JobOK'
         /\ job'.pc = pc /\ job'.selected = job.selected /\ job'.todo = rest
         /\ job'.version = job.version
    BY <1>6, <1>8, <1>9, JobFields, JobPhase DEF Working, Storing
  <1>11. items'[p] = job.version /\ \A q \in Products : q # p => items'[q] = items[q]
    BY <1>5 DEF IInv, TablesOK
  <1>12. TablesOK'
    BY <1>5, <1>6, <1>9 DEF IInv, TablesOK
  <1>13. /\ \A q \in job.selected : Registered(q)
         /\ \A q \in job.selected \ job.todo : Published(q)
         /\ scene[p] = [version |-> job.version, item |-> TRUE]
    BY <1>1, <1>5 DEF IInv, Progress
  <1>14. Progress'
    <2>1. Published(p)'
      BY <1>5, <1>6, <1>10, <1>11, <1>13 DEF Published, Registered
    <2>2. \A q \in job.selected \ job.todo : Published(q)'
      BY <1>5, <1>6, <1>10, <1>11, <1>13 DEF Published
    <2>3. \A q \in job.selected \ rest : Published(q)'
      BY <1>2, <2>1, <2>2
    <2>4. \A q \in job.selected : Registered(q)'
      BY <1>5, <1>10, <1>13 DEF Registered
    <2>5. CASE rest # {}
      BY <1>3, <1>10, <2>3, <2>4, <2>5 DEF Progress
    <2>6. CASE rest = {}
      <3>1. \A q \in job'.selected : Published(q)'
        BY <1>10, <2>3, <2>6
      <3>2. job'.pc = "cleanup"
        BY <1>3, <1>10, <2>6
      <3> QED  BY <3>1, <3>2 DEF Progress
    <2> QED  BY <2>5, <2>6
  <1>15. CachesOK' /\ LinksOK' /\ RequestOK'
    BY <1>5, <1>9, ClockType, ReadersOfCatalog DEF IInv
  <1>16. Calm'
    BY <1>5, CalmOfScenes DEF IInv
  <1> QED  BY <1>10, <1>12, <1>14, <1>15, <1>16 DEF IInv
-----------------------------------------------------------------------------
(***************************************************************************)
(* The requests.                                                           *)
(***************************************************************************)
LEMMA RequestStepInv ==
    ASSUME IInv, UNCHANGED <<clock, profile, catalog, job, completed>>,
           used' \in [fault : 0..MaxFaults, job : 0..MaxJobs, request : 0..MaxRequests],
           CachesOK', LinksOK', RequestOK', Calm'
    PROVE  IInv'
  <1>1. TablesOK'
    BY CatalogKept DEF IInv, TablesOK
  <1> QED  BY <1>1, BackfillKept DEF IInv

LEMMA UsedKept ==
    ASSUME IInv, used' = used \/ Fault
    PROVE  used' \in [fault : 0..MaxFaults, job : 0..MaxJobs, request : 0..MaxRequests]
  <1>1. CASE used' = used
    BY <1>1 DEF IInv, TablesOK
  <1>2. CASE Fault
    BY <1>2, UsedOfFault DEF IInv
  <1> QED  BY <1>1, <1>2

LEMMA UsedOfRequest ==
    ASSUME IInv, used.request < MaxRequests, used' = [used EXCEPT !.request = @ + 1]
    PROVE  used' \in [fault : 0..MaxFaults, job : 0..MaxJobs, request : 0..MaxRequests]
  <1>1. used \in [fault : 0..MaxFaults, job : 0..MaxJobs, request : 0..MaxRequests]
    BY DEF IInv, TablesOK
  <1>2. used.request + 1 \in 0..MaxRequests
    BY <1>1, Constants
  <1> QED  BY <1>1, <1>2

\* Rows are only taken away once they have expired.
LEMMA RowsGrow ==
    ASSUME IInv, UNCHANGED <<clock, catalog>>,
           \A row \in queries : row.expires > clock => row \in queries'
    PROVE  \A row, expires : Opens(row, expires) => Opens(row, expires)'
  BY ClockType, LinkKept DEF IInv, catalog

LEMMA SavedRows ==
    ASSUME IInv, UNCHANGED <<clock, catalog, links>>,
           NEW row \in Rows, row.kind # "history", queries' = queries \cup {row}
    PROVE  CachesOK' /\ LinksOK'
  <1>1. CachesOK'
    BY DEF IInv, CachesOK, catalog, Rows
  <1>2. \A r, expires : Opens(r, expires) => Opens(r, expires)'
    BY RowsGrow
  <1> QED  BY <1>1, <1>2 DEF IInv, LinksOK

LEMMA FieldIndexStep ==
    ASSUME IInv, field_index
    PROVE  IInv'
  <1>1. PICK row : row = [kind |-> "index", scene |-> None, stats |-> 0, expires |-> Forever]
    OBVIOUS
  <1>2. /\ used.request < MaxRequests /\ used' = [used EXCEPT !.request = @ + 1]
        /\ queries' = queries \cup {row}
        /\ links' = links \cup {[row |-> row, expires |-> clock + SignedTtl]}
        /\ UNCHANGED <<clock, profile, catalog, job, completed, request>>
    BY <1>1 DEF field_index
  <1>3. Forever \in Nat /\ Forever \in 0..Forever
        /\ (LinksEndFirst => clock + SignedTtl < Forever)
        /\ clock + SignedTtl \in 0..(LastTick + SignedTtl)
    <2>1. clock \in Nat /\ clock <= LastTick
      BY ClockType DEF IInv
    <2> QED  BY <2>1, Constants DEF Forever, LinksEndFirst
  <1>4. row \in Rows /\ row.kind = "index" /\ row.expires = Forever
    BY <1>1, <1>3 DEF Rows
  <1>5. \A r, expires : Opens(r, expires) => Opens(r, expires)'
    BY <1>2, RowsGrow
  <1>6. Opens(row, clock + SignedTtl)'
    BY <1>2, <1>3, <1>4 DEF Opens, Rows, Forever
  <1>7. CachesOK'
    BY <1>2, <1>4 DEF IInv, CachesOK, catalog, Rows
  <1>8. LinksOK'
    <2> SUFFICES ASSUME NEW l \in links'
                 PROVE  Opens(l.row, l.expires)'
      BY DEF LinksOK
    <2>1. CASE l \in links
      BY <1>5, <2>1 DEF IInv, LinksOK
    <2>2. CASE l = [row |-> row, expires |-> clock + SignedTtl]
      <3>1. l.row = row /\ l.expires = clock + SignedTtl
        BY <2>2
      <3> QED  BY <1>2, <1>6, <3>1
    <2> QED  BY <1>2, <2>1, <2>2
  <1>9. RequestOK'
    BY <1>2, <1>5 DEF IInv, RequestOK, catalog
  <1>10. Calm'
    BY <1>2 DEF IInv, Calm, catalog
  <1>11. used' \in [fault : 0..MaxFaults, job : 0..MaxJobs, request : 0..MaxRequests]
    BY <1>2, UsedOfRequest
  <1> QED  BY <1>2, <1>7, <1>8, <1>9, <1>10, <1>11, RequestStepInv

LEMMA ReadType ==
    ASSUME IInv, NEW p \in Products, scene[p] # None
    PROVE  Read(p) \in Reads /\ Read(p).scene = p /\ Read(p).version = scene[p].version
  <1>1. scene[p] \in SceneRow
    BY DEF IInv, TablesOK
  <1>2. scene[p].version \in Profiles
    BY <1>1 DEF SceneRow
  <1> QED  BY <1>2 DEF Read, Reads

\* Nothing of a request is left once it was answered.
LEMMA NoRequestOK ==
    ASSUME IInv, UNCHANGED <<clock, catalog>>, request' = NoRequest
    PROVE  RequestOK' /\ Calm'
  <1>1. IsFiniteSet({}) /\ Cardinality({}) = 0
    BY FS_EmptySet
  <1>2. request' \in Requests
    BY Constants DEF NoRequest, Requests
  <1>3. /\ request'.pc = "none" /\ ~request'.calm /\ request'.link = 0
        /\ request'.queue = {} /\ request'.options = {} /\ request'.history = {}
    BY DEF NoRequest
  <1>4. 0 <= clock' + SignedTtl
    BY ClockType DEF IInv
  <1>5. RequestOK'
    BY <1>1, <1>2, <1>3, <1>4, Constants DEF RequestOK
  <1>6. Calm'
    BY <1>3 DEF Calm
  <1> QED  BY <1>5, <1>6

LEMMA FieldSarStep ==
    ASSUME IInv, NEW day \in TargetDays, field_sar(day)
    PROVE  IInv'
  <1>1. PICK near \in SUBSET Products : near = {p \in Products : scene[p] # None /\ Distance(p, day) <= SupportDays}
    OBVIOUS
  <1>2. PICK calm \in BOOLEAN : calm = \A p \in Products : scene[p] # None => scene[p].version = object[p]
    OBVIOUS
  <1>3. PICK nearest \in SUBSET near :
            /\ request' = [NoRequest EXCEPT !.pc = "examine", !.day = day, !.calm = calm,
                                            !.queue = {Read(p) : p \in nearest}]
            /\ used.request < MaxRequests /\ used' = [used EXCEPT !.request = @ + 1]
            /\ queries' = queries \ delete_expired
            /\ UNCHANGED <<clock, profile, catalog, job, completed, links>>
    <2> DEFINE Nearer(q, p) == \/ Distance(q, day) < Distance(p, day)
                               \/ Distance(q, day) = Distance(p, day) /\ Day[q] > Day[p]
               nearest == {q \in near : Cardinality({o \in near : Nearer(o, q)}) < MaxCandidates}
    <2>1. nearest \in SUBSET near
      OBVIOUS
    <2>2. /\ request' = [NoRequest EXCEPT !.pc = "examine", !.day = day, !.calm = calm,
                                            !.queue = {Read(p) : p \in nearest}]
          /\ used.request < MaxRequests /\ used' = [used EXCEPT !.request = @ + 1]
          /\ queries' = queries \ delete_expired
          /\ UNCHANGED <<clock, profile, catalog, job, completed, links>>
      BY <1>1, <1>2 DEF field_sar, RequestStep
    <2> QED  BY <2>1, <2>2
  <1>4. PICK queue : queue = {Read(p) : p \in nearest}
    OBVIOUS
  <1>5. \A p \in nearest : p \in Products /\ scene[p] # None
    BY <1>1
  <1>6. /\ queue \subseteq Reads
        /\ \A c \in queue : c.scene \in Products /\ scene[c.scene] # None /\ c.version = scene[c.scene].version
    BY <1>4, <1>5, ReadType
  <1>7. request' = [pc |-> "examine", day |-> day, queue |-> queue, options |-> {}, failures |-> 0,
                    chosen |-> None, history |-> {}, link |-> 0, calm |-> calm, answer |-> None]
    BY <1>3, <1>4 DEF NoRequest
  <1>8. request' \in Requests
    BY <1>6, <1>7, BoundsAssumption, Constants DEF Requests
  <1>8a. /\ request'.pc = "examine" /\ request'.queue = queue /\ request'.options = {}
         /\ request'.history = {} /\ request'.link = 0 /\ request'.calm = calm
    BY <1>7
  <1>9. IsFiniteSet({}) /\ Cardinality({}) = 0 /\ 0 <= clock + SignedTtl
    BY FS_EmptySet, ClockType DEF IInv
  <1>10. RequestOK'
    <2>1. clock' = clock
      BY <1>3
    <2>2. IsFiniteSet(request'.options) /\ IsFiniteSet(request'.history) /\ Cardinality(request'.history) <= MaxHistory
      BY <1>8a, <1>9, Constants
    <2>3. request'.link <= clock' + SignedTtl /\ \A o \in request'.options : asset'[o.scene] # 0
      BY <1>8a, <1>9, <2>1
    <2> QED  BY <1>8, <1>8a, <2>2, <2>3 DEF RequestOK
  <1>11. Calm'
    <2> SUFFICES ASSUME calm
                 PROVE  Calm'
      BY <1>7 DEF Calm
    <2>1. \A p \in Products : scene[p] # None => scene[p].version = object[p]
      BY <1>2
    <2>2. \A c \in queue : c.version = object[c.scene]
      BY <1>6, <2>1
    <2> QED  BY <1>3, <1>8a, <2>1, <2>2 DEF Calm, catalog
  <1>12. \A row \in queries : row.expires > clock => row \in queries'
    BY <1>3 DEF delete_expired, Unexpired
  <1>13. CachesOK'
    BY <1>3 DEF IInv, CachesOK, catalog, Rows
  <1>14. LinksOK'
    BY <1>3, <1>12, RowsGrow DEF IInv, LinksOK
  <1>15. used' \in [fault : 0..MaxFaults, job : 0..MaxJobs, request : 0..MaxRequests]
    BY <1>3, UsedOfRequest
  <1> QED  BY <1>3, <1>10, <1>11, <1>13, <1>14, <1>15, RequestStepInv

\* The fields of the request, one phase on.
Asked(pc, queue, options, failures, chosen, history, link) ==
    [pc |-> pc, day |-> request.day, queue |-> queue, options |-> options, failures |-> failures,
     chosen |-> chosen, history |-> history, link |-> link, calm |-> request.calm,
     answer |-> request.answer]

LEMMA RequestFields ==
    ASSUME IInv
    PROVE  /\ request \in Requests /\ request.day \in Nat /\ request.queue \subseteq Reads
           /\ request.options \subseteq Options /\ request.failures \in Nat
           /\ request.chosen \in Options \cup {None} /\ request.history \subseteq Observations
           /\ request.link \in 0..(LastTick + SignedTtl) /\ request.calm \in BOOLEAN
           /\ IsFiniteSet(request.options) /\ IsFiniteSet(request.history)
           /\ Cardinality(request.history) <= MaxHistory /\ request.link <= clock + SignedTtl
           /\ \A o \in request.options : asset[o.scene] # 0
  BY DEF IInv, RequestOK, Requests

\* A request that goes on reading.
LEMMA AskedOn ==
    ASSUME IInv, NEW pc \in {"examine", "history"},
           NEW queue, queue \subseteq Reads, NEW options, options \subseteq Options, IsFiniteSet(options),
           NEW failures \in Nat, NEW chosen \in Options \cup {None},
           NEW history, history \subseteq Observations, IsFiniteSet(history),
           Cardinality(history) <= MaxHistory,
           NEW link \in 0..(LastTick + SignedTtl), link <= clock + SignedTtl,
           \A o \in options : asset[o.scene] # 0,
           pc = "history" => chosen \in Options /\ asset[chosen.scene] # 0,
           request.calm =>
              /\ \A c \in queue : c.version = object[c.scene]
              /\ \A o \in options : o.version = object[o.scene] /\ o.stats = object[o.scene]
              /\ pc = "history" => chosen.version = chosen.stats
              /\ \A o \in history :
                    /\ o.version = object[o.scene]
                    /\ o.stats = object[o.scene] \/ o.at - replaced[o.scene] < QueryTtl,
           UNCHANGED <<clock, catalog>>,
           request' = Asked(pc, queue, options, failures, chosen, history, link)
    PROVE  RequestOK' /\ Calm'
  <1>1. request' \in Requests
    BY RequestFields DEF Asked, Requests, IInv, RequestOK
  <1>2. /\ request'.pc = pc /\ request'.queue = queue /\ request'.options = options
        /\ request'.chosen = chosen /\ request'.history = history /\ request'.link = link
        /\ request'.calm = request.calm
    BY DEF Asked
  <1>3. RequestOK'
    BY <1>1, <1>2 DEF RequestOK, catalog
  <1>4. Calm'
    <2> SUFFICES ASSUME request.calm
                 PROVE  Calm'
      BY <1>2 DEF Calm
    <2>1. \A p \in Products : scene[p] # None => scene[p].version = object[p]
      BY DEF IInv, Calm
    <2> QED  BY <1>2, <2>1 DEF Calm, catalog
  <1> QED  BY <1>3, <1>4

LEMMA RowsKept ==
    ASSUME IInv, UNCHANGED <<clock, catalog, queries, links>>
    PROVE  CachesOK' /\ LinksOK'
  <1>1. \A row, expires : Opens(row, expires) => Opens(row, expires)'
    BY RowsGrow
  <1>2. CachesOK'
    BY DEF IInv, CachesOK, catalog, Rows
  <1> QED  BY <1>1, <1>2 DEF IInv, LinksOK

LEMMA ObjectOfAsset ==
    ASSUME IInv, NEW p \in Products, asset[p] # 0
    PROVE  object[p] \in Profiles /\ object[p] # 0
  BY Constants DEF IInv, TablesOK

\* One candidate was read, with what it gave.
LEMMA Examined ==
    ASSUME IInv, NEW c \in request.queue, NEW options, NEW failures \in {0, 1},
           request.pc = "examine",
           options \in {{}, {Option(c, object[c.scene])}}, options # {} => asset[c.scene] # 0,
           RequestStep([request EXCEPT !.queue = @ \ {c}, !.options = @ \cup options,
                                       !.failures = @ + failures]),
           UNCHANGED <<queries, links>>, used' = used \/ Fault
    PROVE  IInv'
  <1>2. c \in Reads /\ c.scene \in Products /\ c.version \in Profiles
    BY RequestFields DEF Reads
  <1>3. PICK new : new = [request EXCEPT !.queue = @ \ {c}, !.options = @ \cup options,
                                         !.failures = @ + failures]
    OBVIOUS
  <1>4. new = Asked("examine", request.queue \ {c}, request.options \cup options,
                    request.failures + failures, request.chosen, request.history, request.link)
    BY <1>3, RequestFields DEF Asked, Requests
  <1>5. /\ request' = new /\ UNCHANGED <<clock, profile, catalog, job, completed>>
    BY <1>3 DEF RequestStep
  <1>6. ASSUME NEW o \in options
        PROVE  /\ o \in Options /\ o.scene = c.scene /\ o.version = c.version /\ o.stats = object[c.scene]
               /\ asset[o.scene] # 0
    <2>1. o = Option(c, object[c.scene]) /\ asset[c.scene] # 0
      BY <1>6
    <2>2. object[c.scene] \in Profiles
      BY <1>2, <2>1, ObjectOfAsset
    <2> QED  BY <1>2, <2>1, <2>2 DEF Option, Options
  <1>7. IsFiniteSet(request.options \cup options)
    <2>1. CASE options = {}
      BY <2>1, RequestFields
    <2>2. CASE options # {}
      BY <2>2, RequestFields, FS_AddElement
    <2> QED  BY <2>1, <2>2
  <1>8. /\ request.options \cup options \subseteq Options
        /\ \A o \in request.options \cup options : asset[o.scene] # 0
    BY <1>6, RequestFields
  <1>9. request.calm =>
           /\ \A d \in request.queue \ {c} : d.version = object[d.scene]
           /\ \A o \in request.options \cup options : o.version = object[o.scene] /\ o.stats = object[o.scene]
           /\ \A o \in request.history :
                 /\ o.version = object[o.scene]
                 /\ o.stats = object[o.scene] \/ o.at - replaced[o.scene] < QueryTtl
    BY <1>6 DEF IInv, Calm
  <1>10. request.failures + failures \in Nat
    BY RequestFields
  <1>11. request.queue \ {c} \subseteq Reads
    BY RequestFields
  <1>12. RequestOK' /\ Calm'
    BY <1>4, <1>5, <1>7, <1>8, <1>9, <1>10, <1>11, RequestFields, AskedOn, ZenonT(60)
  <1>13. CachesOK' /\ LinksOK'
    BY <1>5, RowsKept
  <1> QED  BY <1>5, <1>12, <1>13, UsedKept, RequestStepInv

LEMMA ExamineStep ==
    ASSUME IInv, ExamineScene
    PROVE  IInv'
  <1>1. PICK c \in request.queue :
           \/ /\ RequestStep([request EXCEPT !.queue = @ \ {c},
                     !.options = @ \cup (IF asset[c.scene] # 0 /\ Coverage[c.scene] >= MinCoverage
                                        THEN {Option(c, object[c.scene])} ELSE {}),
                     !.failures = @ + 0])
              /\ UNCHANGED <<queries, links, used>>
           \/ /\ asset[c.scene] # 0 /\ Fault
              /\ RequestStep([request EXCEPT !.queue = @ \ {c}, !.options = @ \cup {}, !.failures = @ + 1])
              /\ UNCHANGED <<queries, links>>
    BY DEF ExamineScene, sar_field_stats
  <1>2. request.pc = "examine"
    BY DEF ExamineScene
  <1>3. CASE /\ RequestStep([request EXCEPT !.queue = @ \ {c},
                     !.options = @ \cup (IF asset[c.scene] # 0 /\ Coverage[c.scene] >= MinCoverage
                                        THEN {Option(c, object[c.scene])} ELSE {}),
                     !.failures = @ + 0])
             /\ UNCHANGED <<queries, links, used>>
    <2>1. PICK options : options = IF asset[c.scene] # 0 /\ Coverage[c.scene] >= MinCoverage
                                   THEN {Option(c, object[c.scene])} ELSE {}
      OBVIOUS
    <2>2. options \in {{}, {Option(c, object[c.scene])}} /\ (options # {} => asset[c.scene] # 0)
      BY <2>1
    <2>3. RequestStep([request EXCEPT !.queue = @ \ {c}, !.options = @ \cup options, !.failures = @ + 0])
      BY <1>3, <2>1
    <2> QED  BY <1>2, <1>3, <2>2, <2>3, Examined
  <1>4. CASE /\ asset[c.scene] # 0 /\ Fault
             /\ RequestStep([request EXCEPT !.queue = @ \ {c}, !.options = @ \cup {}, !.failures = @ + 1])
             /\ UNCHANGED <<queries, links>>
    BY <1>2, <1>4, Examined
  <1> QED  BY <1>1, <1>3, <1>4

LEMMA UnavailableStep ==
    ASSUME IInv, _sar_unavailable
    PROVE  IInv'
  <1>1. request' = NoRequest /\ UNCHANGED <<clock, profile, catalog, job, completed, queries, links, used>>
    BY DEF _sar_unavailable, RequestStep
  <1> QED  BY <1>1, NoRequestOK, RowsKept, UsedKept, RequestStepInv

LEMMA DistanceType ==
    ASSUME NEW p \in Products, NEW day \in Nat
    PROVE  Distance(p, day) \in Nat
  BY Constants DEF Distance

\* One of the scenes that could be used is the best.
LEMMA BestOption ==
    ASSUME IInv, request.options # {}
    PROVE  \E o \in request.options : \A q \in request.options :
               ~ \/ Distance(q.scene, request.day) < Distance(o.scene, request.day)
                 \/ /\ Distance(q.scene, request.day) = Distance(o.scene, request.day)
                    /\ Coverage[q.scene] > Coverage[o.scene]
  <1> DEFINE S == request.options
             far == [o \in S |-> Distance(o.scene, request.day)]
             cover == [o \in S |-> Coverage[o.scene]]
             R == {pair \in S \X S : \/ far[pair[1]] < far[pair[2]]
                                     \/ far[pair[1]] = far[pair[2]] /\ cover[pair[1]] > cover[pair[2]]}
  <1>1. \A o \in S : far[o] \in Nat /\ cover[o] \in Nat
    <2> TAKE o \in S
    <2>1. o.scene \in Products /\ request.day \in Nat
      BY RequestFields DEF Options
    <2> QED  BY <2>1, DistanceType, Constants
  <1>2. \A q, o \in S : <<q, o>> \in R <=> far[q] < far[o] \/ (far[q] = far[o] /\ cover[q] > cover[o])
    OBVIOUS
  <1>3. \A o \in S : far[o] = Distance(o.scene, request.day) /\ cover[o] = Coverage[o.scene]
    OBVIOUS
  <1>4. IsFiniteSet(S) /\ S # {}
    BY RequestFields
  <1> HIDE DEF far, cover, R, S
  <1>5. \A x \in S : <<x, x>> \notin R
    BY <1>1, <1>2
  <1>6. \A x, y, z \in S : <<x, y>> \in R /\ <<y, z>> \in R => <<x, z>> \in R
    BY <1>1, <1>2
  <1>7. PICK o \in S : \A q \in S : <<q, o>> \notin R
    BY <1>4, <1>5, <1>6, FirstOfFinite
  <1>8. \A q \in S : ~(far[q] < far[o] \/ (far[q] = far[o] /\ cover[q] > cover[o]))
    BY <1>2, <1>7
  <1>9. \A q \in S : ~ \/ Distance(q.scene, request.day) < Distance(o.scene, request.day)
                        \/ /\ Distance(q.scene, request.day) = Distance(o.scene, request.day)
                           /\ Coverage[q.scene] > Coverage[o.scene]
    BY <1>3, <1>8
  <1> QED  BY <1>9 DEF S

LEMMA SelectStep ==
    ASSUME IInv, SelectScene
    PROVE  IInv'
  <1> DEFINE Better(o, q) ==
                 \/ Distance(o.scene, request.day) < Distance(q.scene, request.day)
                 \/ /\ Distance(o.scene, request.day) = Distance(q.scene, request.day)
                    /\ Coverage[o.scene] > Coverage[q.scene]
             best == CHOOSE o \in request.options : \A q \in request.options : ~Better(q, o)
             earlier == {p \in Products : /\ scene[p] # None
                                          /\ Day[p] \in (Day[best.scene] - LookbackDays)..(Day[best.scene] - 1)}
             listed == {p \in earlier :
                           Cardinality({q \in earlier : Day[q] > Day[p]}) < Min({3 * MaxHistory, MaxCandidates})}
             queue == IF IncludeHistory THEN {Read(p) : p \in listed} ELSE {}
  <1>1. request.pc = "examine" /\ request.options # {}
    BY DEF SelectScene
  <1>2. best \in request.options
    BY <1>1, BestOption
  <1>3. \A p \in listed : p \in Products /\ scene[p] # None
    OBVIOUS
  <1>4. /\ queue \subseteq Reads
        /\ \A c \in queue : c.scene \in Products /\ scene[c.scene] # None /\ c.version = scene[c.scene].version
    <2>1. \A p \in listed : /\ Read(p) \in Reads /\ Read(p).scene \in Products /\ scene[Read(p).scene] # None
                            /\ Read(p).version = scene[Read(p).scene].version
      <3> TAKE p \in listed
      <3>1. p \in Products /\ scene[p] # None
        BY <1>3
      <3> QED  BY <3>1, ReadType
    <2> HIDE DEF listed
    <2> QED  BY <2>1
  <1>5. /\ RequestStep([request EXCEPT !.pc = "history", !.chosen = best,
                                       !.link = clock + SignedTtl, !.options = {}, !.queue = queue])
        /\ UNCHANGED <<queries, links, used>>
    BY DEF SelectScene
  <1> HIDE DEF best, queue
  <1>6. PICK new : new = [request EXCEPT !.pc = "history", !.chosen = best,
                                         !.link = clock + SignedTtl, !.options = {}, !.queue = queue]
    OBVIOUS
  <1>7. new = Asked("history", queue, {}, request.failures, best, request.history, clock + SignedTtl)
    BY <1>6, RequestFields DEF Asked, Requests
  <1>8. request' = new /\ UNCHANGED <<clock, profile, catalog, job, completed>>
    BY <1>5, <1>6 DEF RequestStep
  <1>9. best \in Options /\ asset[best.scene] # 0
    BY <1>2, RequestFields
  <1>10. clock + SignedTtl \in 0..(LastTick + SignedTtl) /\ clock + SignedTtl <= clock + SignedTtl
    BY ClockType, Constants DEF IInv
  <1>11. request.calm =>
            /\ \A c \in queue : c.version = object[c.scene]
            /\ best.version = best.stats
            /\ \A o \in request.history :
                  /\ o.version = object[o.scene]
                  /\ o.stats = object[o.scene] \/ o.at - replaced[o.scene] < QueryTtl
    BY <1>2, <1>4 DEF IInv, Calm
  <1>12. IsFiniteSet({}) /\ {} \subseteq Options
    BY FS_EmptySet
  <1>13. RequestOK' /\ Calm'
    BY <1>4, <1>7, <1>8, <1>9, <1>10, <1>11, <1>12, RequestFields, AskedOn
  <1> QED  BY <1>5, <1>8, <1>13, RowsKept, UsedKept, RequestStepInv

\* An earlier scene was looked at, with what it gave.
LEMMA Observed ==
    ASSUME IInv, NEW c \in request.queue, NEW seen,
           request.pc = "history", Cardinality(request.history) < MaxHistory,
           \/ seen = {}
           \/ \E stats \in Profiles :
                 /\ seen = {Observation(c, stats)}
                 /\ stats = object[c.scene] \/ clock - replaced[c.scene] < QueryTtl,
           RequestStep([request EXCEPT !.queue = @ \ {c}, !.history = @ \cup seen]),
           used' = used \/ Fault, CachesOK', LinksOK'
    PROVE  IInv'
  <1>1. c \in Reads /\ c.scene \in Products /\ c.version \in Profiles
    BY RequestFields DEF Reads
  <1>2. PICK new : new = [request EXCEPT !.queue = @ \ {c}, !.history = @ \cup seen]
    OBVIOUS
  <1>3. new = Asked("history", request.queue \ {c}, request.options, request.failures, request.chosen,
                    request.history \cup seen, request.link)
    BY <1>2, RequestFields DEF Asked, Requests
  <1>4. request' = new /\ UNCHANGED <<clock, profile, catalog, job, completed>>
    BY <1>2 DEF RequestStep
  <1>5. ASSUME NEW o \in seen
        PROVE  /\ o \in Observations /\ o.scene = c.scene /\ o.version = c.version
               /\ o.stats = object[o.scene] \/ o.at - replaced[o.scene] < QueryTtl
    <2>1. PICK stats \in Profiles :
             /\ o = Observation(c, stats)
             /\ stats = object[c.scene] \/ clock - replaced[c.scene] < QueryTtl
      BY <1>5
    <2>2. o = [scene |-> c.scene, version |-> c.version, stats |-> stats, at |-> clock]
      BY <2>1 DEF Observation
    <2>3. clock \in 0..LastTick
      BY DEF IInv, TablesOK
    <2> QED  BY <1>1, <2>1, <2>2, <2>3 DEF Observations
  <1>6. IsFiniteSet(request.history \cup seen) /\ Cardinality(request.history \cup seen) <= MaxHistory
    <2>1. CASE seen = {}
      BY <2>1, RequestFields
    <2>2. CASE seen # {}
      <3>1. PICK o : seen = {o}
        BY <2>2
      <3>2. IsFiniteSet(request.history) /\ Cardinality(request.history) \in Nat
        BY RequestFields, FS_CardinalityType
      <3>3. /\ IsFiniteSet(request.history \cup {o})
            /\ Cardinality(request.history \cup {o}) <= Cardinality(request.history) + 1
        <4>1. /\ IsFiniteSet(request.history \cup {o})
              /\ Cardinality(request.history \cup {o}) =
                    IF o \in request.history THEN Cardinality(request.history)
                    ELSE Cardinality(request.history) + 1
          BY <3>2, FS_AddElement
        <4> QED  BY <3>2, <4>1
      <3>4. Cardinality(request.history) + 1 <= MaxHistory
        BY <3>2, Constants
      <3>5. Cardinality(request.history \cup {o}) \in Nat
        BY <3>3, FS_CardinalityType
      <3> QED  BY <3>1, <3>2, <3>3, <3>4, <3>5, Constants
    <2> QED  BY <2>1, <2>2
  <1>7. request.queue \ {c} \subseteq Reads /\ request.history \cup seen \subseteq Observations
    BY <1>5, RequestFields
  <1>8. request.calm =>
           /\ \A d \in request.queue \ {c} : d.version = object[d.scene]
           /\ \A o \in request.options : o.version = object[o.scene] /\ o.stats = object[o.scene]
           /\ request.chosen.version = request.chosen.stats
           /\ \A o \in request.history \cup seen :
                 /\ o.version = object[o.scene]
                 /\ o.stats = object[o.scene] \/ o.at - replaced[o.scene] < QueryTtl
    BY <1>5 DEF IInv, Calm
  <1>9. request.chosen \in Options /\ asset[request.chosen.scene] # 0
    BY DEF IInv, RequestOK
  <1>10. request' = Asked("history", request.queue \ {c}, request.options, request.failures, request.chosen,
                          request.history \cup seen, request.link)
    BY <1>3, <1>4
  <1>11. /\ request.options \subseteq Options /\ IsFiniteSet(request.options) /\ request.failures \in Nat
         /\ request.link \in 0..(LastTick + SignedTtl) /\ request.link <= clock + SignedTtl
         /\ \A o \in request.options : asset[o.scene] # 0
    BY RequestFields
  <1>12. RequestOK' /\ Calm'
    <2>1. PICK queue, history : queue = request.queue \ {c} /\ history = request.history \cup seen
      OBVIOUS
    <2>2. /\ queue \subseteq Reads /\ history \subseteq Observations
          /\ IsFiniteSet(history) /\ Cardinality(history) <= MaxHistory
      BY <1>6, <1>7, <2>1
    <2>3. request.calm =>
             /\ \A d \in queue : d.version = object[d.scene]
             /\ \A o \in request.options : o.version = object[o.scene] /\ o.stats = object[o.scene]
             /\ request.chosen.version = request.chosen.stats
             /\ \A o \in history :
                   /\ o.version = object[o.scene]
                   /\ o.stats = object[o.scene] \/ o.at - replaced[o.scene] < QueryTtl
      BY <1>8, <2>1
    <2>4. request' = Asked("history", queue, request.options, request.failures, request.chosen, history,
                           request.link)
      BY <1>10, <2>1
    <2>5. UNCHANGED <<clock, catalog>>
      BY <1>4
    <2> QED  BY <1>9, <1>11, <2>2, <2>3, <2>4, <2>5, AskedOn
  <1> QED  BY <1>4, <1>12, UsedKept, RequestStepInv

LEMMA ObserveStep ==
    ASSUME IInv, ObserveEarlier
    PROVE  IInv'
  <1>1. PICK c \in request.queue :
           \/ /\ RequestStep([request EXCEPT !.queue = request.queue \ {c}])
              /\ UNCHANGED queries /\ (used' = used \/ Fault)
           \/ /\ \E q \in find_cached(c.scene) :
                    RequestStep([request EXCEPT !.queue = request.queue \ {c},
                        !.history = IF Coverage[c.scene] >= MinCoverage
                                    THEN @ \cup {Observation(c, q.stats)} ELSE @])
              /\ UNCHANGED <<queries, used>>
           \/ /\ asset[c.scene] # 0
              /\ RequestStep([request EXCEPT !.queue = request.queue \ {c},
                        !.history = IF Coverage[c.scene] >= MinCoverage
                                    THEN @ \cup {Observation(c, object[c.scene])} ELSE @])
              /\ queries' = queries \cup
                      {[kind |-> "history", scene |-> c.scene, stats |-> object[c.scene],
                        expires |-> clock + QueryTtl]}
              /\ UNCHANGED used
    BY DEF ObserveEarlier, sar_field_stats
  <1>2. /\ request.pc = "history" /\ Cardinality(request.history) < MaxHistory /\ UNCHANGED links
    BY DEF ObserveEarlier
  <1>3. c.scene \in Products
    BY RequestFields DEF Reads
  <1>4. ASSUME NEW stats, RequestStep([request EXCEPT !.queue = request.queue \ {c},
                        !.history = IF Coverage[c.scene] >= MinCoverage
                                    THEN @ \cup {Observation(c, stats)} ELSE @])
        PROVE  \E seen \in {{}, {Observation(c, stats)}} :
                  RequestStep([request EXCEPT !.queue = @ \ {c}, !.history = @ \cup seen])
    <2>1. PICK seen \in {{}, {Observation(c, stats)}} :
             seen = IF Coverage[c.scene] >= MinCoverage THEN {Observation(c, stats)} ELSE {}
      OBVIOUS
    <2>2. request.history \cup seen = IF Coverage[c.scene] >= MinCoverage
                                      THEN request.history \cup {Observation(c, stats)} ELSE request.history
      BY <2>1
    <2> QED  BY <1>4, <2>2
  <1>5. CASE /\ RequestStep([request EXCEPT !.queue = request.queue \ {c}])
             /\ UNCHANGED queries /\ (used' = used \/ Fault)
    <2>1. UNCHANGED <<clock, catalog, queries, links>>
      BY <1>2, <1>5 DEF RequestStep
    <2>2. request.history \cup {} = request.history
      OBVIOUS
    <2>3. [request EXCEPT !.queue = request.queue \ {c}] = [request EXCEPT !.queue = @ \ {c}, !.history = @ \cup {}]
      BY <2>2, RequestFields DEF Requests
    <2>4. RequestStep([request EXCEPT !.queue = @ \ {c}, !.history = @ \cup {}])
      BY <1>5, <2>3
    <2> QED  BY <1>2, <1>5, <2>1, <2>4, RowsKept, Observed
  <1>6. CASE /\ \E q \in find_cached(c.scene) :
                    RequestStep([request EXCEPT !.queue = request.queue \ {c},
                        !.history = IF Coverage[c.scene] >= MinCoverage
                                    THEN @ \cup {Observation(c, q.stats)} ELSE @])
             /\ UNCHANGED <<queries, used>>
    <2>1. PICK q \in find_cached(c.scene) :
              RequestStep([request EXCEPT !.queue = request.queue \ {c},
                        !.history = IF Coverage[c.scene] >= MinCoverage
                                    THEN @ \cup {Observation(c, q.stats)} ELSE @])
      BY <1>6
    <2>2. PICK seen \in {{}, {Observation(c, q.stats)}} :
              RequestStep([request EXCEPT !.queue = @ \ {c}, !.history = @ \cup seen])
      BY <1>4, <2>1
    <2>3. q \in queries /\ q.expires > clock /\ q.kind = "history" /\ q.scene = c.scene
      BY DEF find_cached, Unexpired
    <2>4. /\ q.stats \in Profiles /\ q.expires \in Nat
          /\ q.stats = object[c.scene] \/ q.expires - QueryTtl <= replaced[c.scene]
      BY <2>3, Constants DEF IInv, CachesOK, Rows, Forever
    <2>5. q.stats = object[c.scene] \/ clock - replaced[c.scene] < QueryTtl
      <3>1. clock \in Nat /\ replaced[c.scene] \in Nat
        BY <1>3, ClockType, Constants DEF IInv, TablesOK
      <3> QED  BY <2>3, <2>4, <3>1, Constants
    <2>6. UNCHANGED <<clock, catalog, queries, links>>
      BY <1>2, <1>6, <2>1 DEF RequestStep
    <2> QED  BY <1>2, <1>6, <2>2, <2>4, <2>5, <2>6, RowsKept, Observed
  <1>7. CASE /\ asset[c.scene] # 0
             /\ RequestStep([request EXCEPT !.queue = request.queue \ {c},
                        !.history = IF Coverage[c.scene] >= MinCoverage
                                    THEN @ \cup {Observation(c, object[c.scene])} ELSE @])
             /\ queries' = queries \cup
                      {[kind |-> "history", scene |-> c.scene, stats |-> object[c.scene],
                        expires |-> clock + QueryTtl]}
             /\ UNCHANGED used
    <2>1. PICK seen \in {{}, {Observation(c, object[c.scene])}} :
              RequestStep([request EXCEPT !.queue = @ \ {c}, !.history = @ \cup seen])
      BY <1>4, <1>7
    <2>2. object[c.scene] \in Profiles /\ object[c.scene] # 0
      BY <1>3, <1>7, ObjectOfAsset
    <2>3. PICK row : row = [kind |-> "history", scene |-> c.scene, stats |-> object[c.scene],
                            expires |-> clock + QueryTtl]
      OBVIOUS
    <2>4. clock + QueryTtl \in 0..Forever /\ clock + QueryTtl <= clock + QueryTtl
      BY ClockType, Constants DEF IInv, Forever
    <2>5. row \in Rows /\ row.kind = "history" /\ row.scene = c.scene /\ row.stats = object[c.scene]
          /\ row.expires = clock + QueryTtl
      BY <1>3, <2>2, <2>3, <2>4 DEF Rows
    <2>6. queries' = queries \cup {row} /\ UNCHANGED <<clock, catalog, links>>
      BY <1>2, <1>7, <2>3 DEF RequestStep
    <2>7. CachesOK'
      BY <1>3, <2>2, <2>4, <2>5, <2>6 DEF IInv, CachesOK, catalog, Rows
    <2>8. LinksOK'
      BY <2>6, RowsGrow DEF IInv, LinksOK
    <2> QED  BY <1>2, <1>7, <2>1, <2>2, <2>7, <2>8, Observed
  <1> QED  BY <1>1, <1>5, <1>6, <1>7

\* The latest of the observations that may be compared.
LEMMA LatestOf ==
    ASSUME NEW S, S \subseteq Observations, IsFiniteSet(S), S # {}
    PROVE  \E o \in S : \A q \in S : Day[q.scene] <= Day[o.scene]
  <1> DEFINE on == [o \in S |-> Day[o.scene]]
             R == {pair \in S \X S : on[pair[1]] > on[pair[2]]}
  <1>1. \A o \in S : on[o] \in Nat
    BY Constants DEF Observations
  <1>2. \A q, o \in S : <<q, o>> \in R <=> on[q] > on[o]
    OBVIOUS
  <1>3. \A o \in S : on[o] = Day[o.scene]
    OBVIOUS
  <1> HIDE DEF on, R
  <1>4. /\ \A x \in S : <<x, x>> \notin R
        /\ \A x, y, z \in S : <<x, y>> \in R /\ <<y, z>> \in R => <<x, z>> \in R
    BY <1>1, <1>2
  <1>5. PICK o \in S : \A q \in S : <<q, o>> \notin R
    BY <1>4, FirstOfFinite
  <1>6. \A q \in S : ~(on[q] > on[o])
    BY <1>2, <1>5
  <1>7. \A q \in S : on[q] <= on[o]
    BY <1>1, <1>6
  <1> QED  BY <1>3, <1>7

\* Without a reason against it, two were read with rows of one profile.
LEMMA ComparedProfiles ==
    ASSUME NEW current, NEW candidate,
           comparison_reason_codes(comparison_metadata(current), comparison_metadata(candidate)) = {}
    PROVE  current.version = candidate.version
  <1> DEFINE a == comparison_metadata(current)
             b == comparison_metadata(candidate)
  <1>1. a.profile = current.version /\ b.profile = candidate.version
    BY DEF comparison_metadata
  <1> HIDE DEF a, b
  <1>2. comparison_reason_codes(a, b) = {}
    BY DEF a, b
  <1>3. a.complete /\ b.complete
    BY <1>2 DEF comparison_reason_codes
  <1>4. {reason \in {"PROCESSING_PROFILE_MISMATCH", "MISMATCH"} :
             \/ reason = "PROCESSING_PROFILE_MISMATCH" /\ a.profile # b.profile
             \/ reason = "MISMATCH" /\ a.kind # b.kind} = {}
    BY <1>2, <1>3 DEF comparison_reason_codes
  <1>5. a.profile = b.profile
    BY <1>4
  <1> QED  BY <1>1, <1>5

\* What an answer says of the past.
LEMMA AnalysisType ==
    ASSUME NEW current \in Options, NEW prior, prior \subseteq Observations, IsFiniteSet(prior),
           NEW a \in build_sar_temporal_analysis(current, prior)
    PROVE  /\ a.status \in Statuses
           /\ \/ a.change = None
              \/ \E o \in prior : /\ o.version = current.version
                                  /\ a.change = [scene |-> o.scene, from |-> o.stats, to |-> current.stats,
                                                 at |-> o.at]
  <1> DEFINE metadata == comparison_metadata(current)
             comparable == {o \in prior : comparison_reason_codes(metadata, comparison_metadata(o)) = {}}
             latest == CHOOSE o \in comparable : \A q \in comparable : Day[q.scene] <= Day[o.scene]
  <1>1. a \in IF comparable = {}
              THEN {[status |-> IF metadata.complete THEN "NO_COMPARABLE_HISTORY" ELSE "METADATA_INCOMPLETE",
                     change |-> None]}
              ELSE {[status |-> s, change |-> _change(current, latest)] : s \in _baseline(comparable)}
    BY DEF build_sar_temporal_analysis
  <1>2. comparable \in SUBSET prior
    OBVIOUS
  <1>3. \A o \in comparable : o.version = current.version
    BY ComparedProfiles
  <1>4. comparable # {} => latest \in comparable
    <2> SUFFICES ASSUME comparable # {}
                 PROVE  latest \in comparable
      OBVIOUS
    <2>1. IsFiniteSet(comparable) /\ comparable \subseteq Observations
      BY <1>2, FS_Subset
    <2> HIDE DEF comparable
    <2>2. \E o \in comparable : \A q \in comparable : Day[q.scene] <= Day[o.scene]
      BY <2>1, LatestOf
    <2> QED  BY <2>2
  <1>5. _baseline(comparable) \subseteq Statuses
    BY DEF _baseline, Statuses
  <1> HIDE DEF metadata, comparable, latest
  <1>6. CASE comparable = {}
    <2>1. PICK status \in {"NO_COMPARABLE_HISTORY", "METADATA_INCOMPLETE"} :
             a = [status |-> status, change |-> None]
      BY <1>1, <1>6
    <2> QED  BY <2>1 DEF Statuses
  <1>7. CASE comparable # {}
    <2>1. PICK status \in _baseline(comparable) : a = [status |-> status, change |-> _change(current, latest)]
      BY <1>1, <1>7
    <2>2. a.status \in Statuses /\ a.change = _change(current, latest)
      BY <1>5, <2>1
    <2>3. latest \in prior /\ latest.version = current.version
      BY <1>2, <1>3, <1>4, <1>7
    <2> QED  BY <2>2, <2>3 DEF _change
  <1> QED  BY <1>6, <1>7

LEMMA Lifetimes ==
    ASSUME NEW now \in 0..LastTick
    PROVE  /\ now + QueryTtl \in 0..Forever /\ now + QueryTtl \in Nat
           /\ LinksEndFirst => \A link \in 0..(LastTick + SignedTtl) :
                 link <= now + SignedTtl => link < now + QueryTtl
  <1>1. LastTick \in Nat /\ SignedTtl \in Nat /\ QueryTtl \in Nat
    BY Constants
  <1>2. now \in Nat /\ now <= LastTick /\ \A link \in 0..(LastTick + SignedTtl) : link \in Nat
    BY <1>1
  <1>3. now + QueryTtl \in Nat /\ Forever = LastTick + QueryTtl + 1 /\ Forever \in Nat
    BY <1>1, <1>2 DEF Forever
  <1>4. now + QueryTtl <= Forever
    BY <1>1, <1>2, <1>3
  <1> QED  BY <1>1, <1>2, <1>3, <1>4 DEF LinksEndFirst

LEMMA SaveStep ==
    ASSUME IInv, SaveAnswer
    PROVE  IInv'
  <1>1. PICK row : row = [kind |-> "sar", scene |-> request.chosen.scene, stats |-> request.chosen.stats,
                          expires |-> clock + QueryTtl]
    OBVIOUS
  <1>2. PICK a :
            /\ a \in IF IncludeHistory THEN build_sar_temporal_analysis(request.chosen, request.history)
                    ELSE {[status |-> "", change |-> None]}
            /\ request.pc = "history" /\ queries' = queries \cup {row}
            /\ RequestStep([NoRequest EXCEPT !.pc = "reply", !.link = request.link, !.calm = request.calm,
                              !.answer = [status |-> a.status, change |-> a.change, row |-> row]])
            /\ UNCHANGED <<links, used>>
    BY <1>1 DEF SaveAnswer
  <1>3. request.chosen \in Options /\ asset[request.chosen.scene] # 0
    BY <1>2 DEF IInv, RequestOK
  <1>4. request.chosen.scene \in Products /\ request.chosen.stats \in Profiles
    BY <1>3 DEF Options
  <1>5. clock + QueryTtl \in 0..Forever /\ clock + QueryTtl \in Nat
    <2>1. clock \in 0..LastTick
      BY DEF IInv, TablesOK
    <2> QED  BY <2>1, Lifetimes
  <1>6. row \in Rows /\ row.kind = "sar" /\ row.scene = request.chosen.scene
        /\ row.expires = clock + QueryTtl
    BY <1>1, <1>4, <1>5 DEF Rows
  <1>7. /\ a.status \in Statuses
        /\ \/ a.change = None
           \/ \E o \in request.history :
                 /\ o.version = request.chosen.version
                 /\ a.change = [scene |-> o.scene, from |-> o.stats, to |-> request.chosen.stats, at |-> o.at]
    <2>1. CASE IncludeHistory
      <3>1. a \in build_sar_temporal_analysis(request.chosen, request.history)
        BY <1>2, <2>1
      <3>2. request.history \subseteq Observations /\ IsFiniteSet(request.history)
        BY RequestFields
      <3>3. PICK current \in Options, prior \in SUBSET Observations :
               current = request.chosen /\ prior = request.history
        BY <1>3, <3>2
      <3>4. /\ a.status \in Statuses
            /\ \/ a.change = None
               \/ \E o \in prior : /\ o.version = current.version
                                   /\ a.change = [scene |-> o.scene, from |-> o.stats,
                                                  to |-> current.stats, at |-> o.at]
        BY <3>1, <3>2, <3>3, AnalysisType
      <3> QED  BY <3>3, <3>4
    <2>2. CASE ~IncludeHistory
      <3>1. a = [status |-> "", change |-> None]
        BY <1>2, <2>2
      <3>2. a.status = "" /\ a.change = None
        BY <3>1
      <3> QED  BY <3>2 DEF Statuses
    <2> QED  BY <2>1, <2>2
  <1>8. a.change \in Changes \cup {None}
    <2>1. CASE a.change # None
      <3>1. PICK o \in request.history :
               a.change = [scene |-> o.scene, from |-> o.stats, to |-> request.chosen.stats, at |-> o.at]
        BY <1>7, <2>1
      <3>2. o \in Observations
        BY RequestFields
      <3>3. o.scene \in Products /\ o.stats \in Profiles /\ o.at \in 0..LastTick
        BY <3>2 DEF Observations
      <3> QED  BY <1>4, <3>1, <3>3 DEF Changes
    <2> QED  BY <2>1
  <1>9. PICK answer : answer = [status |-> a.status, change |-> a.change, row |-> row]
    OBVIOUS
  <1>10. answer \in Answers /\ answer.row = row /\ answer.change = a.change
    BY <1>6, <1>7, <1>8, <1>9 DEF Answers
  <1>11. request' = [pc |-> "reply", day |-> 0, queue |-> {}, options |-> {}, failures |-> 0,
                     chosen |-> None, history |-> {}, link |-> request.link, calm |-> request.calm,
                     answer |-> answer]
    BY <1>2, <1>9 DEF RequestStep, NoRequest
  <1>12. /\ request'.pc = "reply" /\ request'.queue = {} /\ request'.options = {} /\ request'.history = {}
         /\ request'.link = request.link /\ request'.calm = request.calm /\ request'.answer = answer
    BY <1>11
  <1>13. UNCHANGED <<clock, profile, catalog, job, completed, links, used>>
    BY <1>2 DEF RequestStep
  <1>14. CachesOK' /\ LinksOK'
    BY <1>2, <1>6, <1>13, SavedRows
  <1>15. Opens(row, request.link)'
    <2>1. request.link \in 0..(LastTick + SignedTtl) /\ (LinksEndFirst => request.link < row.expires)
      <3>1. request.link \in 0..(LastTick + SignedTtl) /\ request.link <= clock + SignedTtl
        BY RequestFields
      <3>2. clock \in 0..LastTick
        BY DEF IInv, TablesOK
      <3>3. LinksEndFirst => request.link < clock + QueryTtl
        BY <3>1, <3>2, Lifetimes
      <3> QED  BY <1>6, <3>1, <3>3
    <2>2. object[row.scene] # 0 /\ asset[row.scene] # 0 /\ row.scene \in Products
      BY <1>3, <1>4, <1>6, ObjectOfAsset
    <2>3. row \in queries' /\ asset' = asset /\ object' = object
      BY <1>2, <1>13 DEF catalog
    <2>4. request'.link = request.link
      BY <1>12
    <2> QED  BY <1>6, <2>1, <2>2, <2>3, <2>4 DEF Opens, Rows, Forever
  <1>16. RequestOK'
    <2>1. request' \in Requests
      <3>1. request.link \in 0..(LastTick + SignedTtl) /\ request.calm \in BOOLEAN
        BY RequestFields
      <3> QED  BY <1>10, <1>11, <3>1 DEF Requests
    <2>2. IsFiniteSet({}) /\ Cardinality({}) <= MaxHistory
      BY FS_EmptySet, Constants
    <2>3. Opens(request.answer.row, request.link)'
      <3>1. request'.answer.row = row /\ request'.link = request.link
        BY <1>10, <1>12
      <3> QED  BY <1>15, <3>1 DEF Opens
    <2>4. request'.link <= clock' + SignedTtl
      BY <1>12, <1>13, RequestFields
    <2> QED  BY <1>10, <1>12, <2>1, <2>2, <2>3, <2>4 DEF RequestOK
  <1>17. Calm'
    <2> SUFFICES ASSUME request.calm
                 PROVE  Calm'
      BY <1>12 DEF Calm
    <2>1. \A p \in Products : scene[p] # None => scene[p].version = object[p]
      BY DEF IInv, Calm
    <2>2. ASSUME a.change # None
          PROVE  a.change.from = a.change.to \/ a.change.at - replaced[a.change.scene] < QueryTtl
      <3>1. PICK o \in request.history :
               /\ o.version = request.chosen.version
               /\ a.change = [scene |-> o.scene, from |-> o.stats, to |-> request.chosen.stats, at |-> o.at]
        BY <1>7, <2>2
      <3>2. request.chosen.version = request.chosen.stats
        BY <1>2 DEF IInv, Calm
      <3>3. /\ o.version = object[o.scene]
            /\ o.stats = object[o.scene] \/ o.at - replaced[o.scene] < QueryTtl
        BY DEF IInv, Calm
      <3>4. /\ a.change.scene = o.scene /\ a.change.from = o.stats /\ a.change.to = request.chosen.stats
            /\ a.change.at = o.at
        <4>1. PICK change : change = a.change
          OBVIOUS
        <4>2. change = [scene |-> o.scene, from |-> o.stats, to |-> request.chosen.stats, at |-> o.at]
          BY <3>1, <4>1
        <4>3. /\ change.scene = o.scene /\ change.from = o.stats /\ change.to = request.chosen.stats
              /\ change.at = o.at
          BY <4>2
        <4> QED  BY <4>1, <4>3
      <3> QED  BY <3>1, <3>2, <3>3, <3>4
    <2> QED  BY <1>10, <1>12, <1>13, <2>1, <2>2 DEF Calm, catalog
  <1>18. used' \in [fault : 0..MaxFaults, job : 0..MaxJobs, request : 0..MaxRequests]
    BY <1>13, UsedKept
  <1> QED  BY <1>13, <1>14, <1>16, <1>17, <1>18, RequestStepInv

LEMMA ReplyStep ==
    ASSUME IInv, Reply
    PROVE  IInv'
  <1>1. /\ request.pc = "reply" /\ request' = NoRequest
        /\ links' = links \cup {[row |-> request.answer.row, expires |-> request.link]}
        /\ UNCHANGED <<clock, profile, catalog, job, completed, queries, used>>
    BY DEF Reply, RequestStep
  <1>2. RequestOK' /\ Calm'
    BY <1>1, NoRequestOK
  <1>3. \A row, expires : Opens(row, expires) => Opens(row, expires)'
    BY <1>1, RowsGrow
  <1>4. Opens(request.answer.row, request.link)
    BY <1>1 DEF IInv, RequestOK
  <1>5. LinksOK'
    <2> SUFFICES ASSUME NEW l \in links'
                 PROVE  Opens(l.row, l.expires)'
      BY DEF LinksOK
    <2>1. Opens(l.row, l.expires)
      BY <1>1, <1>4 DEF IInv, LinksOK
    <2> QED  BY <1>3, <2>1
  <1>6. CachesOK'
    BY <1>1 DEF IInv, CachesOK, catalog, Rows
  <1> QED  BY <1>1, <1>2, <1>5, <1>6, UsedKept, RequestStepInv

LEMMA UnchangedStep ==
    ASSUME IInv, UNCHANGED vars
    PROVE  IInv'
  <1>1. /\ UNCHANGED <<clock, profile, catalog, job, completed, queries, links, request, used>>
    BY DEF vars, catalog
  <1>2. TablesOK'
    BY <1>1, CatalogKept DEF IInv, TablesOK
  <1> QED  BY <1>1, <1>2, ClockType, BackfillKept, ReadersKept DEF IInv
-----------------------------------------------------------------------------
(***************************************************************************)
(* The invariant and what follows from it.                                 *)
(***************************************************************************)
LEMMA NextInv == IInv /\ [Next]_vars => IInv'
  <1> SUFFICES ASSUME IInv, [Next]_vars
               PROVE  IInv'
    OBVIOUS
  <1>1. CASE Tick
    BY <1>1, TickStep
  <1>2. CASE Upgrade
    BY <1>2, UpgradeStep
  <1>3. ASSUME NEW asked \in Backfills, start_backfill(asked)
        PROVE  IInv'
    BY <1>3, StartStep
  <1>4. CASE BackfillStep
    BY <1>4, SearchStep, DownloadStep, PrepareStep, StoreObjectStep, StoreSceneStep, StoreAssetStep,
       NameItemStep, StoreItemStep, CompleteStep, RecoverStep DEF BackfillStep
  <1>5. CASE JobFails \/ WorkerLost
    BY <1>5, JobFailsStep, WorkerLostStep
  <1>6. CASE field_index
    BY <1>6, FieldIndexStep
  <1>7. ASSUME NEW day \in TargetDays, field_sar(day)
        PROVE  IInv'
    BY <1>7, FieldSarStep
  <1>8. CASE ExamineScene \/ _sar_unavailable
    BY <1>8, ExamineStep, UnavailableStep
  <1>9. CASE SelectScene \/ ObserveEarlier
    BY <1>9, SelectStep, ObserveStep
  <1>10. CASE SaveAnswer \/ Reply
    BY <1>10, SaveStep, ReplyStep
  <1>11. CASE Quiescent \/ UNCHANGED vars
    BY <1>11, UnchangedStep DEF Quiescent
  <1> QED  BY <1>1, <1>2, <1>3, <1>4, <1>5, <1>6, <1>7, <1>8, <1>9, <1>10, <1>11 DEF Next

LEMMA AlwaysIInv == Spec => []IInv
  <1> QED  BY InitInv, NextInv, PTL DEF Spec

LEMMA TypesOfIInv == IInv => TypeOK
  <1> SUFFICES ASSUME IInv
               PROVE  TypeOK
    OBVIOUS
  <1>1. /\ clock \in 0..LastTick /\ profile \in Profiles
        /\ used \in [fault : 0..MaxFaults, job : 0..MaxJobs, request : 0..MaxRequests]
    BY DEF IInv, TablesOK
  <1>2. \A p \in Products :
           /\ scene[p] \in {None} \cup [version : Profiles, item : BOOLEAN]
           /\ {asset[p], object[p], items[p]} \subseteq {0} \cup Profiles
    BY DEF IInv, TablesOK, SceneRow
  <1>3. /\ job.pc \in {"none", "completed", "failed", "lost"} \cup Working
        /\ job.todo \subseteq job.selected /\ Cardinality(job.selected) <= MaxDownloads
    BY DEF IInv, JobOK, Jobs
  <1>4. queries \subseteq Rows
    BY DEF IInv, CachesOK
  <1>5. \A l \in links : l.row \in Rows /\ l.expires \in 0..(LastTick + SignedTtl)
    BY DEF IInv, LinksOK, Opens
  <1>6. /\ request.pc \in {"none", "examine", "history", "reply"} /\ request.calm \in BOOLEAN
        /\ Cardinality(request.history) <= MaxHistory
    BY DEF IInv, RequestOK, Requests
  <1>7. \A k \in completed : k[4] \in Profiles
    BY DEF IInv, TablesOK, Keys
  <1> QED  BY <1>1, <1>2, <1>3, <1>4, <1>5, <1>6, <1>7 DEF TypeOK

LEMMA OpeningOfIInv == LinksEndFirst /\ IInv => LiveLinkOpens
  <1> SUFFICES ASSUME LinksEndFirst, IInv, NEW l \in links
               PROVE  404 \notin IF l.row.kind = "sar" THEN {field_sar_overlay(l)}
                                 ELSE {field_index_stats(l), field_index_point(l), field_index_overlay(l)}
    BY DEF LiveLinkOpens
  <1>1. Opens(l.row, l.expires)
    BY DEF IInv, LinksOK
  <1>2. verify(l) => l.row \in Unexpired(queries)
    <2> SUFFICES ASSUME verify(l)
                 PROVE  l.row \in Unexpired(queries)
      OBVIOUS
    <2>1. clock \in Nat /\ l.expires \in Nat /\ l.row.expires \in Nat
      BY <1>1, ClockType, Constants DEF IInv, Opens, Rows, Forever
    <2>2. l.expires >= clock /\ l.expires < l.row.expires
      BY <1>1 DEF verify, Opens
    <2>3. l.row.expires > clock
      BY <2>1, <2>2
    <2> QED  BY <1>1, <2>3 DEF Opens, Unexpired
  <1>3. l.row.kind = "sar" => asset[l.row.scene] # 0 /\ object[l.row.scene] # 0
    BY <1>1 DEF Opens
  <1>4. CASE l.row.kind = "sar"
    <2>1. verify(l) => sar_overlay_for_query(l.row)
      BY <1>2, <1>3, <1>4 DEF sar_overlay_for_query
    <2>2. field_sar_overlay(l) # 404
      BY <2>1 DEF field_sar_overlay, Status
    <2> QED  BY <1>4, <2>2
  <1>5. CASE l.row.kind # "sar"
    <2>1. verify(l) => index_query(l.row)
      BY <1>2 DEF index_query
    <2>2. field_index_stats(l) # 404 /\ field_index_point(l) # 404 /\ field_index_overlay(l) # 404
      BY <2>1 DEF field_index_stats, field_index_point, field_index_overlay, Status
    <2> QED  BY <1>5, <2>2
  <1> QED  BY <1>4, <1>5

LEMMA ChangeOfIInv == IInv => ReportedChangeIsOfOneProfile
  BY DEF IInv, Calm, ReportedChangeIsOfOneProfile

LEMMA WholeOfIInv == IInv => CompletedBackfillIsWhole
  BY DEF IInv, Progress, Published, CompletedBackfillIsWhole

\* The tables, the job, the saved rows, the links and the request in flight are
\* what their code takes them for, and no backfill selects more products than it
\* may download.
THEOREM Types == Spec => []TypeOK
  <1> QED  BY AlwaysIInv, TypesOfIInv, PTL

\* If links live shorter than rows, as by default, a signed link that still
\* verifies finds its row, and the object and the asset it is drawn from: expired
\* rows are deleted, but a link runs out before its row although the row is
\* saved later and cleaned up by whatever request comes next, and no backfill
\* takes away what it stores again.
THEOREM LinksOpen ==
    ASSUME LinksEndFirst
    PROVE  Spec => []LiveLinkOpens
  <1>1. IInv => LiveLinkOpens
    BY OpeningOfIInv
  <1> QED  BY <1>1, AlwaysIInv, PTL

\* The change an answer reports is between statistics of one processing profile,
\* or uses cached statistics within their lifetime of their object's being
\* replaced.  Exempt are the requests during which an object was overwritten, and
\* those begun while a row lagged behind its object: the backfill is between the
\* two writes, or has failed there, and then until the scene is stored again.
THEOREM ChangesOfOneProfile == Spec => []ReportedChangeIsOfOneProfile
  <1> QED  BY AlwaysIInv, ChangeOfIInv, PTL

\* A full backfill that completed left the object, the row, the asset and the
\* item of every product it selected, all of its own version: wherever a worker
\* was lost, whatever was deployed before it began again.
THEOREM BackfillsAreWhole == Spec => []CompletedBackfillIsWhole
  <1> QED  BY AlwaysIInv, WholeOfIInv, PTL
=============================================================================
