------------------------ MODULE SceneProcessing_proofs ------------------------
(***************************************************************************)
(* Proofs about SceneProcessing, for either service, any products, assets, *)
(* indices and bounds: what a scene that can be served consists of, what   *)
(* its outputs were made from, that they are of one making, and that a     *)
(* product once served stays served with the outputs it has                *)
(* (SceneLifecycle).                                                       *)
(***************************************************************************)
EXTENDS SceneProcessing, SequenceTheorems, WellFoundedInduction, TLAPS

(***************************************************************************)
(* The assets of a loop that are still to do are a tail of all of them.    *)
(***************************************************************************)
RestOf(all, left) == \E n \in 1..Len(all) : left = SubSeq(all, n, Len(all))

LEMMA WholeRest ==
    ASSUME NEW all, all \in Seq(Elements(all)), all # <<>>
    PROVE  RestOf(all, all)
  <1>1. Len(all) \in Nat \ {0}
    BY EmptySeq
  <1>2. all = SubSeq(all, 1, Len(all))
    BY SubSeqFull
  <1> QED  BY <1>1, <1>2 DEF RestOf

LEMMA RestStep ==
    ASSUME NEW all, all \in Seq(Elements(all)), NoRepeats(all), NEW left, RestOf(all, left)
    PROVE  /\ left # <<>>
           /\ Head(left) \in Elements(all)
           /\ Elements(left) = {Head(left)} \cup Elements(Tail(left))
           /\ all[Len(all)] \in Elements(left)
           /\ Head(left) = all[Len(all)] <=> Tail(left) = <<>>
           /\ Tail(left) # <<>> => RestOf(all, Tail(left))
           /\ Tail(left) = <<>> => Elements(left) = {Head(left)}
  <1>1. PICK n \in 1..Len(all) : left = SubSeq(all, n, Len(all))
    BY DEF RestOf
  <1> DEFINE len == Len(all)
  <1>2. len \in Nat /\ n \in Nat /\ 1 <= n /\ n <= len /\ DOMAIN all = 1..len
    BY LenProperties
  <1>A. Len(all) = len
    OBVIOUS
  <1> HIDE DEF len
  <1>3. len \in n..len /\ Head(left) = all[n] /\ Tail(left) = SubSeq(all, n + 1, len)
    BY <1>1, <1>2, <1>A, HeadTailOfSubSeq
  <1>4. \A i \in n..len : all[i] \in Elements(all)
    BY <1>2 DEF Elements
  <1>5. /\ Len(left) = len - n + 1
        /\ left \in Seq(Elements(all))
        /\ \A i \in 1..(len - n + 1) : left[i] = all[n + i - 1]
    BY <1>1, <1>2, <1>4, <1>A, SubSeqProperties
  <1>6. /\ Tail(left) \in Seq(Elements(all))
        /\ Len(Tail(left)) = len - n
        /\ \A i \in 1..(len - n) : Tail(left)[i] = all[n + i]
    <2>1. \A i \in (n + 1)..len : all[i] \in Elements(all)
      BY <1>2 DEF Elements
    <2>2. n + 1 \in Int /\ len \in Int /\ \A i \in (n + 1)..len : all[i] \in Elements(all)
      BY <1>2, <2>1
    <2> DEFINE m == n + 1
    <2> HIDE DEF m
    <2>3. /\ Len(SubSeq(all, m, len)) = IF m <= len THEN len - m + 1 ELSE 0
          /\ SubSeq(all, m, len) \in Seq(Elements(all))
          /\ \A i \in 1..(len - m + 1) : SubSeq(all, m, len)[i] = all[m + i - 1]
      BY <2>2, SubSeqProperties DEF m
    <2>4. Tail(left) = SubSeq(all, m, len)
      BY <1>3 DEF m
    <2>5. m = n + 1
      BY DEF m
    <2>6. m <= len <=> n # len
      BY <1>2, <2>5
    <2>7. Len(Tail(left)) = len - n
      BY <1>2, <2>3, <2>4, <2>5, <2>6
    <2>8. \A i \in 1..(len - n) : Tail(left)[i] = all[n + i]
      <3> TAKE i \in 1..(len - n)
      <3>1. i \in 1..(len - m + 1) /\ m + i - 1 = n + i
        BY <1>2, <2>5
      <3> QED  BY <2>3, <2>4, <3>1
    <2> QED  BY <2>3, <2>4, <2>7, <2>8
  <1>7. DOMAIN left = 1..(len - n + 1) /\ DOMAIN Tail(left) = 1..(len - n)
    BY <1>5, <1>6, LenProperties
  <1>8. Elements(left) = {all[i] : i \in n..len}
    <2>1. \A i \in 1..(len - n + 1) : n + i - 1 \in n..len /\ left[i] = all[n + i - 1]
      BY <1>2, <1>5
    <2>2. \A j \in n..len : j - n + 1 \in 1..(len - n + 1) /\ left[j - n + 1] = all[j]
      <3> TAKE j \in n..len
      <3>1. j - n + 1 \in 1..(len - n + 1) /\ n + (j - n + 1) - 1 = j
        BY <1>2
      <3> QED  BY <2>1, <3>1
    <2>3. Elements(left) = {left[i] : i \in 1..(len - n + 1)}
      BY <1>7 DEF Elements
    <2>4. Elements(left) \subseteq {all[j] : j \in n..len}
      BY <2>1, <2>3
    <2>5. {all[j] : j \in n..len} \subseteq Elements(left)
      BY <2>2, <2>3
    <2> QED  BY <2>4, <2>5
  <1>9. Elements(Tail(left)) = {all[i] : i \in (n + 1)..len}
    <2>1. \A i \in 1..(len - n) : n + i \in (n + 1)..len /\ Tail(left)[i] = all[n + i]
      BY <1>2, <1>6
    <2>2. \A j \in (n + 1)..len : j - n \in 1..(len - n) /\ Tail(left)[j - n] = all[j]
      <3> TAKE j \in (n + 1)..len
      <3>1. j - n \in 1..(len - n) /\ n + (j - n) = j
        BY <1>2
      <3> QED  BY <2>1, <3>1
    <2>3. Elements(Tail(left)) = {Tail(left)[i] : i \in 1..(len - n)}
      BY <1>7 DEF Elements
    <2>4. Elements(Tail(left)) \subseteq {all[j] : j \in (n + 1)..len}
      BY <2>1, <2>3
    <2>5. {all[j] : j \in (n + 1)..len} \subseteq Elements(Tail(left))
      BY <2>2, <2>3
    <2> QED  BY <2>4, <2>5
  <1>10. n..len = {n} \cup ((n + 1)..len)
    BY <1>2
  <1>11. Tail(left) = <<>> <=> n = len
    <2>1. CASE n = len
      BY <1>2, <1>3, <2>1, SubSeqEmpty
    <2>2. CASE n # len
      <3>1. Len(Tail(left)) # 0
        BY <1>2, <1>6, <2>2
      <3> QED  BY <2>2, <3>1, EmptySeq
    <2> QED  BY <2>1, <2>2
  <1>12. left # <<>>
    <2>1. Len(left) # 0
      BY <1>2, <1>5
    <2> QED  BY <2>1, EmptySeq
  <1>13. Head(left) \in Elements(all) /\ all[len] \in Elements(left)
    BY <1>2, <1>3, <1>4, <1>8
  <1>14. Head(left) = all[len] <=> n = len
    BY <1>2, <1>3 DEF NoRepeats
  <1>15. Tail(left) # <<>> => RestOf(all, Tail(left))
    <2>1. n # len => n + 1 \in 1..len
      BY <1>2
    <2> QED  BY <1>3, <1>11, <1>A, <2>1 DEF RestOf
  <1>16. Elements(left) = {Head(left)} \cup Elements(Tail(left))
    BY <1>3, <1>8, <1>9, <1>10
  <1>17. Tail(left) = <<>> => Elements(left) = {Head(left)}
    <2>1. n = len => (n + 1)..len = {}
      BY <1>2
    <2> QED  BY <1>9, <1>11, <1>16, <2>1
  <1> QED  BY <1>11, <1>12, <1>13, <1>14, <1>15, <1>16, <1>17, <1>A

LEMMA AssetLists ==
    /\ SourceAssets \in Seq(Elements(SourceAssets)) /\ SourceAssets # <<>> /\ NoRepeats(SourceAssets)
    /\ PreparedAssets \in Seq(Elements(PreparedAssets)) /\ PreparedAssets # <<>>
    /\ NoRepeats(PreparedAssets)
    /\ IndexAssets \in Seq(Elements(IndexAssets)) /\ IndexAssets # <<>> /\ NoRepeats(IndexAssets)
  BY SceneAssumption

LastIndex == IndexAssets[Len(IndexAssets)]

LEMMA LastIndexType == LastIndex \in Indices
  <1>1. Len(IndexAssets) \in Nat \ {0} /\ DOMAIN IndexAssets = 1..Len(IndexAssets)
    BY AssetLists, EmptySeq, LenProperties
  <1> QED  BY <1>1 DEF LastIndex, Indices, Elements

\* The three loops of a product.
LEMMA SourceRest ==
    ASSUME NEW left, RestOf(SourceAssets, left)
    PROVE  /\ Head(left) \in Sources
           /\ Elements(left) = {Head(left)} \cup Elements(Tail(left))
           /\ Tail(left) # <<>> => RestOf(SourceAssets, Tail(left))
           /\ Tail(left) = <<>> => Elements(left) = {Head(left)}
  BY AssetLists, RestStep DEF Sources

LEMMA PreparedRest ==
    ASSUME NEW left, RestOf(PreparedAssets, left)
    PROVE  /\ Head(left) \in Elements(PreparedAssets)
           /\ Elements(left) = {Head(left)} \cup Elements(Tail(left))
           /\ Tail(left) # <<>> => RestOf(PreparedAssets, Tail(left))
           /\ Tail(left) = <<>> => Elements(left) = {Head(left)}
  BY AssetLists, RestStep

LEMMA IndexRest ==
    ASSUME NEW left, RestOf(IndexAssets, left)
    PROVE  /\ Head(left) \in Indices
           /\ Elements(left) = {Head(left)} \cup Elements(Tail(left))
           /\ LastIndex \in Elements(left)
           /\ Head(left) = LastIndex <=> Tail(left) = <<>>
           /\ Tail(left) # <<>> => RestOf(IndexAssets, Tail(left))
           /\ Tail(left) = <<>> => Elements(left) = {Head(left)}
  BY AssetLists, RestStep DEF Indices, LastIndex

LEMMA WholeLists ==
    /\ RestOf(SourceAssets, SourceAssets) /\ Elements(SourceAssets) = Sources
    /\ RestOf(PreparedAssets, PreparedAssets)
    /\ RestOf(IndexAssets, IndexAssets) /\ Elements(IndexAssets) = Indices
  BY AssetLists, WholeRest DEF Sources, Indices
-----------------------------------------------------------------------------
(***************************************************************************)
(* The inductive invariant.                                                *)
(***************************************************************************)
Assets == Sources \cup Elements(PreparedAssets) \cup Indices

Modes == {"metadata_only", "mirror_only", "full_pipeline"}

TablesOK ==
    /\ service \in {"sentinel2", "landsat"}
    /\ faults \in 0..MaxFaults
    /\ offered \in [Products -> Versions]
    /\ \A p \in Products : offered[p] <= faults + 1
    /\ profile \in Profiles /\ profile <= faults + 1
    /\ scene \in [Products -> {NoScene} \cup SceneRow]
    /\ asset \in [Products -> [Sources -> {NoObject} \cup Versions]]
    /\ described \in [Products -> [Sources -> {NoObject} \cup Versions]]
    /\ prepared \in [Products -> [Elements(PreparedAssets) -> {NoObject} \cup Processed]]
    /\ raster \in [Products -> [Indices -> [Profiles -> {NoObject} \cup Processed]]]
    /\ layer \in [Products -> SUBSET (Indices \X Profiles)]
    /\ object \in [Products -> [Assets -> {NoObject} \cup Versions \cup Processed]]
    /\ item \in [Products -> SUBSET (Elements(PreparedAssets) \cup Indices)]

Runs == [pc : {"idle", "search", "next"} \cup InProduct, mode : Modes,
         items : [Products -> Calibrations], todo : SUBSET Products,
         product : Products \cup {Nobody}, left : Seq(Assets),
         new : 0..MaxNewScenes, mine : BOOLEAN]

\* What is left of a loop is a tail of it, and there is one only after a search.
RunOK ==
    /\ run \in Runs
    /\ run.pc \in {"next"} \cup InProduct => run.items \in [Products -> Versions]
    /\ run.pc \in {"idle", "search"} => ~run.mine
    /\ run.pc \in InProduct => run.product \in Products
    /\ run.pc \in {"next", "register"} => ~run.mine
    /\ run.pc \in {"assets", "mirror", "mirrored"} => RestOf(SourceAssets, run.left)
    /\ run.pc \in {"prepare", "prepared"} =>
          service = "landsat" /\ RestOf(PreparedAssets, run.left)
    /\ run.pc \in {"object", "row", "layer"} => RestOf(IndexAssets, run.left)

Served(p) == Registered(p) /\ scene[p].item

Mirrored(p) == \A a \in Sources : asset[p][a] # NoObject

\* Made by processing, from what is mirrored.
Output(p, o) == object[p][o] \in Processed /\ object[p][o].from = asset[p]

\* The row of an output is about the object.
Current(p, i) == Newest(p, i) = object[p][i] /\ object[p][i] # NoObject

Stored(p, k) == prepared[p][k] = object[p][k] /\ object[p][k] # NoObject

Layered(p, i) == service = "landsat" => \E v \in Profiles : <<i, v>> \in layer[p]

Whole(p) ==
    /\ \A i \in Indices : Current(p, i) /\ Layered(p, i)
    /\ \A k \in Prepared : Stored(p, k)

\* What is true of a product whatever the worker does.  Sentinel-2 puts every
\* object before it writes a row, so the row of the last index vouches for all.
Lineage(p) ==
    /\ \A a \in Sources : asset[p][a] # NoObject => object[p][a] = asset[p][a]
    /\ \A i \in Indices, v \in Profiles : raster[p][i][v] # NoObject =>
          v <= profile /\ Registered(p) /\ raster[p][i][v].from = asset[p]
    /\ \A k \in Elements(PreparedAssets) : prepared[p][k] # NoObject => prepared[p][k].from = asset[p]

LastVouches(p) ==
    service = "sentinel2" /\ Newest(p, LastIndex) # NoObject => \A i \in Indices : Current(p, i)

ServedIsWhole(p) == Served(p) => item[p] = Prepared \cup Indices /\ Whole(p)

Catalog(p) == Lineage(p) /\ LastVouches(p) /\ ServedIsWhole(p)

\* What the worker knows of the product in its hands.
Registration ==
    /\ run.pc \in InProduct \ {"complete"} => ~Served(run.product)
    /\ run.pc \in InProduct \ {"register"} => Registered(run.product)
    /\ service = "sentinel2"
          /\ run.pc \in {"register", "assets", "mirror", "mirrored", "process", "object", "row"} =>
       Newest(run.product, LastIndex) = NoObject
    /\ service = "sentinel2" /\ run.pc = "layer" /\ Tail(run.left) # <<>> =>
          Newest(run.product, LastIndex) = NoObject

Mirroring ==
    /\ run.pc \in {"mirror", "mirrored"} =>
          \A a \in Sources \ Elements(run.left) : asset[run.product][a] # NoObject
    /\ run.pc = "mirrored" => /\ asset[run.product][Head(run.left)] = NoObject
                              /\ object[run.product][Head(run.left)] \in Versions
    /\ run.pc \in {"process", "prepare", "prepared", "object", "row", "layer"} => Mirrored(run.product)

Preparing ==
    /\ run.pc \in {"prepare", "prepared"} =>
          \A k \in Elements(PreparedAssets) \ Elements(run.left) : Stored(run.product, k)
    /\ run.pc = "prepared" => Output(run.product, Head(run.left))
    /\ run.pc \in {"object", "row", "layer"} => \A k \in Prepared : Stored(run.product, k)

Indexing ==
    /\ run.pc \in {"row", "layer"} \/ (run.pc = "object" /\ service = "landsat") =>
          \A i \in Indices \ Elements(run.left) : Current(run.product, i) /\ Layered(run.product, i)
    /\ run.pc = "object" /\ service = "sentinel2" =>
          \A i \in Indices \ Elements(run.left) : Output(run.product, i)
    /\ run.pc \in {"row", "layer"} /\ service = "sentinel2" =>
          \A i \in Indices : Output(run.product, i)
    /\ run.pc \in {"row", "layer"} => Output(run.product, Head(run.left))
    /\ run.pc = "layer" => Current(run.product, Head(run.left))

Publishing ==
    /\ run.pc \in {"item", "item_id"} => Whole(run.product)
    /\ run.pc = "item_id" => item[run.product] = Prepared \cup Indices

InHand == Registration /\ Mirroring /\ Preparing /\ Indexing /\ Publishing

IInv == TablesOK /\ RunOK /\ (\A p \in Products : Catalog(p)) /\ InHand
-----------------------------------------------------------------------------
(***************************************************************************)
(* The newest row of an index.                                             *)
(***************************************************************************)
NewestOf(row) ==
    LET rows == {v \in Profiles : row[v] # NoObject}
    IN  IF rows = {} THEN NoObject ELSE row[Max(rows)]

LEMMA NewestIsOfRow ==
    ASSUME NEW p, NEW i
    PROVE  Newest(p, i) = NewestOf(raster[p][i]) /\ Newest(p, i)' = NewestOf(raster'[p][i])
  BY Zenon DEF Newest, NewestOf

Distances(S) == {MaxFaults + 1 - v : v \in S}

SmallerThan == {pair \in Nat \X Nat : pair[1] < pair[2]}

LEMMA SmallestOfSet ==
    ASSUME NEW S, S \subseteq Nat, S # {}
    PROVE  \E n \in S : \A m \in S : n <= m
  <1>1. OpToRel(<, Nat) = SmallerThan
    BY DEF OpToRel, SmallerThan
  <1>2. IsWellFoundedOn(SmallerThan, Nat)
    BY <1>1, NatLessThanWellFounded, Zenon
  <1>3. PICK n \in S : \A m \in S : ~(<<m, n>> \in SmallerThan)
    BY <1>2, WFMin
  <1>4. \A m \in S : n <= m
    <2> TAKE m \in S
    <2>1. m \in Nat /\ n \in Nat
      OBVIOUS
    <2>2. ~(m < n)
      BY <1>3, <2>1 DEF SmallerThan
    <2> QED  BY <2>1, <2>2
  <1> QED  BY <1>4

LEMMA MaxOfProfiles ==
    ASSUME NEW S, S \subseteq Profiles, S # {}
    PROVE  Max(S) \in S /\ \A v \in S : v <= Max(S)
  <1>1. MaxFaults \in Nat
    BY SceneAssumption
  <1>2. Distances(S) \subseteq Nat /\ Distances(S) # {}
    <2>1. \A v \in S : MaxFaults + 1 - v \in Nat
      BY <1>1 DEF Profiles
    <2> QED  BY <2>1 DEF Distances
  <1>3. PICK n \in Distances(S) : \A m \in Distances(S) : n <= m
    BY <1>2, SmallestOfSet
  <1>4. PICK x \in S : n = MaxFaults + 1 - x
    BY <1>3 DEF Distances
  <1>5. \A v \in S : x >= v
    <2> TAKE v \in S
    <2>1. x \in Int /\ v \in Int
      BY DEF Profiles
    <2>2. MaxFaults + 1 - x <= MaxFaults + 1 - v
      BY <1>3, <1>4 DEF Distances
    <2> QED  BY <1>1, <2>1, <2>2
  <1>6. Max(S) = CHOOSE w \in S : \A v \in S : w >= v
    BY Zenon DEF Max
  <1>7. Max(S) \in S /\ \A v \in S : Max(S) >= v
    BY <1>5, <1>6
  <1> QED  BY <1>1, <1>7 DEF Profiles

LEMMA NewestRow ==
    ASSUME NEW row
    PROVE  /\ NewestOf(row) = NoObject <=> \A v \in Profiles : row[v] = NoObject
           /\ NewestOf(row) # NoObject =>
                 \E v \in Profiles : /\ NewestOf(row) = row[v]
                                     /\ \A w \in Profiles : row[w] # NoObject => w <= v
  <1> DEFINE rows == {v \in Profiles : row[v] # NoObject}
  <1>1. CASE rows = {}
    BY <1>1 DEF NewestOf
  <1>2. CASE rows # {}
    <2>1. Max(rows) \in rows /\ \A v \in rows : v <= Max(rows)
      BY <1>2, MaxOfProfiles
    <2>2. NewestOf(row) = row[Max(rows)]
      BY <1>2 DEF NewestOf
    <2> QED  BY <2>1, <2>2
  <1> QED  BY <1>1, <1>2

\* The row of the deployed profile is the newest when no row is beyond it.
LEMMA NewestOfDeployed ==
    ASSUME NEW row, NEW deployed \in Profiles, row[deployed] # NoObject,
           \A v \in Profiles : row[v] # NoObject => v <= deployed
    PROVE  NewestOf(row) = row[deployed]
  <1>1. NewestOf(row) # NoObject
    BY NewestRow
  <1>2. PICK v \in Profiles : /\ NewestOf(row) = row[v]
                              /\ \A w \in Profiles : row[w] # NoObject => w <= v
    BY <1>1, NewestRow
  <1>3. v <= deployed /\ deployed <= v
    BY <1>1, <1>2
  <1>4. v = deployed
    BY <1>3, SceneAssumption DEF Profiles
  <1> QED  BY <1>2, <1>4

LEMMA NewestType ==
    ASSUME TablesOK, NEW p \in Products, NEW i \in Indices
    PROVE  Newest(p, i) \in {NoObject} \cup Processed
  <1>1. raster[p][i] \in [Profiles -> {NoObject} \cup Processed]
    BY DEF TablesOK
  <1> QED  BY <1>1, NewestIsOfRow, NewestRow
-----------------------------------------------------------------------------
(***************************************************************************)
(* What the updates of the worker and of the tables keep.                  *)
(***************************************************************************)
LEMMA GotoStep ==
    ASSUME RunOK, NEW pc \in InProduct, NEW left \in Seq(Assets), Goto(pc, left)
    PROVE  /\ run' \in Runs
           /\ run'.pc = pc /\ run'.left = left
           /\ run'.product = run.product /\ run'.mine = run.mine /\ run'.new = run.new
           /\ run'.items = run.items
  <1>1. run \in Runs
    BY DEF RunOK, Runs
  <1>2. run' = [run EXCEPT !.pc = pc, !.left = left]
    BY DEF Goto
  <1> QED  BY <1>1, <1>2 DEF Runs

LEMMA Constants ==
    /\ MaxFaults \in Nat /\ MaxNewScenes \in Nat \ {0}
    /\ NoObject \notin Versions /\ NoObject \notin Processed /\ NoScene \notin SceneRow
    /\ Sources \cap Indices = {} /\ Sources \cap Elements(PreparedAssets) = {}
    /\ Indices \cap Elements(PreparedAssets) = {}
  BY SceneAssumption

\* Between two products, and between two runs, nothing is in hand.
LEMMA NothingInHand ==
    ASSUME run'.pc \in {"idle", "search", "next"}
    PROVE  InHand'
  BY DEF InHand, Registration, Mirroring, Preparing, Indexing, Publishing, InProduct

LEMMA NextProductStep ==
    ASSUME RunOK, NEW p, run' = NextProduct(p), run.pc \in {"next"} \cup InProduct
    PROVE  RunOK' /\ InHand' /\ run'.new = run.new
  <1>1. run \in Runs
    BY DEF RunOK, Runs
  <1>2. run' = [run EXCEPT !.pc = "next", !.todo = @ \ {p}, !.product = Nobody, !.left = <<>>,
                           !.mine = FALSE]
    BY DEF NextProduct
  <1>3. <<>> \in Seq(Assets)
    BY EmptySeq
  <1>4. run' = [pc |-> "next", mode |-> run.mode, items |-> run.items, todo |-> run.todo \ {p},
                product |-> Nobody, left |-> <<>>, new |-> run.new, mine |-> FALSE]
    BY <1>1, <1>2 DEF Runs
  <1>5. /\ run' \in Runs /\ run'.pc = "next" /\ ~run'.mine /\ run'.new = run.new
        /\ run'.items = run.items
    BY <1>1, <1>3, <1>4 DEF Runs
  <1>6. run'.items \in [Products -> Versions]
    BY <1>5 DEF RunOK
  <1>7. RunOK'
    BY <1>5, <1>6 DEF RunOK, InProduct
  <1> QED  BY <1>5, <1>7, NothingInHand

LEMMA NoItemsType == NoItems \in [Products -> Calibrations]
  BY Constants DEF NoItems, Calibrations

LEMMA IdleStep ==
    ASSUME run' = IdleRun
    PROVE  RunOK' /\ InHand'
  <1>1. <<>> \in Seq(Assets)
    BY EmptySeq
  <1>2. run' \in Runs /\ run'.pc = "idle" /\ ~run'.mine
    BY <1>1, NoItemsType, Constants DEF IdleRun, Runs, Modes
  <1> QED  BY <1>2, NothingInHand DEF RunOK, Runs, InProduct

LEMMA TakeStep ==
    ASSUME RunOK, run.pc = "next", NEW p \in Products, NEW pc \in {"register", "item"},
           NEW new \in 0..1, run.new + new <= MaxNewScenes, run' = Take(p, pc, new)
    PROVE  RunOK' /\ run'.pc = pc /\ run'.product = p /\ run'.items = run.items
  <1>1. run \in Runs /\ ~run.mine /\ run.items \in [Products -> Versions]
    BY DEF RunOK, Runs
  <1>2. run' = [run EXCEPT !.pc = pc, !.todo = @ \ {p}, !.product = p, !.new = @ + new]
    BY DEF Take
  <1>3. run.new + new \in 0..MaxNewScenes
    BY <1>1, Constants DEF Runs
  <1>4. pc \in {"idle", "search", "next"} \cup InProduct
    BY DEF InProduct
  <1>A. run' = [pc |-> pc, mode |-> run.mode, items |-> run.items, todo |-> run.todo \ {p}, product |-> p,
                left |-> run.left, new |-> run.new + new, mine |-> run.mine]
    BY <1>1, <1>2 DEF Runs
  <1>5. run' \in Runs /\ run'.pc = pc /\ run'.product = p /\ ~run'.mine /\ run'.items = run.items
    BY <1>1, <1>3, <1>4, <1>A DEF Runs
  <1> QED  BY <1>1, <1>5 DEF RunOK, Runs

\* A row of a scene is written; a registered scene stays registered.
LEMMA SceneStep ==
    ASSUME TablesOK, NEW p \in Products, NEW row \in SceneRow, UpsertScene(p, row)
    PROVE  /\ scene' \in [Products -> {NoScene} \cup SceneRow]
           /\ scene'[p] = row
           /\ \A q \in Products : q # p => scene'[q] = scene[q]
           /\ Registered(p)' /\ (Served(p)' <=> row.item)
           /\ \A q \in Products : Registered(q) => Registered(q)'
           /\ \A q \in Products : q # p => (Served(q)' <=> Served(q))
  <1>1. scene \in [Products -> {NoScene} \cup SceneRow]
    BY DEF TablesOK
  <1>2. scene' = [scene EXCEPT ![p] = row]
    BY DEF UpsertScene
  <1>3. /\ scene' \in [Products -> {NoScene} \cup SceneRow] /\ scene'[p] = row
        /\ \A q \in Products : q # p => scene'[q] = scene[q]
    BY <1>1, <1>2
  <1>4. row # NoScene
    BY Constants
  <1> QED  BY <1>3, <1>4 DEF Registered, Served

LEMMA SceneUnchanged ==
    ASSUME UNCHANGED scene
    PROVE  \A q \in Products : (Registered(q)' <=> Registered(q)) /\ (Served(q)' <=> Served(q))
  BY DEF Registered, Served

LEMMA RowOfRegistered ==
    ASSUME TablesOK, NEW p \in Products, Registered(p)
    PROVE  /\ \A state \in {"pending", "processing", "complete", "failed"} :
                 /\ [scene[p] EXCEPT !.state = state] \in SceneRow
                 /\ [scene[p] EXCEPT !.state = state].item = scene[p].item
           /\ [scene[p] EXCEPT !.item = TRUE] \in SceneRow
           /\ [scene[p] EXCEPT !.item = TRUE].item
  <1>1. scene[p] \in SceneRow
    BY DEF TablesOK, Registered
  <1> QED  BY <1>1 DEF SceneRow

\* Nothing of a product is written but the state of its scene.
LEMMA ProductKept ==
    ASSUME NEW q \in Products, service' = service,
           asset'[q] = asset[q], prepared'[q] = prepared[q], raster'[q] = raster[q],
           layer'[q] = layer[q], object'[q] = object[q], item'[q] = item[q]
    PROVE  /\ \A i : Newest(q, i)' = Newest(q, i)
           /\ Mirrored(q)' <=> Mirrored(q)
           /\ \A o : Output(q, o)' <=> Output(q, o)
           /\ \A i : Current(q, i)' <=> Current(q, i)
           /\ \A k : Stored(q, k)' <=> Stored(q, k)
           /\ \A i : Layered(q, i)' <=> Layered(q, i)
           /\ Whole(q)' <=> Whole(q)
  <1>1. \A i : Newest(q, i)' = Newest(q, i)
    BY NewestIsOfRow
  <1>2. \A i : Current(q, i)' <=> Current(q, i)
    BY <1>1 DEF Current
  <1>3. /\ Mirrored(q)' <=> Mirrored(q)
        /\ \A o : Output(q, o)' <=> Output(q, o)
        /\ \A k : Stored(q, k)' <=> Stored(q, k)
        /\ \A i : Layered(q, i)' <=> Layered(q, i)
    BY DEF Mirrored, Output, Stored, Layered
  <1>4. Prepared' = Prepared
    BY DEF Prepared
  <1>5. Whole(q)' <=> Whole(q)
    BY <1>2, <1>3, <1>4 DEF Whole
  <1> QED  BY <1>1, <1>2, <1>3, <1>5

LEMMA CatalogKept ==
    ASSUME NEW q \in Products, Catalog(q), profile \in Int, profile' \in Int, profile <= profile',
           service' = service,
           asset'[q] = asset[q], prepared'[q] = prepared[q], raster'[q] = raster[q],
           layer'[q] = layer[q], object'[q] = object[q], item'[q] = item[q],
           Registered(q) => Registered(q)', Served(q)' => Served(q)
    PROVE  Catalog(q)'
  <1>1. /\ \A i : Newest(q, i)' = Newest(q, i)
        /\ \A i : Current(q, i)' <=> Current(q, i)
        /\ Whole(q)' <=> Whole(q)
    BY ProductKept
  <1>2. Prepared' = Prepared
    BY DEF Prepared
  <1>3. Lineage(q)'
    <2>1. \A i \in Indices, v \in Profiles : raster[q][i][v] # NoObject =>
            v <= profile' /\ Registered(q)' /\ raster[q][i][v].from = asset[q]
      BY DEF Catalog, Lineage, Profiles
    <2> QED  BY <2>1 DEF Catalog, Lineage
  <1>4. LastVouches(q)'
    BY <1>1 DEF Catalog, LastVouches
  <1>5. ServedIsWhole(q)'
    BY <1>1, <1>2 DEF Catalog, ServedIsWhole
  <1> QED  BY <1>3, <1>4, <1>5 DEF Catalog

LEMMA CatalogsKept ==
    ASSUME TablesOK, \A p \in Products : Catalog(p),
           UNCHANGED <<service, asset, prepared, raster, layer, object, item>>,
           profile' \in Profiles, profile <= profile',
           \A p \in Products : (Registered(p) => Registered(p)') /\ (Served(p)' => Served(p))
    PROVE  \A p \in Products : Catalog(p)'
  <1> SUFFICES ASSUME NEW p \in Products
               PROVE  Catalog(p)'
    OBVIOUS
  <1>1. profile \in Int /\ profile' \in Int
    BY DEF TablesOK, Profiles
  <1> QED  BY <1>1, CatalogKept

LEMMA TablesKept ==
    ASSUME TablesOK, \A p \in Products : Catalog(p),
           UNCHANGED <<service, offered, profile, tables, faults>>
    PROVE  TablesOK' /\ \A p \in Products : Catalog(p)'
  <1>1. TablesOK'
    BY DEF TablesOK, tables
  <1>2. \A p \in Products : (Registered(p) => Registered(p)') /\ (Served(p)' => Served(p))
    BY SceneUnchanged DEF tables
  <1>3. profile' \in Profiles /\ profile <= profile'
    BY DEF TablesOK, Profiles
  <1> QED  BY <1>1, <1>2, <1>3, CatalogsKept DEF tables

LEMMA InHandKept ==
    ASSUME InHand, UNCHANGED <<service, tables, run>>, run.pc \in InProduct => run.product \in Products
    PROVE  InHand'
  <1>1. CASE run.pc \notin InProduct
    BY <1>1 DEF InHand, Registration, Mirroring, Preparing, Indexing, Publishing, InProduct
  <1>2. CASE run.pc \in InProduct
    <2> DEFINE p == run.product
    <2>1. p \in Products
      BY <1>2
    <2>2. /\ \A i : Newest(p, i)' = Newest(p, i)
          /\ Mirrored(p)' <=> Mirrored(p)
          /\ \A o : Output(p, o)' <=> Output(p, o)
          /\ \A i : Current(p, i)' <=> Current(p, i)
          /\ \A k : Stored(p, k)' <=> Stored(p, k)
          /\ \A i : Layered(p, i)' <=> Layered(p, i)
          /\ Whole(p)' <=> Whole(p)
      BY <2>1, ProductKept DEF tables
    <2>3. (Registered(p)' <=> Registered(p)) /\ (Served(p)' <=> Served(p))
      BY <2>1, SceneUnchanged DEF tables
    <2>4. Prepared' = Prepared
      BY DEF Prepared, tables
    <2> QED  BY <2>2, <2>3, <2>4 DEF InHand, Registration, Mirroring, Preparing, Indexing, Publishing, tables
  <1> QED  BY <1>1, <1>2
-----------------------------------------------------------------------------
(***************************************************************************)
(* The steps around a run.                                                 *)
(***************************************************************************)
LEMMA InitInv == Init => IInv
  <1> SUFFICES ASSUME Init
               PROVE  IInv
    OBVIOUS
  <1>1. 1 \in Profiles /\ 1 \in Versions /\ 1 <= 0 + 1 /\ 0 \in 0..MaxFaults
    BY Constants DEF Profiles, Versions
  <1>2. TablesOK
    BY <1>1 DEF Init, TablesOK, Assets
  <1>3. \A p \in Products, i \in Indices : Newest(p, i) = NoObject
    <2> TAKE p \in Products, i \in Indices
    <2>1. \A v \in Profiles : raster[p][i][v] = NoObject
      BY DEF Init
    <2> QED  BY <2>1, NewestIsOfRow, NewestRow
  <1>4. \A p \in Products : ~Registered(p)
    BY DEF Init, Registered
  <1>5. ASSUME NEW p \in Products
        PROVE  Catalog(p)
    <2>1. Lineage(p)
      BY <1>4 DEF Lineage, Init
    <2>2. LastVouches(p)
      BY <1>3, LastIndexType DEF LastVouches
    <2>3. ServedIsWhole(p)
      BY <1>4 DEF ServedIsWhole, Served
    <2> QED  BY <2>1, <2>2, <2>3 DEF Catalog
  <1>6. run = IdleRun /\ run.pc = "idle"
    BY DEF Init, IdleRun
  <1>7. RunOK
    <2>1. <<>> \in Seq(Assets)
      BY EmptySeq
    <2>2. run \in Runs
      BY <1>6, <2>1, NoItemsType, Constants DEF IdleRun, Runs, Modes
    <2> QED  BY <1>6, <2>2 DEF RunOK, Runs, InProduct, IdleRun
  <1>8. InHand
    BY <1>6 DEF InHand, Registration, Mirroring, Preparing, Indexing, Publishing, InProduct
  <1> QED  BY <1>2, <1>5, <1>7, <1>8 DEF IInv

LEMMA FaultStep ==
    ASSUME TablesOK, Fault
    PROVE  faults' = faults + 1 /\ faults' \in 0..MaxFaults /\ faults \in Nat /\ faults + 2 \in 1..(MaxFaults + 1)
  BY Constants DEF TablesOK, Fault

LEMMA RepublishStep ==
    ASSUME IInv, Republish
    PROVE  IInv'
  <1>1. PICK p \in Products : offered' = [offered EXCEPT ![p] = @ + 1]
    <2>1. PICK p \in Republished : offered' = [offered EXCEPT ![p] = @ + 1]
      BY DEF Republish
    <2> QED  BY <2>1, SceneAssumption
  <1>2. /\ faults' = faults + 1 /\ faults' \in 0..MaxFaults /\ faults \in Nat
        /\ faults + 2 \in 1..(MaxFaults + 1)
    BY FaultStep DEF IInv, Republish
  <1>3. offered \in [Products -> Versions] /\ \A q \in Products : offered[q] <= faults + 1
    BY DEF IInv, TablesOK
  <1>4. offered[p] + 1 \in Versions /\ offered[p] + 1 <= faults + 2
    BY <1>2, <1>3, Constants DEF Versions
  <1>5. \A q \in Products : offered'[q] \in Versions /\ offered'[q] <= faults' + 1
    <2> TAKE q \in Products
    <2>1. CASE q = p
      BY <1>1, <1>2, <1>3, <1>4, <2>1
    <2>2. CASE q # p
      BY <1>1, <1>2, <1>3, <2>2 DEF Versions
    <2> QED  BY <2>1, <2>2
  <1>6. offered' \in [Products -> Versions]
    BY <1>1, <1>3, <1>5
  <1>7. profile \in Profiles /\ profile <= faults' + 1
    BY <1>2 DEF IInv, TablesOK, Profiles
  <1>8. TablesOK'
    BY <1>2, <1>5, <1>6, <1>7 DEF IInv, TablesOK, Republish, tables
  <1>9. \A q \in Products : Catalog(q)'
    <2>1. \A q \in Products : (Registered(q) => Registered(q)') /\ (Served(q)' => Served(q))
      BY SceneUnchanged DEF Republish, tables
    <2>2. profile' \in Profiles /\ profile <= profile'
      BY <1>7 DEF Profiles, Republish
    <2> QED  BY <2>1, <2>2, CatalogsKept DEF Republish, tables, IInv
  <1>10. RunOK' /\ InHand'
    BY InHandKept DEF IInv, RunOK, Republish
  <1> QED  BY <1>8, <1>9, <1>10 DEF IInv

LEMMA UpgradeStep ==
    ASSUME IInv, Upgrade
    PROVE  IInv'
  <1>1. /\ faults' = faults + 1 /\ faults' \in 0..MaxFaults /\ faults \in Nat
        /\ faults + 2 \in 1..(MaxFaults + 1)
    BY FaultStep DEF IInv, Upgrade
  <1>2. profile \in Profiles /\ profile <= faults + 1 /\ profile' = profile + 1
    BY DEF IInv, TablesOK, Upgrade
  <1>3. profile' \in Profiles /\ profile' <= faults' + 1 /\ profile <= profile'
    BY <1>1, <1>2, Constants DEF Profiles
  <1>4. \A q \in Products : offered[q] <= faults' + 1
    <2> TAKE q \in Products
    <2>1. offered[q] \in Int /\ offered[q] <= faults + 1
      BY DEF IInv, TablesOK, Versions
    <2> QED  BY <1>1, <2>1
  <1>5. TablesOK'
    BY <1>1, <1>3, <1>4 DEF IInv, TablesOK, Upgrade, tables
  <1>6. \A q \in Products : (Registered(q) => Registered(q)') /\ (Served(q)' => Served(q))
    BY SceneUnchanged DEF Upgrade, tables
  <1>7. \A q \in Products : Catalog(q)'
    BY <1>3, <1>6, CatalogsKept DEF IInv, Upgrade, tables
  <1>8. InHand'
    BY NothingInHand DEF Upgrade
  <1>9. RunOK'
    BY DEF IInv, RunOK, Upgrade, tables
  <1> QED  BY <1>5, <1>7, <1>8, <1>9 DEF IInv

LEMMA BeginRunStep ==
    ASSUME IInv, NEW mode \in Modes, BeginRun(mode)
    PROVE  IInv'
  <1>1. TablesOK' /\ \A p \in Products : Catalog(p)'
    BY TablesKept DEF IInv, BeginRun
  <1>2. <<>> \in Seq(Assets)
    BY EmptySeq
  <1>A. run' = [pc |-> "search", mode |-> mode, items |-> NoItems, todo |-> {}, product |-> Nobody,
                left |-> <<>>, new |-> 0, mine |-> FALSE]
    BY DEF BeginRun, IdleRun
  <1>3. run' \in Runs /\ run'.pc = "search" /\ ~run'.mine
    BY <1>2, <1>A, NoItemsType, Constants DEF Runs
  <1> QED  BY <1>1, <1>3, NothingInHand DEF IInv, RunOK, Runs, InProduct

LEMMA SearchStep ==
    ASSUME IInv, search
    PROVE  IInv'
  <1>1. TablesOK' /\ \A p \in Products : Catalog(p)'
    BY TablesKept DEF IInv, search
  <1>2. run \in Runs /\ ~run.mine
    BY DEF IInv, RunOK, search
  <1>3. offered \in [Products -> Versions] /\ offered \in [Products -> Calibrations]
    BY Constants DEF IInv, TablesOK, Versions, Calibrations
  <1>4. run' \in Runs /\ run'.pc = "next" /\ ~run'.mine /\ run'.items = offered
    BY <1>2, <1>3 DEF search, Runs
  <1> QED  BY <1>1, <1>3, <1>4, NothingInHand DEF IInv, RunOK, Runs, InProduct

LEMMA SearchRaisesStep ==
    ASSUME IInv, SearchRaises
    PROVE  IInv'
  BY TablesKept, IdleStep DEF IInv, SearchRaises

LEMMA EndRunStep ==
    ASSUME IInv, EndRun
    PROVE  IInv'
  BY TablesKept, IdleStep DEF IInv, EndRun

LEMMA RunLostStep ==
    ASSUME IInv, RunLost
    PROVE  IInv'
  <1>1. faults' = faults + 1 /\ faults' \in 0..MaxFaults /\ faults \in Nat
    BY FaultStep DEF IInv, RunLost
  <1>2. \A q \in Products : offered[q] <= faults' + 1
    <2> TAKE q \in Products
    <2>1. offered[q] \in Int /\ offered[q] <= faults + 1
      BY DEF IInv, TablesOK, Versions
    <2> QED  BY <1>1, <2>1
  <1>3. profile \in Profiles /\ profile <= faults' + 1 /\ profile <= profile
    BY <1>1 DEF IInv, TablesOK, Profiles
  <1>4. TablesOK'
    BY <1>1, <1>2, <1>3 DEF IInv, TablesOK, RunLost, tables
  <1>5. \A q \in Products : (Registered(q) => Registered(q)') /\ (Served(q)' => Served(q))
    BY SceneUnchanged DEF RunLost, tables
  <1>6. \A q \in Products : Catalog(q)'
    BY <1>3, <1>5, CatalogsKept DEF IInv, RunLost, tables
  <1> QED  BY <1>4, <1>6, IdleStep DEF IInv, RunLost
-----------------------------------------------------------------------------
(***************************************************************************)
(* Choosing, registering and mirroring a product.                          *)
(***************************************************************************)
LEMMA SeqOfMore ==
    ASSUME NEW S, NEW T, S \subseteq T, NEW seq \in Seq(S)
    PROVE  seq \in Seq(T)
  <1>1. Len(seq) \in Nat /\ seq \in [1..Len(seq) -> S]
    BY LenProperties
  <1>2. seq \in [1..Len(seq) -> T]
    BY <1>1
  <1> QED  BY <1>1, <1>2, SeqDef

LEMMA ListsOfAssets ==
    /\ SourceAssets \in Seq(Assets) /\ PreparedAssets \in Seq(Assets) /\ IndexAssets \in Seq(Assets)
  <1>1. /\ Elements(SourceAssets) \subseteq Assets /\ Elements(PreparedAssets) \subseteq Assets
        /\ Elements(IndexAssets) \subseteq Assets
    BY DEF Assets, Sources, Indices
  <1> QED  BY <1>1, AssetLists, SeqOfMore

LEMMA TailOfRun ==
    ASSUME RunOK, run.pc \in {"assets", "mirror", "mirrored", "prepare", "prepared", "object", "row", "layer"}
    PROVE  Tail(run.left) \in Seq(Assets)
  <1>1. run.left \in Seq(Assets)
    BY DEF RunOK, Runs
  <1>2. \E all : all \in Seq(Elements(all)) /\ NoRepeats(all) /\ RestOf(all, run.left)
    BY AssetLists DEF RunOK
  <1>3. run.left # <<>>
    BY <1>2, RestStep
  <1> QED  BY <1>1, <1>3, HeadTailProperties

LEMMA ServedIsComplete ==
    ASSUME TablesOK, NEW p \in Products, Catalog(p), Served(p)
    PROVE  _scene_is_complete(p)
  BY DEF Served, Catalog, ServedIsWhole, Whole, Current, Stored, _scene_is_complete, _complete_outputs

LEMMA VouchedIsComplete ==
    ASSUME TablesOK, NEW p \in Products, Catalog(p), service = "sentinel2",
           Newest(p, LastIndex) # NoObject
    PROVE  Registered(p) /\ _complete_outputs(p)
  <1>1. PICK v \in Profiles : raster[p][LastIndex][v] # NoObject
    BY NewestIsOfRow, NewestRow
  <1>2. Registered(p)
    BY <1>1, LastIndexType DEF Catalog, Lineage
  <1>3. Prepared = {}
    BY DEF Prepared
  <1>4. \A i \in Indices : Newest(p, i) # NoObject
    BY DEF Catalog, LastVouches, Current
  <1> QED  BY <1>2, <1>3, <1>4 DEF _complete_outputs

LEMMA CompleteIsWhole ==
    ASSUME TablesOK, NEW p \in Products, Catalog(p), service = "sentinel2", _complete_outputs(p)
    PROVE  Whole(p)
  <1>1. \A i \in Indices : Current(p, i)
    BY LastIndexType DEF Catalog, LastVouches, _complete_outputs
  <1> QED  BY <1>1 DEF Whole, Layered, Prepared

LEMMA BoundGrows ==
    ASSUME NEW n \in Int, NEW a \in Nat, NEW b \in Nat, n <= a + 1, a <= b
    PROVE  n <= b + 1
  OBVIOUS

\* Only the scene of a product is written, and what is served stays as it is.
LEMMA SceneStepInv ==
    ASSUME TablesOK, \A p \in Products : Catalog(p),
           NEW p \in Products, NEW row \in SceneRow, UpsertScene(p, row), row.item => Served(p),
           UNCHANGED <<service, offered, profile, asset, described, prepared, raster, layer, object, item>>,
           faults' \in 0..MaxFaults, faults <= faults'
    PROVE  TablesOK' /\ \A q \in Products : Catalog(q)'
  <1>1. /\ scene' \in [Products -> {NoScene} \cup SceneRow]
        /\ \A q \in Products : (Registered(q) => Registered(q)') /\ (Served(q)' => Served(q))
    BY SceneStep
  <1>2. profile' \in Profiles /\ profile <= profile'
    BY DEF TablesOK, Profiles
  <1>3. faults \in Nat /\ faults' \in Nat /\ profile <= faults' + 1
    <2>1. faults \in Nat /\ faults' \in Nat
      BY Constants DEF TablesOK
    <2>2. profile \in Int /\ profile <= faults + 1
      BY DEF TablesOK, Profiles
    <2> QED  BY <2>1, <2>2, BoundGrows
  <1>4. \A q \in Products : offered[q] <= faults' + 1
    <2> TAKE q \in Products
    <2>1. offered[q] \in Int /\ offered[q] <= faults + 1
      BY DEF TablesOK, Versions
    <2> QED  BY <1>3, <2>1
  <1>5. TablesOK'
    BY <1>1, <1>3, <1>4 DEF TablesOK
  <1> QED  BY <1>1, <1>2, <1>5, CatalogsKept

LEMMA PickItemStep ==
    ASSUME IInv, PickItem
    PROVE  IInv'
  <1>1. PICK p \in Products :
            Selected(p) /\ (SkipComplete(p) \/ OnlyPublish(p) \/ SkipItem(p) \/ TakeItem(p))
    BY DEF PickItem
  <1>2. /\ run.pc = "next" /\ Catalog(p)
        /\ UNCHANGED <<service, offered, profile, asset, described, prepared, raster, layer, object, item, faults>>
    BY DEF PickItem, IInv
  <1>3. faults \in Int /\ faults \in 0..MaxFaults /\ faults <= faults
    BY Constants DEF IInv, TablesOK
  <1>4. UNCHANGED scene => UNCHANGED <<service, offered, profile, tables, faults>>
    BY <1>2 DEF tables
  <1>5. CASE SkipComplete(p)
    <2>1. RunOK' /\ InHand'
      BY <1>2, <1>5, NextProductStep DEF SkipComplete, IInv
    <2>2. Registered(p) /\ Served(p)
      BY <1>5 DEF SkipComplete, _scene_is_complete, Served
    <2>3. CASE service = "sentinel2"
      <3>1. UpsertScene(p, [scene[p] EXCEPT !.state = "complete"])
        BY <1>5, <2>3 DEF SkipComplete
      <3>2. [scene[p] EXCEPT !.state = "complete"] \in SceneRow
        BY <2>2, RowOfRegistered DEF IInv
      <3> HIDE DEF UpsertScene
      <3>3. TablesOK' /\ \A q \in Products : Catalog(q)'
        BY <1>2, <1>3, <2>2, <3>1, <3>2, SceneStepInv DEF IInv
      <3> QED  BY <2>1, <3>3 DEF IInv
    <2>4. CASE service # "sentinel2"
      <3>1. UNCHANGED scene
        BY <1>5, <2>4 DEF SkipComplete
      <3> QED  BY <1>4, <2>1, <3>1, TablesKept DEF IInv
    <2> QED  BY <2>3, <2>4
  <1>6. CASE OnlyPublish(p)
    <2>1. RunOK' /\ run'.pc = "item" /\ run'.product = p
      <3>1. run'  = Take(p, "item", 0) /\ run.new + 0 <= MaxNewScenes /\ 0 \in 0..1
        BY <1>6, Constants DEF OnlyPublish, IInv, RunOK, Runs
      <3> QED  BY <1>2, <3>1, TakeStep DEF IInv
    <2>2. TablesOK' /\ \A q \in Products : Catalog(q)'
      BY <1>4, <1>6, TablesKept DEF IInv, OnlyPublish
    <2>3. Whole(p) /\ Registered(p) /\ ~Served(p)
      BY <1>2, <1>6, CompleteIsWhole DEF IInv, OnlyPublish, Served, _scene_is_complete
    <2>4. Whole(p)' /\ Registered(p)' /\ ~Served(p)'
      BY <1>2, <1>6, <2>3, ProductKept, SceneUnchanged DEF OnlyPublish
    <2>5. InHand'
      BY <2>1, <2>4 DEF InHand, Registration, Mirroring, Preparing, Indexing, Publishing
    <2> QED  BY <2>1, <2>2, <2>5 DEF IInv
  <1>7. CASE SkipItem(p)
    <2>1. RunOK' /\ InHand'
      BY <1>2, <1>7, NextProductStep DEF SkipItem, IInv
    <2> QED  BY <1>4, <1>7, <2>1, TablesKept DEF IInv, SkipItem
  <1>8. CASE TakeItem(p)
    <2> DEFINE new == IF CountsAsNew(p) THEN 1 ELSE 0
    <2>1. RunOK' /\ run'.pc = "register" /\ run'.product = p
      <3>1. run.new \in 0..MaxNewScenes
        BY DEF IInv, RunOK, Runs
      <3>2. CountsAsNew(p) => run.new < MaxNewScenes
        BY <1>8 DEF TakeItem, CountsAsNew
      <3>3. run' = Take(p, "register", new) /\ run.new + new <= MaxNewScenes /\ new \in 0..1
        BY <1>8, <3>1, <3>2, Constants DEF TakeItem
      <3> HIDE DEF new
      <3> QED  BY <1>2, <3>3, TakeStep DEF IInv
    <2>2. TablesOK' /\ \A q \in Products : Catalog(q)'
      BY <1>4, <1>8, TablesKept DEF IInv, TakeItem
    <2>3. ~_scene_is_complete(p) /\ (service = "sentinel2" => ~(Registered(p) /\ _complete_outputs(p)))
      BY <1>8 DEF TakeItem, NeedsProcessing
    <2>4. ~Served(p) /\ (service = "sentinel2" => Newest(p, LastIndex) = NoObject)
      BY <1>2, <2>3, ServedIsComplete, VouchedIsComplete DEF IInv
    <2>5. ~Served(p)' /\ (service' = "sentinel2" => Newest(p, LastIndex)' = NoObject)
      BY <1>2, <1>8, <2>4, ProductKept, SceneUnchanged DEF TakeItem
    <2>6. InHand'
      BY <2>1, <2>5 DEF InHand, Registration, Mirroring, Preparing, Indexing, Publishing
    <2> QED  BY <2>1, <2>2, <2>6 DEF IInv
  <1> QED  BY <1>1, <1>5, <1>6, <1>7, <1>8

LEMMA RegisterStep ==
    ASSUME IInv, _register_scene
    PROVE  IInv'
  <1>0. PICK p \in Products : p = run.product
    BY DEF _register_scene, IInv, RunOK, InProduct
  <1> DEFINE row == [state |-> "pending", item |-> FALSE]
  <1>1. /\ run.pc = "register" /\ p \in Products /\ UpsertScene(p, row)
        /\ run' = [run EXCEPT !.pc = "assets", !.left = SourceAssets, !.mine = TRUE]
        /\ UNCHANGED <<service, offered, profile, asset, described, prepared, raster, layer, object, item, faults>>
    BY <1>0 DEF _register_scene, IInv, RunOK, InProduct
  <1>2. row \in SceneRow /\ ~row.item
    BY DEF SceneRow
  <1>3. faults \in 0..MaxFaults /\ faults <= faults
    BY DEF IInv, TablesOK
  <1>4. /\ run' \in Runs /\ run'.pc = "assets" /\ run'.left = SourceAssets /\ run'.product = p
        /\ run'.items = run.items
    <2>1. run \in Runs
      BY DEF IInv, RunOK, Runs
    <2>2. "assets" \in {"idle", "search", "next"} \cup InProduct
      BY DEF InProduct
    <2>3. run' = [pc |-> "assets", mode |-> run.mode, items |-> run.items, todo |-> run.todo,
                  product |-> run.product,
                  left |-> SourceAssets, new |-> run.new, mine |-> TRUE]
      BY <1>0, <1>1, <2>1 DEF Runs
    <2> QED  BY <1>0, <2>1, <2>2, <2>3, ListsOfAssets DEF Runs
  <1> HIDE DEF row
  <1>5. /\ TablesOK' /\ \A q \in Products : Catalog(q)'
    BY <1>0, <1>1, <1>2, <1>3, SceneStepInv DEF IInv
  <1>6. Registered(p)' /\ ~Served(p)'
    BY <1>0, <1>1, <1>2, SceneStep DEF IInv
  <1>A. run.items \in [Products -> Versions]
    BY <1>1 DEF IInv, RunOK, InProduct
  <1>7. RunOK'
    BY <1>0, <1>1, <1>4, <1>A, WholeLists DEF RunOK, Runs
  <1>8. service' = "sentinel2" => Newest(p, LastIndex)' = NoObject
    BY <1>0, <1>1, ProductKept DEF IInv, InHand, Registration
  <1>9. InHand'
    BY <1>0, <1>4, <1>6, <1>8 DEF InHand, Registration, Mirroring, Preparing, Indexing, Publishing
  <1> QED  BY <1>0, <1>5, <1>7, <1>9 DEF IInv

\* The next source to mirror: those before it are mirrored.
LEMMA ToMirror ==
    ASSUME IInv, TablesOK', \A q \in Products : Catalog(q)', RunOK',
           NEW p \in Products, run'.product = p,
           Registered(p)', ~Served(p)',
           service' = "sentinel2" => Newest(p, LastIndex)' = NoObject,
           \/ run'.pc = "mirror" /\ \A a \in Sources \ Elements(run'.left) : asset'[p][a] # NoObject
           \/ run'.pc = "process" /\ Mirrored(p)'
    PROVE  IInv'
  <1>1. InHand'
    BY DEF InHand, Registration, Mirroring, Preparing, Indexing, Publishing
  <1> QED  BY <1>1 DEF IInv

LEMMA GotoRunOK ==
    ASSUME RunOK, run.pc \in InProduct, service' = service, NEW pc \in InProduct \ {"register"},
           NEW left \in Seq(Assets), Goto(pc, left),
           pc \in {"assets", "mirror", "mirrored"} => RestOf(SourceAssets, left),
           pc \in {"prepare", "prepared"} => service = "landsat" /\ RestOf(PreparedAssets, left),
           pc \in {"object", "row", "layer"} => RestOf(IndexAssets, left)
    PROVE  /\ RunOK'
           /\ run'.pc = pc /\ run'.left = left
           /\ run'.product = run.product /\ run'.mine = run.mine /\ run'.new = run.new
           /\ run'.product \in Products /\ run'.items = run.items
  <1>1. /\ run' \in Runs
        /\ run'.pc = pc /\ run'.left = left
        /\ run'.product = run.product /\ run'.mine = run.mine /\ run'.new = run.new
        /\ run'.items = run.items
    BY GotoStep
  <1>2. run'.product \in Products
    BY <1>1 DEF RunOK
  <1>3. pc \notin {"idle", "search", "next", "register"}
    BY DEF InProduct
  <1>4. run'.items \in [Products -> Versions]
    BY <1>1 DEF RunOK
  <1> QED  BY <1>1, <1>2, <1>3, <1>4 DEF RunOK

LEMMA RegisterAssetsStep ==
    ASSUME IInv, _register_assets
    PROVE  IInv'
  <1>0. PICK p \in Products : p = run.product
    BY DEF _register_assets, IInv, RunOK, InProduct
  <1>1. /\ run.pc = "assets" /\ p \in Products
        /\ UNCHANGED <<service, offered, profile, scene, asset, prepared, raster, layer, object, item, faults>>
        /\ described' = [described EXCEPT ![p][Head(run.left)] = run.items[p]]
        /\ RestOf(SourceAssets, run.left) /\ run.pc \in InProduct
    BY <1>0 DEF _register_assets, UpsertAsset, IInv, RunOK, InProduct
  <1>2. TablesOK' /\ \A q \in Products : Catalog(q)'
    <2>1. run.items[p] \in Versions
      BY <1>0, <1>1 DEF IInv, RunOK
    <2>2. described' \in [Products -> [Sources -> {NoObject} \cup Versions]]
      BY <1>1, <2>1 DEF IInv, TablesOK
    <2>3. TablesOK'
      BY <1>1, <2>2 DEF IInv, TablesOK
    <2>4. \A q \in Products : (Registered(q) => Registered(q)') /\ (Served(q)' => Served(q))
      BY <1>1, SceneUnchanged
    <2>5. profile' \in Profiles /\ profile <= profile'
      BY <1>1 DEF IInv, TablesOK, Profiles
    <2> QED  BY <1>1, <2>3, <2>4, <2>5, CatalogsKept DEF IInv
  <1>3. Tail(run.left) \in Seq(Assets) /\ SourceAssets \in Seq(Assets)
    BY <1>0, <1>1, TailOfRun, ListsOfAssets DEF IInv
  <1>4. /\ Registered(p)' /\ ~Served(p)'
        /\ service' = "sentinel2" => Newest(p, LastIndex)' = NoObject
    <2>1. /\ Registered(p) /\ ~Served(p)
          /\ service = "sentinel2" => Newest(p, LastIndex) = NoObject
      BY <1>0, <1>1 DEF IInv, InHand, Registration, InProduct
    <2>2. Newest(p, LastIndex)' = Newest(p, LastIndex)
      BY <1>0, <1>1, ProductKept
    <2> QED  BY <1>0, <1>1, <2>1, <2>2, SceneUnchanged
  <1>5. CASE Tail(run.left) # <<>>
    <2>1. Goto("assets", Tail(run.left)) /\ RestOf(SourceAssets, Tail(run.left))
      BY <1>0, <1>1, <1>5, SourceRest DEF _register_assets
    <2>2. RunOK' /\ run'.pc = "assets" /\ run'.product = p
      BY <1>0, <1>1, <1>3, <2>1, GotoRunOK DEF IInv, InProduct
    <2>3. InHand'
      BY <1>0, <1>4, <2>2 DEF InHand, Registration, Mirroring, Preparing, Indexing, Publishing
    <2> QED  BY <1>0, <1>2, <2>2, <2>3 DEF IInv
  <1>6. CASE Tail(run.left) = <<>> /\ run.mode = "metadata_only"
    <2>1. run' = NextProduct(p)
      BY <1>0, <1>6 DEF _register_assets
    <2> QED  BY <1>0, <1>1, <1>2, <2>1, NextProductStep DEF IInv
  <1>7. CASE Tail(run.left) = <<>> /\ run.mode # "metadata_only"
    <2>1. Goto("mirror", SourceAssets)
      BY <1>0, <1>7 DEF _register_assets
    <2>2. RunOK' /\ run'.pc = "mirror" /\ run'.product = p /\ run'.left = SourceAssets
      BY <1>0, <1>1, <1>3, <2>1, GotoRunOK, WholeLists DEF IInv, InProduct
    <2>3. \A a \in Sources \ Elements(run'.left) : asset'[p][a] # NoObject
      BY <1>0, <2>2, WholeLists
    <2> QED  BY <1>0, <1>1, <1>2, <1>4, <2>2, <2>3, ToMirror
  <1> QED  BY <1>0, <1>5, <1>6, <1>7

\* The source at the head of the loop is mirrored: on to the next one.
LEMMA AfterMirrorStep ==
    ASSUME IInv, run.pc \in {"mirror", "mirrored"}, AfterMirror,
           UNCHANGED <<service, scene, raster>>,
           TablesOK', \A q \in Products : Catalog(q)',
           \A a \in Sources \ Elements(run.left) : asset'[run.product][a] # NoObject,
           asset'[run.product][Head(run.left)] # NoObject
    PROVE  IInv'
  <1>0. PICK p \in Products : p = run.product
    BY DEF IInv, RunOK, InProduct
  <1>1. p \in Products /\ RestOf(SourceAssets, run.left) /\ run.pc \in InProduct
    BY <1>0 DEF IInv, RunOK, InProduct
  <1>2. Tail(run.left) \in Seq(Assets) /\ <<>> \in Seq(Assets)
    BY <1>0, <1>1, TailOfRun, EmptySeq DEF IInv
  <1>3. /\ Elements(run.left) = {Head(run.left)} \cup Elements(Tail(run.left))
        /\ Tail(run.left) # <<>> => RestOf(SourceAssets, Tail(run.left))
        /\ Tail(run.left) = <<>> => Elements(run.left) = {Head(run.left)}
    BY <1>0, <1>1, SourceRest
  <1>4. /\ Registered(p)' /\ ~Served(p)'
        /\ service' = "sentinel2" => Newest(p, LastIndex)' = NoObject
    <2>1. /\ Registered(p) /\ ~Served(p)
          /\ service = "sentinel2" => Newest(p, LastIndex) = NoObject
      BY <1>0, <1>1 DEF IInv, InHand, Registration, InProduct
    <2>2. Newest(p, LastIndex)' = Newest(p, LastIndex)
      BY <1>0, NewestIsOfRow
    <2> QED  BY <1>0, <1>1, <2>1, <2>2, SceneUnchanged
  <1>5. CASE Tail(run.left) # <<>>
    <2>1. Goto("mirror", Tail(run.left))
      BY <1>0, <1>5 DEF AfterMirror
    <2>2. RunOK' /\ run'.pc = "mirror" /\ run'.product = p /\ run'.left = Tail(run.left)
      <3>1. RestOf(SourceAssets, Tail(run.left)) /\ "mirror" \in InProduct \ {"register"} /\ RunOK
        BY <1>3, <1>5 DEF InProduct, IInv
      <3> QED  BY <1>0, <1>1, <1>2, <2>1, <3>1, GotoRunOK
    <2>3. \A a \in Sources \ Elements(run'.left) : asset'[p][a] # NoObject
      BY <1>0, <1>3, <2>2
    <2> QED  BY <1>0, <1>1, <1>4, <2>2, <2>3, ToMirror
  <1>6. CASE Tail(run.left) = <<>> /\ run.mode = "mirror_only"
    <2>1. run' = NextProduct(p)
      BY <1>0, <1>6 DEF AfterMirror
    <2> QED  BY <1>0, <1>1, <2>1, NextProductStep DEF IInv
  <1>7. CASE Tail(run.left) = <<>> /\ run.mode # "mirror_only"
    <2>1. Goto("process", <<>>)
      BY <1>0, <1>7 DEF AfterMirror
    <2>2. RunOK' /\ run'.pc = "process" /\ run'.product = p
      BY <1>0, <1>1, <1>2, <2>1, GotoRunOK DEF IInv, InProduct
    <2>3. Mirrored(p)'
      BY <1>0, <1>3, <1>7 DEF Mirrored
    <2> QED  BY <1>0, <1>1, <1>4, <2>2, <2>3, ToMirror
  <1> QED  BY <1>0, <1>5, <1>6, <1>7

LEMMA SkipMirroredStep ==
    ASSUME IInv, SkipMirrored
    PROVE  IInv'
  <1>1. /\ run.pc = "mirror" /\ AfterMirror /\ asset[run.product][Head(run.left)] # NoObject
        /\ UNCHANGED <<service, offered, profile, tables, faults>>
    BY DEF SkipMirrored
  <1>2. TablesOK' /\ \A q \in Products : Catalog(q)'
    BY <1>1, TablesKept DEF IInv
  <1>3. \A a \in Sources \ Elements(run.left) : asset'[run.product][a] # NoObject
    BY <1>1 DEF IInv, InHand, Mirroring, tables
  <1>4. asset'[run.product][Head(run.left)] # NoObject /\ UNCHANGED <<service, scene, raster>>
    BY <1>1 DEF tables
  <1> QED  BY <1>1, <1>2, <1>3, <1>4, AfterMirrorStep

\* An object of one product is written.
LEMMA ObjectStep ==
    ASSUME TablesOK, NEW p \in Products, NEW o \in Assets, NEW content, PutObject(p, o, content),
           content \in {NoObject} \cup Versions \cup Processed
    PROVE  /\ object' \in [Products -> [Assets -> {NoObject} \cup Versions \cup Processed]]
           /\ object'[p][o] = content
           /\ \A other \in Assets : other # o => object'[p][other] = object[p][other]
           /\ \A q \in Products : q # p => object'[q] = object[q]
  <1>1. object \in [Products -> [Assets -> {NoObject} \cup Versions \cup Processed]]
    BY DEF TablesOK
  <1>2. object' = [object EXCEPT ![p][o] = content]
    BY DEF PutObject
  <1> HIDE DEF Assets
  <1> QED  BY <1>1, <1>2

\* The other products keep their catalog when one product is written.
LEMMA OthersKept ==
    ASSUME TablesOK, \A q \in Products : Catalog(q), NEW p \in Products,
           UNCHANGED <<service, profile, scene>>,
           \A q \in Products : q # p =>
               /\ asset'[q] = asset[q] /\ prepared'[q] = prepared[q] /\ raster'[q] = raster[q]
               /\ layer'[q] = layer[q] /\ object'[q] = object[q] /\ item'[q] = item[q],
           Catalog(p)'
    PROVE  \A q \in Products : Catalog(q)'
  <1> SUFFICES ASSUME NEW q \in Products, q # p
               PROVE  Catalog(q)'
    OBVIOUS
  <1>1. profile \in Int /\ profile' \in Int /\ profile <= profile'
    BY DEF TablesOK, Profiles
  <1>2. (Registered(q) => Registered(q)') /\ (Served(q)' => Served(q))
    BY SceneUnchanged
  <1> QED  BY <1>1, <1>2, CatalogKept

LEMMA AssetKinds ==
    /\ \A a \in Sources : a \in Assets /\ a \notin Indices /\ a \notin Elements(PreparedAssets)
    /\ \A i \in Indices : i \in Assets /\ i \notin Sources /\ i \notin Elements(PreparedAssets)
    /\ \A k \in Elements(PreparedAssets) : k \in Assets /\ k \notin Sources /\ k \notin Indices
  BY Constants DEF Assets

LEMMA MirrorAssetStep ==
    ASSUME IInv, mirror_asset
    PROVE  IInv'
  <1>0. PICK p \in Products : p = run.product
    BY DEF mirror_asset, IInv, RunOK, InProduct
  <1> DEFINE h == Head(run.left)
  <1>1. /\ run.pc = "mirror" /\ p \in Products /\ run.pc \in InProduct
        /\ RestOf(SourceAssets, run.left) /\ run.left \in Seq(Assets)
        /\ asset[p][h] = NoObject
        /\ Goto("mirrored", run.left)
        /\ UNCHANGED <<service, offered, profile, scene, asset, described, prepared, raster, layer, item, faults>>
    BY <1>0 DEF mirror_asset, IInv, RunOK, Runs, InProduct
  <1>A. PICK version \in {run.items[p], offered[p]} : PutObject(p, h, version)
    BY <1>0 DEF mirror_asset
  <1>2. h \in Sources /\ h \in Assets /\ version \in Versions
    BY <1>0, <1>1, SourceRest, AssetKinds DEF IInv, TablesOK, RunOK
  <1> HIDE DEF h
  <1>3. /\ object' \in [Products -> [Assets -> {NoObject} \cup Versions \cup Processed]]
        /\ object'[p][h] = version
        /\ \A other \in Assets : other # h => object'[p][other] = object[p][other]
        /\ \A q \in Products : q # p => object'[q] = object[q]
    BY <1>0, <1>1, <1>2, <1>A, ObjectStep DEF IInv
  <1>4. TablesOK'
    BY <1>0, <1>1, <1>3 DEF IInv, TablesOK
  <1>5. /\ Registered(p) /\ ~Served(p) /\ Catalog(p)
        /\ service = "sentinel2" => Newest(p, LastIndex) = NoObject
    BY <1>0, <1>1 DEF IInv, InHand, Registration, InProduct
  <1>6. \A i : Newest(p, i)' = Newest(p, i)
    BY <1>0, <1>1, NewestIsOfRow
  <1>7. Registered(p)' /\ ~Served(p)'
    BY <1>0, <1>1, <1>5, SceneUnchanged
  <1>8. Catalog(p)'
    <2>1. Lineage(p)'
      <3>1. \A a \in Sources : asset[p][a] # NoObject => object'[p][a] = asset[p][a]
        BY <1>0, <1>1, <1>3, <1>5, AssetKinds DEF Catalog, Lineage
      <3> QED  BY <1>0, <1>1, <1>5, <1>7, <3>1 DEF Catalog, Lineage
    <2>2. LastVouches(p)'
      BY <1>0, <1>1, <1>5, <1>6 DEF LastVouches
    <2>3. ServedIsWhole(p)'
      BY <1>0, <1>7 DEF ServedIsWhole
    <2> QED  BY <1>0, <2>1, <2>2, <2>3 DEF Catalog
  <1>9. \A q \in Products : Catalog(q)'
    BY <1>0, <1>1, <1>3, <1>8, OthersKept DEF IInv
  <1>10. /\ RunOK' /\ run'.pc = "mirrored" /\ run'.left = run.left /\ run'.product = p
    BY <1>0, <1>1, GotoRunOK DEF IInv, InProduct
  <1>11. InHand'
    <2>1. Registration'
      BY <1>0, <1>1, <1>5, <1>6, <1>7, <1>10 DEF Registration
    <2>2. Mirroring'
      BY <1>0, <1>1, <1>2, <1>3, <1>10 DEF IInv, InHand, Mirroring, h
    <2> QED  BY <1>0, <1>10, <2>1, <2>2 DEF InHand, Preparing, Indexing, Publishing
  <1> QED  BY <1>0, <1>4, <1>9, <1>10, <1>11 DEF IInv

LEMMA RecordMirrorStep ==
    ASSUME IInv, RecordMirror
    PROVE  IInv'
  <1>0. PICK p \in Products : p = run.product
    BY DEF RecordMirror, IInv, RunOK, InProduct
  <1> DEFINE h == Head(run.left)
  <1>1. /\ run.pc = "mirrored" /\ p \in Products /\ run.pc \in InProduct
        /\ RestOf(SourceAssets, run.left)
        /\ asset' = [asset EXCEPT ![p][h] = object[p][h]]
        /\ AfterMirror
        /\ UNCHANGED <<service, offered, profile, scene, described, prepared, raster, layer, object, item, faults>>
    BY <1>0 DEF RecordMirror, UpdateMirror, IInv, RunOK, InProduct
  <1>2. h \in Sources /\ asset[p][h] = NoObject /\ object[p][h] \in Versions
    BY <1>0, <1>1, SourceRest DEF IInv, InHand, Mirroring
  <1>3. asset \in [Products -> [Sources -> {NoObject} \cup Versions]]
    BY DEF IInv, TablesOK
  <1>4. \A a \in Sources \ Elements(run.left) : asset[p][a] # NoObject
    BY <1>0, <1>1 DEF IInv, InHand, Mirroring
  <1> HIDE DEF h
  <1>5. /\ asset' \in [Products -> [Sources -> {NoObject} \cup Versions]]
        /\ asset'[p][h] = object[p][h] /\ object[p][h] # NoObject
        /\ \A a \in Sources : a # h => asset'[p][a] = asset[p][a]
        /\ \A q \in Products : q # p => asset'[q] = asset[q]
    BY <1>0, <1>1, <1>2, <1>3, Constants
  <1>6. TablesOK'
    BY <1>0, <1>1, <1>5 DEF IInv, TablesOK
  <1>7. /\ Registered(p) /\ ~Served(p) /\ Catalog(p)
        /\ service = "sentinel2" => Newest(p, LastIndex) = NoObject
    BY <1>0, <1>1 DEF IInv, InHand, Registration, InProduct
  <1>8. \A i : Newest(p, i)' = Newest(p, i)
    BY <1>0, <1>1, NewestIsOfRow
  \* Nothing was made of the product before all its sources were mirrored.
  <1>9. \A x \in Processed : x.from # asset[p]
    <2>1. \A x \in Processed : x.from[h] \in Versions
      BY <1>0, <1>2 DEF Processed
    <2> QED  BY <1>0, <1>2, <2>1, Constants
  <1>10. \A i \in Indices, v \in Profiles : raster[p][i][v] = NoObject
    BY <1>0, <1>7, <1>9 DEF IInv, TablesOK, Catalog, Lineage
  <1>11. \A k \in Elements(PreparedAssets) : prepared[p][k] = NoObject
    BY <1>0, <1>7, <1>9 DEF IInv, TablesOK, Catalog, Lineage
  <1>12. Catalog(p)'
    <2>1. Lineage(p)'
      <3>1. \A a \in Sources : asset'[p][a] # NoObject => object[p][a] = asset'[p][a]
        BY <1>0, <1>5, <1>7 DEF Catalog, Lineage
      <3> QED  BY <1>0, <1>1, <1>10, <1>11, <3>1 DEF Lineage
    <2>2. LastVouches(p)'
      BY <1>0, <1>1, <1>7, <1>8 DEF LastVouches
    <2>3. ServedIsWhole(p)'
      BY <1>0, <1>1, <1>7, SceneUnchanged DEF ServedIsWhole
    <2> QED  BY <1>0, <2>1, <2>2, <2>3 DEF Catalog
  <1>13. \A q \in Products : Catalog(q)'
    BY <1>0, <1>1, <1>5, <1>12, OthersKept DEF IInv
  <1>14. /\ \A a \in Sources \ Elements(run.left) : asset'[p][a] # NoObject
         /\ asset'[p][Head(run.left)] # NoObject
    BY <1>0, <1>4, <1>5 DEF h
  <1> QED  BY <1>0, <1>1, <1>6, <1>13, <1>14, AfterMirrorStep
-----------------------------------------------------------------------------
(***************************************************************************)
(* Processing a product.                                                   *)
(***************************************************************************)
\* With all sources mirrored, what is made now is made from what is mirrored.
LEMMA ProcessedFromMirrored ==
    ASSUME TablesOK, RunOK, NEW p \in Products, Lineage(p), Mirrored(p)
    PROVE  ProcessedFrom(p) \in Processed /\ ProcessedFrom(p).from = asset[p]
  <1>1. asset[p] \in [Sources -> {NoObject} \cup Versions]
    BY DEF TablesOK
  <1>2. \A a \in Sources : object[p][a] = asset[p][a] /\ object[p][a] \in Versions
    BY <1>1 DEF Lineage, Mirrored
  <1>3. [a \in Sources |-> object[p][a]] \in [Sources -> Versions]
        /\ [a \in Sources |-> object[p][a]] = asset[p]
    BY <1>1, <1>2
  <1>4. profile \in Profiles
    BY DEF TablesOK
  <1>5. (IF service = "sentinel2" THEN run.items[p] ELSE 0) \in Calibrations
    BY Constants DEF RunOK, Runs, Calibrations
  <1> QED  BY <1>3, <1>4, <1>5 DEF ProcessedFrom, Processed

LEMMA OutputIsObject ==
    ASSUME NEW p, NEW o, Output(p, o)
    PROVE  object[p][o] # NoObject
  BY Constants DEF Output

LEMMA BeginProcessingStep ==
    ASSUME IInv, BeginProcessing
    PROVE  IInv'
  <1>0. PICK p \in Products : p = run.product
    BY DEF BeginProcessing, IInv, RunOK, InProduct
  <1>1. /\ run.pc = "process" /\ run.pc \in InProduct
        /\ UNCHANGED <<service, offered, profile, asset, described, prepared, raster, layer, object, item, faults>>
    BY DEF BeginProcessing, InProduct
  <1>2. /\ Registered(p) /\ ~Served(p) /\ Mirrored(p)
        /\ service = "sentinel2" => Newest(p, LastIndex) = NoObject
    BY <1>0, <1>1 DEF IInv, InHand, Registration, Mirroring
  <1>3. /\ Newest(p, LastIndex)' = Newest(p, LastIndex)
        /\ Mirrored(p)'
    BY <1>1, <1>2, ProductKept
  <1>4. faults \in 0..MaxFaults /\ faults <= faults
    BY DEF IInv, TablesOK
  <1>5. CASE service = "sentinel2"
    <2>1. /\ UpsertScene(p, [scene[p] EXCEPT !.state = "processing"])
          /\ Goto("object", IndexAssets)
      BY <1>0, <1>5 DEF BeginProcessing
    <2>2. /\ [scene[p] EXCEPT !.state = "processing"] \in SceneRow
          /\ ~[scene[p] EXCEPT !.state = "processing"].item
      BY <1>2, RowOfRegistered DEF IInv, Served
    <2> HIDE DEF UpsertScene
    <2>3. TablesOK' /\ \A q \in Products : Catalog(q)'
      BY <1>1, <1>4, <2>1, <2>2, SceneStepInv DEF IInv
    <2>4. Registered(p)' /\ ~Served(p)'
      BY <2>1, <2>2, SceneStep DEF IInv
    <2>5. RunOK' /\ run'.pc = "object" /\ run'.left = IndexAssets /\ run'.product = p
      <3>1. "object" \in InProduct \ {"register"} /\ RunOK
        BY DEF InProduct, IInv
      <3> QED  BY <1>0, <1>1, <2>1, <3>1, GotoRunOK, ListsOfAssets, WholeLists
    <2>6. Indices \ Elements(run'.left) = {}
      BY <2>5, WholeLists
    <2>7. Prepared' = {}
      BY <1>1, <1>5 DEF Prepared
    <2>8. InHand'
      BY <1>1, <1>2, <1>3, <1>5, <2>4, <2>5, <2>6, <2>7
         DEF InHand, Registration, Mirroring, Preparing, Indexing, Publishing
    <2> QED  BY <2>3, <2>5, <2>8 DEF IInv
  <1>6. CASE service # "sentinel2"
    <2>1. UNCHANGED scene /\ Goto("prepare", PreparedAssets) /\ service = "landsat"
      BY <1>6 DEF BeginProcessing, IInv, TablesOK
    <2>2. TablesOK' /\ \A q \in Products : Catalog(q)'
      BY <1>1, <2>1, TablesKept DEF IInv, tables
    <2>3. Registered(p)' /\ ~Served(p)'
      BY <1>2, <2>1, SceneUnchanged
    <2>4. RunOK' /\ run'.pc = "prepare" /\ run'.left = PreparedAssets /\ run'.product = p
      <3>1. "prepare" \in InProduct \ {"register"} /\ RunOK
        BY DEF InProduct, IInv
      <3> QED  BY <1>0, <1>1, <2>1, <3>1, GotoRunOK, ListsOfAssets, WholeLists
    <2>5. InHand'
      BY <1>1, <1>2, <1>3, <1>6, <2>3, <2>4
         DEF InHand, Registration, Mirroring, Preparing, Indexing, Publishing
    <2> QED  BY <2>2, <2>4, <2>5 DEF IInv
  <1> QED  BY <1>5, <1>6

LEMMA PutPreparedStep ==
    ASSUME IInv, PutPrepared
    PROVE  IInv'
  <1>0. PICK p \in Products, h \in Elements(PreparedAssets) : p = run.product /\ h = Head(run.left)
    BY PreparedRest DEF PutPrepared, IInv, RunOK, InProduct
  <1>1. /\ run.pc = "prepare" /\ run.pc \in InProduct /\ service = "landsat"
        /\ RestOf(PreparedAssets, run.left) /\ run.left \in Seq(Assets)
        /\ PutObject(p, h, ProcessedFrom(p)) /\ Goto("prepared", run.left)
        /\ UNCHANGED <<service, offered, profile, scene, asset, described, prepared, raster, layer, item, faults>>
    BY <1>0 DEF PutPrepared, IInv, RunOK, Runs, InProduct
  <1>2. /\ Registered(p) /\ ~Served(p) /\ Mirrored(p) /\ Catalog(p) /\ Lineage(p)
        /\ \A k \in Elements(PreparedAssets) \ Elements(run.left) : Stored(p, k)
    BY <1>0, <1>1 DEF IInv, InHand, Registration, Mirroring, Preparing, Catalog
  <1>3. /\ h \in Elements(PreparedAssets) /\ h \in Elements(run.left) /\ h \in Assets
        /\ ProcessedFrom(p) \in Processed /\ ProcessedFrom(p).from = asset[p]
    BY <1>0, <1>1, <1>2, PreparedRest, AssetKinds, ProcessedFromMirrored DEF IInv
  <1>4. /\ object' \in [Products -> [Assets -> {NoObject} \cup Versions \cup Processed]]
        /\ object'[p][h] = ProcessedFrom(p)
        /\ \A other \in Assets : other # h => object'[p][other] = object[p][other]
        /\ \A q \in Products : q # p => object'[q] = object[q]
    BY <1>1, <1>3, ObjectStep DEF IInv
  <1>5. TablesOK'
    BY <1>1, <1>4 DEF IInv, TablesOK
  <1>6. \A i : Newest(p, i)' = Newest(p, i)
    BY <1>1, NewestIsOfRow
  <1>7. Registered(p)' /\ ~Served(p)'
    BY <1>1, <1>2, SceneUnchanged
  <1>8. Catalog(p)'
    <2>1. Lineage(p)'
      <3>1. \A a \in Sources : asset[p][a] # NoObject => object'[p][a] = asset[p][a]
        BY <1>2, <1>3, <1>4, AssetKinds DEF Lineage
      <3> QED  BY <1>1, <1>2, <1>7, <3>1 DEF Lineage
    <2>2. LastVouches(p)'
      BY <1>1 DEF LastVouches
    <2>3. ServedIsWhole(p)'
      BY <1>7 DEF ServedIsWhole
    <2> QED  BY <2>1, <2>2, <2>3 DEF Catalog
  <1>9. \A q \in Products : Catalog(q)'
    BY <1>1, <1>4, <1>8, OthersKept DEF IInv
  <1>10. RunOK' /\ run'.pc = "prepared" /\ run'.left = run.left /\ run'.product = p
    <2>1. "prepared" \in InProduct \ {"register"} /\ RunOK
      BY DEF InProduct, IInv
    <2> QED  BY <1>0, <1>1, <2>1, GotoRunOK
  <1>11. InHand'
    <2>1. Registration'
      BY <1>1, <1>7, <1>10 DEF Registration
    <2>2. Mirroring'
      BY <1>1, <1>2, <1>10 DEF Mirroring, Mirrored
    <2>3. \A k \in Elements(PreparedAssets) \ Elements(run.left) : Stored(p, k)'
      BY <1>1, <1>2, <1>3, <1>4, AssetKinds DEF Stored
    <2>4. Output(p, h)'
      <3>1. object'[p][h] \in Processed /\ object'[p][h].from = asset'[p]
        BY <1>1, <1>3, <1>4
      <3> QED  BY <3>1 DEF Output
    <2>5. Preparing'
      BY <1>0, <1>10, <2>3, <2>4 DEF Preparing
    <2> QED  BY <1>10, <2>1, <2>2, <2>5 DEF InHand, Indexing, Publishing
  <1> QED  BY <1>5, <1>9, <1>10, <1>11 DEF IInv

LEMMA StorePreparedStep ==
    ASSUME IInv, _store_prepared_asset
    PROVE  IInv'
  <1>0. PICK p \in Products, h \in Elements(PreparedAssets) : p = run.product /\ h = Head(run.left)
    BY PreparedRest DEF _store_prepared_asset, IInv, RunOK, InProduct
  <1>1. /\ run.pc = "prepared" /\ run.pc \in InProduct /\ service = "landsat"
        /\ RestOf(PreparedAssets, run.left)
        /\ prepared' = [prepared EXCEPT ![p][h] = object[p][h]]
        /\ IF Tail(run.left) = <<>> THEN Goto("object", IndexAssets)
           ELSE Goto("prepare", Tail(run.left))
        /\ UNCHANGED <<service, offered, profile, scene, asset, described, raster, layer, object, item, faults>>
    BY <1>0 DEF _store_prepared_asset, IInv, RunOK, InProduct
  <1>2. /\ Registered(p) /\ ~Served(p) /\ Mirrored(p) /\ Catalog(p) /\ Lineage(p)
        /\ \A k \in Elements(PreparedAssets) \ Elements(run.left) : Stored(p, k)
        /\ Output(p, h)
    BY <1>0, <1>1 DEF IInv, InHand, Registration, Mirroring, Preparing, Catalog
  <1>3. /\ Elements(run.left) = {h} \cup Elements(Tail(run.left))
        /\ Tail(run.left) # <<>> => RestOf(PreparedAssets, Tail(run.left))
        /\ Tail(run.left) = <<>> => Elements(run.left) = {h}
    BY <1>0, <1>1, PreparedRest
  <1>4. prepared \in [Products -> [Elements(PreparedAssets) -> {NoObject} \cup Processed]]
    BY DEF IInv, TablesOK
  <1>5. object[p][h] \in Processed /\ object[p][h].from = asset[p] /\ object[p][h] # NoObject
    BY <1>2, OutputIsObject DEF Output
  <1>6. /\ prepared' \in [Products -> [Elements(PreparedAssets) -> {NoObject} \cup Processed]]
        /\ prepared'[p][h] = object[p][h]
        /\ \A k \in Elements(PreparedAssets) : k # h => prepared'[p][k] = prepared[p][k]
        /\ \A q \in Products : q # p => prepared'[q] = prepared[q]
    BY <1>1, <1>4, <1>5
  <1>7. TablesOK'
    BY <1>1, <1>6 DEF IInv, TablesOK
  <1>8. Registered(p)' /\ ~Served(p)' /\ Mirrored(p)'
    BY <1>1, <1>2, SceneUnchanged DEF Mirrored
  <1>9. Catalog(p)'
    <2>1. Lineage(p)'
      <3>1. \A k \in Elements(PreparedAssets) : prepared'[p][k] # NoObject => prepared'[p][k].from = asset[p]
        BY <1>2, <1>5, <1>6 DEF Lineage
      <3> QED  BY <1>1, <1>2, <1>8, <3>1 DEF Lineage
    <2>2. LastVouches(p)'
      BY <1>1 DEF LastVouches
    <2>3. ServedIsWhole(p)'
      BY <1>8 DEF ServedIsWhole
    <2> QED  BY <2>1, <2>2, <2>3 DEF Catalog
  <1>10. \A q \in Products : Catalog(q)'
    BY <1>1, <1>6, <1>9, OthersKept DEF IInv
  <1>11. \A k \in Elements(PreparedAssets) \ Elements(Tail(run.left)) : Stored(p, k)'
    <2> TAKE k \in Elements(PreparedAssets) \ Elements(Tail(run.left))
    <2>1. CASE k = h
      BY <1>1, <1>5, <1>6, <2>1 DEF Stored
    <2>2. CASE k # h
      <3>1. Stored(p, k)
        BY <1>2, <1>3, <2>2
      <3> QED  BY <1>1, <1>6, <2>2, <3>1 DEF Stored
    <2> QED  BY <2>1, <2>2
  <1>12. CASE Tail(run.left) = <<>>
    <2>1. RunOK' /\ run'.pc = "object" /\ run'.left = IndexAssets /\ run'.product = p
      <3>1. "object" \in InProduct \ {"register"} /\ RunOK /\ Goto("object", IndexAssets)
        BY <1>1, <1>12 DEF InProduct, IInv
      <3> QED  BY <1>0, <1>1, <3>1, GotoRunOK, ListsOfAssets, WholeLists
    <2>2. Indices \ Elements(run'.left) = {} /\ Prepared' = Elements(PreparedAssets)
      BY <1>1, <2>1, WholeLists DEF Prepared
    <2>3. \A k \in Elements(PreparedAssets) : Stored(p, k)'
      <3>1. \A k \in Elements(PreparedAssets) : k # h => Stored(p, k)
        BY <1>2, <1>3, <1>12
      <3> TAKE k \in Elements(PreparedAssets)
      <3>2. CASE k = h
        BY <1>1, <1>5, <1>6, <3>2 DEF Stored
      <3>3. CASE k # h
        BY <1>1, <1>6, <3>1, <3>3 DEF Stored
      <3> QED  BY <3>2, <3>3
    <2>4. InHand'
      BY <1>1, <1>8, <2>1, <2>2, <2>3
         DEF InHand, Registration, Mirroring, Preparing, Indexing, Publishing
    <2> QED  BY <1>7, <1>10, <2>1, <2>4 DEF IInv
  <1>13. CASE Tail(run.left) # <<>>
    <2>1. RunOK' /\ run'.pc = "prepare" /\ run'.left = Tail(run.left) /\ run'.product = p
      <3>1. "prepare" \in InProduct \ {"register"} /\ RunOK /\ Goto("prepare", Tail(run.left))
        BY <1>1, <1>13 DEF InProduct, IInv
      <3>2. Tail(run.left) \in Seq(Assets) /\ RestOf(PreparedAssets, Tail(run.left))
        BY <1>1, <1>3, <1>13, <3>1, TailOfRun
      <3> QED  BY <1>0, <1>1, <3>1, <3>2, GotoRunOK
    <2>2. InHand'
      BY <1>1, <1>8, <1>11, <2>1
         DEF InHand, Registration, Mirroring, Preparing, Indexing, Publishing
    <2> QED  BY <1>7, <1>10, <2>1, <2>2 DEF IInv
  <1> QED  BY <1>12, <1>13

LEMMA PutDerivedStep ==
    ASSUME IInv, put_derived_cog
    PROVE  IInv'
  <1>0. PICK p \in Products, h \in Indices : p = run.product /\ h = Head(run.left)
    BY IndexRest DEF put_derived_cog, IInv, RunOK, InProduct
  <1>1. /\ run.pc = "object" /\ run.pc \in InProduct
        /\ RestOf(IndexAssets, run.left) /\ run.left \in Seq(Assets)
        /\ PutObject(p, h, ProcessedFrom(p))
        /\ IF service = "landsat" THEN Goto("row", run.left)
           ELSE IF Tail(run.left) = <<>> THEN Goto("row", IndexAssets)
           ELSE Goto("object", Tail(run.left))
        /\ UNCHANGED <<service, offered, profile, scene, asset, described, prepared, raster, layer, item, faults>>
    BY <1>0 DEF put_derived_cog, IInv, RunOK, Runs, InProduct
  <1>2. /\ Registered(p) /\ ~Served(p) /\ Mirrored(p) /\ Catalog(p) /\ Lineage(p)
        /\ service = "sentinel2" => Newest(p, LastIndex) = NoObject
        /\ \A k \in Prepared : Stored(p, k)
        /\ service = "landsat" => \A i \in Indices \ Elements(run.left) : Current(p, i) /\ Layered(p, i)
        /\ service = "sentinel2" => \A i \in Indices \ Elements(run.left) : Output(p, i)
    BY <1>0, <1>1 DEF IInv, InHand, Registration, Mirroring, Preparing, Indexing, Catalog
  <1>3. /\ h \in Elements(run.left) /\ h \in Assets
        /\ Elements(run.left) = {h} \cup Elements(Tail(run.left))
        /\ Tail(run.left) # <<>> => RestOf(IndexAssets, Tail(run.left))
        /\ Tail(run.left) = <<>> => Elements(run.left) = {h}
    BY <1>0, <1>1, IndexRest, AssetKinds
  <1>4. ProcessedFrom(p) \in Processed /\ ProcessedFrom(p).from = asset[p]
    BY <1>2, ProcessedFromMirrored DEF IInv
  <1>5. /\ object' \in [Products -> [Assets -> {NoObject} \cup Versions \cup Processed]]
        /\ object'[p][h] = ProcessedFrom(p)
        /\ \A other \in Assets : other # h => object'[p][other] = object[p][other]
        /\ \A q \in Products : q # p => object'[q] = object[q]
    BY <1>1, <1>3, <1>4, ObjectStep DEF IInv
  <1>6. TablesOK'
    BY <1>1, <1>5 DEF IInv, TablesOK
  <1>7. \A i : Newest(p, i)' = Newest(p, i)
    BY <1>1, NewestIsOfRow
  <1>8. Registered(p)' /\ ~Served(p)' /\ Mirrored(p)'
    BY <1>1, <1>2, SceneUnchanged DEF Mirrored
  <1>9. Catalog(p)'
    <2>1. Lineage(p)'
      <3>1. \A a \in Sources : asset[p][a] # NoObject => object'[p][a] = asset[p][a]
        BY <1>2, <1>3, <1>5, AssetKinds DEF Lineage
      <3> QED  BY <1>1, <1>2, <1>8, <3>1 DEF Lineage
    <2>2. LastVouches(p)'
      BY <1>1, <1>2, <1>7 DEF LastVouches
    <2>3. ServedIsWhole(p)'
      BY <1>8 DEF ServedIsWhole
    <2> QED  BY <2>1, <2>2, <2>3 DEF Catalog
  <1>10. \A q \in Products : Catalog(q)'
    BY <1>1, <1>5, <1>9, OthersKept DEF IInv
  <1>11. Output(p, h)'
    <2>1. object'[p][h] \in Processed /\ object'[p][h].from = asset'[p]
      BY <1>1, <1>4, <1>5
    <2> QED  BY <2>1 DEF Output
  <1>12. \A k \in Prepared' : Stored(p, k)'
    <2>1. Prepared' = Prepared /\ Prepared \subseteq Elements(PreparedAssets)
      BY <1>1 DEF Prepared
    <2> QED  BY <1>1, <1>2, <1>3, <1>5, <2>1, AssetKinds DEF Stored
  <1>13. CASE service = "landsat"
    <2>1. RunOK' /\ run'.pc = "row" /\ run'.left = run.left /\ run'.product = p
      <3>1. "row" \in InProduct \ {"register"} /\ RunOK /\ Goto("row", run.left)
        BY <1>1, <1>13 DEF InProduct, IInv
      <3> QED  BY <1>0, <1>1, <3>1, GotoRunOK
    <2>2. \A i \in Indices \ Elements(run.left) : Current(p, i)' /\ Layered(p, i)'
      <3> TAKE i \in Indices \ Elements(run.left)
      <3>1. Current(p, i) /\ Layered(p, i) /\ i # h /\ i \in Assets
        BY <1>2, <1>3, <1>13, AssetKinds
      <3> QED  BY <1>1, <1>5, <1>7, <3>1 DEF Current, Layered
    <2>3. InHand'
      BY <1>0, <1>1, <1>8, <1>11, <1>12, <1>13, <2>1, <2>2
         DEF InHand, Registration, Mirroring, Preparing, Indexing, Publishing
    <2> QED  BY <1>6, <1>10, <2>1, <2>3 DEF IInv
  <1>14. ASSUME service # "landsat"
         PROVE  /\ \A i \in Indices \ Elements(Tail(run.left)) : Output(p, i)'
                /\ service = "sentinel2"
    <2>1. service = "sentinel2"
      BY <1>14 DEF IInv, TablesOK
    <2> SUFFICES ASSUME NEW i \in Indices \ Elements(Tail(run.left)), i # h
                 PROVE  Output(p, i)'
      BY <1>11, <2>1
    <2>2. Output(p, i) /\ i \in Assets
      BY <1>2, <1>3, <2>1, AssetKinds
    <2> QED  BY <1>1, <1>5, <2>2 DEF Output
  <1>15. CASE service # "landsat" /\ Tail(run.left) = <<>>
    <2>1. RunOK' /\ run'.pc = "row" /\ run'.left = IndexAssets /\ run'.product = p
      <3>1. "row" \in InProduct \ {"register"} /\ RunOK /\ Goto("row", IndexAssets)
        BY <1>1, <1>15 DEF InProduct, IInv
      <3> QED  BY <1>0, <1>1, <3>1, GotoRunOK, ListsOfAssets, WholeLists
    <2>2. \A i \in Indices : Output(p, i)'
      <3> TAKE i \in Indices
      <3>1. CASE i = h
        BY <1>11, <3>1
      <3>2. CASE i # h
        <4>1. Output(p, i) /\ i \in Assets
          BY <1>2, <1>3, <1>14, <1>15, <3>2, AssetKinds
        <4> QED  BY <1>1, <1>5, <3>2, <4>1 DEF Output
      <3> QED  BY <3>1, <3>2
    <2>3. Indices \ Elements(run'.left) = {} /\ Head(run'.left) \in Indices
      BY <2>1, WholeLists, IndexRest
    <2>4. InHand'
      BY <1>1, <1>2, <1>7, <1>8, <1>12, <1>15, <2>1, <2>2, <2>3
         DEF InHand, Registration, Mirroring, Preparing, Indexing, Publishing
    <2> QED  BY <1>6, <1>10, <2>1, <2>4 DEF IInv
  <1>16. CASE service # "landsat" /\ Tail(run.left) # <<>>
    <2>1. RunOK' /\ run'.pc = "object" /\ run'.left = Tail(run.left) /\ run'.product = p
      <3>1. "object" \in InProduct \ {"register"} /\ RunOK /\ Goto("object", Tail(run.left))
        BY <1>1, <1>16 DEF InProduct, IInv
      <3>2. Tail(run.left) \in Seq(Assets) /\ RestOf(IndexAssets, Tail(run.left))
        BY <1>1, <1>3, <1>16, <3>1, TailOfRun
      <3> QED  BY <1>0, <1>1, <3>1, <3>2, GotoRunOK
    <2>2. InHand'
      BY <1>1, <1>2, <1>7, <1>8, <1>12, <1>14, <1>16, <2>1
         DEF InHand, Registration, Mirroring, Preparing, Indexing, Publishing
    <2> QED  BY <1>6, <1>10, <2>1, <2>2 DEF IInv
  <1> QED  BY <1>13, <1>15, <1>16

LEMMA UpsertIndexStep ==
    ASSUME IInv, upsert_derived_index
    PROVE  IInv'
  <1>0. PICK p \in Products, h \in Indices : p = run.product /\ h = Head(run.left)
    BY IndexRest DEF upsert_derived_index, IInv, RunOK, InProduct
  <1>1. /\ run.pc = "row" /\ run.pc \in InProduct
        /\ RestOf(IndexAssets, run.left) /\ run.left \in Seq(Assets)
        /\ raster' = [raster EXCEPT ![p][h][profile] = object[p][h]]
        /\ Goto("layer", run.left)
        /\ UNCHANGED <<service, offered, profile, scene, asset, described, prepared, layer, object, item, faults>>
    BY <1>0 DEF upsert_derived_index, IInv, RunOK, Runs, InProduct
  <1>2. /\ Registered(p) /\ ~Served(p) /\ Mirrored(p) /\ Catalog(p) /\ Lineage(p)
        /\ service = "sentinel2" => Newest(p, LastIndex) = NoObject
        /\ \A k \in Prepared : Stored(p, k)
        /\ \A i \in Indices \ Elements(run.left) : Current(p, i) /\ Layered(p, i)
        /\ service = "sentinel2" => \A i \in Indices : Output(p, i)
        /\ Output(p, h)
    BY <1>0, <1>1 DEF IInv, InHand, Registration, Mirroring, Preparing, Indexing, Catalog
  <1>3. /\ h \in Elements(run.left)
        /\ h = LastIndex <=> Tail(run.left) = <<>>
        /\ Tail(run.left) = <<>> => Elements(run.left) = {h}
    BY <1>0, <1>1, IndexRest
  <1>4. object[p][h] \in Processed /\ object[p][h].from = asset[p] /\ object[p][h] # NoObject
    BY <1>2, OutputIsObject DEF Output
  <1>5. raster \in [Products -> [Indices -> [Profiles -> {NoObject} \cup Processed]]] /\ profile \in Profiles
    BY DEF IInv, TablesOK
  <1>6. /\ raster' \in [Products -> [Indices -> [Profiles -> {NoObject} \cup Processed]]]
        /\ raster'[p][h][profile] = object[p][h]
        /\ \A v \in Profiles : v # profile => raster'[p][h][v] = raster[p][h][v]
        /\ \A i \in Indices : i # h => raster'[p][i] = raster[p][i]
        /\ \A q \in Products : q # p => raster'[q] = raster[q]
    BY <1>1, <1>4, <1>5
  <1>7. TablesOK'
    BY <1>1, <1>6 DEF IInv, TablesOK
  <1>8. Registered(p)' /\ ~Served(p)' /\ Mirrored(p)'
    BY <1>1, <1>2, SceneUnchanged DEF Mirrored
  <1>9. \A v \in Profiles : raster'[p][h][v] # NoObject => v <= profile
    <2> SUFFICES ASSUME NEW v \in Profiles, raster'[p][h][v] # NoObject
                 PROVE  v <= profile
      OBVIOUS
    <2>1. CASE v = profile
      BY <1>5, <2>1, SceneAssumption DEF Profiles
    <2>2. CASE v # profile
      <3>1. raster[p][h][v] # NoObject
        BY <1>6, <2>2
      <3> QED  BY <1>2, <3>1 DEF Lineage
    <2> QED  BY <2>1, <2>2
  <1>10. Newest(p, h)' = object[p][h]
    <2>1. Newest(p, h)' = NewestOf(raster'[p][h])
      BY NewestIsOfRow
    <2>2. NewestOf(raster'[p][h]) = raster'[p][h][profile]
      BY <1>4, <1>5, <1>6, <1>9, NewestOfDeployed
    <2> QED  BY <1>6, <2>1, <2>2
  <1>11. \A i \in Indices : i # h => Newest(p, i)' = Newest(p, i)
    BY <1>6, NewestIsOfRow
  <1>12. Current(p, h)' /\ \A i \in Indices : i # h => (Current(p, i)' <=> Current(p, i))
    BY <1>1, <1>4, <1>10, <1>11 DEF Current
  <1>13. Catalog(p)'
    <2>1. Lineage(p)'
      <3>1. \A i \in Indices, v \in Profiles : raster'[p][i][v] # NoObject =>
                v <= profile /\ raster'[p][i][v].from = asset[p]
        <4> TAKE i \in Indices, v \in Profiles
        <4>1. CASE i = h
          <5>1. CASE v = profile
            BY <1>4, <1>6, <1>9, <4>1, <5>1
          <5>2. CASE v # profile
            BY <1>2, <1>6, <1>9, <4>1, <5>2 DEF Lineage
          <5> QED  BY <5>1, <5>2
        <4>2. CASE i # h
          BY <1>2, <1>6, <4>2 DEF Lineage
        <4> QED  BY <4>1, <4>2
      <3> QED  BY <1>1, <1>2, <1>8, <3>1 DEF Lineage
    <2>2. LastVouches(p)'
      <3> SUFFICES ASSUME service = "sentinel2", Newest(p, LastIndex)' # NoObject, NEW i \in Indices
                   PROVE  Current(p, i)'
        BY <1>1 DEF LastVouches
      <3>1. h = LastIndex
        BY <1>2, <1>11, LastIndexType
      <3> QED  BY <1>2, <1>3, <1>12, <3>1
    <2>3. ServedIsWhole(p)'
      BY <1>8 DEF ServedIsWhole
    <2> QED  BY <2>1, <2>2, <2>3 DEF Catalog
  <1>14. \A q \in Products : Catalog(q)'
    BY <1>1, <1>6, <1>13, OthersKept DEF IInv
  <1>15. RunOK' /\ run'.pc = "layer" /\ run'.left = run.left /\ run'.product = p
    <2>1. "layer" \in InProduct \ {"register"} /\ RunOK
      BY DEF InProduct, IInv
    <2> QED  BY <1>0, <1>1, <2>1, GotoRunOK
  <1>16. InHand'
    <2>1. \A i \in Indices \ Elements(run.left) : Current(p, i)' /\ Layered(p, i)'
      BY <1>1, <1>2, <1>3, <1>12 DEF Layered
    <2>2. (\A i \in Indices : Output(p, i) => Output(p, i)') /\ Output(p, h)'
      BY <1>1, <1>2 DEF Output
    <2>3. \A k \in Prepared' : Stored(p, k)'
      BY <1>1, <1>2 DEF Stored, Prepared
    <2>4. service' = "sentinel2" /\ Tail(run'.left) # <<>> => Newest(p, LastIndex)' = NoObject
      BY <1>1, <1>2, <1>3, <1>11, <1>15, LastIndexType
    <2> QED  BY <1>0, <1>1, <1>2, <1>8, <1>12, <1>15, <2>1, <2>2, <2>3, <2>4
                DEF InHand, Registration, Mirroring, Preparing, Indexing, Publishing
  <1> QED  BY <1>7, <1>14, <1>15, <1>16 DEF IInv

LEMMA UpsertLayerStep ==
    ASSUME IInv, upsert_for_raster
    PROVE  IInv'
  <1>0. PICK p \in Products, h \in Indices : p = run.product /\ h = Head(run.left)
    BY IndexRest DEF upsert_for_raster, IInv, RunOK, InProduct
  <1>1. /\ run.pc = "layer" /\ run.pc \in InProduct /\ RestOf(IndexAssets, run.left)
        /\ layer' = [layer EXCEPT ![p] = @ \cup {<<h, profile>>}]
        /\ IF Tail(run.left) = <<>> THEN Goto("item", <<>>)
           ELSE Goto(IF service = "landsat" THEN "object" ELSE "row", Tail(run.left))
        /\ UNCHANGED <<service, offered, profile, scene, asset, described, prepared, raster, object, item, faults>>
    BY <1>0 DEF upsert_for_raster, IInv, RunOK, InProduct
  <1>2. /\ Registered(p) /\ ~Served(p) /\ Mirrored(p) /\ Catalog(p) /\ Lineage(p)
        /\ service = "sentinel2" /\ Tail(run.left) # <<>> => Newest(p, LastIndex) = NoObject
        /\ \A k \in Prepared : Stored(p, k)
        /\ \A i \in Indices \ Elements(run.left) : Current(p, i) /\ Layered(p, i)
        /\ service = "sentinel2" => \A i \in Indices : Output(p, i)
        /\ Current(p, h)
    BY <1>0, <1>1 DEF IInv, InHand, Registration, Mirroring, Preparing, Indexing, Catalog
  <1>3. /\ Elements(run.left) = {h} \cup Elements(Tail(run.left))
        /\ Tail(run.left) # <<>> => RestOf(IndexAssets, Tail(run.left))
        /\ Tail(run.left) = <<>> => Elements(run.left) = {h}
    BY <1>0, <1>1, IndexRest
  <1>4. layer \in [Products -> SUBSET (Indices \X Profiles)] /\ profile \in Profiles
    BY DEF IInv, TablesOK
  <1>5. /\ layer' \in [Products -> SUBSET (Indices \X Profiles)]
        /\ layer'[p] = layer[p] \cup {<<h, profile>>}
        /\ \A q \in Products : q # p => layer'[q] = layer[q]
    BY <1>1, <1>4
  <1>6. TablesOK'
    BY <1>1, <1>5 DEF IInv, TablesOK
  <1>7. Registered(p)' /\ ~Served(p)' /\ Mirrored(p)'
    BY <1>1, <1>2, SceneUnchanged DEF Mirrored
  <1>8. \A i : Newest(p, i)' = Newest(p, i)
    BY <1>1, NewestIsOfRow
  <1>9. /\ \A i : Current(p, i)' <=> Current(p, i)
        /\ \A o : Output(p, o)' <=> Output(p, o)
    BY <1>1, <1>8 DEF Current, Output
  <1>10. \A k \in Prepared' : Stored(p, k)'
    BY <1>1, <1>2 DEF Stored, Prepared
  <1>11. Catalog(p)'
    <2>1. Lineage(p)'
      BY <1>1, <1>2, <1>7 DEF Lineage
    <2>2. LastVouches(p)'
      BY <1>1, <1>2, <1>8, <1>9 DEF Catalog, LastVouches
    <2>3. ServedIsWhole(p)'
      BY <1>7 DEF ServedIsWhole
    <2> QED  BY <2>1, <2>2, <2>3 DEF Catalog
  <1>12. \A q \in Products : Catalog(q)'
    BY <1>1, <1>5, <1>11, OthersKept DEF IInv
  <1>13. /\ Layered(p, h)'
         /\ \A i \in Indices : Layered(p, i) => Layered(p, i)'
    BY <1>1, <1>4, <1>5 DEF Layered
  <1>14. \A i \in Indices \ Elements(Tail(run.left)) : Current(p, i)' /\ Layered(p, i)'
    <2> TAKE i \in Indices \ Elements(Tail(run.left))
    <2>1. CASE i = h
      BY <1>2, <1>9, <1>13, <2>1
    <2>2. CASE i # h
      BY <1>2, <1>3, <1>9, <1>13, <2>2
    <2> QED  BY <2>1, <2>2
  <1>15. CASE Tail(run.left) = <<>>
    <2>1. RunOK' /\ run'.pc = "item" /\ run'.product = p
      <3>1. "item" \in InProduct \ {"register"} /\ RunOK /\ Goto("item", <<>>) /\ <<>> \in Seq(Assets)
        BY <1>1, <1>15, EmptySeq DEF InProduct, IInv
      <3> QED  BY <1>0, <1>1, <3>1, GotoRunOK
    <2>2. \A i \in Indices : Current(p, i)' /\ Layered(p, i)'
      <3> TAKE i \in Indices
      <3>1. CASE i = h
        BY <1>2, <1>9, <1>13, <3>1
      <3>2. CASE i # h
        BY <1>2, <1>3, <1>9, <1>13, <1>15, <3>2
      <3> QED  BY <3>1, <3>2
    <2>3. Whole(p)'
      BY <1>10, <2>2 DEF Whole
    <2>4. InHand'
      BY <1>7, <2>1, <2>3 DEF InHand, Registration, Mirroring, Preparing, Indexing, Publishing
    <2> QED  BY <1>6, <1>12, <2>1, <2>4 DEF IInv
  <1>16. CASE Tail(run.left) # <<>>
    <2>1. Tail(run.left) \in Seq(Assets) /\ RestOf(IndexAssets, Tail(run.left)) /\ RunOK
      BY <1>1, <1>3, <1>16, TailOfRun DEF IInv
    <2>2. CASE service = "landsat"
      <3>1. RunOK' /\ run'.pc = "object" /\ run'.left = Tail(run.left) /\ run'.product = p
        <4>1. "object" \in InProduct \ {"register"} /\ Goto("object", Tail(run.left))
          BY <1>1, <1>16, <2>2 DEF InProduct
        <4> QED  BY <1>0, <1>1, <2>1, <4>1, GotoRunOK
      <3>2. InHand'
        BY <1>1, <1>7, <1>10, <1>14, <2>2, <3>1
           DEF InHand, Registration, Mirroring, Preparing, Indexing, Publishing
      <3> QED  BY <1>6, <1>12, <3>1, <3>2 DEF IInv
    <2>3. CASE service # "landsat"
      <3>1. RunOK' /\ run'.pc = "row" /\ run'.left = Tail(run.left) /\ run'.product = p
        <4>1. "row" \in InProduct \ {"register"} /\ Goto("row", Tail(run.left))
          BY <1>1, <1>16, <2>3 DEF InProduct
        <4> QED  BY <1>0, <1>1, <2>1, <4>1, GotoRunOK
      <3>2. service = "sentinel2"
        BY <2>3 DEF IInv, TablesOK
      <3>3. \A i \in Indices : Output(p, i)'
        BY <1>2, <1>9, <3>2
      <3>4. Newest(p, LastIndex)' = NoObject
        BY <1>2, <1>8, <1>16, <3>2
      <3>5. Head(run'.left) \in Indices
        BY <2>1, <3>1, IndexRest
      <3>6. InHand'
        BY <1>1, <1>7, <1>10, <1>14, <3>1, <3>3, <3>4, <3>5
           DEF InHand, Registration, Mirroring, Preparing, Indexing, Publishing
      <3> QED  BY <1>6, <1>12, <3>1, <3>6 DEF IInv
    <2> QED  BY <2>2, <2>3
  <1> QED  BY <1>15, <1>16
-----------------------------------------------------------------------------
(***************************************************************************)
(* Publication and failures.                                               *)
(***************************************************************************)
LEMMA UpsertItemStep ==
    ASSUME IInv, upsert_item_json
    PROVE  IInv'
  <1>0. PICK p \in Products : p = run.product
    BY DEF upsert_item_json, IInv, RunOK, InProduct
  <1>1. /\ run.pc = "item" /\ run.pc \in InProduct
        /\ item' = [item EXCEPT ![p] = Prepared \cup {i \in Indices : Newest(p, i) # NoObject}]
        /\ Goto("item_id", <<>>)
        /\ UNCHANGED <<service, offered, profile, scene, asset, described, prepared, raster, layer, object, faults>>
    BY <1>0 DEF upsert_item_json, InProduct
  <1>2. Registered(p) /\ ~Served(p) /\ Whole(p) /\ Catalog(p)
    BY <1>0, <1>1 DEF IInv, InHand, Registration, Publishing
  <1>3. {i \in Indices : Newest(p, i) # NoObject} = Indices /\ Prepared \subseteq Elements(PreparedAssets)
    BY <1>2 DEF Whole, Current, Prepared
  <1>4. item \in [Products -> SUBSET (Elements(PreparedAssets) \cup Indices)]
    BY DEF IInv, TablesOK
  <1>5. /\ item' \in [Products -> SUBSET (Elements(PreparedAssets) \cup Indices)]
        /\ item'[p] = Prepared \cup Indices
        /\ \A q \in Products : q # p => item'[q] = item[q]
    BY <1>1, <1>3, <1>4
  <1>6. TablesOK'
    BY <1>1, <1>5 DEF IInv, TablesOK
  <1>7. Registered(p)' /\ ~Served(p)'
    BY <1>1, <1>2, SceneUnchanged
  <1>8. \A i : Newest(p, i)' = Newest(p, i)
    BY <1>1, NewestIsOfRow
  <1>9. /\ \A i : Current(p, i)' <=> Current(p, i)
        /\ Prepared' = Prepared
    BY <1>1, <1>8 DEF Current, Prepared
  <1>10. Whole(p)'
    BY <1>1, <1>2, <1>9 DEF Whole, Layered, Stored
  <1>11. Catalog(p)'
    <2>1. Lineage(p)'
      BY <1>1, <1>2, <1>7 DEF Catalog, Lineage
    <2>2. LastVouches(p)'
      BY <1>1, <1>2, <1>8, <1>9 DEF Catalog, LastVouches
    <2>3. ServedIsWhole(p)'
      BY <1>7 DEF ServedIsWhole
    <2> QED  BY <2>1, <2>2, <2>3 DEF Catalog
  <1>12. \A q \in Products : Catalog(q)'
    BY <1>1, <1>5, <1>11, OthersKept DEF IInv
  <1>13. RunOK' /\ run'.pc = "item_id" /\ run'.product = p
    <2>1. "item_id" \in InProduct \ {"register"} /\ RunOK /\ <<>> \in Seq(Assets)
      BY EmptySeq DEF InProduct, IInv
    <2> QED  BY <1>0, <1>1, <2>1, GotoRunOK
  <1>14. InHand'
    BY <1>5, <1>7, <1>9, <1>10, <1>13 DEF InHand, Registration, Mirroring, Preparing, Indexing, Publishing
  <1> QED  BY <1>6, <1>12, <1>13, <1>14 DEF IInv

LEMMA PublishStep ==
    ASSUME IInv, _publish_scene
    PROVE  IInv'
  <1>0. PICK p \in Products : p = run.product
    BY DEF _publish_scene, IInv, RunOK, InProduct
  <1>1. /\ run.pc = "item_id" /\ run.pc \in InProduct
        /\ UpsertScene(p, [scene[p] EXCEPT !.item = TRUE])
        /\ IF service = "sentinel2" THEN Goto("complete", <<>>) ELSE run' = NextProduct(p)
        /\ UNCHANGED <<service, offered, profile, asset, described, prepared, raster, layer, object, item, faults>>
    BY <1>0 DEF _publish_scene, InProduct
  <1>2. Registered(p) /\ Whole(p) /\ Catalog(p) /\ item[p] = Prepared \cup Indices
    BY <1>0, <1>1 DEF IInv, InHand, Registration, Publishing
  <1>3. [scene[p] EXCEPT !.item = TRUE] \in SceneRow
    BY <1>2, RowOfRegistered DEF IInv
  <1> HIDE DEF UpsertScene
  <1>4. /\ scene' \in [Products -> {NoScene} \cup SceneRow]
        /\ Registered(p)'
        /\ \A q \in Products : Registered(q) => Registered(q)'
        /\ \A q \in Products : q # p => (Served(q)' <=> Served(q))
    BY <1>1, <1>3, SceneStep DEF IInv
  <1>5. TablesOK'
    BY <1>1, <1>4 DEF IInv, TablesOK
  <1>6. /\ \A i : Newest(p, i)' = Newest(p, i)
        /\ \A i : Current(p, i)' <=> Current(p, i)
        /\ Whole(p)' <=> Whole(p)
    BY <1>1, ProductKept
  <1>7. Prepared' = Prepared
    BY <1>1 DEF Prepared
  <1>8. Catalog(p)'
    <2>1. Lineage(p)'
      BY <1>1, <1>2, <1>4 DEF Catalog, Lineage
    <2>2. LastVouches(p)'
      BY <1>1, <1>2, <1>6 DEF Catalog, LastVouches
    <2>3. ServedIsWhole(p)'
      BY <1>1, <1>2, <1>6, <1>7 DEF ServedIsWhole
    <2> QED  BY <2>1, <2>2, <2>3 DEF Catalog
  <1>9. ASSUME NEW q \in Products, q # p
        PROVE  Catalog(q)'
    <2>1. profile \in Int /\ profile' \in Int /\ profile <= profile'
      BY <1>1 DEF IInv, TablesOK, Profiles
    <2>2. Catalog(q)
      BY DEF IInv
    <2> QED  BY <1>1, <1>4, <1>9, <2>1, <2>2, CatalogKept
  <1>10. CASE service = "sentinel2"
    <2>1. RunOK' /\ run'.pc = "complete" /\ run'.product = p
      <3>1. /\ "complete" \in InProduct \ {"register"} /\ RunOK /\ <<>> \in Seq(Assets)
            /\ Goto("complete", <<>>)
        BY <1>1, <1>10, EmptySeq DEF InProduct, IInv
      <3> QED  BY <1>0, <1>1, <3>1, GotoRunOK
    <2>2. InHand'
      BY <1>4, <2>1 DEF InHand, Registration, Mirroring, Preparing, Indexing, Publishing
    <2> QED  BY <1>5, <1>8, <1>9, <2>1, <2>2 DEF IInv
  <1>11. CASE service # "sentinel2"
    <2>1. run' = NextProduct(p) /\ run.pc \in InProduct
      BY <1>1, <1>11 DEF InProduct
    <2> QED  BY <1>5, <1>8, <1>9, <2>1, NextProductStep DEF IInv
  <1> QED  BY <1>10, <1>11

LEMMA MarkCompleteStep ==
    ASSUME IInv, MarkComplete
    PROVE  IInv'
  <1>0. PICK p \in Products : p = run.product
    BY DEF MarkComplete, IInv, RunOK, InProduct
  <1>1. /\ run.pc = "complete" /\ run.pc \in InProduct
        /\ UpsertScene(p, [scene[p] EXCEPT !.state = "complete"])
        /\ run' = NextProduct(p)
        /\ UNCHANGED <<service, offered, profile, asset, described, prepared, raster, layer, object, item, faults>>
    BY <1>0 DEF MarkComplete, InProduct
  <1>2. Registered(p)
    BY <1>0, <1>1 DEF IInv, InHand, Registration
  <1>3. /\ [scene[p] EXCEPT !.state = "complete"] \in SceneRow
        /\ [scene[p] EXCEPT !.state = "complete"].item => Served(p)
    BY <1>2, RowOfRegistered DEF IInv, Served
  <1>4. faults \in 0..MaxFaults /\ faults <= faults' /\ faults' \in 0..MaxFaults
    BY <1>1 DEF IInv, TablesOK
  <1> HIDE DEF UpsertScene
  <1>5. TablesOK' /\ \A q \in Products : Catalog(q)'
    BY <1>1, <1>3, <1>4, SceneStepInv DEF IInv
  <1> QED  BY <1>1, <1>5, NextProductStep DEF IInv

LEMMA ItemRaisesStep ==
    ASSUME IInv, ItemRaises
    PROVE  IInv'
  <1>0. PICK p \in Products : p = run.product
    BY DEF ItemRaises, IInv, RunOK
  <1>1. /\ run.pc \in InProduct
        /\ run' = NextProduct(p)
        /\ UNCHANGED <<service, offered, profile, asset, described, prepared, raster, layer, object, item>>
    BY <1>0 DEF ItemRaises
  <1>2. faults \in 0..MaxFaults /\ faults <= faults' /\ faults' \in 0..MaxFaults
    <2>1. faults \in 0..MaxFaults /\ faults <= faults
      BY Constants DEF IInv, TablesOK
    <2>2. CASE faults' = faults
      BY <2>1, <2>2
    <2>3. CASE Fault
      <3>1. faults' = faults + 1 /\ faults' \in 0..MaxFaults /\ faults \in Nat
        BY <2>3, FaultStep DEF IInv
      <3> QED  BY <2>1, <3>1
    <2> QED  BY <2>2, <2>3 DEF ItemRaises
  <1>3. CASE service = "sentinel2" /\ run.mine
    <2>1. PICK new : new = [scene[p] EXCEPT !.state = "failed"]
      OBVIOUS
    <2>2. UpsertScene(p, new)
      BY <1>0, <1>3, <2>1 DEF ItemRaises
    <2>3. Registered(p)
      BY <1>0, <1>1, <1>3 DEF IInv, InHand, Registration, RunOK
    <2>4. new \in SceneRow /\ (new.item => Served(p))
      BY <2>1, <2>3, RowOfRegistered DEF IInv, Served
    <2> HIDE DEF UpsertScene
    <2>5. TablesOK' /\ \A q \in Products : Catalog(q)'
      BY <1>1, <1>2, <2>2, <2>4, SceneStepInv DEF IInv
    <2> QED  BY <1>1, <2>5, NextProductStep DEF IInv
  <1>4. CASE ~(service = "sentinel2" /\ run.mine)
    <2>1. UNCHANGED scene
      BY <1>4 DEF ItemRaises
    <2>2. profile \in Profiles /\ profile <= faults' + 1 /\ profile <= profile'
      <3>1. profile \in Int /\ profile <= faults + 1 /\ profile \in Profiles
        BY DEF IInv, TablesOK, Profiles
      <3>2. faults \in Nat /\ faults' \in Nat
        BY <1>2, Constants
      <3>3. profile <= faults' + 1
        BY <1>2, <3>1, <3>2, BoundGrows
      <3> QED  BY <1>1, <3>1, <3>3
    <2>3. \A q \in Products : offered[q] <= faults' + 1
      <3> TAKE q \in Products
      <3>1. offered[q] \in Int /\ offered[q] <= faults + 1
        BY DEF IInv, TablesOK, Versions
      <3> QED  BY <1>2, <3>1, BoundGrows
    <2>4. TablesOK'
      BY <1>1, <1>2, <2>1, <2>2, <2>3 DEF IInv, TablesOK
    <2>5. \A q \in Products : (Registered(q) => Registered(q)') /\ (Served(q)' => Served(q))
      BY <2>1, SceneUnchanged
    <2>6. \A q \in Products : Catalog(q)'
      BY <1>1, <2>2, <2>5, CatalogsKept DEF IInv
    <2> QED  BY <1>1, <2>4, <2>6, NextProductStep DEF IInv
  <1> QED  BY <1>3, <1>4

LEMMA StutterInv ==
    ASSUME IInv, UNCHANGED vars
    PROVE  IInv'
  <1>1. UNCHANGED <<service, offered, profile, tables, faults, run>>
    BY DEF vars
  <1>2. TablesOK' /\ \A p \in Products : Catalog(p)'
    BY <1>1, TablesKept DEF IInv
  <1>3. RunOK' /\ InHand'
    BY <1>1, InHandKept DEF IInv, RunOK, tables
  <1> QED  BY <1>2, <1>3 DEF IInv

LEMMA NextInv ==
    ASSUME IInv, [Next]_vars
    PROVE  IInv'
  <1>1. CASE UNCHANGED vars
    BY <1>1, StutterInv
  <1>2. CASE Republish
    BY <1>2, RepublishStep
  <1>3. CASE Upgrade
    BY <1>3, UpgradeStep
  <1>4. CASE \E mode \in {"metadata_only", "mirror_only", "full_pipeline"} : BeginRun(mode)
    BY <1>4, BeginRunStep DEF Modes
  <1>5. CASE RunStep
    BY <1>5, SearchStep, SearchRaisesStep, PickItemStep, EndRunStep, RegisterStep, RegisterAssetsStep, SkipMirroredStep,
       MirrorAssetStep, RecordMirrorStep, BeginProcessingStep, PutPreparedStep, StorePreparedStep,
       PutDerivedStep, UpsertIndexStep, UpsertLayerStep, UpsertItemStep, PublishStep,
       MarkCompleteStep, ItemRaisesStep DEF RunStep
  <1>6. CASE RunLost
    BY <1>6, RunLostStep
  <1> QED  BY <1>1, <1>2, <1>3, <1>4, <1>5, <1>6 DEF Next

LEMMA InvAlways == Spec => []IInv
  BY InitInv, NextInv, PTL DEF Spec
-----------------------------------------------------------------------------
(***************************************************************************)
(* The theorems.                                                           *)
(***************************************************************************)
LEMMA TypesOfInv ==
    ASSUME IInv
    PROVE  TypeOK
  <1>1. TablesOK /\ RunOK
    BY DEF IInv
  <1>2. \A p \in Products : \A i \in Indices : Newest(p, i) \in {NoObject} \cup Processed
    BY <1>1, NewestType
  <1>3. /\ run.pc \in {"idle", "search", "next"} \cup InProduct
        /\ run.product \in Products \cup {Nobody} /\ run.todo \subseteq Products
        /\ run.new \in 0..MaxNewScenes
    BY <1>1 DEF RunOK, Runs
  <1> QED  BY <1>1, <1>2, <1>3 DEF TypeOK, TablesOK

LEMMA LineageOfInv ==
    ASSUME IInv
    PROVE  LineageHolds
  <1> SUFFICES ASSUME NEW p \in Products
               PROVE  /\ \A a \in Sources : asset[p][a] # NoObject => object[p][a] = asset[p][a]
                      /\ \A i \in Indices : Newest(p, i) # NoObject => Newest(p, i).from = asset[p]
                      /\ \A k \in Prepared : prepared[p][k] # NoObject => prepared[p][k].from = asset[p]
    BY DEF LineageHolds
  <1>1. Lineage(p)
    BY DEF IInv, Catalog
  <1>2. ASSUME NEW i \in Indices, Newest(p, i) # NoObject
        PROVE  Newest(p, i).from = asset[p]
    <2>1. PICK v \in Profiles : Newest(p, i) = raster[p][i][v]
      BY <1>2, NewestIsOfRow, NewestRow
    <2> QED  BY <1>1, <1>2, <2>1 DEF Lineage
  <1> QED  BY <1>1, <1>2 DEF Lineage, Prepared

LEMMA WholeOfInv ==
    ASSUME IInv
    PROVE  ServedSceneIsWhole
  <1>1. \A p \in Products : ServedIsWhole(p)
    BY DEF IInv, Catalog
  <1> QED  BY <1>1 DEF ServedSceneIsWhole, ServedIsWhole, Served, Whole, Current, Stored, Layered

\* Every variable keeps its type, and a run begins no more new scenes than its
\* bound.
THEOREM Types == Spec => []TypeOK
  BY InvAlways, TypesOfInv, PTL

\* Whatever the provider publishes again, and however often a product is
\* processed, mirrors are what their rows say and the pixels of the outputs were
\* made of them; OutputsAgreeAlways says what their calibration is of.
THEOREM LineageAlways == Spec => []LineageHolds
  BY InvAlways, LineageOfInv, PTL

\* A scene that names its item has all its outputs, rows and objects, wherever
\* the workers that made them were lost.
THEOREM ServedWholeAlways == Spec => []ServedSceneIsWhole
  BY InvAlways, WholeOfInv, PTL
-----------------------------------------------------------------------------
(***************************************************************************)
(* The loops implement SceneLifecycle.                                     *)
(***************************************************************************)
RegisteredProducts == {p \in Products : Registered(p)}

ServedProducts == [p \in Products |-> ServedOutputs(p)]

LEMMA OutputsOfServed ==
    ASSUME NEW p
    PROVE  /\ ServedOutputs(p) = IF Served(p) THEN [i \in Indices |-> object[p][i]] ELSE NoObject
           /\ ServedOutputs(p)' = IF Served(p)' THEN [i \in Indices |-> object'[p][i]] ELSE NoObject
  BY DEF ServedOutputs, Served

LEMMA LifecycleStutter ==
    ASSUME \A p \in Products :
               /\ Registered(p)' <=> Registered(p)
               /\ Served(p)' <=> Served(p)
               /\ Served(p) => object'[p] = object[p]
    PROVE  UNCHANGED <<RegisteredProducts, ServedProducts>>
  <1>1. RegisteredProducts' = RegisteredProducts
    BY DEF RegisteredProducts
  <1>2. ASSUME NEW p \in Products
        PROVE  ServedOutputs(p)' = ServedOutputs(p)
    BY OutputsOfServed
  <1>3. ServedProducts' = ServedProducts
    BY <1>2 DEF ServedProducts
  <1> QED  BY <1>1, <1>3

\* Most steps write neither a scene nor an object.
LEMMA QuietStep ==
    ASSUME UNCHANGED <<scene, object>>
    PROVE  UNCHANGED <<RegisteredProducts, ServedProducts>>
  <1>1. \A p \in Products : /\ Registered(p)' <=> Registered(p)
                            /\ Served(p)' <=> Served(p)
                            /\ object'[p] = object[p]
    BY SceneUnchanged
  <1> QED  BY <1>1, LifecycleStutter

\* Objects are only put for a product that is not served.
LEMMA PutStep ==
    ASSUME TablesOK, NEW p \in Products, NEW o \in Assets, NEW content, ~Served(p),
           PutObject(p, o, content), UNCHANGED scene
    PROVE  UNCHANGED <<RegisteredProducts, ServedProducts>>
  <1>1. object \in [Products -> [Assets -> {NoObject} \cup Versions \cup Processed]]
    BY DEF TablesOK
  <1>2. \A q \in Products : q # p => object'[q] = object[q]
    BY <1>1 DEF PutObject
  <1>3. \A q \in Products : /\ Registered(q)' <=> Registered(q)
                            /\ Served(q)' <=> Served(q)
    BY SceneUnchanged
  <1> QED  BY <1>2, <1>3, LifecycleStutter

\* The state of a scene is written, its item left alone.
LEMMA StateStep ==
    ASSUME TablesOK, NEW p \in Products, NEW row \in SceneRow, Registered(p), row.item <=> Served(p),
           UpsertScene(p, row), UNCHANGED object
    PROVE  UNCHANGED <<RegisteredProducts, ServedProducts>>
  <1>1. \A q \in Products : /\ Registered(q)' <=> Registered(q)
                            /\ Served(q)' <=> Served(q)
    <2> TAKE q \in Products
    <2>1. CASE q = p
      BY <2>1, SceneStep
    <2>2. CASE q # p
      <3>1. scene'[q] = scene[q]
        BY <2>2, SceneStep
      <3> QED  BY <3>1 DEF Registered, Served
    <2> QED  BY <2>1, <2>2
  <1>2. \A q \in Products : object'[q] = object[q]
    OBVIOUS
  <1> QED  BY <1>1, <1>2, LifecycleStutter

LEMMA RegisterImplements ==
    ASSUME IInv, _register_scene
    PROVE  \E p \in Products : Lifecycle!Register(p)
  <1>0. PICK p \in Products : p = run.product
    BY DEF _register_scene, IInv, RunOK, InProduct
  <1>1. PICK row \in SceneRow : row = [state |-> "pending", item |-> FALSE]
    BY DEF SceneRow
  <1>2. UpsertScene(p, row) /\ ~row.item /\ UNCHANGED object /\ TablesOK
    BY <1>0, <1>1 DEF _register_scene, IInv
  <1>3. ~Served(p)
    BY <1>0 DEF IInv, InHand, Registration, _register_scene, InProduct
  <1>4. /\ Registered(p)' /\ ~Served(p)'
        /\ \A q \in Products : q # p => (Registered(q)' <=> Registered(q)) /\ (Served(q)' <=> Served(q))
    <2>1. /\ Registered(p)' /\ ~Served(p)'
          /\ \A q \in Products : q # p => scene'[q] = scene[q]
      BY <1>2, SceneStep
    <2> QED  BY <2>1 DEF Registered, Served
  <1>5. RegisteredProducts' = RegisteredProducts \cup {p}
    BY <1>4 DEF RegisteredProducts
  <1>6. ASSUME NEW q \in Products
        PROVE  ServedOutputs(q)' = ServedOutputs(q)
    BY <1>2, <1>3, <1>4, OutputsOfServed
  <1>7. ServedProducts' = ServedProducts
    BY <1>6 DEF ServedProducts
  <1>8. Lifecycle!Register(p)
    BY <1>5, <1>7 DEF Lifecycle!Register, RegisteredProducts, ServedProducts
  <1> QED  BY <1>8

LEMMA PublishImplements ==
    ASSUME IInv, _publish_scene
    PROVE  \E p \in Products : Lifecycle!Serve(p)
  <1>0. PICK p \in Products : p = run.product
    BY DEF _publish_scene, IInv, RunOK, InProduct
  <1>1. Registered(p) /\ ~Served(p)
    BY <1>0 DEF IInv, InHand, Registration, _publish_scene, InProduct
  <1>2. PICK row : row = [scene[p] EXCEPT !.item = TRUE]
    OBVIOUS
  <1>3. row \in SceneRow /\ TablesOK
    BY <1>1, <1>2, RowOfRegistered DEF IInv
  <1>4. UpsertScene(p, row) /\ UNCHANGED object
    BY <1>0, <1>2 DEF _publish_scene
  <1>5. \A q \in Products : q # p => (Registered(q)' <=> Registered(q)) /\ (Served(q)' <=> Served(q))
    <2>1. \A q \in Products : q # p => scene'[q] = scene[q]
      BY <1>3, <1>4, SceneStep
    <2> QED  BY <2>1 DEF Registered, Served
  <1>6. Registered(p)'
    BY <1>3, <1>4, SceneStep
  <1>7. RegisteredProducts' = RegisteredProducts
    BY <1>1, <1>5, <1>6 DEF RegisteredProducts
  <1>8. ASSUME NEW q \in Products, q # p
        PROVE  ServedOutputs(q)' = ServedOutputs(q)
    BY <1>4, <1>5, <1>8, OutputsOfServed
  <1>9. ServedProducts' = [ServedProducts EXCEPT ![p] = ServedProducts'[p]]
    BY <1>8 DEF ServedProducts
  <1>10. p \in RegisteredProducts /\ ServedProducts[p] = NoObject
    BY <1>1, OutputsOfServed DEF RegisteredProducts, ServedProducts
  <1>11. Lifecycle!Serve(p)
    BY <1>7, <1>9, <1>10 DEF Lifecycle!Serve, RegisteredProducts, ServedProducts
  <1> QED  BY <1>11

LEMMA PickItemQuiet ==
    ASSUME IInv, PickItem
    PROVE  UNCHANGED <<RegisteredProducts, ServedProducts>>
  <1>1. PICK p \in Products : SkipComplete(p) \/ OnlyPublish(p) \/ SkipItem(p) \/ TakeItem(p)
    BY DEF PickItem
  <1>2. UNCHANGED object /\ TablesOK
    BY DEF PickItem, IInv
  <1>3. CASE UNCHANGED scene
    BY <1>2, <1>3, QuietStep
  <1>4. CASE ~UNCHANGED scene
    <2>1. PICK row : row = [scene[p] EXCEPT !.state = "complete"]
      OBVIOUS
    <2>2. SkipComplete(p) /\ UpsertScene(p, row)
      BY <1>1, <1>4, <2>1 DEF SkipComplete, OnlyPublish, SkipItem, TakeItem
    <2>3. Registered(p)
      BY <2>2 DEF SkipComplete, _scene_is_complete
    <2>4. row \in SceneRow /\ (row.item <=> Served(p))
      BY <1>2, <2>1, <2>3, RowOfRegistered DEF Served
    <2> QED  BY <1>2, <2>2, <2>3, <2>4, StateStep
  <1> QED  BY <1>3, <1>4

LEMMA BeginProcessingQuiet ==
    ASSUME IInv, BeginProcessing
    PROVE  UNCHANGED <<RegisteredProducts, ServedProducts>>
  <1>0. PICK p \in Products : p = run.product
    BY DEF BeginProcessing, IInv, RunOK, InProduct
  <1>1. UNCHANGED object /\ TablesOK /\ Registered(p)
    BY <1>0 DEF BeginProcessing, IInv, InHand, Registration, InProduct
  <1>2. PICK row : row = [scene[p] EXCEPT !.state = "processing"]
    OBVIOUS
  <1>3. UpsertScene(p, row) \/ UNCHANGED scene
    BY <1>0, <1>2 DEF BeginProcessing
  <1>4. row \in SceneRow /\ (row.item <=> Served(p))
    BY <1>1, <1>2, RowOfRegistered DEF Served
  <1> QED  BY <1>1, <1>3, <1>4, StateStep, QuietStep

LEMMA MarkCompleteQuiet ==
    ASSUME IInv, MarkComplete
    PROVE  UNCHANGED <<RegisteredProducts, ServedProducts>>
  <1>0. PICK p \in Products : p = run.product
    BY DEF MarkComplete, IInv, RunOK, InProduct
  <1>1. UNCHANGED object /\ TablesOK /\ Registered(p)
    BY <1>0 DEF MarkComplete, IInv, InHand, Registration, InProduct
  <1>2. PICK row : row = [scene[p] EXCEPT !.state = "complete"]
    OBVIOUS
  <1>3. UpsertScene(p, row)
    BY <1>0, <1>2 DEF MarkComplete
  <1>4. row \in SceneRow /\ (row.item <=> Served(p))
    BY <1>1, <1>2, RowOfRegistered DEF Served
  <1> QED  BY <1>1, <1>3, <1>4, StateStep

LEMMA ItemRaisesQuiet ==
    ASSUME IInv, ItemRaises
    PROVE  UNCHANGED <<RegisteredProducts, ServedProducts>>
  <1>0. PICK p \in Products : p = run.product
    BY DEF ItemRaises, IInv, RunOK
  <1>1. UNCHANGED object /\ TablesOK
    BY DEF ItemRaises, IInv
  <1>2. CASE UNCHANGED scene
    BY <1>1, <1>2, QuietStep
  <1>3. CASE ~UNCHANGED scene
    <2>1. PICK row : row = [scene[p] EXCEPT !.state = "failed"]
      OBVIOUS
    <2>2. run.mine /\ UpsertScene(p, row)
      BY <1>0, <1>3, <2>1 DEF ItemRaises
    <2>3. Registered(p)
      BY <1>0, <2>2 DEF IInv, InHand, Registration, RunOK, ItemRaises
    <2>4. row \in SceneRow /\ (row.item <=> Served(p))
      BY <1>1, <2>1, <2>3, RowOfRegistered DEF Served
    <2> QED  BY <1>1, <2>2, <2>3, <2>4, StateStep
  <1> QED  BY <1>2, <1>3

LEMMA PutsAreQuiet ==
    ASSUME IInv, mirror_asset \/ PutPrepared \/ put_derived_cog
    PROVE  UNCHANGED <<RegisteredProducts, ServedProducts>>
  <1>0. PICK p \in Products : p = run.product
    BY DEF mirror_asset, PutPrepared, put_derived_cog, IInv, RunOK, InProduct
  <1>1. UNCHANGED scene /\ TablesOK /\ ~Served(p)
    BY <1>0 DEF mirror_asset, PutPrepared, put_derived_cog, IInv, InHand, Registration, InProduct
  <1>2. Head(run.left) \in Assets
    BY SourceRest, PreparedRest, IndexRest, AssetKinds
       DEF mirror_asset, PutPrepared, put_derived_cog, IInv, RunOK
  <1>3. \E content : PutObject(p, Head(run.left), content)
    BY <1>0 DEF mirror_asset, PutPrepared, put_derived_cog
  <1> QED  BY <1>1, <1>2, <1>3, PutStep

LEMMA StepImplements ==
    ASSUME IInv, [Next]_vars
    PROVE  [Lifecycle!Next]_<<RegisteredProducts, ServedProducts>>
  <1>1. CASE _register_scene
    BY <1>1, RegisterImplements DEF Lifecycle!Next
  <1>2. CASE _publish_scene
    BY <1>2, PublishImplements DEF Lifecycle!Next
  <1>3. CASE UNCHANGED vars \/ Republish \/ Upgrade \/ RunLost
    <2>1. UNCHANGED <<scene, object>>
      BY <1>3 DEF vars, tables, Republish, Upgrade, RunLost
    <2> QED  BY <2>1, QuietStep
  <1>4. CASE \E mode \in {"metadata_only", "mirror_only", "full_pipeline"} : BeginRun(mode)
    <2>1. UNCHANGED <<scene, object>>
      BY <1>4 DEF BeginRun, tables
    <2> QED  BY <2>1, QuietStep
  <1>5. CASE search \/ SearchRaises \/ EndRun \/ _register_assets \/ SkipMirrored \/ RecordMirror \/ _store_prepared_asset
             \/ upsert_derived_index \/ upsert_for_raster \/ upsert_item_json
    <2>1. UNCHANGED <<scene, object>>
      BY <1>5 DEF search, SearchRaises, EndRun, _register_assets, SkipMirrored, RecordMirror, _store_prepared_asset,
                  upsert_derived_index, upsert_for_raster, upsert_item_json, tables
    <2> QED  BY <2>1, QuietStep
  <1>6. CASE PickItem \/ BeginProcessing \/ MarkComplete \/ ItemRaises
             \/ mirror_asset \/ PutPrepared \/ put_derived_cog
    BY <1>6, PickItemQuiet, BeginProcessingQuiet, MarkCompleteQuiet, ItemRaisesQuiet, PutsAreQuiet
  <1> QED  BY <1>1, <1>2, <1>3, <1>4, <1>5, <1>6 DEF Next, RunStep

LEMMA InitImplements ==
    ASSUME Init
    PROVE  Lifecycle!Init
  <1>1. \A p \in Products : ~Registered(p)
    BY DEF Init, Registered
  <1>2. RegisteredProducts = {}
    BY <1>1 DEF RegisteredProducts
  <1>3. \A p \in Products : ServedOutputs(p) = NoObject
    BY <1>1 DEF ServedOutputs
  <1>4. ServedProducts = [p \in Products |-> NoObject]
    BY <1>3 DEF ServedProducts
  <1> QED  BY <1>2, <1>4 DEF Lifecycle!Init, RegisteredProducts, ServedProducts

\* A product is registered, then served once and for all with the outputs it is
\* first served with: no later run, upgrade or republication takes it back.
THEOREM Implements == Spec => ImplementsLifecycle
  <1>1. Init => Lifecycle!Init
    BY InitImplements
  <1>2. IInv /\ [Next]_vars => [Lifecycle!Next]_<<RegisteredProducts, ServedProducts>>
    BY StepImplements
  <1>3. IInv /\ [Next]_vars =>
           [Lifecycle!Next]_<<{p \in Products : Registered(p)}, [p \in Products |-> ServedOutputs(p)]>>
    BY <1>2 DEF RegisteredProducts, ServedProducts
  <1> QED  BY <1>1, <1>3, InvAlways, PTL DEF Spec, ImplementsLifecycle, Lifecycle!Spec
-----------------------------------------------------------------------------
(***************************************************************************)
(* Outputs of one making.  IInv says what is there; the second invariant   *)
(* says which processing it is of: what the worker has put so far is of    *)
(* the one it is about, and what no worker has in hand is of some one.     *)
(***************************************************************************)
MadeOf(p, making) ==
    /\ \A i \in Indices : object[p][i] = making
    /\ \A k \in Prepared : object[p][k] = making
    /\ service = "sentinel2" => \A a \in Sources : described[p][a] = making.calibration

Agree(p) == \E making \in Processed : MadeOf(p, making)

\* Sentinel-2 also answers with the rows of a scene that has them all.
Given(p) == Served(p) \/ (service = "sentinel2" /\ Newest(p, LastIndex) # NoObject)

Agreement == \A p \in Products : Given(p) => Agree(p)

Describing ==
    /\ run.pc = "assets" =>
          \A a \in Sources \ Elements(run.left) : described[run.product][a] = run.items[run.product]
    /\ run.pc \in {"mirror", "mirrored", "process", "prepare", "prepared", "object", "row", "layer"} =>
          \A a \in Sources : described[run.product][a] = run.items[run.product]

\* The prepared assets before the one in hand, then all of them.
PreparedMade(making) ==
    /\ run.pc \in {"prepare", "prepared"} =>
          \A k \in Elements(PreparedAssets) \ Elements(run.left) : object[run.product][k] = making
    /\ run.pc = "prepared" => object[run.product][Head(run.left)] = making
    /\ run.pc \in {"object", "row", "layer"} => \A k \in Prepared : object[run.product][k] = making

IndicesMade(making) ==
    /\ run.pc \in {"object", "row", "layer"} =>
          \A i \in Indices \ Elements(run.left) : object[run.product][i] = making
    /\ run.pc \in {"row", "layer"} => object[run.product][Head(run.left)] = making
    /\ run.pc \in {"row", "layer"} /\ service = "sentinel2" =>
          \A i \in Indices : object[run.product][i] = making

Making ==
    /\ Describing
    /\ PreparedMade(ProcessedFrom(run.product)) /\ IndicesMade(ProcessedFrom(run.product))
    /\ run.pc \in {"item", "item_id"} => Agree(run.product)

OneMaking == Agreement /\ Making

LEMMA GotoFields ==
    ASSUME RunOK, NEW pc, NEW left, Goto(pc, left)
    PROVE  /\ run'.pc = pc /\ run'.left = left
           /\ run'.product = run.product /\ run'.items = run.items
  <1>1. run \in Runs
    BY DEF RunOK
  <1>2. run' = [run EXCEPT !.pc = pc, !.left = left]
    BY DEF Goto
  <1> QED  BY <1>1, <1>2 DEF Runs

LEMMA MakingKept ==
    ASSUME NEW p, UNCHANGED <<service, profile>>, run'.items = run.items,
           \A a \in Sources : object'[p][a] = object[p][a]
    PROVE  ProcessedFrom(p)' = ProcessedFrom(p)
  <1>1. [a \in Sources |-> object'[p][a]] = [a \in Sources |-> object[p][a]]
    OBVIOUS
  <1> QED  BY <1>1 DEF ProcessedFrom

LEMMA AgreeKept ==
    ASSUME NEW p, service' = service, object'[p] = object[p], described'[p] = described[p]
    PROVE  Agree(p)' <=> Agree(p)
  <1>1. Prepared' = Prepared
    BY DEF Prepared
  <1>2. \A making : MadeOf(p, making)' <=> MadeOf(p, making)
    BY <1>1 DEF MadeOf
  <1> QED  BY <1>2 DEF Agree

\* What becomes true of no product does not have to be shown of any.
LEMMA AgreementKept ==
    ASSUME Agreement, UNCHANGED <<service, raster>>,
           \A q \in Products : Served(q)' => Served(q),
           \A q \in Products : Given(q) => object'[q] = object[q] /\ described'[q] = described[q]
    PROVE  Agreement'
  <1> SUFFICES ASSUME NEW q \in Products, Given(q)'
               PROVE  Agree(q)'
    BY DEF Agreement
  <1>1. Newest(q, LastIndex)' = Newest(q, LastIndex)
    BY NewestIsOfRow
  <1>2. Given(q)
    BY <1>1 DEF Given
  <1>3. Agree(q)
    BY <1>2 DEF Agreement
  <1> QED  BY <1>2, <1>3, AgreeKept

\* The product in hand has nothing to answer with until its last row.
LEMMA NotGiven ==
    ASSUME IInv, run.pc \in {"assets", "mirror", "prepare", "object"}
    PROVE  ~Given(run.product)
  <1>1. run.pc \in InProduct \ {"complete"} /\ (run.pc = "prepare" => service = "landsat")
    BY DEF IInv, RunOK, InProduct
  <1> QED  BY <1>1 DEF IInv, InHand, Registration, Given

LEMMA NothingMade ==
    ASSUME run'.pc \in {"idle", "search", "next", "register", "complete"}
    PROVE  Making'
  BY DEF Making, Describing, PreparedMade, IndicesMade

LEMMA InitMaking ==
    ASSUME Init
    PROVE  OneMaking
  <1>1. \A p \in Products, i \in Indices : Newest(p, i) = NoObject
    <2> TAKE p \in Products, i \in Indices
    <2>1. \A v \in Profiles : raster[p][i][v] = NoObject
      BY DEF Init
    <2> QED  BY <2>1, NewestIsOfRow, NewestRow
  <1>2. Agreement
    BY <1>1, LastIndexType DEF Agreement, Given, Served, Registered, Init
  <1>3. run.pc = "idle"
    BY DEF Init, IdleRun
  <1>4. Making
    BY <1>3 DEF Making, Describing, PreparedMade, IndicesMade
  <1> QED  BY <1>2, <1>4 DEF OneMaking

\* Nothing an answer is made of is written.
LEMMA ScenesOnly ==
    ASSUME OneMaking, UNCHANGED <<service, raster, object, described>>,
           \A q \in Products : Served(q)' => Served(q)
    PROVE  Agreement'
  BY AgreementKept DEF OneMaking

LEMMA StateOnly ==
    ASSUME TablesOK, NEW p \in Products, Registered(p),
           NEW state \in {"pending", "processing", "complete", "failed"},
           UpsertScene(p, [scene[p] EXCEPT !.state = state])
    PROVE  \A q \in Products : Served(q)' => Served(q)
  <1>1. PICK row : row = [scene[p] EXCEPT !.state = state]
    OBVIOUS
  <1>2. row \in SceneRow /\ (row.item <=> Served(p)) /\ UpsertScene(p, row)
    BY <1>1, RowOfRegistered DEF Served
  <1>3. /\ Served(p)' <=> row.item
        /\ \A q \in Products : q # p => (Served(q)' <=> Served(q))
    BY <1>2, SceneStep
  <1> QED  BY <1>2, <1>3

LEMMA UnservedByScenes ==
    ASSUME IInv, PickItem \/ _register_scene \/ BeginProcessing \/ MarkComplete \/ ItemRaises
    PROVE  \A q \in Products : Served(q)' => Served(q)
  <1>1. CASE UNCHANGED scene
    BY <1>1, SceneUnchanged
  <1>2. CASE _register_scene
    <2>1. PICK p \in Products : p = run.product
      BY <1>2 DEF _register_scene, IInv, RunOK, InProduct
    <2>2. PICK row \in SceneRow : row = [state |-> "pending", item |-> FALSE]
      BY DEF SceneRow
    <2>3. UpsertScene(p, row) /\ ~row.item
      BY <1>2, <2>1, <2>2 DEF _register_scene
    <2>4. /\ Served(p)' <=> row.item
          /\ \A q \in Products : q # p => (Served(q)' <=> Served(q))
      BY <2>3, SceneStep DEF IInv
    <2> QED  BY <2>3, <2>4
  <1>3. CASE PickItem /\ ~UNCHANGED scene
    <2>1. PICK p \in Products : SkipComplete(p)
      BY <1>3 DEF PickItem, OnlyPublish, SkipItem, TakeItem
    <2>2. Registered(p) /\ UpsertScene(p, [scene[p] EXCEPT !.state = "complete"])
      BY <1>3, <2>1 DEF SkipComplete, _scene_is_complete
    <2> QED  BY <2>2, StateOnly DEF IInv
  <1>4. CASE BeginProcessing /\ ~UNCHANGED scene
    <2>1. run.product \in Products /\ Registered(run.product)
      BY <1>4 DEF BeginProcessing, IInv, RunOK, InHand, Registration, InProduct
    <2>2. UpsertScene(run.product, [scene[run.product] EXCEPT !.state = "processing"])
      BY <1>4 DEF BeginProcessing
    <2> QED  BY <2>1, <2>2, StateOnly DEF IInv
  <1>5. CASE MarkComplete
    <2>1. run.product \in Products /\ Registered(run.product)
      BY <1>5 DEF MarkComplete, IInv, RunOK, InHand, Registration, InProduct
    <2>2. UpsertScene(run.product, [scene[run.product] EXCEPT !.state = "complete"])
      BY <1>5 DEF MarkComplete
    <2> QED  BY <2>1, <2>2, StateOnly DEF IInv
  <1>6. CASE ItemRaises /\ ~UNCHANGED scene
    <2>1. run.mine /\ UpsertScene(run.product, [scene[run.product] EXCEPT !.state = "failed"])
      BY <1>6 DEF ItemRaises
    <2>2. run.product \in Products /\ Registered(run.product)
      BY <1>6, <2>1 DEF ItemRaises, IInv, RunOK, InHand, Registration
    <2> QED  BY <2>1, <2>2, StateOnly DEF IInv
  <1> QED  BY <1>1, <1>2, <1>3, <1>4, <1>5, <1>6

LEMMA AroundMaking ==
    ASSUME IInv, OneMaking,
           \/ UNCHANGED vars \/ Republish \/ Upgrade \/ RunLost \/ EndRun \/ search \/ SearchRaises
           \/ \E mode \in Modes : BeginRun(mode)
    PROVE  OneMaking'
  <1>1. UNCHANGED <<service, scene, raster, object, described>>
    BY DEF vars, tables, Republish, Upgrade, RunLost, EndRun, search, SearchRaises, BeginRun
  <1>2. Agreement'
    BY <1>1, ScenesOnly, SceneUnchanged
  <1>3. CASE UNCHANGED vars \/ Republish
    <2>1. UNCHANGED <<service, profile, object, described, run>>
      BY <1>1, <1>3 DEF vars, Republish
    <2>2. /\ Prepared' = Prepared
          /\ ProcessedFrom(run.product)' = ProcessedFrom(run.product)
          /\ Agree(run.product)' <=> Agree(run.product)
      BY <2>1, AgreeKept DEF Prepared, ProcessedFrom
    <2>3. Making'
      BY <2>1, <2>2 DEF OneMaking, Making, Describing, PreparedMade, IndicesMade
    <2> QED  BY <1>2, <2>3 DEF OneMaking
  <1>4. CASE Upgrade \/ RunLost \/ EndRun \/ search \/ SearchRaises \/ \E mode \in Modes : BeginRun(mode)
    <2>1. ASSUME Upgrade
          PROVE  run'.pc = "idle"
      BY <2>1 DEF Upgrade
    <2>2. ASSUME RunLost \/ EndRun \/ SearchRaises
          PROVE  run'.pc = "idle"
      BY <2>2 DEF RunLost, EndRun, SearchRaises, IdleRun
    <2>3. ASSUME search
          PROVE  run'.pc = "next"
      BY <2>3 DEF search, IInv, RunOK, Runs
    <2>4. ASSUME NEW mode \in Modes, BeginRun(mode)
          PROVE  run'.pc = "search"
      BY <2>4 DEF BeginRun, IdleRun
    <2>5. run'.pc \in {"idle", "search", "next", "register", "complete"}
      BY <1>4, <2>1, <2>2, <2>3, <2>4
    <2> QED  BY <1>2, <2>5, NothingMade DEF OneMaking
  <1> QED  BY <1>3, <1>4

LEMMA PickItemMaking ==
    ASSUME IInv, OneMaking, PickItem
    PROVE  OneMaking'
  <1>1. PICK p \in Products : SkipComplete(p) \/ OnlyPublish(p) \/ SkipItem(p) \/ TakeItem(p)
    BY DEF PickItem
  <1>2. UNCHANGED <<service, raster, object, described>> /\ run \in Runs
    BY DEF PickItem, IInv, RunOK
  <1>3. Agreement'
    BY <1>2, ScenesOnly, UnservedByScenes
  <1>4. CASE OnlyPublish(p)
    <2>1. run'.pc = "item" /\ run'.product = p
      BY <1>2, <1>4 DEF OnlyPublish, Take, Runs
    <2>2. service = "sentinel2" /\ Newest(p, LastIndex) # NoObject
      BY <1>4, LastIndexType DEF OnlyPublish, _complete_outputs
    <2>3. Agree(p)
      BY <2>2 DEF OneMaking, Agreement, Given
    <2>4. Agree(p)'
      BY <1>2, <2>3, AgreeKept
    <2>5. Making'
      BY <2>1, <2>4 DEF Making, Describing, PreparedMade, IndicesMade
    <2> QED  BY <1>3, <2>5 DEF OneMaking
  <1>5. CASE SkipComplete(p) \/ SkipItem(p) \/ TakeItem(p)
    <2>1. run'.pc \in {"next", "register"}
      BY <1>2, <1>5 DEF SkipComplete, SkipItem, TakeItem, NextProduct, Take, Runs
    <2> QED  BY <1>3, <2>1, NothingMade DEF OneMaking
  <1> QED  BY <1>1, <1>4, <1>5

LEMMA RegisterMaking ==
    ASSUME IInv, OneMaking, _register_scene
    PROVE  OneMaking'
  <1>1. UNCHANGED <<service, raster, object, described>> /\ run \in Runs
    BY DEF _register_scene, IInv, RunOK
  <1>2. Agreement'
    BY <1>1, ScenesOnly, UnservedByScenes
  <1>3. run'.pc = "assets" /\ run'.left = SourceAssets
    BY <1>1 DEF _register_scene, Runs
  <1>4. Making'
    BY <1>3, WholeLists DEF Making, Describing, PreparedMade, IndicesMade
  <1> QED  BY <1>2, <1>4 DEF OneMaking

\* After a source: the next one, the outputs, or the next product.
LEMMA SourceMaking ==
    ASSUME run'.pc \in {"next", "mirror", "mirrored", "process"},
           run'.pc # "next" => \A a \in Sources : described'[run'.product][a] = run'.items[run'.product]
    PROVE  Making'
  BY DEF Making, Describing, PreparedMade, IndicesMade

LEMMA AssetsMaking ==
    ASSUME IInv, OneMaking, _register_assets
    PROVE  OneMaking'
  <1>0. PICK p \in Products : p = run.product
    BY DEF _register_assets, IInv, RunOK, InProduct
  <1> DEFINE h == Head(run.left)
  <1>1. /\ run.pc = "assets" /\ run \in Runs /\ RunOK /\ RestOf(SourceAssets, run.left)
        /\ UNCHANGED <<service, scene, raster, object>>
        /\ described' = [described EXCEPT ![p][h] = run.items[p]]
        /\ described \in [Products -> [Sources -> {NoObject} \cup Versions]]
    BY <1>0 DEF _register_assets, UpsertAsset, IInv, RunOK, TablesOK
  <1>2. /\ h \in Sources /\ Elements(run.left) = {h} \cup Elements(Tail(run.left))
        /\ Tail(run.left) = <<>> => Elements(run.left) = {h}
    BY <1>1, SourceRest
  <1> HIDE DEF h
  <1>3. /\ described'[p][h] = run.items[p]
        /\ \A a \in Sources : a # h => described'[p][a] = described[p][a]
        /\ \A q \in Products : q # p => described'[q] = described[q]
    BY <1>1, <1>2
  <1>4. Agreement'
    <2>1. ~Given(p)
      BY <1>0, <1>1, NotGiven
    <2>2. \A q \in Products : Given(q) => object'[q] = object[q] /\ described'[q] = described[q]
      BY <1>1, <1>3, <2>1
    <2> QED  BY <1>1, <2>2, AgreementKept, SceneUnchanged DEF OneMaking
  <1>5. \A a \in Sources \ Elements(run.left) : described[p][a] = run.items[p]
    BY <1>0, <1>1 DEF OneMaking, Making, Describing
  <1>6. CASE Tail(run.left) # <<>>
    <2>1. Goto("assets", Tail(run.left))
      BY <1>6 DEF _register_assets
    <2>2. /\ run'.pc = "assets" /\ run'.left = Tail(run.left)
          /\ run'.product = p /\ run'.items = run.items
      BY <1>0, <1>1, <2>1, GotoFields
    <2>3. \A a \in Sources \ Elements(run'.left) : described'[p][a] = run'.items[p]
      BY <1>2, <1>3, <1>5, <2>2
    <2>4. Making'
      BY <2>2, <2>3 DEF Making, Describing, PreparedMade, IndicesMade
    <2> QED  BY <1>4, <2>4 DEF OneMaking
  <1>7. CASE Tail(run.left) = <<>> /\ run.mode = "metadata_only"
    <2>1. run' = NextProduct(p)
      BY <1>0, <1>7 DEF _register_assets
    <2>2. run'.pc = "next"
      BY <1>1, <2>1 DEF NextProduct, Runs
    <2> QED  BY <1>4, <2>2, NothingMade DEF OneMaking
  <1>8. CASE Tail(run.left) = <<>> /\ run.mode # "metadata_only"
    <2>1. Goto("mirror", SourceAssets)
      BY <1>8 DEF _register_assets
    <2>2. run'.pc = "mirror" /\ run'.product = p /\ run'.items = run.items
      BY <1>0, <1>1, <2>1, GotoFields
    <2>3. \A a \in Sources : described'[p][a] = run'.items[p]
      BY <1>2, <1>3, <1>5, <1>8, <2>2
    <2>4. Making'
      BY <2>2, <2>3, SourceMaking
    <2> QED  BY <1>4, <2>4 DEF OneMaking
  <1> QED  BY <1>6, <1>7, <1>8

LEMMA AfterMirrorMaking ==
    ASSUME IInv, OneMaking, run.pc \in {"mirror", "mirrored"}, AfterMirror, described' = described
    PROVE  Making'
  <1>1. run \in Runs /\ RunOK
    BY DEF IInv, RunOK
  <1>2. \/ Goto("mirror", Tail(run.left)) \/ Goto("process", <<>>)
        \/ run' = NextProduct(run.product)
    BY DEF AfterMirror
  <1>3. CASE Goto("mirror", Tail(run.left)) \/ Goto("process", <<>>)
    <2>1. run'.pc \in {"mirror", "process"} /\ run'.product = run.product /\ run'.items = run.items
      BY <1>1, <1>3, GotoFields
    <2>2. \A a \in Sources : described'[run'.product][a] = run'.items[run'.product]
      BY <2>1 DEF OneMaking, Making, Describing
    <2> QED  BY <2>1, <2>2, SourceMaking
  <1>4. CASE run' = NextProduct(run.product)
    <2>1. run'.pc = "next"
      BY <1>1, <1>4 DEF NextProduct, Runs
    <2> QED  BY <2>1, NothingMade
  <1> QED  BY <1>2, <1>3, <1>4

LEMMA MirrorMaking ==
    ASSUME IInv, OneMaking, SkipMirrored \/ mirror_asset \/ RecordMirror
    PROVE  OneMaking'
  <1>1. CASE SkipMirrored \/ RecordMirror
    <2>1. UNCHANGED <<service, scene, raster, object, described>>
      BY <1>1 DEF SkipMirrored, RecordMirror, tables
    <2>2. run.pc \in {"mirror", "mirrored"} /\ AfterMirror
      BY <1>1 DEF SkipMirrored, RecordMirror
    <2>3. Agreement'
      BY <2>1, ScenesOnly, SceneUnchanged
    <2> QED  BY <2>1, <2>2, <2>3, AfterMirrorMaking DEF OneMaking
  <1>2. CASE mirror_asset
    <2>0. PICK p \in Products : p = run.product
      BY <1>2 DEF mirror_asset, IInv, RunOK, InProduct
    <2>1. /\ run.pc = "mirror" /\ RunOK /\ TablesOK
          /\ UNCHANGED <<service, scene, raster, described>>
          /\ Goto("mirrored", run.left)
      BY <1>2 DEF mirror_asset, IInv
    <2>2. \A q \in Products : q # p => object'[q] = object[q]
      <3>1. PICK version : PutObject(p, Head(run.left), version)
        BY <1>2, <2>0 DEF mirror_asset
      <3> QED  BY <2>1, <3>1 DEF PutObject, TablesOK
    <2>3. ~Given(p)
      BY <2>0, <2>1, NotGiven
    <2>4. Agreement'
      BY <2>1, <2>2, <2>3, AgreementKept, SceneUnchanged DEF OneMaking
    <2>5. run'.pc = "mirrored" /\ run'.product = run.product /\ run'.items = run.items
      BY <2>1, GotoFields
    <2>6. \A a \in Sources : described'[run'.product][a] = run'.items[run'.product]
      BY <2>1, <2>5 DEF OneMaking, Making, Describing
    <2>7. Making'
      BY <2>5, <2>6, SourceMaking
    <2> QED  BY <2>4, <2>7 DEF OneMaking
  <1> QED  BY <1>1, <1>2

LEMMA BeginProcessingMaking ==
    ASSUME IInv, OneMaking, BeginProcessing
    PROVE  OneMaking'
  <1>1. UNCHANGED <<service, raster, object, described>> /\ RunOK /\ run.pc = "process"
    BY DEF BeginProcessing, IInv
  <1>2. Agreement'
    BY <1>1, ScenesOnly, UnservedByScenes
  <1>3. \A a \in Sources : described[run.product][a] = run.items[run.product]
    BY <1>1 DEF OneMaking, Making, Describing
  <1>4. CASE service = "sentinel2"
    <2>1. Goto("object", IndexAssets)
      BY <1>4 DEF BeginProcessing
    <2>2. /\ run'.pc = "object" /\ run'.left = IndexAssets
          /\ run'.product = run.product /\ run'.items = run.items
      BY <1>1, <2>1, GotoFields
    <2>3. Prepared' = {} /\ Indices \ Elements(run'.left) = {}
      BY <1>1, <1>4, <2>2, WholeLists DEF Prepared
    <2>4. Making'
      BY <1>1, <1>3, <2>2, <2>3 DEF Making, Describing, PreparedMade, IndicesMade
    <2> QED  BY <1>2, <2>4 DEF OneMaking
  <1>5. CASE service # "sentinel2"
    <2>1. Goto("prepare", PreparedAssets)
      BY <1>5 DEF BeginProcessing
    <2>2. /\ run'.pc = "prepare" /\ run'.left = PreparedAssets
          /\ run'.product = run.product /\ run'.items = run.items
      BY <1>1, <2>1, GotoFields
    <2>3. Making'
      BY <1>1, <1>3, <2>2 DEF Making, Describing, PreparedMade, IndicesMade
    <2> QED  BY <1>2, <2>3 DEF OneMaking
  <1> QED  BY <1>4, <1>5

\* An output of the product in hand is put, which has nothing to answer with.
LEMMA OutputMaking ==
    ASSUME IInv, OneMaking, run.pc \in {"prepare", "object"}, NEW p \in Products, p = run.product,
           NEW o \in Indices \cup Elements(PreparedAssets), PutObject(p, o, ProcessedFrom(p)),
           UNCHANGED <<service, profile, scene, raster, described>>, run'.items = run.items
    PROVE  /\ Agreement'
           /\ ProcessedFrom(p)' = ProcessedFrom(p)
           /\ object'[p][o] = ProcessedFrom(p)
           /\ \A other \in Assets : other # o => object'[p][other] = object[p][other]
  <1>1. /\ o \in Assets /\ o \notin Sources
        /\ \A a \in Sources : a \in Assets
    BY AssetKinds
  <1>2. ProcessedFrom(p) \in Processed
    <2>1. Lineage(p) /\ Mirrored(p)
      BY DEF IInv, Catalog, InHand, Mirroring
    <2> QED  BY <2>1, ProcessedFromMirrored DEF IInv
  <1>3. /\ object'[p][o] = ProcessedFrom(p)
        /\ \A other \in Assets : other # o => object'[p][other] = object[p][other]
        /\ \A q \in Products : q # p => object'[q] = object[q]
    BY <1>1, <1>2, ObjectStep DEF IInv
  <1>4. Agreement'
    <2>1. ~Given(p)
      BY NotGiven
    <2> QED  BY <1>3, <2>1, AgreementKept, SceneUnchanged DEF OneMaking
  <1>5. ProcessedFrom(p)' = ProcessedFrom(p)
    BY <1>1, <1>3, MakingKept
  <1> QED  BY <1>3, <1>4, <1>5

LEMMA PutPreparedMaking ==
    ASSUME IInv, OneMaking, PutPrepared
    PROVE  OneMaking'
  <1>0. PICK p \in Products : p = run.product
    BY DEF PutPrepared, IInv, RunOK, InProduct
  <1>1. PICK h : h = Head(run.left)
    OBVIOUS
  <1>2. /\ run.pc = "prepare" /\ RunOK /\ RestOf(PreparedAssets, run.left)
        /\ PutObject(p, h, ProcessedFrom(p)) /\ Goto("prepared", run.left)
        /\ UNCHANGED <<service, profile, scene, raster, described>>
    BY <1>0, <1>1 DEF PutPrepared, IInv, RunOK
  <1>3. h \in Elements(PreparedAssets) /\ Elements(run.left) = {h} \cup Elements(Tail(run.left))
    BY <1>1, <1>2, PreparedRest
  <1>4. /\ run'.pc = "prepared" /\ run'.left = run.left
        /\ run'.product = p /\ run'.items = run.items
    BY <1>0, <1>2, GotoFields
  <1>5. /\ Agreement'
        /\ ProcessedFrom(p)' = ProcessedFrom(p)
        /\ object'[p][h] = ProcessedFrom(p)
        /\ \A other \in Assets : other # h => object'[p][other] = object[p][other]
    BY <1>0, <1>2, <1>3, <1>4, OutputMaking
  <1>6. /\ \A a \in Sources : described[p][a] = run.items[p]
        /\ \A k \in Elements(PreparedAssets) \ Elements(run.left) : object[p][k] = ProcessedFrom(p)
    BY <1>0, <1>2 DEF OneMaking, Making, Describing, PreparedMade
  <1>7. \A k \in Elements(PreparedAssets) \ Elements(run.left) : object'[p][k] = ProcessedFrom(p)
    BY <1>3, <1>5, <1>6, AssetKinds
  <1>8. Describing'
    BY <1>2, <1>4, <1>6 DEF Describing
  <1>9. PreparedMade(ProcessedFrom(p))' /\ IndicesMade(ProcessedFrom(p))'
    BY <1>1, <1>4, <1>5, <1>7 DEF PreparedMade, IndicesMade
  <1>10. Making'
    BY <1>4, <1>8, <1>9 DEF Making
  <1> QED  BY <1>5, <1>10 DEF OneMaking

LEMMA StorePreparedMaking ==
    ASSUME IInv, OneMaking, _store_prepared_asset
    PROVE  OneMaking'
  <1>0. PICK p \in Products : p = run.product
    BY DEF _store_prepared_asset, IInv, RunOK, InProduct
  <1>1. /\ run.pc = "prepared" /\ RunOK /\ RestOf(PreparedAssets, run.left) /\ service = "landsat"
        /\ UNCHANGED <<service, profile, scene, raster, object, described>>
    BY DEF _store_prepared_asset, IInv, RunOK
  <1>2. /\ Elements(run.left) = {Head(run.left)} \cup Elements(Tail(run.left))
        /\ Tail(run.left) = <<>> => Elements(run.left) = {Head(run.left)}
    BY <1>1, PreparedRest
  <1>3. Agreement'
    BY <1>1, ScenesOnly, SceneUnchanged
  <1>4. /\ \A a \in Sources : described[p][a] = run.items[p]
        /\ \A k \in Elements(PreparedAssets) \ Elements(run.left) : object[p][k] = ProcessedFrom(p)
        /\ object[p][Head(run.left)] = ProcessedFrom(p)
    BY <1>0, <1>1 DEF OneMaking, Making, Describing, PreparedMade
  <1>5. CASE Tail(run.left) = <<>>
    <2>1. Goto("object", IndexAssets)
      BY <1>5 DEF _store_prepared_asset
    <2>2. /\ run'.pc = "object" /\ run'.left = IndexAssets
          /\ run'.product = p /\ run'.items = run.items
      BY <1>0, <1>1, <2>1, GotoFields
    <2>3. ProcessedFrom(p)' = ProcessedFrom(p)
      BY <1>1, <2>2, MakingKept
    <2>4. \A k \in Prepared' : object'[p][k] = ProcessedFrom(p)
      BY <1>1, <1>2, <1>4, <1>5 DEF Prepared
    <2>5. Describing' /\ PreparedMade(ProcessedFrom(p))' /\ IndicesMade(ProcessedFrom(p))'
      BY <1>1, <1>4, <2>2, <2>3, <2>4, WholeLists DEF Describing, PreparedMade, IndicesMade
    <2>6. Making'
      BY <2>2, <2>5 DEF Making
    <2> QED  BY <1>3, <2>6 DEF OneMaking
  <1>6. CASE Tail(run.left) # <<>>
    <2>1. Goto("prepare", Tail(run.left))
      BY <1>6 DEF _store_prepared_asset
    <2>2. /\ run'.pc = "prepare" /\ run'.left = Tail(run.left)
          /\ run'.product = p /\ run'.items = run.items
      BY <1>0, <1>1, <2>1, GotoFields
    <2>3. ProcessedFrom(p)' = ProcessedFrom(p)
      BY <1>1, <2>2, MakingKept
    <2>4. \A k \in Elements(PreparedAssets) \ Elements(run'.left) : object'[p][k] = ProcessedFrom(p)
      BY <1>1, <1>2, <1>4, <2>2
    <2>5. Describing' /\ PreparedMade(ProcessedFrom(p))' /\ IndicesMade(ProcessedFrom(p))'
      BY <1>1, <1>4, <2>2, <2>3, <2>4 DEF Describing, PreparedMade, IndicesMade
    <2>6. Making'
      BY <2>2, <2>5 DEF Making
    <2> QED  BY <1>3, <2>6 DEF OneMaking
  <1> QED  BY <1>5, <1>6

LEMMA PutDerivedMaking ==
    ASSUME IInv, OneMaking, put_derived_cog
    PROVE  OneMaking'
  <1>0. PICK p \in Products : p = run.product
    BY DEF put_derived_cog, IInv, RunOK, InProduct
  <1>1. PICK h : h = Head(run.left)
    OBVIOUS
  <1>2. /\ run.pc = "object" /\ RunOK /\ RestOf(IndexAssets, run.left)
        /\ PutObject(p, h, ProcessedFrom(p))
        /\ UNCHANGED <<service, profile, scene, raster, described>>
    BY <1>0, <1>1 DEF put_derived_cog, IInv, RunOK
  <1>3. /\ h \in Indices /\ Elements(run.left) = {h} \cup Elements(Tail(run.left))
        /\ Tail(run.left) = <<>> => Elements(run.left) = {h}
    BY <1>1, <1>2, IndexRest
  <1>4. \/ /\ service = "landsat" /\ Goto("row", run.left)
        \/ /\ service # "landsat" /\ Tail(run.left) = <<>> /\ Goto("row", IndexAssets)
        \/ /\ service # "landsat" /\ Tail(run.left) # <<>> /\ Goto("object", Tail(run.left))
    BY DEF put_derived_cog
  <1>5. run'.product = p /\ run'.items = run.items
    BY <1>0, <1>2, <1>4, GotoFields
  <1>6. /\ Agreement'
        /\ ProcessedFrom(p)' = ProcessedFrom(p)
        /\ object'[p][h] = ProcessedFrom(p)
        /\ \A other \in Assets : other # h => object'[p][other] = object[p][other]
    BY <1>0, <1>2, <1>3, <1>5, OutputMaking
  <1>7. /\ \A a \in Sources : described[p][a] = run.items[p]
        /\ \A k \in Prepared : object[p][k] = ProcessedFrom(p)
        /\ \A i \in Indices \ Elements(run.left) : object[p][i] = ProcessedFrom(p)
    BY <1>0, <1>2 DEF OneMaking, Making, Describing, PreparedMade, IndicesMade
  <1>8. /\ \A k \in Prepared' : object'[p][k] = ProcessedFrom(p)
        /\ \A i \in Indices \ Elements(run.left) : object'[p][i] = ProcessedFrom(p)
    <2>1. Prepared' \subseteq Elements(PreparedAssets) /\ Prepared' = Prepared
      BY <1>2 DEF Prepared
    <2> QED  BY <1>3, <1>6, <1>7, <2>1, AssetKinds
  <1>9. service \in {"sentinel2", "landsat"}
    BY DEF IInv, TablesOK
  <1>10. CASE service = "landsat" /\ Goto("row", run.left)
    <2>1. run'.pc = "row" /\ run'.left = run.left
      BY <1>2, <1>10, GotoFields
    <2>2. Describing' /\ PreparedMade(ProcessedFrom(p))' /\ IndicesMade(ProcessedFrom(p))'
      BY <1>1, <1>2, <1>5, <1>6, <1>7, <1>8, <1>10, <2>1 DEF Describing, PreparedMade, IndicesMade
    <2>3. Making'
      BY <1>5, <2>1, <2>2 DEF Making
    <2> QED  BY <1>6, <2>3 DEF OneMaking
  <1>11. CASE service # "landsat" /\ Tail(run.left) = <<>> /\ Goto("row", IndexAssets)
    <2>1. run'.pc = "row" /\ run'.left = IndexAssets
      BY <1>2, <1>11, GotoFields
    <2>2. \A i \in Indices : object'[p][i] = ProcessedFrom(p)
      BY <1>3, <1>6, <1>8, <1>11
    <2>3. Head(IndexAssets) \in Indices
      BY WholeLists, IndexRest
    <2>4. Describing' /\ PreparedMade(ProcessedFrom(p))' /\ IndicesMade(ProcessedFrom(p))'
      BY <1>2, <1>5, <1>6, <1>7, <1>8, <2>1, <2>2, <2>3 DEF Describing, PreparedMade, IndicesMade
    <2>5. Making'
      BY <1>5, <2>1, <2>4 DEF Making
    <2> QED  BY <1>6, <2>5 DEF OneMaking
  <1>12. CASE service # "landsat" /\ Tail(run.left) # <<>> /\ Goto("object", Tail(run.left))
    <2>1. run'.pc = "object" /\ run'.left = Tail(run.left)
      BY <1>2, <1>12, GotoFields
    <2>2. \A i \in Indices \ Elements(run'.left) : object'[p][i] = ProcessedFrom(p)
      BY <1>3, <1>6, <1>8, <2>1
    <2>3. Describing' /\ PreparedMade(ProcessedFrom(p))' /\ IndicesMade(ProcessedFrom(p))'
      BY <1>2, <1>5, <1>6, <1>7, <1>8, <2>1, <2>2 DEF Describing, PreparedMade, IndicesMade
    <2>4. Making'
      BY <1>5, <2>1, <2>3 DEF Making
    <2> QED  BY <1>6, <2>4 DEF OneMaking
  <1> QED  BY <1>4, <1>10, <1>11, <1>12

\* The processing of the product in hand, with what it has made so far.
LEMMA MakingInHand ==
    ASSUME IInv, run.pc \in {"object", "row", "layer"}
    PROVE  ProcessedFrom(run.product) \in Processed
  <1>1. run.product \in Products
    BY DEF IInv, RunOK, InProduct
  <1>2. Lineage(run.product) /\ Mirrored(run.product)
    BY <1>1 DEF IInv, Catalog, InHand, Mirroring
  <1> QED  BY <1>1, <1>2, ProcessedFromMirrored DEF IInv

LEMMA UpsertIndexMaking ==
    ASSUME IInv, OneMaking, upsert_derived_index
    PROVE  OneMaking'
  <1>0. PICK p \in Products : p = run.product
    BY DEF upsert_derived_index, IInv, RunOK, InProduct
  <1>1. /\ run.pc = "row" /\ RunOK /\ RestOf(IndexAssets, run.left)
        /\ UNCHANGED <<service, profile, scene, object, described>>
        /\ Goto("layer", run.left)
    BY DEF upsert_derived_index, IInv, RunOK
  <1>2. /\ run'.pc = "layer" /\ run'.left = run.left
        /\ run'.product = p /\ run'.items = run.items
    BY <1>0, <1>1, GotoFields
  <1>3. ProcessedFrom(p)' = ProcessedFrom(p) /\ Prepared' = Prepared
    BY <1>1, <1>2, MakingKept DEF Prepared
  <1>4. Describing /\ PreparedMade(ProcessedFrom(p)) /\ IndicesMade(ProcessedFrom(p))
    BY <1>0 DEF OneMaking, Making
  <1>5. Describing' /\ PreparedMade(ProcessedFrom(p))' /\ IndicesMade(ProcessedFrom(p))'
    BY <1>0, <1>1, <1>2, <1>3, <1>4 DEF Describing, PreparedMade, IndicesMade
  <1>6. Making'
    BY <1>2, <1>5 DEF Making
  <1>7. ASSUME NEW q \in Products, Given(q)'
        PROVE  Agree(q)'
    <2>1. CASE q = p /\ service = "sentinel2"
      <3>1. ProcessedFrom(p) \in Processed /\ Prepared = {} /\ ProcessedFrom(p).calibration = run.items[p]
        BY <1>0, <1>1, <2>1, MakingInHand DEF Prepared, ProcessedFrom
      <3>2. MadeOf(p, ProcessedFrom(p))
        BY <1>0, <1>1, <1>4, <2>1, <3>1 DEF MadeOf, Describing, IndicesMade
      <3> QED  BY <1>1, <2>1, <3>1, <3>2, AgreeKept DEF Agree
    <2>2. CASE q # p \/ service # "sentinel2"
      <3>1. q # p => Newest(q, LastIndex)' = Newest(q, LastIndex)
        <4>1. q # p => raster'[q] = raster[q]
          BY <1>0 DEF upsert_derived_index, IInv, TablesOK
        <4> QED  BY <4>1, NewestIsOfRow
      <3>2. Served(q)' <=> Served(q)
        BY <1>1, SceneUnchanged
      <3>3. Given(q)
        BY <1>1, <1>7, <2>2, <3>1, <3>2 DEF Given
      <3> QED  BY <1>1, <3>3, AgreeKept DEF OneMaking, Agreement
    <2> QED  BY <2>1, <2>2
  <1>8. Agreement'
    BY <1>7 DEF Agreement
  <1> QED  BY <1>6, <1>8 DEF OneMaking

LEMMA UpsertLayerMaking ==
    ASSUME IInv, OneMaking, upsert_for_raster
    PROVE  OneMaking'
  <1>0. PICK p \in Products : p = run.product
    BY DEF upsert_for_raster, IInv, RunOK, InProduct
  <1>1. /\ run.pc = "layer" /\ RunOK /\ RestOf(IndexAssets, run.left)
        /\ UNCHANGED <<service, profile, scene, raster, object, described>>
    BY DEF upsert_for_raster, IInv, RunOK
  <1>2. Agreement'
    BY <1>1, ScenesOnly, SceneUnchanged
  <1>3. Describing /\ PreparedMade(ProcessedFrom(p)) /\ IndicesMade(ProcessedFrom(p))
    BY <1>0 DEF OneMaking, Making
  <1>4. /\ Elements(run.left) = {Head(run.left)} \cup Elements(Tail(run.left))
        /\ Tail(run.left) # <<>> => RestOf(IndexAssets, Tail(run.left))
        /\ Tail(run.left) = <<>> => Elements(run.left) = {Head(run.left)}
    BY <1>1, IndexRest
  <1>5. \A i \in Indices \ Elements(Tail(run.left)) : object[p][i] = ProcessedFrom(p)
    BY <1>0, <1>1, <1>3, <1>4 DEF IndicesMade
  <1>6. CASE Tail(run.left) = <<>>
    <2>1. Goto("item", <<>>)
      BY <1>6 DEF upsert_for_raster
    <2>2. run'.pc = "item" /\ run'.product = p
      BY <1>0, <1>1, <2>1, GotoFields
    <2>3. \A i \in Indices : object[p][i] = ProcessedFrom(p)
      BY <1>0, <1>1, <1>3, <1>4, <1>6 DEF IndicesMade
    <2>4. service = "sentinel2" => ProcessedFrom(p).calibration = run.items[p]
      BY DEF ProcessedFrom
    <2>5. MadeOf(p, ProcessedFrom(p))
      BY <1>0, <1>1, <1>3, <2>3, <2>4 DEF MadeOf, PreparedMade, Describing
    <2>6. Agree(p)'
      BY <1>0, <1>1, <2>5, MakingInHand, AgreeKept DEF Agree
    <2>7. Making'
      BY <2>2, <2>6 DEF Making, Describing, PreparedMade, IndicesMade
    <2> QED  BY <1>2, <2>7 DEF OneMaking
  <1>7. CASE Tail(run.left) # <<>>
    <2>1. PICK pc : /\ pc = IF service = "landsat" THEN "object" ELSE "row"
                    /\ Goto(pc, Tail(run.left))
      BY <1>7 DEF upsert_for_raster
    <2>2. /\ run'.pc = pc /\ run'.left = Tail(run.left)
          /\ run'.product = p /\ run'.items = run.items
      BY <1>0, <1>1, <2>1, GotoFields
    <2>3. ProcessedFrom(p)' = ProcessedFrom(p) /\ Prepared' = Prepared
      BY <1>1, <2>2, MakingKept DEF Prepared
    <2>4. Head(Tail(run.left)) \in Indices
      BY <1>4, <1>7, IndexRest
    <2>5. service \in {"sentinel2", "landsat"}
      BY DEF IInv, TablesOK
    <2>6. Describing' /\ PreparedMade(ProcessedFrom(p))'
      BY <1>0, <1>1, <1>3, <2>1, <2>2, <2>3 DEF Describing, PreparedMade
    <2>7. IndicesMade(ProcessedFrom(p))'
      BY <1>0, <1>1, <1>3, <1>5, <2>1, <2>2, <2>3, <2>4, <2>5 DEF IndicesMade
    <2>8. Making'
      BY <2>1, <2>2, <2>6, <2>7 DEF Making
    <2> QED  BY <1>2, <2>8 DEF OneMaking
  <1> QED  BY <1>6, <1>7

LEMMA UpsertItemMaking ==
    ASSUME IInv, OneMaking, upsert_item_json
    PROVE  OneMaking'
  <1>1. /\ run.pc = "item" /\ RunOK /\ Goto("item_id", <<>>)
        /\ UNCHANGED <<service, scene, raster, object, described>>
    BY DEF upsert_item_json, IInv
  <1>2. run'.pc = "item_id" /\ run'.product = run.product
    BY <1>1, GotoFields
  <1>3. Agree(run.product)
    BY <1>1 DEF OneMaking, Making
  <1>4. Agree(run.product)'
    BY <1>1, <1>2, <1>3 DEF Agree, MadeOf, Prepared
  <1>5. Making'
    BY <1>2, <1>4 DEF Making, Describing, PreparedMade, IndicesMade
  <1>6. Agreement'
    BY <1>1, ScenesOnly, SceneUnchanged
  <1> QED  BY <1>5, <1>6 DEF OneMaking

LEMMA PublishMaking ==
    ASSUME IInv, OneMaking, _publish_scene
    PROVE  OneMaking'
  <1>0. PICK p \in Products : p = run.product
    BY DEF _publish_scene, IInv, RunOK, InProduct
  <1>1. /\ run.pc = "item_id" /\ RunOK /\ run \in Runs
        /\ UNCHANGED <<service, raster, object, described>>
        /\ \A q \in Products : q # p => scene'[q] = scene[q]
    BY <1>0 DEF _publish_scene, UpsertScene, IInv, TablesOK, RunOK
  <1>2. ASSUME NEW q \in Products, Given(q)'
        PROVE  Agree(q)'
    <2>1. CASE q = p
      BY <1>0, <1>1, <2>1, AgreeKept DEF OneMaking, Making
    <2>2. CASE q # p
      <3>1. Newest(q, LastIndex)' = Newest(q, LastIndex) /\ (Served(q)' <=> Served(q))
        BY <1>1, <2>2, NewestIsOfRow DEF Served, Registered
      <3>2. Given(q)
        BY <1>1, <1>2, <3>1 DEF Given
      <3> QED  BY <1>1, <3>2, AgreeKept DEF OneMaking, Agreement
    <2> QED  BY <2>1, <2>2
  <1>3. Agreement'
    BY <1>2 DEF Agreement
  <1>4. run'.pc \in {"complete", "next"}
    <2>1. Goto("complete", <<>>) \/ run' = NextProduct(run.product)
      BY DEF _publish_scene
    <2> QED  BY <1>1, <2>1, GotoFields DEF NextProduct, Runs
  <1> QED  BY <1>3, <1>4, NothingMade DEF OneMaking

LEMMA LeaveMaking ==
    ASSUME IInv, OneMaking, MarkComplete \/ ItemRaises
    PROVE  OneMaking'
  <1>1. UNCHANGED <<service, raster, object, described>> /\ run \in Runs
    BY DEF MarkComplete, ItemRaises, IInv, RunOK
  <1>2. Agreement'
    BY <1>1, ScenesOnly, UnservedByScenes
  <1>3. run'.pc = "next"
    BY <1>1 DEF MarkComplete, ItemRaises, NextProduct, Runs
  <1> QED  BY <1>2, <1>3, NothingMade DEF OneMaking

LEMMA MakingNext ==
    ASSUME IInv, OneMaking, [Next]_vars
    PROVE  OneMaking'
  <1>1. CASE UNCHANGED vars \/ Republish \/ Upgrade \/ RunLost
             \/ \E mode \in {"metadata_only", "mirror_only", "full_pipeline"} : BeginRun(mode)
    BY <1>1, AroundMaking DEF Modes
  <1>2. CASE RunStep
    BY <1>2, AroundMaking, PickItemMaking, RegisterMaking, AssetsMaking, MirrorMaking,
       BeginProcessingMaking, PutPreparedMaking, StorePreparedMaking, PutDerivedMaking,
       UpsertIndexMaking, UpsertLayerMaking, UpsertItemMaking, PublishMaking, LeaveMaking DEF RunStep
  <1> QED  BY <1>1, <1>2 DEF Next

LEMMA MakingAlways == Spec => []OneMaking
  BY InvAlways, InitMaking, MakingNext, PTL DEF Spec

LEMMA OutputsOfMaking ==
    ASSUME IInv, OneMaking
    PROVE  OutputsAgree
  <1> SUFFICES ASSUME NEW p \in Products,
                      Served(p) \/ (service = "sentinel2" /\ _complete_outputs(p))
               PROVE  \E making \in Processed :
                         /\ \A i \in Indices : Newest(p, i) = making
                         /\ \A k \in Prepared : prepared[p][k] = making
                         /\ service = "sentinel2" => \A a \in Sources : described[p][a] = making.calibration
    BY DEF OutputsAgree, Served
  <1>1. Whole(p)
    BY CompleteIsWhole DEF IInv, Catalog, ServedIsWhole
  <1>2. Given(p)
    BY LastIndexType DEF Given, _complete_outputs
  <1>3. PICK making \in Processed : MadeOf(p, making)
    BY <1>2 DEF OneMaking, Agreement, Agree
  <1> QED  BY <1>1, <1>3 DEF Whole, Current, Stored, MadeOf

\* The outputs a scene is served with are of one making, of one calibration that
\* is with Sentinel-2 the one its asset rows state, however many runs were cut
\* and whatever was published again or deployed between them.
THEOREM OutputsAgreeAlways == Spec => []OutputsAgree
  BY InvAlways, MakingAlways, OutputsOfMaking, PTL
=============================================================================
