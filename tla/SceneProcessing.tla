---------------------------- MODULE SceneProcessing ----------------------------
(***************************************************************************)
(* The scene loops of Sentinel-2 and Landsat (_process_items and what it   *)
(* calls), statement by statement: rows of the scene, asset, raster and    *)
(* tile layer repositories, objects of the object store and the pgSTAC     *)
(* item are written one at a time, by one worker that may be lost between  *)
(* any two of them.  Runs of any mode follow one another for ever.         *)
(*                                                                         *)
(* The content of an object, and so its checksum, is what it was made      *)
(* from: the version of the file the provider had, or the processing       *)
(* profile, the versions of the sources and the calibration (scale, offset *)
(* and nodata) that went into it.  A search that raises fails the day or   *)
(* the window and writes none of these tables: ledger, retry counts and    *)
(* jobs are Sentinel2Sync's and BackfillDelivery's.                        *)
(***************************************************************************)
EXTENDS Integers, Sequences, FiniteSets, FiniteSetsExt

CONSTANTS Products,       \* what every search of the window finds
          SelectionKey,   \* Landsat's order of the products, a number each
          Republished,    \* products that may be published again
          Lacking,        \* items, <<product, version>>, that lack a required asset
          Invalid,        \* products whose assets do not pass validation
          Unfetchable,    \* products that cannot be downloaded
          SourceAssets,   \* the required assets, in order
          PreparedAssets, \* Landsat's prepared assets, in order
          IndexAssets,    \* the derived indices, in order
          MaxNewScenes,   \* landsat_max_new_scenes_per_run
          NoObject, NoScene, Nobody,
          MaxFaults       \* bound: errors, lost workers, republications, upgrades

Elements(seq) == {seq[i] : i \in DOMAIN seq}

NoRepeats(seq) == \A i, j \in DOMAIN seq : seq[i] = seq[j] => i = j

Sources == Elements(SourceAssets)

Indices == Elements(IndexAssets)

Profiles == 1..(MaxFaults + 1)

Versions == 1..(MaxFaults + 1)

\* The calibration of a version of the item, or the constants of Collection 2.
Calibrations == 0..(MaxFaults + 1)

Processed == [profile : Profiles, from : [Sources -> Versions], calibration : Calibrations]

\* "retrying" is for errors of the provider, which nothing in the loop raises.
SceneRow == [state : {"pending", "processing", "complete", "failed"}, item : BOOLEAN]

\* Source, prepared and derived objects have keys of their own.
ASSUME SceneAssumption ==
    /\ Invalid \cup Unfetchable \cup Republished \subseteq Products
    /\ Lacking \subseteq Products \X Versions
    /\ SelectionKey \in [Products -> Nat]
    /\ \A p, q \in Products : SelectionKey[p] = SelectionKey[q] => p = q
    /\ MaxNewScenes \in Nat \ {0} /\ MaxFaults \in Nat
    /\ \A seq \in {SourceAssets, PreparedAssets, IndexAssets} :
          seq \in Seq(Elements(seq)) /\ seq # <<>> /\ NoRepeats(seq)
    /\ Sources \cap (Indices \cup Elements(PreparedAssets)) = {}
    /\ Indices \cap Elements(PreparedAssets) = {}
    /\ NoObject \notin Versions \cup Processed
    /\ NoScene \notin SceneRow

VARIABLES service,   \* whose loop this is
          offered,   \* the version the provider offers of each product
          profile,   \* processing profile of the deployed workers
          scene,     \* provider_scenes
          asset,     \* scene_assets: the mirror of each source, NoObject while pending
          described, \* scene_assets: the version of href, scale, offset and nodata
          prepared,  \* scene_assets: the checksum of each prepared asset
          raster,    \* raster_outputs: the checksum of each index and profile
          layer,     \* tile_layers: the raster rows that have one
          object,    \* object store
          item,      \* the assets of each pgSTAC item, {} for none
          run,       \* the worker
          faults

tables == <<scene, asset, described, prepared, raster, layer, object, item>>

vars == <<service, offered, profile, tables, run, faults>>

Prepared == IF service = "landsat" THEN Elements(PreparedAssets) ELSE {}

NoItems == [p \in Products |-> 0]

\* items: the versions of the items the search of this run returned.
IdleRun == [pc |-> "idle", mode |-> "metadata_only", items |-> NoItems, todo |-> {},
            product |-> Nobody, left |-> <<>>, new |-> 0, mine |-> FALSE]

Init ==
    /\ service \in {"sentinel2", "landsat"}
    /\ offered = [p \in Products |-> 1]
    /\ profile = 1
    /\ scene = [p \in Products |-> NoScene]
    /\ asset = [p \in Products |-> [a \in Sources |-> NoObject]]
    /\ described = [p \in Products |-> [a \in Sources |-> NoObject]]
    /\ prepared = [p \in Products |-> [k \in Elements(PreparedAssets) |-> NoObject]]
    /\ raster = [p \in Products |-> [i \in Indices |-> [v \in Profiles |-> NoObject]]]
    /\ layer = [p \in Products |-> {}]
    /\ object = [p \in Products |->
                    [o \in Sources \cup Elements(PreparedAssets) \cup Indices |-> NoObject]]
    /\ item = [p \in Products |-> {}]
    /\ run = IdleRun
    /\ faults = 0

Fault ==
    /\ faults < MaxFaults
    /\ faults' = faults + 1

Goto(pc, left) == run' = [run EXCEPT !.pc = pc, !.left = left]

\* The provider publishes a product again under its name.
Republish ==
    /\ Fault
    /\ \E p \in Republished : offered' = [offered EXCEPT ![p] = @ + 1]
    /\ UNCHANGED <<service, profile, tables, run>>

\* Workers with a newer processing profile are deployed.
Upgrade ==
    /\ run.pc = "idle"
    /\ Fault
    /\ profile' = profile + 1
    /\ UNCHANGED <<service, offered, tables, run>>
-----------------------------------------------------------------------------
(***************************************************************************)
(* The repositories.                                                       *)
(***************************************************************************)
\* Every column is written, so a new record of a product takes its item away.
UpsertScene(p, row) == scene' = [scene EXCEPT ![p] = row]

\* Mutant: the row is pending again, whatever it had.
UpsertAssetForgetful(p, a) ==
    /\ asset' = [asset EXCEPT ![p][a] = NoObject]
    /\ described' = [described EXCEPT ![p][a] = run.items[p]]

\* A pending record leaves the mirror of the row as it is, and puts the item of
\* this run over its other columns.
UpsertAsset(p, a) ==
    /\ described' = [described EXCEPT ![p][a] = run.items[p]]
    /\ UNCHANGED asset

UpdateMirror(p, a, checksum) == asset' = [asset EXCEPT ![p][a] = checksum]

\* The rows of an index are told apart by their profile; the newest counts.
Newest(p, i) ==
    LET rows == {v \in Profiles : raster[p][i][v] # NoObject}
    IN  IF rows = {} THEN NoObject ELSE raster[p][i][Max(rows)]

\* Mutant: one index is enough.
_complete_outputs_of_any(p) == \E i \in Indices : Newest(p, i) # NoObject

_complete_outputs(p) ==
    /\ \A i \in Indices : Newest(p, i) # NoObject
    /\ \A k \in Prepared : prepared[p][k] # NoObject

Registered(p) == scene[p] # NoScene

_scene_is_complete(p) == Registered(p) /\ _complete_outputs(p) /\ scene[p].item

PutObject(p, o, content) == object' = [object EXCEPT ![p][o] = content]

\* What processing makes of the sources as they are mirrored.  Sentinel-2 takes
\* scale, offset and nodata from the item of this run, whenever the mirror was
\* made; Landsat has its own.
ProcessedFrom(p) ==
    [profile |-> profile, from |-> [a \in Sources |-> object[p][a]],
     calibration |-> IF service = "sentinel2" THEN run.items[p] ELSE 0]
-----------------------------------------------------------------------------
(***************************************************************************)
(* _process_items: one product after the other.                            *)
(***************************************************************************)
BeginRun(mode) ==
    /\ run.pc = "idle"
    /\ run' = [IdleRun EXCEPT !.pc = "search", !.mode = mode]
    /\ UNCHANGED <<service, offered, profile, tables, faults>>

Normalizable(p) == <<p, offered[p]>> \notin Lacking

search ==
    /\ run.pc = "search"
    /\ \A p \in Products : Normalizable(p)
    /\ run' = [run EXCEPT !.pc = "next", !.todo = Products,
                          !.items = offered]
    /\ UNCHANGED <<service, offered, profile, tables, faults>>

\* One item without a required asset raises out of the whole search.
SearchRaises ==
    /\ run.pc = "search"
    /\ \E p \in Products : ~Normalizable(p)
    /\ run' = IdleRun
    /\ UNCHANGED <<service, offered, profile, tables, faults>>

\* Landsat sorts what the search returned, Sentinel-2 takes it as it comes.
Selected(p) ==
    /\ p \in run.todo
    /\ service = "landsat" => \A q \in run.todo : SelectionKey[p] <= SelectionKey[q]

NextProduct(p) ==
    [run EXCEPT !.pc = "next", !.todo = @ \ {p}, !.product = Nobody, !.left = <<>>, !.mine = FALSE]

Take(p, pc, new) == [run EXCEPT !.pc = pc, !.todo = @ \ {p}, !.product = p, !.new = @ + new]

\* The product is served.  Sentinel-2 marks the scene as complete if a lost
\* worker or a failure did not.
SkipComplete(p) ==
    /\ _scene_is_complete(p)
    /\ IF service = "sentinel2" THEN UpsertScene(p, [scene[p] EXCEPT !.state = "complete"])
       ELSE UNCHANGED scene
    /\ run' = NextProduct(p)

\* Sentinel-2 only publishes the outputs of a scene that has them all.
OnlyPublish(p) ==
    /\ service = "sentinel2"
    /\ Registered(p) /\ _complete_outputs(p) /\ ~_scene_is_complete(p)
    /\ run' = Take(p, "item", 0)
    /\ UNCHANGED scene

NeedsProcessing(p) ==
    /\ ~_scene_is_complete(p)
    /\ service = "sentinel2" => ~(Registered(p) /\ _complete_outputs(p))

\* Mutant: every scene that is not complete takes a place of the run.
CountsAsNewAlways(p) == service = "landsat" /\ run.mode # "metadata_only"

\* Landsat takes a bounded number of products it has not seen before.
CountsAsNew(p) == service = "landsat" /\ run.mode # "metadata_only" /\ ~Registered(p)

\* Landsat validates a product before anything else.
SkipItem(p) ==
    /\ NeedsProcessing(p)
    /\ service = "landsat"
    /\ p \in Invalid \/ (CountsAsNew(p) /\ run.new >= MaxNewScenes)
    /\ run' = NextProduct(p)
    /\ UNCHANGED scene

\* Mutant: the bound is not looked at.
TakeItemUnbounded(p) ==
    /\ NeedsProcessing(p)
    /\ run' = Take(p, "register", IF CountsAsNew(p) THEN 1 ELSE 0)
    /\ UNCHANGED scene

TakeItem(p) ==
    /\ NeedsProcessing(p)
    /\ service = "landsat" => p \notin Invalid /\ (CountsAsNew(p) => run.new < MaxNewScenes)
    /\ run' = Take(p, "register", IF CountsAsNew(p) THEN 1 ELSE 0)
    /\ UNCHANGED scene

\* Mutant: a scene that has its outputs is processed again.
PickItemAgain ==
    /\ run.pc = "next"
    /\ \E p \in Products :
          /\ Selected(p)
          /\ run' = Take(p, "register", 0)
          /\ UNCHANGED scene
    /\ UNCHANGED <<service, offered, profile, asset, described, prepared, raster, layer, object, item, faults>>

PickItem ==
    /\ run.pc = "next"
    /\ \E p \in Products :
          /\ Selected(p)
          /\ SkipComplete(p) \/ OnlyPublish(p) \/ SkipItem(p) \/ TakeItem(p)
    /\ UNCHANGED <<service, offered, profile, asset, described, prepared, raster, layer, object, item, faults>>

EndRun ==
    /\ run.pc = "next" /\ run.todo = {}
    /\ run' = IdleRun
    /\ UNCHANGED <<service, offered, profile, tables, faults>>
-----------------------------------------------------------------------------
(***************************************************************************)
(* Registration and mirroring.                                             *)
(***************************************************************************)
_register_scene ==
    /\ run.pc = "register"
    /\ UpsertScene(run.product, [state |-> "pending", item |-> FALSE])
    /\ run' = [run EXCEPT !.pc = "assets", !.left = SourceAssets, !.mine = TRUE]
    /\ UNCHANGED <<service, offered, profile, asset, described, prepared, raster, layer, object, item, faults>>

_register_assets ==
    /\ run.pc = "assets" /\ run.product \notin Invalid
    /\ UpsertAsset(run.product, Head(run.left))
    /\ IF Tail(run.left) # <<>> THEN Goto("assets", Tail(run.left))
       ELSE IF run.mode = "metadata_only" THEN run' = NextProduct(run.product)
       ELSE Goto("mirror", SourceAssets)
    /\ UNCHANGED <<service, offered, profile, scene, prepared, raster, layer, object, item, faults>>

AfterMirror ==
    IF Tail(run.left) # <<>> THEN Goto("mirror", Tail(run.left))
    ELSE IF run.mode = "mirror_only" THEN run' = NextProduct(run.product)
    ELSE Goto("process", <<>>)

SkipMirrored ==
    /\ run.pc = "mirror"
    /\ asset[run.product][Head(run.left)] # NoObject
    /\ AfterMirror
    /\ UNCHANGED <<service, offered, profile, tables, faults>>

\* The file behind the link of the item in hand is downloaded and put over what
\* may be there: the file of that item, or one that was put in its place since.
mirror_asset ==
    /\ run.pc = "mirror" /\ run.product \notin Unfetchable
    /\ asset[run.product][Head(run.left)] = NoObject
    /\ \E version \in {run.items[run.product], offered[run.product]} :
          PutObject(run.product, Head(run.left), version)
    /\ Goto("mirrored", run.left)
    /\ UNCHANGED <<service, offered, profile, scene, asset, described, prepared, raster, layer, item, faults>>

RecordMirror ==
    /\ run.pc = "mirrored"
    /\ UpdateMirror(run.product, Head(run.left), object[run.product][Head(run.left)])
    /\ AfterMirror
    /\ UNCHANGED <<service, offered, profile, scene, described, prepared, raster, layer, object, item, faults>>
-----------------------------------------------------------------------------
(***************************************************************************)
(* Outputs: Sentinel-2 puts every object and then writes every row,        *)
(* Landsat writes the row of each object after it.                         *)
(***************************************************************************)
BeginProcessing ==
    /\ run.pc = "process"
    /\ IF service = "sentinel2"
       THEN /\ UpsertScene(run.product, [scene[run.product] EXCEPT !.state = "processing"])
            /\ Goto("object", IndexAssets)
       ELSE /\ Goto("prepare", PreparedAssets)
            /\ UNCHANGED scene
    /\ UNCHANGED <<service, offered, profile, asset, described, prepared, raster, layer, object, item, faults>>

PutPrepared ==
    /\ run.pc = "prepare"
    /\ PutObject(run.product, Head(run.left), ProcessedFrom(run.product))
    /\ Goto("prepared", run.left)
    /\ UNCHANGED <<service, offered, profile, scene, asset, described, prepared, raster, layer, item, faults>>

_store_prepared_asset ==
    /\ run.pc = "prepared"
    /\ prepared' = [prepared EXCEPT ![run.product][Head(run.left)] =
                        object[run.product][Head(run.left)]]
    /\ IF Tail(run.left) = <<>> THEN Goto("object", IndexAssets) ELSE Goto("prepare", Tail(run.left))
    /\ UNCHANGED <<service, offered, profile, scene, asset, described, raster, layer, object, item, faults>>

\* Mutant: an index that has its row already is not made again.
put_derived_cog_resumes ==
    /\ run.pc = "object"
    /\ IF Newest(run.product, Head(run.left)) = NoObject
       THEN PutObject(run.product, Head(run.left), ProcessedFrom(run.product))
       ELSE UNCHANGED object
    /\ IF service = "landsat" THEN Goto("row", run.left)
       ELSE IF Tail(run.left) = <<>> THEN Goto("row", IndexAssets)
       ELSE Goto("object", Tail(run.left))
    /\ UNCHANGED <<service, offered, profile, scene, asset, described, prepared, raster, layer, item, faults>>

put_derived_cog ==
    /\ run.pc = "object"
    /\ PutObject(run.product, Head(run.left), ProcessedFrom(run.product))
    /\ IF service = "landsat" THEN Goto("row", run.left)
       ELSE IF Tail(run.left) = <<>> THEN Goto("row", IndexAssets)
       ELSE Goto("object", Tail(run.left))
    /\ UNCHANGED <<service, offered, profile, scene, asset, described, prepared, raster, layer, item, faults>>

upsert_derived_index ==
    /\ run.pc = "row"
    /\ raster' = [raster EXCEPT ![run.product][Head(run.left)][profile] =
                      object[run.product][Head(run.left)]]
    /\ Goto("layer", run.left)
    /\ UNCHANGED <<service, offered, profile, scene, asset, described, prepared, layer, object, item, faults>>

upsert_for_raster ==
    /\ run.pc = "layer"
    /\ layer' = [layer EXCEPT ![run.product] = @ \cup {<<Head(run.left), profile>>}]
    /\ IF Tail(run.left) = <<>> THEN Goto("item", <<>>)
       ELSE Goto(IF service = "landsat" THEN "object" ELSE "row", Tail(run.left))
    /\ UNCHANGED <<service, offered, profile, scene, asset, described, prepared, raster, object, item, faults>>
-----------------------------------------------------------------------------
(***************************************************************************)
(* Publication: the item first, then its id in the scene.                  *)
(***************************************************************************)
upsert_item_json ==
    /\ run.pc = "item"
    /\ item' = [item EXCEPT ![run.product] =
                    Prepared \cup {i \in Indices : Newest(run.product, i) # NoObject}]
    /\ Goto("item_id", <<>>)
    /\ UNCHANGED <<service, offered, profile, scene, asset, described, prepared, raster, layer, object, faults>>

_publish_scene ==
    /\ run.pc = "item_id"
    /\ UpsertScene(run.product, [scene[run.product] EXCEPT !.item = TRUE])
    /\ IF service = "sentinel2" THEN Goto("complete", <<>>) ELSE run' = NextProduct(run.product)
    /\ UNCHANGED <<service, offered, profile, asset, described, prepared, raster, layer, object, item, faults>>

MarkComplete ==
    /\ run.pc = "complete"
    /\ UpsertScene(run.product, [scene[run.product] EXCEPT !.state = "complete"])
    /\ run' = NextProduct(run.product)
    /\ UNCHANGED <<service, offered, profile, asset, described, prepared, raster, layer, object, item, faults>>
-----------------------------------------------------------------------------
(***************************************************************************)
(* Failures.                                                               *)
(***************************************************************************)
InProduct == {"register", "assets", "mirror", "mirrored", "process", "prepare", "prepared", "object", "row",
              "layer", "item", "item_id", "complete"}

\* Sentinel-2 notes the failure in the scene, if it was registered in this run.
ItemRaises ==
    /\ run.pc \in InProduct
    /\ \/ run.pc = "assets" /\ run.product \in Invalid /\ UNCHANGED faults
       \/ run.pc = "mirror" /\ run.product \in Unfetchable /\ UNCHANGED faults
       \/ Fault
    /\ IF service = "sentinel2" /\ run.mine
       THEN UpsertScene(run.product, [scene[run.product] EXCEPT !.state = "failed"])
       ELSE UNCHANGED scene
    /\ run' = NextProduct(run.product)
    /\ UNCHANGED <<service, offered, profile, asset, described, prepared, raster, layer, object, item>>

\* The worker is lost, or a database error leaves the loop.
RunLost ==
    /\ run.pc # "idle"
    /\ Fault
    /\ run' = IdleRun
    /\ UNCHANGED <<service, offered, profile, tables>>

RunStep ==
    \/ search
    \/ SearchRaises
    \/ PickItem
    \/ EndRun
    \/ _register_scene
    \/ _register_assets
    \/ SkipMirrored
    \/ mirror_asset
    \/ RecordMirror
    \/ BeginProcessing
    \/ PutPrepared
    \/ _store_prepared_asset
    \/ put_derived_cog
    \/ upsert_derived_index
    \/ upsert_for_raster
    \/ upsert_item_json
    \/ _publish_scene
    \/ MarkComplete
    \/ ItemRaises

Next ==
    \/ Republish
    \/ Upgrade
    \/ \E mode \in {"metadata_only", "mirror_only", "full_pipeline"} : BeginRun(mode)
    \/ RunStep
    \/ RunLost

Spec == Init /\ [][Next]_vars

\* A run goes on, and there is a scheduled one again and again, whatever runs
\* are asked for by hand in between.
Fairness ==
    /\ WF_vars(RunStep)
    /\ SF_vars(BeginRun("full_pipeline"))

FairSpec == Spec /\ Fairness
-----------------------------------------------------------------------------
\* Every variable keeps its type; a run begins no more new scenes than its bound.
TypeOK ==
    /\ service \in {"sentinel2", "landsat"}
    /\ offered \in [Products -> Versions] /\ profile \in Profiles
    /\ \A p \in Products :
          /\ scene[p] \in {NoScene} \cup SceneRow
          /\ asset[p] \in [Sources -> {NoObject} \cup Versions]
          /\ described[p] \in [Sources -> {NoObject} \cup Versions]
          /\ item[p] \subseteq Elements(PreparedAssets) \cup Indices
          /\ layer[p] \subseteq Indices \X Profiles
          /\ \A i \in Indices : Newest(p, i) \in {NoObject} \cup Processed
          /\ \A k \in Elements(PreparedAssets) : prepared[p][k] \in {NoObject} \cup Processed
    /\ run.pc \in {"idle", "search", "next"} \cup InProduct
    /\ run.product \in Products \cup {Nobody} /\ run.todo \subseteq Products
    /\ run.new \in 0..MaxNewScenes
    /\ faults \in 0..MaxFaults

\* A scene that names its pgSTAC item can be served: the item lists all its
\* assets, and behind each index and prepared asset there is a row whose
\* checksum is the object's, whatever profile was deployed and whatever was lost
\* while it was made.  Only Sentinel-2 may lack the tile layer of the last index.
ServedSceneIsWhole ==
    \A p \in Products : Registered(p) /\ scene[p].item =>
        /\ item[p] = Prepared \cup Indices
        /\ \A i \in Indices : Newest(p, i) = object[p][i] /\ object[p][i] # NoObject
        /\ \A k \in Prepared : prepared[p][k] = object[p][k] /\ object[p][k] # NoObject
        /\ service = "landsat" => \A i \in Indices : \E v \in Profiles : <<i, v>> \in layer[p]

\* A mirrored asset is what its row says, and the pixels of every output were
\* made from what is mirrored, however often the product was published again and
\* its processing repeated.  (Of the calibration, see OutputsAgree.)
LineageHolds ==
    \A p \in Products :
        /\ \A a \in Sources : asset[p][a] # NoObject => object[p][a] = asset[p][a]
        /\ \A i \in Indices : Newest(p, i) # NoObject => Newest(p, i).from = asset[p]
        /\ \A k \in Prepared : prepared[p][k] # NoObject => prepared[p][k].from = asset[p]

\* The outputs a scene is served with are of one making, although every run that
\* was cut left some of its own behind: one profile, one set of sources, one
\* calibration.  With Sentinel-2 it is the calibration its asset rows state, and
\* so already when the last row is there; it may be of a later item than the
\* mirrored pixels.
OutputsAgree ==
    \A p \in Products :
        (Registered(p) /\ scene[p].item) \/ (service = "sentinel2" /\ _complete_outputs(p)) =>
        \E making \in Processed :
            /\ \A i \in Indices : Newest(p, i) = making
            /\ \A k \in Prepared : prepared[p][k] = making
            /\ service = "sentinel2" => \A a \in Sources : described[p][a] = making.calibration

\* Serving: a served product stays served, with the outputs it was served with.
ServedOutputs(p) ==
    IF Registered(p) /\ scene[p].item THEN [i \in Indices |-> object[p][i]] ELSE NoObject

Lifecycle ==
    INSTANCE SceneLifecycle WITH
        Unserved <- NoObject,
        registered <- {p \in Products : Registered(p)},
        served <- [p \in Products |-> ServedOutputs(p)]

ImplementsLifecycle == Lifecycle!Spec

\* Every product that can be processed is served in the end: neither the bound
\* on new scenes nor a product that fails in every run keeps it from it.  It
\* takes that the searches succeed from some time on: one item that lacks a
\* required asset for good fails the search, and with it every other product.
EveryProductServed ==
    <>[](\A p \in Products : Normalizable(p)) =>
    \A p \in Products \ (Invalid \cup Unfetchable) : <>[](Registered(p) /\ scene[p].item)
=============================================================================
