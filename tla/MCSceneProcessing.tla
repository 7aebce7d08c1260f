-------------------------- MODULE MCSceneProcessing --------------------------
(***************************************************************************)
(* An instance of SceneProcessing for TLC.                                 *)
(***************************************************************************)
EXTENDS SceneProcessing

CONSTANTS good, bad, broken

\* Landsat takes the products that fail first.
Order == [p \in Products |-> CASE p = good -> 3 [] p = bad -> 2 [] OTHER -> 1]

\* The good product is published again, whole, then without an asset, and then
\* whole once more.
ThirdOfGood == {<<good, 3>>}

TwoSources == <<"red", "nir">>

OnePrepared == <<"analytic">>

TwoIndices == <<"ndvi", "ndmi">>
=============================================================================
