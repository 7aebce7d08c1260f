--------------------------- MODULE MCResourceSat ---------------------------
(* One product of the first date, two of the second.  The second pair has a *)
(* pixel each product has valid, one that the older alone has valid and one *)
(* that neither has; two of the three products fit in a run's downloads.    *)
(* The reflectances bring out every mask class.                             *)
EXTENDS ResourceSat, TLC

CONSTANTS p1, p2, p3, x1, x2, x3

MCIndices == <<"ndvi", "ndwi">>
MCTakenAt == (p1 :> 1 @@ p2 :> 2 @@ p3 :> 3)
MCDateOf == (p1 :> 1 @@ p2 :> 2 @@ p3 :> 2)
MCOverlap == (p1 :> 2 @@ p2 :> 1 @@ p3 :> 1)
Of(g, r, n, s) == [green |-> g, red |-> r, nir |-> n, swir |-> s]
Crop == Of(5, 4, 40, 20)
Overcast == Of(50, 50, 50, 40)
Shade == Of(5, 5, 7, 5)
Lake == Of(10, 6, 4, 2)
Glint == Of(60, 40, 10, 25)     \* as bright as a cloud, and water

MCFootprint == (p1 :> {x1, x2} @@ p2 :> {x1, x2, x3} @@ p3 :> {x1, x2, x3})
MCBands ==
    (p1 :> (x1 :> Crop @@ x2 :> Overcast @@ x3 :> Crop) @@
     p2 :> (x1 :> Crop @@ x2 :> Lake @@ x3 :> Shade) @@
     p3 :> (x1 :> Glint @@ x2 :> Overcast @@ x3 :> Overcast))
\* Nothing, one product of either date, the later date with and without the earlier.
MCResults == {{}, {p1}, {p2}, {p2, p3}, {p1, p2, p3}}

\* Both dates, the later one again, and the later one without its indices.
MCSubmissions ==
    {[window |-> {1, 2}, mode |-> "full_pipeline"], [window |-> {2}, mode |-> "full_pipeline"],
     [window |-> {2}, mode |-> "composite_only"]}
=============================================================================
