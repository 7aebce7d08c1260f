--------------------------- MODULE MCSentinel2Sync ---------------------------
(***************************************************************************)
(* Instances of Sentinel2Sync for TLC.                                     *)
(***************************************************************************)
EXTENDS Sentinel2Sync

CONSTANTS a, b, c, w1

\* The first day has two products and the provider sometimes leaves out the
\* later one, or both; the second day has one; the others are empty.
NestedResults ==
    [d \in Days |-> CASE d = 1 -> {{}, {a}, {a, b}}
                      [] d = 2 -> {{}, {c}}
                      [] OTHER -> {{}}]

NoRequests == {}

\* The first day through the API, once to completion and once for its metadata.
DayOneRequests ==
    {[start |-> 1, end |-> 1, mode |-> "full_pipeline"],
     [start |-> 1, end |-> 1, mode |-> "metadata_only"]}
=============================================================================
