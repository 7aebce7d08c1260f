------------------------- MODULE MCBackfillDelivery -------------------------
(***************************************************************************)
(* Instances of BackfillDelivery for TLC.                                  *)
(***************************************************************************)
EXTENDS BackfillDelivery, TLC

CONSTANTS r1, r2, r3, k1, k2, w1, w2

\* Two requests for one window and a third for another.
TwoKeys == (r1 :> k1) @@ (r2 :> k1) @@ (r3 :> k2)

\* Two requests for the same window.
OneKey == (r1 :> k1) @@ (r2 :> k1)

Eos04DownloadOnly == Eos04Backfill("download_only")

PipelineStages == {Service.pipeline[i] : i \in DOMAIN Service.pipeline}
=============================================================================
