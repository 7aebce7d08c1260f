---------------------------- MODULE MCSarEvidence ----------------------------
(***************************************************************************)
(* An instance of SarEvidence for TLC: two passes over one field.          *)
(***************************************************************************)
EXTENDS SarEvidence

CONSTANTS first, second

PassDay == [p \in Products |-> IF p = first THEN 1 ELSE 2]
PassOverlap == [p \in Products |-> IF p = first THEN 5 ELSE 9]
\* Both passes: the second backfill is a new one after an upgrade or a failure.
Asked == {[mode |-> "full_pipeline", from |-> 1, to |-> 2]}

PassKind == [p \in Products |-> 1]
PassCoverage == [p \in Products |-> 100]
=============================================================================
