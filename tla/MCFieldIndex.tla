----------------------------- MODULE MCFieldIndex -----------------------------
(***************************************************************************)
(* An instance of FieldIndex for TLC: six scenes on two days.             *)
(***************************************************************************)
EXTENDS FieldIndex, TLC

CONSTANTS r1, clear, hazy, edge, source, before, part

Scene(day, acquired, cloud, product) ==
    [day |-> day, acquired |-> acquired, cloud |-> cloud, product |-> product, composite |-> TRUE]

\* On day 2 a tile over the field whose scene is cloudy but whose field is clear,
\* one that is clear except over the field, a later one that the field only
\* touches, and a source product that a composite was made of; on day 1 a tile
\* that is better than all of them, and one whose image ends within the field.
SixScenes ==
    (clear :> Scene(2, 1, 80, 4)) @@ (hazy :> Scene(2, 2, 5, 3)) @@ (edge :> Scene(2, 4, 0, 2)) @@
    (source :> [Scene(2, 3, 0, 5) EXCEPT !.composite = FALSE]) @@ (before :> Scene(1, 0, 0, 1)) @@
    (part :> Scene(1, 0, 50, 6))

\* A field of ten pixels, of which the first so many are usable and the last so
\* many under a cloud.
Pixels == 1..10
Masked(usable, cloudy) ==
    [x \in Pixels |-> IF x <= usable THEN "usable" ELSE IF x > 10 - cloudy THEN "cloud" ELSE "other"]

SixMasks ==
    (clear :> Masked(7, 1)) @@ (hazy :> Masked(5, 5)) @@ (edge :> <<>>) @@
    (source :> Masked(9, 1)) @@ (before :> Masked(9, 1)) @@
    (part :> [x \in 1..5 |-> "usable"])

SixRasters ==
    (clear :> 1..6) @@ (hazy :> 1..5) @@ (edge :> {}) @@ (source :> 1..9) @@ (before :> 1..9) @@
    (part :> 1..4)
=============================================================================
