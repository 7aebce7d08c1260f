--------------------------- MODULE MCBhoonidhiClient ---------------------------
(***************************************************************************)
(* An instance of BhoonidhiClient for TLC.                                 *)
(***************************************************************************)
EXTENDS BhoonidhiClient

Aoi == <<2, 2, 6, 6>>

\* One page with an item inside the area, one north-side down and one that only
\* touches it; one with an item that is offline and one across the border; one
\* with an item whose box is empty.
ThreePages ==
    <<<<[id |-> 1, online |-> TRUE, bbox |-> <<3, 3, 4, 4>>],
        [id |-> 2, online |-> TRUE, bbox |-> <<1, 9, 3, 4>>],
        [id |-> 3, online |-> TRUE, bbox |-> <<6, 2, 8, 4>>]>>,
      <<[id |-> 4, online |-> FALSE, bbox |-> <<3, 3, 4, 4>>],
        [id |-> 5, online |-> TRUE, bbox |-> <<0, 0, 9, 9>>]>>,
      <<[id |-> 6, online |-> TRUE, bbox |-> <<3, 3, 4, 4>>],
        [id |-> 7, online |-> TRUE, bbox |-> <<4, 3, 4, 4>>]>>>>

\* Two pages, a second page that links away from the archive, and the pages
\* with the empty box.
Links == {<<2, NoPage, NoPage>>, <<2, ForeignPage, NoPage>>, <<3, NoPage, NoPage>>}
=============================================================================
