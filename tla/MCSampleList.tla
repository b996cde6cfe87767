---------------------------- MODULE MCSampleList -----------------------------
(* Bounds for SampleList: four rows on pages of two, ids up to five, two   *)
(* texts of which a search by name finds one, and three writes.  One tab   *)
(* is enough: tabs do not read each other's state.                         *)
EXTENDS SampleList

CONSTANTS tab1, plain, hit

OneTab   == {tab1}
TwoTexts == {plain, hit}
HitText  == {hit}
TwoIds   == {2, 4}
FourRows == [i \in 1 .. 4 |-> IF i \in {1, 4} THEN hit ELSE plain]
=============================================================================
