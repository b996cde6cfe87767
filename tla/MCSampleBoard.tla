---------------------------- MODULE MCSampleBoard ----------------------------
(* Bounds for SampleBoard: two tabs, one row from the script, two blocks   *)
(* of two ids, four inserts and one restart.                               *)
EXTENDS SampleBoard, TLC

CONSTANTS tab1, tab2, plain, other, long

TwoTabs   == {tab1, tab2}
ThreeTexts == {plain, other, long}
LongTexts == {long}
OneRow    == [i \in {1} |-> plain]

Symmetry == Permutations(Tabs)
=============================================================================
