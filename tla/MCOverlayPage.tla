---------------------------- MODULE MCOverlayPage ----------------------------
(* Two modals, the second opened from inside the first.  Three openings    *)
(* are the fewest for a modal opened again under or over another one.  The *)
(* page gives neither of them the class modal, as the repository, or both. *)
EXTENDS OverlayPage

TwoModals  == {1, 2}
NoneOrBoth == {{}, TwoModals}
Nested     == [m \in TwoModals |-> m - 1]
=============================================================================
