----------------------------- MODULE MCPopupPage -----------------------------
(* A menu that covers the page, with one sub trigger, a compact one and a  *)
(* link; a drop-down that sets the zoom and a plain one; two helps, two    *)
(* pickers and two elements with a tooltip; windows of 360 and of 1200     *)
(* pixels.  More sub triggers only multiply the states: what is marked of  *)
(* a submenu decides nothing else.                                         *)
EXTENDS PopupPage

SubMenus == [t \in {1, 2} |-> IF t = 1 THEN {1} ELSE {}]
WindowSizes == {[height |-> 1300, width |-> 720], [height |-> 1600, width |-> 2400]}
ItemsOfDrops == [d \in {1, 2} |-> IF d = 1 THEN {"sm", "md"} ELSE {}]
=============================================================================
