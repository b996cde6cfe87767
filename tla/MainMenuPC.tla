----------------------------- MODULE MainMenuPC ------------------------------
(***************************************************************************)
(* krds_mainMenuPC: what the handlers of the main menu of a wide window do *)
(* to its state, a record of                                               *)
(*   active    the main triggers with class active, aria-expanded = true   *)
(*   open      the triggers whose toggle-wrap has class is-open            *)
(*   sub       for every trigger its active sub trigger, 0 if there is none*)
(*   backdrop  the backdrop is active and body has class is-gnb-web        *)
(*   scrollY   body has class hasScrollY                                   *)
(* Main triggers are numbered from left to right.                          *)
(***************************************************************************)
EXTENDS Naturals, FiniteSets

CONSTANTS
  Triggers,   \* main triggers
  Wrapped,    \* ... that have a toggle-wrap; the others are links
  Compact,    \* ... of class is-dropdown
  Subs,       \* for every wrapped one its sub triggers that are no links
  Overflows   \* whether the page is higher than the window

ASSUME TriggersAssumption == /\ Compact \subseteq Wrapped /\ Wrapped \subseteq Triggers
                             /\ IsFiniteSet(Triggers) /\ Triggers # {}
                             /\ Triggers = 1 .. Cardinality(Triggers) /\ Overflows \in BOOLEAN

\* init and setupMainTrigger: the first sub trigger of every menu is active.
MenuInit == [active |-> {}, open |-> {}, backdrop |-> FALSE, scrollY |-> FALSE,
             sub |-> [t \in Wrapped |-> IF 1 \in Subs[t] THEN 1 ELSE 0]]

ResetMainMenu(m) == [m EXCEPT !.active = {}, !.open = {}]

CloseMainMenu(m) == [ResetMainMenu(m) EXCEPT !.backdrop = FALSE, !.scrollY = FALSE]

ToggleMainMenuBeside(m, t) ==
  IF t \in Wrapped \ m.active THEN [m EXCEPT !.active = @ \cup {t}, !.open = @ \cup {t}, !.backdrop = TRUE]
  ELSE CloseMainMenu(m)
ToggleMainMenu(m, t) ==
  IF t \in Wrapped \ m.active
  THEN [m EXCEPT !.active = {t}, !.open = {t},
                 !.backdrop = (t \notin Compact \/ @),
                 !.scrollY  = IF t \notin Compact THEN Overflows ELSE @]
  ELSE CloseMainMenu(m)

ToggleSubMenu(m, t, s) == [m EXCEPT !.sub[t] = s]

\* setupKeyboardNavigation: the trigger that a key moves the focus to.
KeyTarget(t, key) ==
  LET last  == CHOOSE u \in Triggers : \A v \in Triggers : v <= u
      first == CHOOSE u \in Triggers : \A v \in Triggers : u <= v
  IN  CASE key = "Home" -> first
        [] key = "End"  -> last
        [] key = "Next" -> IF t < last THEN t + 1 ELSE t
        [] key = "Prev" -> IF t > first THEN t - 1 ELSE t

\* ... and the sub trigger that an arrow key on sub trigger s of t moves it to.
SubKeyTarget(t, s, key) == LET next == IF key = "Next" THEN s + 1 ELSE s - 1
                           IN  IF next \in Subs[t] THEN next ELSE s
=============================================================================
