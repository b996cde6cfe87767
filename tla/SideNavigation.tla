---------------------------- MODULE SideNavigation ---------------------------
(***************************************************************************)
(* krds_sideNavigation: toggles that unfold a submenu in place, and popup  *)
(* buttons whose submenu slides over the list.  A popup is to get the focus*)
(* when it has slid in, and to give it back when it has slid out; which    *)
(* button that is, is one variable for all popups.                         *)
(***************************************************************************)
EXTENDS Naturals, Sequences, FiniteSets

CONSTANTS
  Toggles,   \* toggle buttons of one list
  Popups,    \* popup buttons, each with its submenu
  MaxWaiting \* bound on transitionend listeners of a submenu

ASSUME PopupsAssumption == 0 \notin Popups

VARIABLE side  \* a record of
  \* expanded   toggles with aria-expanded = true, class active
  \* active     popups whose submenu has class active
  \* aria       popups with aria-expanded = true
  \* moving     popups whose submenu is in a transition
  \* listeners  of every popup, its transitionend listeners in order
  \* last       lastClickedButton, 0 if null
  \* focus      the popup button with the focus, or a popup the focus is in
  \* hasty      history: a popup was opened while another was open

Elsewhere == <<"page", 0>>
Button(b) == <<"button", b>>
Inside(b) == <<"inside", b>>

SideInits ==
  {[expanded |-> e, active |-> {}, aria |-> {}, moving |-> {},
    listeners |-> [b \in Popups |-> <<>>], last |-> 0, focus |-> Elsewhere, hasty |-> FALSE]
     : e \in SUBSET Toggles}

FocusOutOwn(s, b) ==
  [s EXCEPT !.active = @ \ {b}, !.moving = IF b \in s.active THEN @ \cup {b} ELSE @,
            !.listeners[b] = Append(@, "back")]

\* The focusout listener of submenu b.
FocusOut(s, b) ==
  LET closed == [s EXCEPT !.active = @ \ {b},
                          !.moving = IF b \in s.active THEN @ \cup {b} ELSE @]
  IN  IF s.last = 0 THEN closed
      ELSE [closed EXCEPT !.aria = @ \ {s.last}, !.listeners[b] = Append(@, "back")]

MoveSideFocus(s, to) ==
  LET left == IF s.focus[1] = "inside" /\ s.focus # to THEN FocusOut(s, s.focus[2]) ELSE s
  IN  [left EXCEPT !.focus = to]

\* toggleMenu and closeSiblingMenus.
ToggleSide(t) ==
  side' = [MoveSideFocus(side, Elsewhere) EXCEPT !.expanded = IF t \in @ THEN {} ELSE {t}]

ClickPopup(b) ==
  LET here == MoveSideFocus(side, Button(b))
  IN  /\ Len(here.listeners[b]) < MaxWaiting
      /\ side' = [here EXCEPT !.active = @ \cup {b}, !.aria = @ \cup {b},
                              !.moving = IF b \in here.active THEN @ ELSE @ \cup {b},
                              !.listeners[b] = Append(@, "title"),
                              !.last  = b,
                              !.hasty = @ \/ here.active \ {b} # {}]

\* Every listener runs once.  The title of a hidden submenu takes no focus.
RunListener(s, b, l) ==
  IF l = "back" THEN MoveSideFocus(s, Button(s.last))
  ELSE IF b \in s.active THEN MoveSideFocus(s, Inside(b)) ELSE s

RunListeners(s, b, waiting) ==
  LET ran[n \in 0 .. Len(waiting)] ==
        IF n = 0 THEN s ELSE RunListener(ran[n - 1], b, waiting[n])
  IN  ran[Len(waiting)]

\* A transition of submenu b ends, others may still run; or that of an element
\* inside it, whose event bubbles to the listeners of b.
SideTransitionEnd(b) ==
  /\ b \in side.active \cup side.moving
  /\ \E moving \in {side.moving, side.moving \ {b}} :
       LET emptied == [side EXCEPT !.listeners[b] = <<>>, !.moving = moving]
       IN  side' = RunListeners(emptied, b, side.listeners[b])
  /\ \A c \in Popups : Len(side'.listeners[c]) <= MaxWaiting

\* The title button takes the focus, from another submenu if that had it, and
\* gives it to the last clicked button.
ClickTitle(b) ==
  /\ b \in side.active /\ side.last # 0
  /\ side' = MoveSideFocus(MoveSideFocus(side, Inside(b)), Button(side.last))
  /\ \A c \in Popups : Len(side'.listeners[c]) <= MaxWaiting

SideFocus(to) == /\ side.focus # to
                 /\ to[1] = "inside" => to[2] \in side.active
                 /\ side' = MoveSideFocus(side, to)
                 /\ \A c \in Popups : Len(side'.listeners[c]) <= MaxWaiting

SideNext == \/ \E t \in Toggles : ToggleSide(t)
            \/ \E b \in Popups : ClickPopup(b) \/ SideTransitionEnd(b) \/ ClickTitle(b)
            \/ \E to \in {Elsewhere} \cup {Inside(b) : b \in Popups} : SideFocus(to)
-----------------------------------------------------------------------------
SideSettled == side.moving = {}

\* A popup button is called expanded exactly if its submenu is open, unless a
\* popup was opened before the one opened earlier had got the focus.
PopupsTold == side.aria = side.active \/ side.hasty

\* An open submenu that no longer moves has the focus: so it can lose it, which
\* is the only way to close it.
PopupsHaveFocus == SideSettled /\ ~side.hasty => \A b \in side.active : side.focus = Inside(b)
=============================================================================
