------------------------------ MODULE PopupPage ------------------------------
(***************************************************************************)
(* A page with everything that pops up and closes when the user goes on to *)
(* something else: main menu, drop-downs, contextual helps, date pickers   *)
(* and tooltips.  Each widget listens to the document on its own.  An      *)
(* event runs the listeners of the element and then those of the document  *)
(* in the order in which the widgets are initialised; moving the focus     *)
(* runs focus listeners in between.  The page is one record, and an event  *)
(* the composition of what its listeners do.                               *)
(***************************************************************************)
EXTENDS Naturals, Sequences, FiniteSets, MainMenuPC, Dropdowns, CalendarArea, Tooltip,
        PageTimers

CONSTANTS
  Tips,      \* elements with a tooltip
  MaxTimers  \* bound on pending timers

ASSUME TimersAssumption == MaxTimers \in Nat

VARIABLES page, timers,
          window, \* the size of the window
          placed, \* for every tooltip shown the window it was placed in
          stolen  \* history: drop-downs opened while a help had the focus

vars == <<page, timers, window, placed, stolen>>

\* An element that takes the focus: its kind, its widget and what tells it apart.
Page == <<"page", 0, 0>>

MenuElements == {<<"trigger", t, 0>> : t \in Triggers}
                \cup UNION {{<<"sub", t, s>> : s \in Subs[t]} : t \in Wrapped}
DropElements == {<<"drop", d, 0>> : d \in Drops} \cup {<<"reset", d, 0>> : d \in Scaling}
                \cup UNION {{<<"item", d, i>> : i \in Items[d]} : d \in Drops}
HelpElements == {<<"help", h, 0>> : h \in Helps} \cup {<<"close", h, 0>> : h \in Helps}
\* In a picker: its frame, confirm or cancel, and of each list the button and
\* the last option.
PickerElements == {<<k, c, 0>> : k \in {"frame", "confirm"}, c \in Pickers}
                  \cup {<<k, l[1], l[2]>> : k \in {"switch", "option"}, l \in Layers}
CalElements == {<<"cal", c, 0>> : c \in Pickers} \cup PickerElements
TipElements == {<<"tip", i, 0>> : i \in Tips}
Elements == {Page} \cup MenuElements \cup DropElements \cup HelpElements \cup CalElements \cup TipElements

Kind(el) == el[1]   Widget(el) == el[2]   Part(el) == el[3]

\* What the style sheet displays.
Displayed(p, el) ==
  CASE Kind(el) = "sub"                          -> Widget(el) \in p.menu.open
    [] Kind(el) \in {"item", "reset"}            -> Widget(el) \in p.drop.shown
    [] Kind(el) = "close"                        -> Widget(el) \in p.help.shown
    [] Kind(el) \in {"frame", "confirm", "switch"} -> Widget(el) \in p.cal.active
    [] Kind(el) = "option"                       -> <<Widget(el), Part(el)>> \in p.cal.layers
    [] OTHER                                     -> TRUE

\* The browser takes the focus off an element that is no longer displayed.
FocusFixed(p) == IF Displayed(p, p.focus) THEN p ELSE [p EXCEPT !.focus = Page]

SameDrop(a, b) == {a, b} \subseteq DropElements /\ Widget(a) = Widget(b)

\* The focusout, blur and focus listeners that run when the focus moves.  The
\* listener of a help moves the focus itself, which ends the first move.
MoveFocus(p, to) ==
  LET from == p.focus
      left == CASE from = to -> p
                [] from # to /\ from \in DropElements /\ ~SameDrop(from, to)
                     -> [p EXCEPT !.drop = CloseAllDropdowns(@)]
                [] from # to /\ from \in TipElements -> [p EXCEPT !.tips = {}]
                [] from # to /\ Kind(from) = "option" -> [p EXCEPT !.cal = ResetDateSelector(@)]
                [] from # to /\ Kind(from) = "close" /\ Widget(from) \in p.help.armed
                     -> [p EXCEPT !.help = CloseAllTooltips(@)]
                [] OTHER -> p
      there == IF left.help # p.help THEN <<"help", Widget(from), 0>> ELSE to
  IN  [left EXCEPT !.focus = there,
                   !.tips  = IF there \in TipElements THEN @ \cup {Widget(there)} ELSE @]

\* closeAllDatePickers: the button of the active picker gets the focus.
CloseAllDatePickersQuiet(p) == [p EXCEPT !.cal = Closed(@)]
CloseAllDatePickers(p) ==
  LET active  == p.cal.active
      focused == IF active = {} THEN p
                 ELSE MoveFocus(p, <<"cal", CHOOSE c \in active : TRUE, 0>>)
  IN  [focused EXCEPT !.cal = Closed(@)]

\* The click listeners of an element.
ClickElement(p, el) ==
  LET w == Widget(el)
  IN  CASE Kind(el) = "trigger" -> [p EXCEPT !.menu = ToggleMainMenu(@, w)]
        [] Kind(el) = "sub"     -> [p EXCEPT !.menu = ToggleSubMenu(@, w, Part(el))]
        [] Kind(el) = "drop"    -> [p EXCEPT !.drop = ClickDrop(@, w)]
        [] Kind(el) = "item"    -> MoveFocus([p EXCEPT !.drop = ClickItem(@, w, Part(el))], <<"drop", w, 0>>)
        [] Kind(el) = "reset"   -> [p EXCEPT !.drop = ScaleContent(@, w, Default)]
        [] Kind(el) = "help"    ->
             LET toggled == [p EXCEPT !.help = ToggleTooltip(@, w)]
             IN  IF w \in toggled.help.shown THEN MoveFocus(toggled, <<"close", w, 0>>) ELSE toggled
        [] Kind(el) = "close"   -> [p EXCEPT !.help = CloseAllTooltips(@)]
        [] Kind(el) = "cal"     -> LET closed == CloseAllDatePickers(p)
                                   IN  [closed EXCEPT !.cal = OpenDatePicker(@, w)]
        [] Kind(el) = "switch"  -> [p EXCEPT !.cal = HandleBtnClick(@, <<w, Part(el)>>)]
        [] Kind(el) = "option"  -> [p EXCEPT !.cal = SelectOption(@)]
        [] Kind(el) = "confirm" -> CloseAllDatePickers(p)
        [] OTHER                -> p

\* The click listeners of the document.
ClickDocumentAt(p, el) ==
  LET menu == [p EXCEPT !.menu = IF el \in MenuElements THEN @ ELSE CloseMainMenu(@)]
      help == [menu EXCEPT !.help = ClickDocument(@, IF el \in HelpElements THEN {Widget(el)} ELSE {})]
      drop == [help EXCEPT !.drop = IF el \in DropElements THEN @ ELSE CloseAllDropdowns(@)]
  IN  IF el \in CalElements THEN drop ELSE CloseAllDatePickers(drop)

Clicked(p, el) == FocusFixed(ClickDocumentAt(ClickElement(p, el), el))

\* The keyup listener of the main menu.
KeyUp(p) == IF p.focus \in MenuElements THEN p ELSE [p EXCEPT !.menu = CloseMainMenu(@)]

\* The timer that a click sets: the focus moves into the opened picker, or to
\* the button of the list from which something was selected.
TimersOf(el) ==
  CASE Kind(el) = "cal"    -> <<Timer("focus", <<"frame", Widget(el), 0>>, 50)>>
    [] Kind(el) = "option" -> <<Timer("focus", <<"switch", Widget(el), Part(el)>>, 50)>>
    [] OTHER               -> <<>>
-----------------------------------------------------------------------------
\* The constant part of the markup: no item has class active.
Init == /\ page = [menu |-> MenuInit, help |-> HelpInit, drop |-> DropInit, cal |-> CalInit,
                   tips |-> {}, pointed |-> {}, focus |-> Page]
        /\ timers = <<>> /\ window \in Windows /\ placed = <<>> /\ stolen = {}

SetTimers(el) == /\ Len(timers) + Len(TimersOf(el)) <= MaxTimers
                 /\ timers' = timers \o TimersOf(el)

\* A click with the mouse: pressing the button already moves the focus.
Pressed(el) == Clicked(FocusFixed(MoveFocus(page, el)), el)
Press(el) ==
  /\ Displayed(page, el)
  /\ page.pointed = {el} \cap TipElements
  /\ SetTimers(el)
  /\ page' = Pressed(el)

\* A click with the keyboard, on the element that has the focus.
Enter ==
  /\ page.focus # Page
  /\ SetTimers(page.focus)
  /\ page' = KeyUp(Clicked(page, page.focus))

\* The focus is trapped in an open picker.
Tab(el) ==
  /\ Displayed(page, el)
  /\ page.focus \in PickerElements => el \in PickerElements /\ Widget(el) = Widget(page.focus)
  /\ page' = KeyUp(FocusFixed(MoveFocus(page, el)))
  /\ UNCHANGED timers

\* Home, End and the arrow keys on the triggers of the main menu: an arrow key
\* on a sub trigger leads to the next one of its list.
MenuKey(key) ==
  /\ \/ /\ Kind(page.focus) = "trigger" \/ (Kind(page.focus) = "sub" /\ key \in {"Home", "End"})
        /\ page' = MoveFocus(page, <<"trigger", KeyTarget(Widget(page.focus), key), 0>>)
     \/ /\ Kind(page.focus) = "sub" /\ key \in {"Next", "Prev"}
        /\ LET t == Widget(page.focus)
           IN  page' = MoveFocus(page, <<"sub", t, SubKeyTarget(t, Part(page.focus), key)>>)
  /\ UNCHANGED timers

\* The Escape key: keydown listeners of picker, helps, tooltips and drop-downs,
\* then keyup.
Escape ==
  LET target == page.focus
      closed == [page EXCEPT !.cal  = IF target \in PickerElements THEN ResetDateSelector(@) ELSE @,
                             !.help = CloseAllTooltips(@),
                             !.tips = {},
                             !.drop = CloseAllDropdowns(@)]
      back   == IF target \in DropElements THEN MoveFocus(closed, <<"drop", Widget(target), 0>>)
                ELSE closed
  IN  /\ page' = FocusFixed([back EXCEPT !.menu = CloseMainMenu(@)])
      /\ UNCHANGED timers

\* The mouse moves onto an element with a tooltip, or off it.
Point(at) ==
  /\ page.pointed # at
  /\ page' = [page EXCEPT !.pointed = at,
                          !.tips = (IF page.pointed = {} THEN @ ELSE {})
                                   \cup {Widget(el) : el \in at}]
  /\ UNCHANGED timers

Scroll == /\ page' = FocusFixed([page EXCEPT !.menu = CloseMainMenu(@), !.tips = {}])
          /\ UNCHANGED timers

Resize == \E w \in Windows : /\ window' = w
                             /\ page' = [page EXCEPT !.tips = {}]
                             /\ UNCHANGED timers

\* An element that is not displayed does not take the focus.
RunTimer ==
  /\ timers # <<>>
  /\ timers' = Tail(timers)
  /\ LET to == Head(timers).of
     IN  page' = IF Displayed(page, to) THEN FocusFixed(MoveFocus(page, to)) ELSE page

Step == \/ \E el \in Elements : Press(el) \/ Tab(el)
        \/ Enter \/ Escape \/ Scroll \/ RunTimer
        \/ \E key \in {"Home", "End", "Next", "Prev"} : MenuKey(key)
        \/ \E at \in {{}} \cup {{el} : el \in TipElements} : Point(at)

Next == /\ (Step /\ UNCHANGED window) \/ Resize
        /\ placed' = [i \in page'.tips |-> IF i \in page.tips THEN placed[i] ELSE window']
        /\ stolen' = {d \in page'.drop.shown :
                        d \in stolen \/ (d \notin page.drop.shown /\ page.help.shown # {})}

Spec == Init /\ [][Next]_vars
-----------------------------------------------------------------------------
OpenMenus   == page.menu.active
OpenDrops   == page.drop.shown
OpenHelps   == page.help.shown
OpenPickers == page.cal.active

\* Types; and at most one list of years or months is open.
TypeOK ==
  /\ page.menu \in [active : SUBSET Triggers, open : SUBSET Wrapped, backdrop : BOOLEAN,
                    scrollY : BOOLEAN, sub : [Wrapped -> (UNION {Subs[t] : t \in Wrapped}) \cup {0}]]
  /\ page.tips \subseteq Tips /\ page.pointed \subseteq TipElements
  /\ page.cal.layers \subseteq Layers /\ page.cal.active \subseteq Pickers
  /\ page.help.armed \subseteq Helps /\ page.focus \in Elements
  /\ window \in Windows /\ placed \in [page.tips -> Windows]
  /\ Len(timers) <= MaxTimers

\* Whatever the user does, at most one thing is open on the page, although no
\* widget knows of the others.
OneOpen == Cardinality(OpenMenus) + Cardinality(OpenDrops) + Cardinality(OpenHelps)
           + Cardinality(OpenPickers) <= 1

\* Screen readers are told what is open.
AriaTells == /\ page.menu.active = page.menu.open
             /\ page.drop.active = page.drop.shown
             /\ page.help.active = page.help.shown
             /\ page.cal.aria = page.cal.active

\* An open drop-down or help has the focus, and closes when it goes elsewhere;
\* but a help that is open when the button of a drop-down is clicked takes the
\* focus back to its own button, and leaves the drop-down without.
PopupHoldsFocus ==
  /\ \A d \in OpenDrops \ stolen : page.focus \in DropElements /\ Widget(page.focus) = d
  /\ \A h \in OpenHelps : page.focus = <<"close", h, 0>>

\* The list that the script takes for the open one is the only open one, and in
\* the open picker; its button alone is expanded.
ListOfOpenPicker == /\ page.cal.layers = page.cal.current
                    /\ page.cal.combo = page.cal.current
                    /\ Cardinality(page.cal.current) <= 1
                    /\ \A l \in page.cal.current : l[1] \in OpenPickers

\* A menu that covers the page has the backdrop under it, and no backdrop is
\* left when the menus are closed.
BackdropUnderMenu == /\ page.menu.backdrop => OpenMenus # {}
                     /\ OpenMenus \ Compact # {} => page.menu.backdrop

\* A tooltip is shown only for an element under the mouse or with the focus.
TooltipHasElement ==
  \A i \in page.tips : <<"tip", i, 0>> \in page.pointed \cup {page.focus}

\* The zoom of the page is the one its menu marks as chosen.
ScaleIsChosen == \A d \in Scaling : page.drop.chosen[d] \in {page.drop.scale, NoItem}

\* A tooltip that is shown is in the window: it was placed in the window as it
\* is now, none stays from before a resize, and that place is inside.
ShownTooltipInWindow == TooltipsInWindow /\ \A i \in page.tips : placed[i] = window

\* What is displayed, what is marked and what is remembered about it agree, in
\* every widget of the page.
WidgetsAgree == TypeOK /\ AriaTells /\ ListOfOpenPicker /\ BackdropUnderMenu
                /\ TooltipHasElement /\ ScaleIsChosen /\ ShownTooltipInWindow

\* A click on the button of a closed drop-down or help opens it, unless a date
\* picker is open: closing that moves the focus, which closes it again.
ClickOpens ==
  /\ \A d \in Drops \ OpenDrops : d \in Pressed(<<"drop", d, 0>>).drop.shown <=> OpenPickers = {}
  /\ \A h \in Helps \ OpenHelps : h \in Pressed(<<"help", h, 0>>).help.shown <=> OpenPickers = {}

\* A click on the page outside all widgets closes everything.
OutsideClickCloses ==
  LET p == Pressed(Page)
  IN  p.menu.active \cup p.drop.shown \cup p.help.shown \cup p.cal.active = {} /\ ~p.menu.backdrop

\* In every state a click would do what it is for, whichever other widgets see it.
ClicksObeyed == ClickOpens /\ OutsideClickCloses
=============================================================================
