----------------------------- MODULE MobileMenu ------------------------------
(***************************************************************************)
(* krds_mainMenuMobile: the menu that slides over a narrow page.  Opening  *)
(* and closing are each a click, a timer and a listener for the end of the *)
(* CSS transition; the listeners remove themselves when they run and not   *)
(* before.  A panel of the fourth level slides over the menu likewise.     *)
(***************************************************************************)
EXTENDS Naturals, Sequences, PageTimers

CONSTANTS
  MaxOpens,   \* bound on openings of the menu
  MaxCloses,  \* bound on closings, as every resize of a wide window is one
  MaxPanels   \* bound on openings of the panel

ASSUME BoundsAssumption == {MaxOpens, MaxCloses, MaxPanels} \subseteq Nat

VARIABLES
  winSize,
  displayed,   \* inline style display: block
  isOpen,      \* classes is-open and is-backdrop
  bodyMobile,  \* body has class is-gnb-mobile
  moving,      \* the transition that is-open starts has not ended
  listeners,   \* the transitionend listeners, in the order of registration
  pageInert,   \* header, container and footer are inert
  focus,       \* "page", "menu" or "panel"
  panelShown,  \* inline style display: block of the panel
  panelOpen,   \* its class is-open
  panelExits,  \* click listeners on each of its two closing buttons
  timers,
  \* history
  want,        \* the last request
  opens, closes,
  rushed,      \* closed before an opening had ended, or opened before hidden
  panelRushed

menuVars  == <<displayed, isOpen, bodyMobile, moving, listeners, pageInert, want, opens, closes, rushed>>
panelVars == <<panelShown, panelOpen, panelExits, panelRushed>>
vars      == <<winSize, menuVars, panelVars, focus, timers>>

Menu == "menu"   Panel == "panel"

Init == /\ winSize \in {"pc", "mob"}
        /\ displayed = FALSE /\ isOpen = FALSE /\ bodyMobile = FALSE /\ moving = FALSE
        /\ listeners = <<>> /\ pageInert = FALSE /\ focus = "page"
        /\ panelShown = FALSE /\ panelOpen = FALSE /\ panelExits = 0
        /\ timers = <<>>
        /\ want = "closed" /\ opens = 0 /\ closes = 0 /\ rushed = FALSE /\ panelRushed = FALSE

\* The style sheet shows the menu.
Covers == displayed /\ (isOpen \/ moving)
\* An opening has not ended.
Opening == Pending(timers, "in", Menu) \/ \E i \in DOMAIN listeners : listeners[i] = "open"

CanOpen  == winSize = "mob" /\ ~pageInert /\ (focus = "page" \/ ~Covers)
CanClose == Covers /\ ~(panelShown /\ panelOpen)

ListenersAfterOpenNone == listeners
ListenersAfterOpen == Append(listeners, "open")

InertAfterCloseKept == pageInert
InertAfterClose == FALSE

HideNever(of) == timers
Hide(of) == Append(timers, Timer("hide", of, 400))
-----------------------------------------------------------------------------
\* openMainMenu, by the button in the header.
OpenMainMenu ==
  /\ opens < MaxOpens /\ opens' = opens + 1
  /\ CanOpen
  /\ displayed' = TRUE
  /\ listeners' = ListenersAfterOpen
  /\ timers' = Append(timers, Timer("in", Menu, 100))
  /\ want' = "open"
  /\ rushed' = (rushed \/ Pending(timers, "hide", Menu))
  /\ UNCHANGED <<winSize, isOpen, bodyMobile, moving, pageInert, closes, focus, panelVars>>

\* closeMainMenu.
CloseMainMenu ==
  /\ closes < MaxCloses /\ closes' = closes + 1
  /\ isOpen' = FALSE
  /\ moving' = (moving \/ (displayed /\ isOpen))
  /\ pageInert' = InertAfterClose
  /\ listeners' = Append(listeners, "close")
  /\ timers' = Hide(Menu)
  /\ want' = "closed"
  /\ rushed' = (rushed \/ Opening)
  /\ UNCHANGED <<displayed, bodyMobile, opens, focus, panelVars>>

Close == CanClose /\ CloseMainMenu /\ UNCHANGED winSize

\* A resize event; windowSize is set before the menu's listener runs.
Resize == /\ winSize' \in {"pc", "mob"}
          /\ IF winSize' = "pc" THEN CloseMainMenu
             ELSE UNCHANGED <<menuVars, focus, timers, panelVars>>

\* A transition of the menu, or of an element inside it, ends: its listeners
\* run.  Elements of an inert header do not take the focus.
RunListeners ==
  LET opening == {i \in DOMAIN listeners : listeners[i] = "open"}
      last    == Len(listeners)
  IN  /\ listeners' = <<>>
      /\ pageInert' = (pageInert \/ opening # {})
      /\ focus' = IF last = 0 THEN focus
                  ELSE IF last \in opening THEN Menu
                  ELSE IF ~pageInert' /\ winSize = "mob" THEN "page"
                  ELSE IF opening # {} THEN Menu ELSE focus
      /\ UNCHANGED <<winSize, displayed, isOpen, bodyMobile, timers, want, opens, closes, rushed, panelVars>>

TransitionEnd == displayed /\ moving /\ moving' = FALSE /\ RunListeners

InnerTransitionEnd == Covers /\ listeners # <<>> /\ UNCHANGED moving /\ RunListeners

\* handleDepth4Click: its closing handlers join those of earlier clicks.
OpenPanel ==
  /\ Covers /\ ~(panelShown /\ panelOpen) /\ panelExits < MaxPanels
  /\ panelShown' = TRUE
  /\ panelExits' = panelExits + 1
  /\ focus' = Panel
  /\ timers' = Append(timers, Timer("in", Panel, 0))
  /\ panelRushed' = (panelRushed \/ Pending(timers, "hide", Panel))
  /\ UNCHANGED <<winSize, menuVars, panelOpen>>

\* depth4Close, once for every handler; their timers run one after the other,
\* so that one stands for all.
ClosePanel ==
  /\ Covers /\ panelShown /\ panelOpen
  /\ panelOpen' = FALSE
  /\ focus' = Menu
  /\ timers' = Hide(Panel)
  /\ panelRushed' = (panelRushed \/ Pending(timers, "in", Panel))
  /\ UNCHANGED <<winSize, menuVars, panelShown, panelExits>>

RunMenuTimer(i) ==
  /\ MayRun(timers, i) /\ timers[i].of = Menu
  /\ timers' = Without(timers, i)
  /\ IF timers[i].job = "in"
     THEN /\ isOpen' = TRUE /\ bodyMobile' = TRUE
          /\ moving' = (moving \/ (displayed /\ ~isOpen))
          /\ UNCHANGED <<displayed, focus>>
     ELSE /\ displayed' = FALSE /\ bodyMobile' = FALSE
          /\ moving' = FALSE  \* the transition is cancelled, without an event
          /\ focus' = "page"
          /\ UNCHANGED isOpen
  /\ UNCHANGED <<winSize, listeners, pageInert, want, opens, closes, rushed, panelVars>>

RunPanelTimer(i) ==
  /\ MayRun(timers, i) /\ timers[i].of = Panel
  /\ timers' = Without(timers, i)
  /\ IF timers[i].job = "in"
     THEN panelOpen' = TRUE /\ UNCHANGED <<panelShown, focus>>
     ELSE /\ panelShown' = FALSE
          /\ focus' = IF focus = Panel THEN "page" ELSE focus
          /\ UNCHANGED panelOpen
  /\ UNCHANGED <<winSize, menuVars, panelExits, panelRushed>>

RunTimer == \E i \in DOMAIN timers : RunMenuTimer(i) \/ RunPanelTimer(i)

Next == \/ OpenMainMenu \/ Close \/ Resize \/ TransitionEnd \/ InnerTransitionEnd
        \/ OpenPanel \/ ClosePanel \/ RunTimer

\* Timers run and transitions end; nobody has to click.
Spec == Init /\ [][Next]_vars /\ WF_vars(RunTimer) /\ WF_vars(TransitionEnd)
-----------------------------------------------------------------------------
\* Types; listeners are registered once for every opening and closing.
TypeOK == /\ winSize \in {"pc", "mob"} /\ focus \in {"page", Menu, Panel}
          /\ {displayed, isOpen, bodyMobile, moving, pageInert, panelShown, panelOpen} \subseteq BOOLEAN
          /\ opens \in 0 .. MaxOpens /\ closes \in 0 .. MaxCloses
          /\ panelExits \in 0 .. MaxPanels
          /\ Len(listeners) <= opens + closes

\* When the timers have run, the menu is shown, and the page knows, exactly if
\* it was last asked to open: unless it was closed before the opening had
\* ended, or opened again within the 400 ms.
MenuSettles ==
  timers = <<>> /\ ~rushed => isOpen = (want = "open") /\ displayed = isOpen /\ bodyMobile = isOpen

\* When the timers have run, the panel of the fourth level is displayed exactly
\* if it is open, unless it was opened again within the 400 ms.
PanelSettles == timers = <<>> /\ ~panelRushed => panelOpen = panelShown

\* Menu and panel come to rest as they were last asked to.
SettlesAsAsked == TypeOK /\ MenuSettles /\ PanelSettles

\* The page is inert only under an open menu.  A menu closed before the end of
\* its opening makes the page inert afterwards: its listener is still there.
InertOnlyUnderMenu == pageInert => want = "open" \/ rushed

\* While the page is inert the focus is in the menu or in its panel.
FocusUnderInertPage == pageInert /\ ~rushed /\ ~panelRushed => focus # "page"

\* Nothing and nobody is left on a page that does not react.
InertUnderMenu == InertOnlyUnderMenu /\ FocusUnderInertPage

\* An opening that is not closed or rushed ends with the page inert.
OpeningEnds == want = "open" ~> (pageInert \/ want = "closed" \/ rushed)

\* A closed menu goes away, whatever was clicked before.
ClosingEnds == want = "closed" ~> (~displayed \/ want = "open")

\* Every request to open or close the menu comes to its end.
RequestsEnd == OpeningEnds /\ ClosingEnds
=============================================================================
