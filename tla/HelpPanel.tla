------------------------------ MODULE HelpPanel ------------------------------
(***************************************************************************)
(* krds_helpPanel: a panel at the side of the page that its buttons open   *)
(* and fold.  init runs again on every scroll and resize event.  On a      *)
(* narrow window the open panel locks the scrolling of the page with the   *)
(* class that the modals use, too.                                         *)
(***************************************************************************)
EXTENDS Naturals, Sequences, PageTimers

VARIABLES
  winSize,    \* windowSize.winSize
  expanded,   \* the panel has class expand
  execAria,   \* the opening buttons have aria-expanded = "true"
  scrollNo, wrapInert, focus, timers  \* as in Modal

helpVars == <<winSize, expanded, execAria>>

Page == 0

\* init: its listeners are registered once more, which changes nothing, the
\* buttons are reset, and toggleScrollLock sets its timer.  One pending timer
\* stands for several that would run one after the other.
Reinit == /\ execAria' = FALSE
          /\ timers' = IF Pending(timers, "lock", Page) THEN timers
                       ELSE timers \o <<Timer("lock", Page, 0)>>
          /\ UNCHANGED <<expanded, scrollNo, wrapInert, focus>>

\* DOMContentLoaded: on a wide window the panel starts open.
Init == /\ winSize \in {"pc", "mob"}
        /\ expanded = (winSize = "pc")
        /\ execAria = expanded

Scroll == Reinit /\ UNCHANGED winSize

Resize == /\ winSize' \in {"pc", "mob"} /\ Reinit

\* Whether the opening buttons say that the panel is open, after a click.
AriaAfter(open) == open

\* A click on an opening button.  Bound: not before the timer of the last one.
OpenHelp == /\ ~wrapInert
            /\ ~Pending(timers, "help", Page)
            /\ expanded' = TRUE /\ execAria' = AriaAfter(TRUE)
            /\ scrollNo' = (scrollNo \/ winSize = "mob")
            /\ timers' = timers \o <<Timer("help", Page, 50)>>
            /\ focus' = Page
            /\ UNCHANGED <<winSize, wrapInert>>

\* A click on the folding button gives the focus to an opening button.
FoldHelp == /\ ~wrapInert /\ expanded
            /\ expanded' = FALSE /\ execAria' = AriaAfter(FALSE)
            /\ scrollNo' = (scrollNo /\ winSize # "mob")
            /\ focus' = Page
            /\ UNCHANGED <<winSize, wrapInert, timers>>

RunTimer(i) ==
  /\ MayRun(timers, i) /\ timers[i].job \in {"lock", "help"}
  /\ timers' = Without(timers, i)
  /\ IF timers[i].job = "lock"
     THEN scrollNo' = (winSize = "mob" /\ expanded) /\ UNCHANGED focus
     ELSE /\ focus' = IF expanded /\ ~wrapInert THEN Page ELSE focus
          /\ UNCHANGED scrollNo
  /\ UNCHANGED <<winSize, expanded, execAria, wrapInert>>
=============================================================================
