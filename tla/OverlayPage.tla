----------------------------- MODULE OverlayPage -----------------------------
(***************************************************************************)
(* A page with modals and a help panel.  Both lock its scrolling with the  *)
(* class scroll-no of body, and neither knows of the other; scroll and     *)
(* resize events run the help panel's init whatever is open.               *)
(***************************************************************************)
EXTENDS Modal

VARIABLES winSize, expanded, execAria,
          unlocked  \* history: the panel has set scrollNo under an open modal

Help == INSTANCE HelpPanel

panelVars == <<winSize, expanded, execAria>>
vars == <<modalVars, sharedVars, panelVars, unlocked>>

\* DOMContentLoaded.
PageInit == /\ Init /\ Help!Init
            /\ scrollNo = FALSE /\ wrapInert = FALSE /\ focus = Page /\ unlocked = FALSE
            /\ timers = <<Timer("lock", Page, 0)>>

ModalStep == /\ \/ \E m \in Modals : OpenModal(m) \/ CloseModal(m) \/ Escape(m) \/ OtherKey(m)
                \/ \E m \in Modals, i \in DOMAIN timers : RunTimer(m, i)
                \/ \E c \in Modals \cup {Page} : FocusPlace(c)
             /\ unlocked' = (unlocked /\ opens' = opens)
             /\ UNCHANGED panelVars

HelpStep == /\ \/ Help!Scroll \/ Help!Resize \/ \E i \in DOMAIN timers : Help!RunTimer(i)
               \/ Usable(Page) /\ (Help!OpenHelp \/ Help!FoldHelp)
            /\ unlocked' = (unlocked \/ (scrollNo /\ ~scrollNo' /\ opened # {}))
            /\ UNCHANGED modalVars

PageNext == ModalStep \/ HelpStep
PageSpec == PageInit /\ [][PageNext]_vars
-----------------------------------------------------------------------------
\* Types of the page's variables.
TypeOK ==
  /\ counted \subseteq Modals /\ classIn \subseteq Modals /\ shown \subseteq Modals /\ backIn \subseteq Modals
  /\ visible \subseteq shown /\ opened \subseteq Modals
  /\ zIndex \in [Modals -> 0 .. Cardinality(Modals) + 1]
  /\ escs \in [Modals -> 0 .. MaxOpens] /\ opens \in 0 .. MaxOpens
  /\ later \subseteq Modals /\ outdated \subseteq Modals
  /\ {scrollNo, wrapInert, miscounted, expanded, execAria, unlocked} \subseteq BOOLEAN
  /\ focus \in Modals \cup {Page} /\ winSize \in {"pc", "mob"}

\* While a modal is open the page does not scroll: closeModal restores the
\* scrolling only with the last one.  It may restore it too early only if a
\* modal was closed twice, or while an open one was not counted, be it that it
\* was still opening or that it has not the class that is counted (as on all
\* pages of the repository, where the closing of an inner modal does restore
\* it); and the help panel does so on every scroll or resize event.
ScrollLocked == opened # {} => scrollNo \/ miscounted \/ unlocked

\* ... and with the last modal the scrolling does come back, unless a help
\* panel on a narrow window locks it, or a modal was opened and closed faster
\* than its timers.
ScrollRestored ==
  timers = <<>> /\ opened = {} /\ rushed = {} => ~scrollNo \/ (winSize = "mob" /\ expanded)

\* When its timers have run, a modal is shown exactly if it is open, and its
\* classes say so: only opening it again within the 350 ms, or closing it
\* within the 150 ms, can leave an invisible modal over an inert page.
SettledAsOpened ==
  timers = <<>> => opened \ rushed = visible \ rushed /\ opened \ rushed = classIn \ rushed

\* The focus is never left in a closed modal.
FocusInOpenModal == focus \in Modals => focus \in opened \/ Pending(timers, "hide", focus)

\* A modal opened from inside another one lies above it; unless that one had
\* got a z-index over modals of which one has been closed since: closeModal
\* leaves the z-index, and the next one counts the modals that are open now.
InnerModalOnTop ==
  \A m \in opened \cap later :
    Home[m] # Page /\ {Home[m], m} \subseteq (visible \cap opened) \ rushed
      => Above(m, Home[m]) \/ Home[m] \in outdated

\* The opening buttons do not call a folded help panel expanded.
HelpAriaTrue == execAria => expanded

\* Modals are what the clicks made them: shown exactly if open, holding the
\* focus only while open, an inner one above its outer one.
ModalsAsOpened == TypeOK /\ SettledAsOpened /\ FocusInOpenModal /\ InnerModalOnTop

\* The page is locked while a modal is open and unlocked with the last one,
\* and the panel's buttons tell the truth.
ScrollLockKept == ScrollLocked /\ ScrollRestored /\ HelpAriaTrue
=============================================================================
