-------------------------------- MODULE Modal --------------------------------
(***************************************************************************)
(* krds_modal: dialogs that open over the page and over each other.  An    *)
(* open modal carries the class in, which a timer adds 150 ms after the    *)
(* opening; a closed one keeps the class shown for 350 ms.  Opening one    *)
(* gives body the class scroll-no and makes the element wrap, which holds  *)
(* the page without the modals, inert.  Any closing lifts inert; scroll-no *)
(* goes when fewer than two modals are counted, and only those with the    *)
(* class modal are: all else finds modals by krds-modal, and no page of    *)
(* the repository gives one the other class.  Modals are numbered in the   *)
(* order of the document.                                                  *)
(***************************************************************************)
EXTENDS Naturals, Sequences, FiniteSets, PageTimers

CONSTANTS
  Modals,       \* the elements .krds-modal
  Markups,      \* the sets of modals a page may give the class modal, not sample
  Home,         \* for every modal the place of its trigger: Page or a modal
  MaxOpens,     \* bound on openings
  MaxHides      \* bound on the pending timers that hide a modal

Page == 0

ASSUME ModalsAssumption == Modals \subseteq Nat \ {Page} /\ IsFiniteSet(Modals)
ASSUME MarkupAssumption == Markups \subseteq SUBSET Modals
ASSUME HomeAssumption   == /\ Home \in [Modals -> Modals \cup {Page}]
                           /\ \A m \in Modals : Home[m] < m
ASSUME BoundsAssumption == MaxOpens \in Nat /\ MaxHides \in Nat

VARIABLES
  counted,    \* the modals with class modal and without class sample; it stays
  classIn,    \* the modals with class in
  shown,      \* ... with class shown
  backIn,     \* ... whose modal-back has class in
  visible,    \* ... that the style sheet shows and that can hold the focus
  zIndex,     \* how much the inline z-index is above 1010, 0 if there is none
  opened,     \* the modals whose trigger has class modal-opened: the open ones
  escs,       \* keydown listeners for Escape that have not run yet
  scrollNo,   \* body has class scroll-no
  wrapInert,  \* wrap has the attribute inert
  focus,      \* the place that holds the focus
  timers,
  \* history
  opens,      \* number of openings
  rushed,     \* modals opened again before they were hidden, or closed before in
  miscounted, \* since the last opening a modal was closed twice, or while one
              \* that was open was not counted
  later,      \* modals opened after the one that holds their trigger
  outdated    \* modals with an inline z-index that may count a modal closed since

history == <<opens, rushed, miscounted, later, outdated>>
modalVars == <<counted, classIn, shown, backIn, visible, zIndex, opened, escs, history>>
sharedVars == <<scrollNo, wrapInert, focus, timers>>

Init == /\ counted \in Markups
        /\ classIn = {} /\ shown = {} /\ backIn = {} /\ visible = {} /\ opened = {}
        /\ zIndex = [m \in Modals |-> 0]
        /\ escs = [m \in Modals |-> 0]
        /\ opens = 0 /\ rushed = {} /\ miscounted = FALSE /\ later = {} /\ outdated = {}

\* b lies above a: by z-index, then by the order of the document.
Above(b, a) == zIndex[b] > zIndex[a] \/ (zIndex[b] = zIndex[a] /\ b > a)

\* Place c can be used: by the mouse, or by the keyboard from the focus.
Usable(c) == IF c = Page
             THEN ~wrapInert /\ (focus = Page \/ visible = {})
             ELSE c \in visible /\ (focus = c \/ \A m \in visible \ {c} : Above(c, m))

\* .modal.in:not(.sample): the modals that updateZIndex and closeModal count.
CountedIn == classIn \cap counted

\* updateZIndex: a modal over others gets an inline z-index.
NewZIndex(m) == IF CountedIn = {} THEN zIndex[m] ELSE Cardinality(CountedIn) + 1

\* Scrolling is restored with the last modal, as far as the count tells;
\* closeModal is called n times in a row.
LockAfterOffByOne(m, n) == scrollNo /\ Cardinality(CountedIn) >= 1
LockAfter(m, n) == /\ scrollNo /\ Cardinality(CountedIn) >= 2
                   /\ n > 1 => Cardinality(CountedIn \ {m}) >= 2

HideTimersNone(m, n) == <<>>
HideTimers(m, n) == [i \in 1 .. n |-> Timer("hide", m, 350)]
-----------------------------------------------------------------------------
\* A click on the trigger of m.
OpenModal(m) ==
  /\ opens < MaxOpens /\ opens' = opens + 1
  /\ Usable(Home[m])
  /\ opened' = opened \cup {m}
  /\ scrollNo' = TRUE
  /\ wrapInert' = TRUE
  /\ shown' = shown \cup {m}
  /\ visible' = IF m \in classIn THEN visible \cup {m} ELSE visible
  /\ timers' = timers \o <<Timer("in", m, 150), Timer("focus", m, 350)>>
  /\ escs' = [escs EXCEPT ![m] = @ + 1]
  /\ backIn' = IF CountedIn = {} THEN backIn \cup {m} ELSE backIn \ {m}
  /\ zIndex' = [zIndex EXCEPT ![m] = NewZIndex(m)]
  /\ rushed' = IF Pending(timers, "hide", m) THEN rushed \cup {m} ELSE rushed
  /\ miscounted' = FALSE
  /\ later' = (later \cup {m}) \ {x \in Modals : Home[x] = m}
  /\ outdated' = IF CountedIn = {} THEN outdated ELSE outdated \ {m}
  /\ UNCHANGED <<counted, classIn, focus>>

MayHide(n) == Len(SelectSeq(timers, LAMBDA t : t.job = "hide")) + n <= MaxHides

\* closeModal, called n times in a row.
Close(m, n) ==
  /\ classIn' = classIn \ {m}
  /\ backIn' = backIn \ {m}
  /\ MayHide(n)
  /\ timers' = timers \o HideTimers(m, n)
  /\ scrollNo' = LockAfter(m, n)
  /\ wrapInert' = FALSE
  /\ opened' = opened \ {m}
  /\ focus' = IF m \in opened /\ Home[m] \in visible \cup {Page} THEN Home[m] ELSE focus
  /\ rushed' = IF Pending(timers, "in", m) THEN rushed \cup {m} ELSE rushed
  /\ miscounted' = (miscounted \/ n > 1 \/ m \notin opened \/ ~(opened \subseteq CountedIn))
  /\ outdated' = {x \in Modals : zIndex[x] > 0}
  /\ UNCHANGED <<counted, shown, visible, zIndex, opens, later>>

\* A click on a close button of m.
CloseModal(m) == Usable(m) /\ Close(m, 1) /\ UNCHANGED escs

\* A key is pressed inside m.  The listeners for Escape are registered with
\* once: whatever the key, all of them have run after it.  focusTrap keeps the
\* focus inside m.
Escape(m) == /\ focus = m /\ m \in visible /\ escs[m] > 0
             /\ escs' = [escs EXCEPT ![m] = 0]
             /\ Close(m, escs[m])

OtherKey(m) == /\ focus = m /\ m \in visible /\ escs[m] > 0
               /\ escs' = [escs EXCEPT ![m] = 0]
               /\ UNCHANGED <<counted, classIn, shown, backIn, visible, zIndex, opened, history>>
               /\ UNCHANGED sharedVars

\* A click beside the content of m, or a key that moves the focus there.
FocusPlace(c) == /\ c # focus
                 /\ Usable(c) \/ (focus = Page /\ c \in visible)
                 /\ focus' = c
                 /\ UNCHANGED <<scrollNo, wrapInert, timers>> /\ UNCHANGED modalVars

\* The callback of a timer of m runs.
RunTimer(m, i) ==
  /\ MayRun(timers, i) /\ timers[i].of = m
  /\ timers' = Without(timers, i)
  /\ \/ /\ timers[i].job = "in"
        /\ classIn' = classIn \cup {m}
        /\ visible' = visible \cup (shown \cap {m})
        /\ UNCHANGED <<shown, focus>>
     \/ /\ timers[i].job = "focus"
        /\ focus' = IF m \in visible THEN m ELSE focus
        /\ UNCHANGED <<classIn, shown, visible>>
     \/ /\ timers[i].job = "hide"
        /\ shown' = shown \ {m}
        /\ visible' = visible \ {m}
        /\ focus' = IF focus = m THEN Page ELSE focus
        /\ UNCHANGED classIn
  /\ UNCHANGED <<counted, backIn, zIndex, opened, escs, scrollNo, wrapInert, history>>
=============================================================================
