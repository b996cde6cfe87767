------------------------------ MODULE GnbScroll ------------------------------
(***************************************************************************)
(* krds_mainMenuMobile: the body of the menu is scrolled.  Its tabs fold   *)
(* away as soon as it is not at the top, and are to unfold there again.    *)
(* Every scroll event registers one more listener, each with the position  *)
(* of the event before; the class goes 600 ms after the fold.              *)
(***************************************************************************)
EXTENDS Naturals, Sequences, FiniteSets

CONSTANTS
  Tops,          \* positions to scroll to: 0 is the top
  ListTops,      \* offsetTop of every list, in the order of the page
  MaxTop,        \* the position at the bottom
  MaxListeners   \* bound on scroll events that register a listener

ASSUME TopsAssumption  == /\ MaxTop \in Nat /\ Tops \subseteq 0 .. MaxTop /\ 0 \in Tops
                          /\ MaxListeners \in Nat
ASSUME ListsAssumption == ListTops \in Seq(Nat) /\ ListTops # <<>>

VARIABLE gnb  \* a record of
  \* top     scrollTop of gnb-body
  \* lasts   lastBodyScrollY of every listener
  \* folded  the tabs have a fixed height
  \* away    gnb-wrap has class is-active
  \* link    the active link
  \* timers  how many timers of 600 ms are pending
  \* hurried history: scrolled down again before the class had gone

GnbInits == {[top |-> 0, lasts |-> <<>>, folded |-> FALSE, away |-> FALSE,
              link |-> 1, timers |-> 0, hurried |-> FALSE]}

\* The lists are looked at in order, the last one that fits has its link active.
LinkAt(top, old) ==
  LET fit == {k \in DOMAIN ListTops : top >= ListTops[k] \/ top = MaxTop}
  IN  IF fit = {} THEN old ELSE CHOOSE k \in fit : \A j \in fit : j <= k

HandleTopScrollOnce(g) ==
  LET below == g.top > 0 /\ g.lasts # <<>>
  IN  [g EXCEPT !.folded = @ \/ below, !.away = @ \/ below]

\* The listeners of handleTopScroll, all of them.  Each that sees the way back
\* to the top sets a timer.
HandleTopScroll(g) ==
  LET below  == g.top > 0 /\ g.lasts # <<>>
      unfold == {k \in DOMAIN g.lasts : g.top = 0 /\ g.top < g.lasts[k]}
  IN  [g EXCEPT !.lasts  = [k \in DOMAIN @ |-> g.top],
                !.folded = (@ \/ below) /\ unfold = {},
                !.away   = @ \/ below,
                !.timers = @ + Cardinality(unfold)]

Register(g) == [g EXCEPT !.lasts = Append(@, 0)]

\* A scroll event: setupAnchorScroll's listener registers a new one, which does
\* not hear of this event, and those registered before run after it.  For every
\* list that fits it also registers a scrollend listener, which brings the tab
\* of that list into view.  They all run, the one of the active link last, so
\* that the tabs end up where link says; their position is left out.
ScrollBody(top) ==
  LET moved == [gnb EXCEPT !.top = top, !.link = LinkAt(top, @),
                           !.hurried = @ \/ (top > 0 /\ gnb.timers > 0)]
  IN  /\ top # gnb.top
      /\ Len(gnb.lasts) < MaxListeners
      /\ gnb' = Register(HandleTopScroll(moved))

ReturnTabs == gnb.timers > 0 /\ gnb' = [gnb EXCEPT !.away = FALSE, !.timers = @ - 1]

GnbNext == ReturnTabs \/ \E top \in Tops : ScrollBody(top)
-----------------------------------------------------------------------------
\* With no timer pending the tabs are away exactly if the body is not at the
\* top, except after the very first scroll event, which nothing listens to yet,
\* and unless the body was scrolled down within the 600 ms.
TabsAwayBelowTop ==
  Len(gnb.lasts) > 1 /\ gnb.timers = 0 /\ ~gnb.hurried
  => (gnb.away <=> gnb.top > 0) /\ (gnb.folded <=> gnb.away)

\* The active link is that of the last list whose start has been scrolled past,
\* if there is one; at the bottom it is the last one.
LinkOfList ==
  gnb.lasts # <<>> =>
    IF gnb.top = MaxTop THEN gnb.link = Len(ListTops)
    ELSE \A k \in DOMAIN ListTops :
           ListTops[k] <= gnb.top => k <= gnb.link /\ ListTops[gnb.link] <= gnb.top
=============================================================================
