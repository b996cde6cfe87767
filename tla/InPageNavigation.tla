--------------------------- MODULE InPageNavigation --------------------------
(***************************************************************************)
(* krds_tab, krds_inPageNavigation and scrollManager on one page: of two   *)
(* tabs the first has sections and links to them, of which the one of the  *)
(* section on screen is to be active.  Links are numbered as their         *)
(* sections.  Heights are multiples of some unit.                          *)
(***************************************************************************)
EXTENDS Integers, Sequences, FiniteSets

CONSTANT
  Layouts  \* records: heights of the sections and of the gap over each, of the
           \* window, of the header, of what is above the container of the
           \* sections and of the footer

ASSUME LayoutsAssumption ==
  /\ Layouts # {}
  /\ \A l \in Layouts : /\ {l.window, l.header, l.above, l.footer} \subseteq Nat
                        /\ l.heights \in Seq(Nat) /\ l.heights # <<>>
                        /\ l.gaps \in [DOMAIN l.heights -> Nat]

VARIABLE nav  \* a record of
  \* layout
  \* tab       the tab with class active and the panel with class active
  \* selected  the tabs with aria-selected = true
  \* texts     on every tab, how many hidden texts say that it is selected
  \* y, lastY  window.scrollY, and _lastScrollY
  \* direction the class of #wrap: "up", "down" or "none"
  \* links     the links with class active
  \* fresh     history: the sections of the shown tab have been looked at

Tabs == {1, 2}

Sections(l) == DOMAIN l.heights
LastSection(l) == Len(l.heights)
\* Where section k ends.
Bottoms(l) == LET end[k \in 0 .. LastSection(l)] ==
                    IF k = 0 THEN l.above ELSE end[k - 1] + l.gaps[k] + l.heights[k]
              IN  end
Bottom(l, k) == Bottoms(l)[k]
\* offsetTop of section k.
SectionTop(l, k) == Bottom(l, k - 1) + l.gaps[k]
ScrollHeight(l) == Bottom(l, LastSection(l)) + l.footer
MaxScroll(l) == IF ScrollHeight(l) > l.window THEN ScrollHeight(l) - l.window ELSE 0
\* topHeight: a fifth of the window, rounded up.
TopHeight(l) == (l.window + 4) \div 5

\* The link that updateActiveSection activates for section k, 0 for none.
LinkOf(l, y, k) ==
  LET top == SectionTop(l, k) - TopHeight(l)
  IN  CASE y + l.window >= ScrollHeight(l) -> LastSection(l)
        [] y + l.window < ScrollHeight(l) /\ y <= SectionTop(l, 1) -> 1
        [] OTHER -> IF y > top /\ y <= top + l.heights[k] THEN k ELSE 0

\* updateActiveSection goes through all sections; the last link wins, and the
\* old one stays where no section is.
UpdateActiveSection(n) ==
  LET hits == {k \in Sections(n.layout) : LinkOf(n.layout, n.y, k) # 0}
      last == CHOOSE k \in hits : \A j \in hits : j <= k
  IN  IF n.tab # 1 \/ hits = {} THEN n
      ELSE [n EXCEPT !.links = {LinkOf(n.layout, n.y, last)}, !.fresh = TRUE]

HandleScrollDirectionStale(n) == [n EXCEPT !.direction = IF n.y > n.lastY THEN "down" ELSE @, !.lastY = n.y]
HandleScrollDirection(n) ==
  LET below == n.y > n.layout.above + 50
  IN  [n EXCEPT !.direction = IF below /\ n.y > n.lastY THEN "down"
                              ELSE IF below /\ n.y < n.lastY THEN "up" ELSE "none",
                !.lastY = n.y]

\* setupTabs: a tab that is active in the page is selected only if its text is
\* not in the page as well.
NavInits ==
  {UpdateActiveSection(
     [layout |-> l, tab |-> 1, selected |-> told, texts |-> [t \in Tabs |-> IF t = 1 THEN 1 ELSE 0],
      y |-> 0, lastY |-> 0, direction |-> "none", links |-> {}, fresh |-> FALSE])
     : l \in Layouts, told \in {{}, {1}}}

ResetTabs(n) == [n EXCEPT !.selected = {}, !.texts = [t \in Tabs |-> IF @[t] > 0 THEN @[t] - 1 ELSE 0]]

\* A click on a tab.  Nothing scrolls, so that no section is looked at.
ClickTab(t) ==
  nav' = [ResetTabs(nav) EXCEPT !.tab = t, !.selected = {t}, !.texts[t] = @ + 1,
                                !.fresh = @ /\ t = nav.tab]

ScrolledTo(n, y) == UpdateActiveSection(HandleScrollDirection([n EXCEPT !.y = y]))

\* A scroll event, wherever the page has been scrolled to.
ScrollPage(y) == nav' = ScrolledTo(nav, y)

\* Where applyScroll scrolls to: section k under the header, or the top.
GoalOf(l, k) == IF SectionTop(l, k) > l.header THEN SectionTop(l, k) - l.header ELSE 0

\* applyScroll, when the page has been scrolled as far as it goes.
ClickLink(k) ==
  LET l    == nav.layout
      goal == GoalOf(l, k)
      y    == IF goal > MaxScroll(l) THEN MaxScroll(l) ELSE goal
  IN  nav.tab = 1 /\ nav' = ScrolledTo(nav, y)

NavNext == \/ \E t \in Tabs : ClickTab(t)
           \/ \E y \in 0 .. MaxScroll(nav.layout) : ScrollPage(y)
           \/ \E k \in Sections(nav.layout) : ClickLink(k)
-----------------------------------------------------------------------------
\* A tab that has been clicked is the one that screen readers are told of.
TabsTold == /\ nav.selected \in {{nav.tab}, {}}
            /\ \A t \in Tabs : nav.texts[t] = IF t = nav.tab THEN 1 ELSE 0

\* The section at a fifth of the window's height, or the one over the gap there.
OnScreen(l, y) ==
  LET begun == {k \in Sections(l) : SectionTop(l, k) < y + TopHeight(l)}
  IN  IF y + l.window >= ScrollHeight(l) THEN LastSection(l)
      ELSE IF y <= SectionTop(l, 1) THEN 1
      ELSE CHOOSE k \in begun : \A j \in begun : j <= k

InSection(l, place, k) == SectionTop(l, k) < place /\ place <= Bottom(l, k)

\* After the last scroll event the active link is that of the section on
\* screen, also at the ends of the page; in a gap between sections, and in a
\* footer higher than the window, it may be an older one.
LinkOfSection ==
  LET l == nav.layout
  IN  /\ nav.fresh
      /\ \/ nav.y <= SectionTop(l, 1) \/ nav.y = MaxScroll(l)
         \/ \E k \in Sections(l) : InSection(l, nav.y + TopHeight(l), k)
      => nav.links = {OnScreen(l, nav.y)}

\* A link that has been followed is the active one, if the page can be scrolled
\* that far, past the top of the first section, and if a fifth of the window is
\* higher than the header but ends within the section under it: otherwise the
\* active link is another one.
FollowedLinkActive ==
  \A k \in Sections(nav.layout) :
    LET l == nav.layout
    IN  /\ ClickLink(k) /\ GoalOf(l, k) < MaxScroll(l)
        /\ \/ k = 1
           \/ /\ GoalOf(l, k) > SectionTop(l, 1)
              /\ l.header < TopHeight(l) /\ TopHeight(l) <= l.header + l.heights[k]
        => nav'.links = {k}

\* The header hides and shows itself as the page was scrolled last.
DirectionOfScroll ==
  nav'.y # nav.y => nav'.direction = IF nav'.y <= nav.layout.above + 50 THEN "none"
                                     ELSE IF nav'.y > nav.y THEN "down" ELSE "up"
=============================================================================
