----------------------------- MODULE ContentPage -----------------------------
(***************************************************************************)
(* The widgets in the content of a page.  They share no state and hear of  *)
(* each other's events only where a module says so, so that a behaviour    *)
(* uses one of them, whichever: the others could take no part in it.       *)
(***************************************************************************)
EXTENDS SideNavigation, InPageNavigation, Foldables, Choices, GnbScroll, CalendarRange

VARIABLE used  \* the widget in use

vars == <<used, side, nav, fold, choice, gnb, cal>>

\* Any initial state of the widget in use, one of each other's.
InitOf(widget, states) == IF used = widget THEN states ELSE {CHOOSE s \in states : TRUE}

Init == /\ used \in {"side", "nav", "fold", "choice", "gnb", "cal"}
        /\ side   \in InitOf("side", SideInits)
        /\ nav    \in InitOf("nav", NavInits)
        /\ fold   \in InitOf("fold", FoldInits)
        /\ choice \in InitOf("choice", ChoiceInits)
        /\ gnb    \in InitOf("gnb", GnbInits)
        /\ cal    \in InitOf("cal", CalRangeInits)

UseSide   == used = "side"   /\ SideNext     /\ UNCHANGED <<used, nav, fold, choice, gnb, cal>>
UseNav    == used = "nav"    /\ NavNext      /\ UNCHANGED <<used, side, fold, choice, gnb, cal>>
UseFold   == used = "fold"   /\ FoldNext     /\ UNCHANGED <<used, side, nav, choice, gnb, cal>>
UseChoice == used = "choice" /\ ChoiceNext   /\ UNCHANGED <<used, side, nav, fold, gnb, cal>>
UseGnb    == used = "gnb"    /\ GnbNext      /\ UNCHANGED <<used, side, nav, fold, choice, cal>>
UseCal    == used = "cal"    /\ CalRangeNext /\ UNCHANGED <<used, side, nav, fold, choice, gnb>>

Next == UseSide \/ UseNav \/ UseFold \/ UseChoice \/ UseGnb \/ UseCal

Spec == Init /\ [][Next]_vars
-----------------------------------------------------------------------------
\* Types; one link of the page is active and one radio button checked.
TypeOK ==
  /\ side.active \cup side.aria \subseteq Popups /\ side.last \in Popups \cup {0}
  /\ nav.links \subseteq Sections(nav.layout) /\ Cardinality(nav.links) = 1 /\ nav.tab \in Tabs
  /\ fold.active \subseteq Folds /\ fold.shown \subseteq Disclosures
  /\ Cardinality(choice.checked \cap Radios) = 1
  /\ gnb.top \in Tops /\ gnb.link \in DOMAIN ListTops
  /\ cal.period \cup cal.start \cup cal.end \subseteq Days /\ cal.month \in Months

\* What the widgets show is what they tell screen readers, and what has the
\* focus and the frame is what the user has opened and chosen.
WidgetsTold == TypeOK /\ PopupsTold /\ PopupsHaveFocus /\ TabsTold /\ FoldsTold /\ FramesAsChecked

\* The links that follow a scroll position are those of the place on screen,
\* and the menu's tabs are away below its top.
LinksOfPlace == LinkOfSection /\ LinkOfList /\ TabsAwayBelowTop

\* A click, a link or a scroll has the effect it announces.
EventsTakeEffect ==
  [][FollowedLinkActive /\ DirectionOfScroll /\ OneItemOpen /\ InputAsClicked]_vars
=============================================================================
