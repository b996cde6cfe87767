--------------------------- MODULE PopupPageProofs ---------------------------
(* Theorems about PopupPage, for any number of menus, drop-downs, helps,   *)
(* pickers and tooltips, and for all lengths of the latter.                *)
EXTENDS PopupPage, FiniteSetTheorems, TLAPS

-----------------------------------------------------------------------------
(* Where a tooltip is placed, for all lengths *)

\* What the halves of calculateTooltipPosition are.
LEMMA HalfOfInt ==
  ASSUME NEW x \in Int
  PROVE  /\ Half(x) \in Int
         /\ 2 * Half(x) <= x /\ x <= 2 * Half(x) + 1
BY DEF Half

\* The lengths of items, tooltips and windows are naturals.
LEMMA LengthsAreNat ==
  ASSUME NEW i \in TipItems, NEW t \in Popovers, NEW w \in Windows
  PROVE  /\ i.top \in Nat /\ i.left \in Nat /\ i.height \in Nat /\ i.width \in Nat
         /\ t.height \in Nat /\ t.width \in Nat /\ w.height \in Nat /\ w.width \in Nat
BY LengthsAssumption DEF TipItems, Popovers

\* Above or below the item, the tooltip is between top and bottom of the window.
LEMMA VerticalTopInWindow ==
  ASSUME NEW i \in TipItems, NEW t \in Popovers, NEW w \in Windows, Fits(i, t, w)
  PROVE  VerticalTop(i, t, w.height) >= 0 /\ VerticalTop(i, t, w.height) + t.height <= w.height
<1> DEFINE H == w.height
<1>1. H \in Int BY LengthsAreNat
<1>2. /\ Half(H) \in Int /\ 2 * Half(H) <= H BY <1>1, HalfOfInt
<1>3. i.top + i.height <= H /\ i.height + t.height + Gap <= Half(H) BY DEF Fits, Bottom
<1>4. CASE i.top + i.height > Half(H)
  BY <1>1, <1>2, <1>3, <1>4, LengthsAreNat DEF VerticalTop, Bottom, Gap
<1>5. CASE ~(i.top + i.height > Half(H))
  BY <1>1, <1>2, <1>3, <1>5, LengthsAreNat DEF VerticalTop, Bottom, Gap
<1> QED BY <1>4, <1>5

\* ... and, however it is aligned, between the left and the right edge.
LEMMA VerticalLeftInWindow ==
  ASSUME NEW i \in TipItems, NEW t \in Popovers, NEW w \in Windows, Fits(i, t, w), ~MobileSmall(w)
  PROVE  VerticalLeft(i, t, w.width) >= 0 /\ VerticalLeft(i, t, w.width) + t.width <= w.width
<1> DEFINE W == w.width
           c == Half(i.width - t.width)
<1>1. W \in Int BY LengthsAreNat
<1>2. /\ Half(W) \in Int /\ 2 * Half(W) <= W BY <1>1, HalfOfInt
<1>3. i.left + i.width <= W /\ i.width + t.width + Gap <= Half(W) BY DEF Fits, Right
<1>4. /\ c \in Int /\ 2 * c <= i.width - t.width /\ i.width - t.width <= 2 * c + 1
  <2>1. i.width - t.width \in Int BY LengthsAreNat
  <2> QED BY <2>1, HalfOfInt
<1>5. Half(t.width) \in Int /\ t.width <= 2 * Half(t.width) + 1
  <2>1. t.width \in Int BY LengthsAreNat
  <2> QED BY <2>1, HalfOfInt
<1>6. /\ Right(i) > Half(W) /\ W - Right(i) > Half(t.width) => VerticalLeft(i, t, W) = i.left + c
      /\ Right(i) > Half(W) /\ ~(W - Right(i) > Half(t.width)) => VerticalLeft(i, t, W) = Right(i) - t.width
      /\ ~(Right(i) > Half(W)) /\ i.left + c < 0 => VerticalLeft(i, t, W) = i.left
      /\ ~(Right(i) > Half(W)) /\ ~(i.left + c < 0) => VerticalLeft(i, t, W) = i.left + c
  BY DEF VerticalLeft
<1>7. Right(i) = i.left + i.width BY DEF Right
<1> HIDE DEF c
<1>8. CASE Right(i) > Half(W)
  BY <1>1, <1>2, <1>3, <1>4, <1>5, <1>6, <1>7, <1>8, LengthsAreNat DEF Gap
<1>9. CASE ~(Right(i) > Half(W))
  BY <1>1, <1>2, <1>3, <1>4, <1>6, <1>7, <1>9, LengthsAreNat DEF Gap
<1> QED BY <1>8, <1>9

\* To the left or right of the item, it is between these edges too.
LEMMA HorizontalLeftInWindow ==
  ASSUME NEW i \in TipItems, NEW t \in Popovers, NEW w \in Windows, Fits(i, t, w), ~MobileSmall(w)
  PROVE  HorizontalLeft(i, t, w.width) >= 0 /\ HorizontalLeft(i, t, w.width) + t.width <= w.width
<1> DEFINE W == w.width
<1>1. W \in Int BY LengthsAreNat
<1>2. /\ Half(W) \in Int /\ 2 * Half(W) <= W BY <1>1, HalfOfInt
<1>3. i.left + i.width <= W /\ i.width + t.width + Gap <= Half(W) BY DEF Fits, Right
<1> HIDE DEF W
<1>4. HorizontalLeft(i, t, W) >= 0 /\ HorizontalLeft(i, t, W) + t.width <= W
  BY <1>1, <1>2, <1>3, LengthsAreNat DEF HorizontalLeft, Right, Gap
<1> QED BY <1>4 DEF W

\* In a small window it is centred.
LEMMA CentredLeftInWindow ==
  ASSUME NEW i \in TipItems, NEW t \in Popovers, NEW w \in Windows, Fits(i, t, w), MobileSmall(w)
  PROVE  CentredLeft(t, w.width) >= 0 /\ CentredLeft(t, w.width) + t.width <= w.width
<1> DEFINE c == Half(w.width - t.width)
<1>1. w.width \in Nat /\ t.width \in Nat /\ t.width <= w.width
  BY LengthsAreNat DEF Fits
<1>2. c \in Int /\ 2 * c <= w.width - t.width /\ w.width - t.width <= 2 * c + 1
  <2>1. w.width - t.width \in Int BY <1>1
  <2> QED BY <2>1, HalfOfInt
<1> HIDE DEF c
<1>3. c >= 0 /\ c + t.width <= w.width
  BY <1>1, <1>2
<1> QED BY <1>3 DEF CentredLeft, c

\* Wherever the item is, its tooltip is placed in the window if both fit in half
\* of it, but for one beside its item that is cut off at the top or bottom.
THEOREM TooltipsInWindowHold == TooltipsInWindow
<1> SUFFICES ASSUME NEW w \in Windows, NEW i \in TipItems, NEW t \in Popovers,
                    NEW styled \in BOOLEAN, Fits(i, t, w), ~CutOff(i, t, w, styled)
             PROVE  InWindow(Position(i, t, w, styled), t, w)
  BY DEF TooltipsInWindow
<1> DEFINE at == Position(i, t, w, styled)
<1>1. at.top >= 0 /\ at.top + t.height <= w.height
  <2>1. CASE IsMobile(w) \/ styled
    BY <2>1, VerticalTopInWindow DEF Position
  <2>2. CASE ~(IsMobile(w) \/ styled)
    <3>1. ~(HorizontalTop(i, t) < 0) /\ ~(HorizontalTop(i, t) + t.height > w.height)
      BY <2>2 DEF CutOff
    <3>2. HorizontalTop(i, t) \in Int /\ t.height \in Int /\ w.height \in Int
      <4>1. i.height - t.height \in Int /\ i.top \in Int
        BY LengthsAreNat
      <4> QED BY <4>1, HalfOfInt, LengthsAreNat DEF HorizontalTop
    <3>3. at.top = HorizontalTop(i, t)
      BY <2>2 DEF Position
    <3> QED BY <3>1, <3>2, <3>3
  <2> QED BY <2>1, <2>2
<1>2. at.left >= 0 /\ at.left + t.width <= w.width
  <2>1. CASE MobileSmall(w)
    BY <2>1, CentredLeftInWindow DEF Position
  <2>2. CASE ~MobileSmall(w) /\ (IsMobile(w) \/ styled)
    BY <2>2, VerticalLeftInWindow DEF Position
  <2>3. CASE ~MobileSmall(w) /\ ~(IsMobile(w) \/ styled)
    BY <2>3, HorizontalLeftInWindow DEF Position
  <2> QED BY <2>1, <2>2, <2>3
<1> QED BY <1>1, <1>2 DEF InWindow

-----------------------------------------------------------------------------
(* The inductive invariant *)

AtMostOne(S) == \A x, y \in S : x = y

MenuStates == [active : SUBSET Triggers, open : SUBSET Wrapped, backdrop : BOOLEAN,
               scrollY : BOOLEAN, sub : [Wrapped -> (UNION {Subs[t] : t \in Wrapped}) \cup {0}]]

\* One menu at most, over the backdrop unless it is compact.
GoodMenu(m) ==
  /\ m \in MenuStates /\ m.active = m.open /\ AtMostOne(m.active)
  /\ m.backdrop => m.active # {}
  /\ m.active \ Compact # {} => m.backdrop

AnyItem == (UNION {Items[d] : d \in Drops}) \cup {NoItem, Default}

DropStates == [shown : SUBSET Drops, active : SUBSET Drops, chosen : [Drops -> AnyItem],
               selected : [Drops -> AnyItem], scale : AnyItem]

\* One drop-down at most, and the zoom that its menu marks.
GoodDrop(s) == /\ s \in DropStates /\ s.active = s.shown /\ AtMostOne(s.shown)
               /\ \A d \in Scaling : s.chosen[d] \in {s.scale, NoItem}

HelpStates == [shown : SUBSET Helps, active : SUBSET Helps, armed : SUBSET Helps]

\* One help at most.
GoodHelp(s) == s \in HelpStates /\ s.active = s.shown /\ AtMostOne(s.shown)

CalStates == [active : SUBSET Pickers, aria : SUBSET Pickers, layers : SUBSET Layers,
              current : SUBSET Layers, combo : SUBSET Layers]

\* One picker at most, and in it one list at most.
GoodCal(s) ==
  /\ s \in CalStates /\ s.aria = s.active /\ AtMostOne(s.active)
  /\ s.layers = s.current /\ s.combo = s.current /\ AtMostOne(s.current)
  /\ \A l \in s.current : l[1] \in s.active

Pages == [menu : MenuStates, help : HelpStates, drop : DropStates, cal : CalStates,
          tips : SUBSET Tips, pointed : SUBSET TipElements, focus : Elements]

GoodPage(p) ==
  /\ p \in Pages
  /\ GoodMenu(p.menu) /\ GoodDrop(p.drop) /\ GoodHelp(p.help) /\ GoodCal(p.cal)
  /\ \A i \in p.tips : <<"tip", i, 0>> \in p.pointed \cup {p.focus}

\* At most one widget has something open.
Exclusive(p) ==
  /\ p.menu.active = {} \/ (p.drop.shown = {} /\ p.help.shown = {} /\ p.cal.active = {})
  /\ p.drop.shown = {} \/ (p.help.shown = {} /\ p.cal.active = {})
  /\ p.help.shown = {} \/ p.cal.active = {}

\* An open help has the focus and listens for its loss.
HelpHolds(p) == \A h \in p.help.shown : h \in p.help.armed /\ p.focus = <<"close", h, 0>>

\* An open drop-down has the focus, but for those in S.
DropHolds(p, S) ==
  \A d \in p.drop.shown \ S : p.focus \in DropElements /\ Widget(p.focus) = d

\* A page between two events: the browser takes the focus off what is hidden.
Settled(p, S) == /\ GoodPage(p) /\ HelpHolds(p) /\ DropHolds(p, S)
                 /\ Displayed(p, p.focus)

TimerSet == [job : {"focus"}, of : PickerElements, delay : {50}]

IInv == /\ Settled(page, stolen) /\ Exclusive(page)
        /\ timers \in Seq(TimerSet) /\ Len(timers) <= MaxTimers
        /\ window \in Windows /\ placed = [i \in page.tips |-> window]

-----------------------------------------------------------------------------
(* Elements *)

\* What an element is follows from its kind.
LEMMA Kinds ==
  ASSUME NEW el \in Elements
  PROVE  /\ Kind(el) \in {"page", "trigger", "sub", "drop", "reset", "item", "help", "close",
                          "frame", "confirm", "switch", "option", "cal", "tip"}
         /\ el = Page <=> Kind(el) = "page"
         /\ el \in MenuElements <=> Kind(el) \in {"trigger", "sub"}
         /\ el \in DropElements <=> Kind(el) \in {"drop", "reset", "item"}
         /\ el \in HelpElements <=> Kind(el) \in {"help", "close"}
         /\ el \in PickerElements <=> Kind(el) \in {"frame", "confirm", "switch", "option"}
         /\ el \in CalElements <=> Kind(el) \in {"cal", "frame", "confirm", "switch", "option"}
         /\ el \in TipElements <=> Kind(el) = "tip"
<1>1. el = Page => Kind(el) = "page"
  BY DEF Page, Kind
<1>2. el \in MenuElements => Kind(el) \in {"trigger", "sub"}
  BY DEF MenuElements, Kind
<1>3. el \in DropElements => Kind(el) \in {"drop", "reset", "item"}
  BY DEF DropElements, Kind
<1>4. el \in HelpElements => Kind(el) \in {"help", "close"}
  BY DEF HelpElements, Kind
<1>5. el \in PickerElements => Kind(el) \in {"frame", "confirm", "switch", "option"}
  BY DEF PickerElements, Kind
<1>6. el \in CalElements <=> el \in PickerElements \/ el \in {<<"cal", c, 0>> : c \in Pickers}
  BY DEF CalElements
<1>7. el \in {<<"cal", c, 0>> : c \in Pickers} => Kind(el) = "cal"
  BY DEF Kind
<1>8. el \in TipElements => Kind(el) = "tip"
  BY DEF TipElements, Kind
<1>9. \/ el = Page \/ el \in MenuElements \/ el \in DropElements \/ el \in HelpElements
      \/ el \in CalElements \/ el \in TipElements
  BY DEF Elements
<1> QED BY <1>1, <1>2, <1>3, <1>4, <1>5, <1>6, <1>7, <1>8, <1>9

\* ... and so does what it belongs to.
LEMMA Widgets ==
  ASSUME NEW el \in Elements
  PROVE  /\ Kind(el) = "trigger" => Widget(el) \in Triggers
         /\ Kind(el) = "sub" => Widget(el) \in Wrapped /\ Part(el) \in Subs[Widget(el)]
         /\ Kind(el) = "drop" => Widget(el) \in Drops
         /\ Kind(el) = "reset" => Widget(el) \in Scaling
         /\ Kind(el) = "item" => Widget(el) \in Drops /\ Part(el) \in Items[Widget(el)]
         /\ Kind(el) \in {"help", "close"} => Widget(el) \in Helps /\ el = <<Kind(el), Widget(el), 0>>
         /\ Kind(el) \in {"cal", "frame", "confirm"} => Widget(el) \in Pickers
         /\ Kind(el) \in {"switch", "option"} => <<Widget(el), Part(el)>> \in Layers
         /\ Kind(el) = "tip" => Widget(el) \in Tips /\ el = <<"tip", Widget(el), 0>>
<1>1. Kind(el) \in {"trigger", "sub"} =>
        /\ Kind(el) = "trigger" => Widget(el) \in Triggers
        /\ Kind(el) = "sub" => Widget(el) \in Wrapped /\ Part(el) \in Subs[Widget(el)]
  <2> SUFFICES ASSUME el \in MenuElements
               PROVE  /\ Kind(el) = "trigger" => Widget(el) \in Triggers
                      /\ Kind(el) = "sub" => Widget(el) \in Wrapped /\ Part(el) \in Subs[Widget(el)]
    BY Kinds
  <2> QED BY DEF MenuElements, Kind, Widget, Part
<1>2. Kind(el) \in {"drop", "reset", "item"} =>
         /\ Kind(el) = "drop" => Widget(el) \in Drops
         /\ Kind(el) = "reset" => Widget(el) \in Scaling
         /\ Kind(el) = "item" => Widget(el) \in Drops /\ Part(el) \in Items[Widget(el)]
  <2> SUFFICES ASSUME el \in DropElements
               PROVE  /\ Kind(el) = "drop" => Widget(el) \in Drops
                      /\ Kind(el) = "reset" => Widget(el) \in Scaling
                      /\ Kind(el) = "item" => Widget(el) \in Drops /\ Part(el) \in Items[Widget(el)]
    BY Kinds
  <2> QED BY DEF DropElements, Kind, Widget, Part
<1>3. Kind(el) \in {"help", "close"} => Widget(el) \in Helps /\ el = <<Kind(el), Widget(el), 0>>
  <2> SUFFICES ASSUME el \in HelpElements
               PROVE  Widget(el) \in Helps /\ el = <<Kind(el), Widget(el), 0>>
    BY Kinds
  <2> QED BY DEF HelpElements, Kind, Widget
<1>4. Kind(el) \in {"frame", "confirm", "switch", "option"} =>
        /\ Kind(el) \in {"frame", "confirm"} => Widget(el) \in Pickers
        /\ Kind(el) \in {"switch", "option"} => <<Widget(el), Part(el)>> \in Layers
  <2> SUFFICES ASSUME el \in PickerElements
               PROVE  /\ Kind(el) \in {"frame", "confirm"} => Widget(el) \in Pickers
                      /\ Kind(el) \in {"switch", "option"} => <<Widget(el), Part(el)>> \in Layers
    BY Kinds
  <2> QED BY DEF PickerElements, Kind, Widget, Part, Layers
<1>5. Kind(el) = "cal" => Widget(el) \in Pickers
  <2> SUFFICES ASSUME Kind(el) = "cal" PROVE Widget(el) \in Pickers
    OBVIOUS
  <2>1. el \in CalElements /\ el \notin PickerElements
    BY Kinds
  <2>2. PICK c \in Pickers : el = <<"cal", c, 0>>
    BY <2>1 DEF CalElements
  <2> QED BY <2>2 DEF Widget
<1>6. Kind(el) = "tip" => Widget(el) \in Tips /\ el = <<"tip", Widget(el), 0>>
  <2> SUFFICES ASSUME el \in TipElements
               PROVE  Widget(el) \in Tips /\ el = <<"tip", Widget(el), 0>>
    BY Kinds
  <2> QED BY DEF TipElements, Widget
<1> QED BY <1>1, <1>2, <1>3, <1>4, <1>5, <1>6

\* The elements that the scripts name.
LEMMA NamedElements ==
  /\ Page \in Elements /\ Kind(Page) = "page"
  /\ \A t \in Triggers : <<"trigger", t, 0>> \in Elements /\ Kind(<<"trigger", t, 0>>) = "trigger"
  /\ \A d \in Drops : /\ <<"drop", d, 0>> \in Elements
                      /\ Kind(<<"drop", d, 0>>) = "drop" /\ Widget(<<"drop", d, 0>>) = d
  /\ \A h \in Helps : /\ <<"help", h, 0>> \in Elements /\ <<"close", h, 0>> \in Elements
                      /\ Kind(<<"help", h, 0>>) = "help" /\ Widget(<<"help", h, 0>>) = h
                      /\ Kind(<<"close", h, 0>>) = "close" /\ Widget(<<"close", h, 0>>) = h
  /\ \A c \in Pickers : <<"cal", c, 0>> \in Elements /\ Kind(<<"cal", c, 0>>) = "cal"
<1>1. Page \in Elements /\ Kind(Page) = "page"
  BY DEF Elements, Page, Kind
<1>2. ASSUME NEW t \in Triggers
      PROVE  <<"trigger", t, 0>> \in Elements /\ Kind(<<"trigger", t, 0>>) = "trigger"
  BY DEF Elements, MenuElements, Kind
<1>3. ASSUME NEW d \in Drops
      PROVE  /\ <<"drop", d, 0>> \in Elements
             /\ Kind(<<"drop", d, 0>>) = "drop" /\ Widget(<<"drop", d, 0>>) = d
  BY DEF Elements, DropElements, Kind, Widget
<1>4. ASSUME NEW h \in Helps
      PROVE  /\ <<"help", h, 0>> \in Elements /\ <<"close", h, 0>> \in Elements
             /\ Kind(<<"help", h, 0>>) = "help" /\ Widget(<<"help", h, 0>>) = h
             /\ Kind(<<"close", h, 0>>) = "close" /\ Widget(<<"close", h, 0>>) = h
  BY DEF Elements, HelpElements, Kind, Widget
<1>5. ASSUME NEW c \in Pickers PROVE <<"cal", c, 0>> \in Elements /\ Kind(<<"cal", c, 0>>) = "cal"
  BY DEF Elements, CalElements, Kind
<1> QED BY <1>1, <1>2, <1>3, <1>4, <1>5

-----------------------------------------------------------------------------
(* The handlers of one widget *)

LEMMA MenuHandlers ==
  ASSUME NEW m, GoodMenu(m)
  PROVE  /\ GoodMenu(CloseMainMenu(m))
         /\ CloseMainMenu(m).active = {} /\ CloseMainMenu(m).backdrop = FALSE
         /\ \A t \in Triggers : GoodMenu(ToggleMainMenu(m, t))
         /\ \A t \in Wrapped : \A x \in Subs[t] :
              GoodMenu(ToggleSubMenu(m, t, x)) /\ ToggleSubMenu(m, t, x).active = m.active
<1>1. m \in MenuStates /\ m.active = m.open /\ (m.backdrop => m.active # {})
      /\ (m.active \ Compact # {} => m.backdrop) /\ AtMostOne(m.active)
  BY DEF GoodMenu
<1>2. /\ GoodMenu(CloseMainMenu(m))
      /\ CloseMainMenu(m).active = {} /\ CloseMainMenu(m).backdrop = FALSE
  BY <1>1 DEF GoodMenu, MenuStates, CloseMainMenu, ResetMainMenu, AtMostOne
<1>3. ASSUME NEW t \in Triggers PROVE GoodMenu(ToggleMainMenu(m, t))
  <2>1. CASE t \in Wrapped \ m.active
    <3> DEFINE n == [m EXCEPT !.active = {t}, !.open = {t}, !.backdrop = (t \notin Compact \/ @),
                              !.scrollY = IF t \notin Compact THEN Overflows ELSE @]
    <3>1. ToggleMainMenu(m, t) = n
      BY <2>1 DEF ToggleMainMenu
    <3>2. n \in MenuStates /\ n.active = {t} /\ n.open = {t}
          /\ n.backdrop = (t \notin Compact \/ m.backdrop)
      BY <1>1, <2>1, TriggersAssumption DEF MenuStates
    <3> HIDE DEF n
    <3> QED BY <3>1, <3>2 DEF GoodMenu, AtMostOne
  <2>2. CASE t \notin Wrapped \ m.active
    BY <1>2, <2>2 DEF ToggleMainMenu
  <2> QED BY <2>1, <2>2
<1>4. ASSUME NEW t \in Wrapped, NEW x \in Subs[t]
      PROVE  GoodMenu(ToggleSubMenu(m, t, x)) /\ ToggleSubMenu(m, t, x).active = m.active
  <2> DEFINE n == [m EXCEPT !.sub[t] = x]
  <2>1. x \in UNION {Subs[u] : u \in Wrapped}
    OBVIOUS
  <2>2. /\ n \in MenuStates /\ n.active = m.active /\ n.open = m.open
        /\ n.backdrop = m.backdrop
    BY <1>1, <2>1 DEF MenuStates
  <2> HIDE DEF n
  <2>3. GoodMenu(n)
    BY <1>1, <2>2 DEF GoodMenu
  <2> QED BY <2>2, <2>3 DEF ToggleSubMenu, n
<1> QED BY <1>2, <1>3, <1>4

LEMMA ItemsNamed == Default \in AnyItem /\ NoItem \in AnyItem
BY DEF AnyItem

LEMMA DropHandlers ==
  ASSUME NEW s, GoodDrop(s)
  PROVE  /\ GoodDrop(CloseAllDropdowns(s)) /\ CloseAllDropdowns(s).shown = {}
         /\ \A d \in Drops : /\ GoodDrop(ClickDrop(s, d))
                             /\ ClickDrop(s, d).shown = IF d \in s.shown THEN {} ELSE {d}
         /\ \A d \in Drops : \A i \in Items[d] :
              GoodDrop(ClickItem(s, d, i)) /\ ClickItem(s, d, i).shown = {}
         /\ \A d \in Scaling : /\ GoodDrop(ScaleContent(s, d, Default))
                               /\ ScaleContent(s, d, Default).shown = s.shown
<1> USE DropsAssumption
<1>1. /\ s \in DropStates /\ s.active = s.shown /\ AtMostOne(s.shown)
      /\ \A d \in Scaling : s.chosen[d] \in {s.scale, NoItem}
  BY DEF GoodDrop
<1>2. /\ GoodDrop(CloseAllDropdowns(s)) /\ CloseAllDropdowns(s).shown = {}
  BY <1>1 DEF GoodDrop, DropStates, CloseAllDropdowns, AtMostOne
<1>3. ASSUME NEW d \in Drops
      PROVE  /\ GoodDrop(ClickDrop(s, d))
             /\ ClickDrop(s, d).shown = IF d \in s.shown THEN {} ELSE {d}
  <2>1. CASE d \in s.shown
    BY <1>2, <2>1 DEF ClickDrop
  <2>2. CASE d \notin s.shown
    <3> DEFINE n == [s EXCEPT !.shown = {d}, !.active = {d}]
    <3>1. ClickDrop(s, d) = n
      BY <1>1, <2>2 DEF ClickDrop, CloseAllDropdowns, DropStates
    <3>2. n \in DropStates /\ n.shown = {d} /\ n.active = {d} /\ n.chosen = s.chosen
          /\ n.scale = s.scale
      BY <1>1 DEF DropStates
    <3> HIDE DEF n
    <3> QED BY <1>1, <2>2, <3>1, <3>2 DEF GoodDrop, AtMostOne
  <2> QED BY <2>1, <2>2
<1>4. ASSUME NEW r, GoodDrop(r), NEW d \in Scaling
      PROVE  /\ GoodDrop(ScaleContent(r, d, Default))
             /\ ScaleContent(r, d, Default).shown = r.shown
  <2> DEFINE n == [r EXCEPT !.scale = Default, !.chosen[d] = Default, !.selected[d] = NoItem]
  <2>1. ScaleContent(r, d, Default) = n
    BY DEF ScaleContent
  <2>2. r \in DropStates /\ r.active = r.shown /\ AtMostOne(r.shown) /\ d \in Drops
    BY <1>4 DEF GoodDrop
  <2>3. Default \in AnyItem /\ NoItem \in AnyItem
    BY ItemsNamed
  <2>4. n \in DropStates /\ n.shown = r.shown /\ n.active = r.active /\ n.scale = Default
        /\ n.chosen[d] = Default
    BY <2>2, <2>3 DEF DropStates
  <2> HIDE DEF n
  <2>5. \A e \in Scaling : n.chosen[e] = Default
    BY <2>4
  <2> QED BY <2>1, <2>2, <2>4, <2>5 DEF GoodDrop
<1>5. ASSUME NEW d \in Drops, NEW i \in Items[d]
      PROVE  GoodDrop(ClickItem(s, d, i)) /\ ClickItem(s, d, i).shown = {}
  <2> DEFINE n == [s EXCEPT !.chosen[d] = i, !.selected[d] = i, !.shown = {}, !.active = {}]
             k == [n EXCEPT !.scale = i]
  <2>1. i \in AnyItem
    BY DEF AnyItem
  <2>2. CloseAllDropdowns(ActivateMenuItem(s, d, i)) = n
    BY <1>1 DEF CloseAllDropdowns, ActivateMenuItem, DropStates
  <2>3. /\ n \in DropStates /\ n.shown = {} /\ n.active = {} /\ n.scale = s.scale
        /\ \A e \in Drops : n.chosen[e] = IF e = d THEN i ELSE s.chosen[e]
    BY <1>1, <2>1 DEF DropStates
  <2> HIDE DEF n
  <2>4. /\ k \in DropStates /\ k.shown = {} /\ k.active = {} /\ k.scale = i /\ k.chosen = n.chosen
    BY <2>1, <2>3 DEF DropStates
  <2> HIDE DEF k
  <2>5. AtMostOne({})
    BY DEF AtMostOne
  <2>6. CASE d \notin Scaling
    <3>1. GoodDrop(n)
      BY <1>1, <2>3, <2>5, <2>6 DEF GoodDrop
    <3> QED BY <2>2, <2>3, <2>6, <3>1 DEF ClickItem
  <2>7. CASE d \in Scaling /\ i # Default
    <3>1. \A e \in Scaling : k.chosen[e] = i
      BY <2>3, <2>4, <2>7
    <3>2. GoodDrop(k)
      BY <2>4, <2>5, <3>1 DEF GoodDrop
    <3>3. ClickItem(s, d, i) = k
      BY <2>2, <2>7 DEF ClickItem, ScaleContent, k
    <3> QED BY <2>4, <3>2, <3>3
  <2>8. CASE d \in Scaling /\ i = Default
    <3> DEFINE r == [n EXCEPT !.scale = Default, !.chosen[d] = Default, !.selected[d] = NoItem]
    <3>1. ClickItem(s, d, i) = r
      BY <2>2, <2>8 DEF ClickItem, ScaleContent
    <3>2. Default \in AnyItem /\ NoItem \in AnyItem
      BY ItemsNamed
    <3>3. /\ r \in DropStates /\ r.shown = {} /\ r.active = {} /\ r.scale = Default
          /\ r.chosen[d] = Default
      BY <2>3, <3>2 DEF DropStates
    <3> HIDE DEF r
    <3>4. \A e \in Scaling : r.chosen[e] = Default
      BY <2>8, <3>3
    <3> QED BY <2>5, <3>1, <3>3, <3>4 DEF GoodDrop
  <2> QED BY <2>6, <2>7, <2>8
<1> QED BY <1>1, <1>2, <1>3, <1>4, <1>5

LEMMA HelpsClosed ==
  ASSUME NEW s, GoodHelp(s)
  PROVE  /\ GoodHelp(CloseAllTooltips(s)) /\ CloseAllTooltips(s).shown = {}
         /\ CloseAllTooltips(s).armed = s.armed
         /\ s.shown = {} => CloseAllTooltips(s) = s
<1>1. s \in HelpStates /\ s.active = s.shown /\ AtMostOne(s.shown)
  BY DEF GoodHelp
<1>2. /\ GoodHelp(CloseAllTooltips(s)) /\ CloseAllTooltips(s).shown = {}
      /\ CloseAllTooltips(s).armed = s.armed
  BY <1>1 DEF GoodHelp, HelpStates, CloseAllTooltips, AtMostOne
<1>3. s.shown = {} => CloseAllTooltips(s) = s
  BY <1>1 DEF CloseAllTooltips, HelpStates
<1> QED BY <1>2, <1>3

LEMMA HelpToggled ==
  ASSUME NEW s, GoodHelp(s), NEW h \in Helps
  PROVE  /\ GoodHelp(ToggleTooltip(s, h))
         /\ ToggleTooltip(s, h).shown = IF h \in s.shown THEN {} ELSE {h}
<1>1. s \in HelpStates /\ s.active = s.shown /\ AtMostOne(s.shown)
  BY DEF GoodHelp
<1>2. GoodHelp(CloseAllTooltips(s)) /\ CloseAllTooltips(s).shown = {}
  BY HelpsClosed
<1> QED BY <1>1, <1>2 DEF ToggleTooltip, CloseAllTooltips, GoodHelp, HelpStates, AtMostOne

LEMMA HelpClicked ==
  ASSUME NEW s, GoodHelp(s), NEW I \in SUBSET Helps
  PROVE  /\ GoodHelp(ClickDocument(s, I))
         /\ ClickDocument(s, I).shown = IF I = {} THEN {} ELSE s.shown
         /\ ClickDocument(s, I).armed = s.armed \cup I
<1>1. s \in HelpStates /\ s.active = s.shown /\ AtMostOne(s.shown)
  BY DEF GoodHelp
<1> QED BY <1>1, HelpsClosed DEF ClickDocument, GoodHelp, HelpStates

LEMMA CalHandlers ==
  ASSUME NEW s, GoodCal(s)
  PROVE  /\ GoodCal(ResetDateSelector(s)) /\ ResetDateSelector(s).active = s.active
         /\ GoodCal(Closed(s)) /\ Closed(s).active = {}
         /\ \A c \in Pickers : GoodCal(OpenDatePicker(s, c)) /\ OpenDatePicker(s, c).active = {c}
         /\ \A l \in Layers : l[1] \in s.active =>
              GoodCal(HandleBtnClick(s, l)) /\ HandleBtnClick(s, l).active = s.active
<1>1. /\ s \in CalStates /\ s.aria = s.active /\ AtMostOne(s.active)
      /\ s.layers = s.current /\ s.combo = s.current /\ AtMostOne(s.current)
      /\ \A l \in s.current : l[1] \in s.active
  BY DEF GoodCal
<1>2. /\ GoodCal(ResetDateSelector(s)) /\ ResetDateSelector(s).active = s.active
      /\ GoodCal(Closed(s)) /\ Closed(s).active = {}
  BY <1>1 DEF GoodCal, CalStates, ResetDateSelector, Closed, AtMostOne
<1>3. ASSUME NEW c \in Pickers
      PROVE  GoodCal(OpenDatePicker(s, c)) /\ OpenDatePicker(s, c).active = {c}
  BY <1>1 DEF GoodCal, CalStates, ResetDateSelector, Closed, OpenDatePicker, AtMostOne
<1>4. ASSUME NEW l \in Layers, l[1] \in s.active
      PROVE  GoodCal(HandleBtnClick(s, l)) /\ HandleBtnClick(s, l).active = s.active
  <2>1. CASE l \in s.current
    <3>1. s.current \ {l} = {}
      BY <1>1, <2>1 DEF AtMostOne
    <3> DEFINE n == [s EXCEPT !.layers = {}, !.combo = {}, !.current = {}]
    <3>2. HandleBtnClick(s, l) = n
      BY <1>1, <2>1, <3>1 DEF HandleBtnClick
    <3>3. n \in CalStates /\ n.active = s.active /\ n.aria = s.aria /\ n.layers = {} /\ n.combo = {}
          /\ n.current = {}
      BY <1>1 DEF CalStates
    <3> HIDE DEF n
    <3> QED BY <1>1, <3>2, <3>3 DEF GoodCal, AtMostOne
  <2>2. CASE l \notin s.current
    <3>1. (s.layers \ s.current) \cup {l} = {l}
      BY <1>1
    <3> DEFINE n == [s EXCEPT !.layers = {l}, !.combo = {l}, !.current = {l}]
    <3>2. HandleBtnClick(s, l) = n
      BY <1>1, <2>2, <3>1 DEF HandleBtnClick
    <3>3. n \in CalStates /\ n.active = s.active /\ n.aria = s.aria /\ n.layers = {l} /\ n.combo = {l}
          /\ n.current = {l}
      BY <1>1 DEF CalStates
    <3> HIDE DEF n
    <3> QED BY <1>1, <1>4, <3>2, <3>3 DEF GoodCal, AtMostOne
  <2> QED BY <2>1, <2>2
<1> QED BY <1>2, <1>3, <1>4

-----------------------------------------------------------------------------
(* The page *)

\* A handler of one widget leaves the others alone.
LEMMA OneWidget ==
  ASSUME NEW p, GoodPage(p), NEW q
  PROVE  /\ \A m : GoodMenu(m) /\ q = [p EXCEPT !.menu = m] =>
              /\ GoodPage(q) /\ q.menu = m /\ q.help = p.help /\ q.drop = p.drop /\ q.cal = p.cal
              /\ q.tips = p.tips /\ q.pointed = p.pointed /\ q.focus = p.focus
         /\ \A m : GoodHelp(m) /\ q = [p EXCEPT !.help = m] =>
              /\ GoodPage(q) /\ q.help = m /\ q.menu = p.menu /\ q.drop = p.drop /\ q.cal = p.cal
              /\ q.tips = p.tips /\ q.pointed = p.pointed /\ q.focus = p.focus
         /\ \A m : GoodDrop(m) /\ q = [p EXCEPT !.drop = m] =>
              /\ GoodPage(q) /\ q.drop = m /\ q.help = p.help /\ q.menu = p.menu /\ q.cal = p.cal
              /\ q.tips = p.tips /\ q.pointed = p.pointed /\ q.focus = p.focus
         /\ \A m : GoodCal(m) /\ q = [p EXCEPT !.cal = m] =>
              /\ GoodPage(q) /\ q.cal = m /\ q.help = p.help /\ q.drop = p.drop /\ q.menu = p.menu
              /\ q.tips = p.tips /\ q.pointed = p.pointed /\ q.focus = p.focus
         /\ q = [p EXCEPT !.tips = {}] =>
              /\ GoodPage(q) /\ q.cal = p.cal /\ q.help = p.help /\ q.drop = p.drop
              /\ q.menu = p.menu /\ q.tips = {} /\ q.pointed = p.pointed /\ q.focus = p.focus
<1>1. p \in Pages /\ GoodMenu(p.menu) /\ GoodDrop(p.drop) /\ GoodHelp(p.help) /\ GoodCal(p.cal)
      /\ \A i \in p.tips : <<"tip", i, 0>> \in p.pointed \cup {p.focus}
  BY DEF GoodPage
<1>2. ASSUME NEW m, GoodMenu(m), q = [p EXCEPT !.menu = m]
      PROVE  /\ GoodPage(q) /\ q.menu = m /\ q.help = p.help /\ q.drop = p.drop /\ q.cal = p.cal
             /\ q.tips = p.tips /\ q.pointed = p.pointed /\ q.focus = p.focus
  <2>1. m \in MenuStates BY <1>2 DEF GoodMenu
  <2>2. /\ q \in Pages /\ q.menu = m /\ q.help = p.help /\ q.drop = p.drop /\ q.cal = p.cal
        /\ q.tips = p.tips /\ q.pointed = p.pointed /\ q.focus = p.focus
    BY <1>1, <1>2, <2>1 DEF Pages
  <2> QED BY <1>1, <1>2, <2>2 DEF GoodPage
<1>3. ASSUME NEW m, GoodHelp(m), q = [p EXCEPT !.help = m]
      PROVE  /\ GoodPage(q) /\ q.help = m /\ q.menu = p.menu /\ q.drop = p.drop /\ q.cal = p.cal
             /\ q.tips = p.tips /\ q.pointed = p.pointed /\ q.focus = p.focus
  <2>1. m \in HelpStates BY <1>3 DEF GoodHelp
  <2>2. /\ q \in Pages /\ q.help = m /\ q.menu = p.menu /\ q.drop = p.drop /\ q.cal = p.cal
        /\ q.tips = p.tips /\ q.pointed = p.pointed /\ q.focus = p.focus
    BY <1>1, <1>3, <2>1 DEF Pages
  <2> QED BY <1>1, <1>3, <2>2 DEF GoodPage
<1>4. ASSUME NEW m, GoodDrop(m), q = [p EXCEPT !.drop = m]
      PROVE  /\ GoodPage(q) /\ q.drop = m /\ q.help = p.help /\ q.menu = p.menu /\ q.cal = p.cal
             /\ q.tips = p.tips /\ q.pointed = p.pointed /\ q.focus = p.focus
  <2>1. m \in DropStates BY <1>4 DEF GoodDrop
  <2>2. /\ q \in Pages /\ q.drop = m /\ q.help = p.help /\ q.menu = p.menu /\ q.cal = p.cal
        /\ q.tips = p.tips /\ q.pointed = p.pointed /\ q.focus = p.focus
    BY <1>1, <1>4, <2>1 DEF Pages
  <2> QED BY <1>1, <1>4, <2>2 DEF GoodPage
<1>5. ASSUME NEW m, GoodCal(m), q = [p EXCEPT !.cal = m]
      PROVE  /\ GoodPage(q) /\ q.cal = m /\ q.help = p.help /\ q.drop = p.drop /\ q.menu = p.menu
             /\ q.tips = p.tips /\ q.pointed = p.pointed /\ q.focus = p.focus
  <2>1. m \in CalStates BY <1>5 DEF GoodCal
  <2>2. /\ q \in Pages /\ q.cal = m /\ q.help = p.help /\ q.drop = p.drop /\ q.menu = p.menu
        /\ q.tips = p.tips /\ q.pointed = p.pointed /\ q.focus = p.focus
    BY <1>1, <1>5, <2>1 DEF Pages
  <2> QED BY <1>1, <1>5, <2>2 DEF GoodPage
<1>6. ASSUME q = [p EXCEPT !.tips = {}]
      PROVE  /\ GoodPage(q) /\ q.cal = p.cal /\ q.help = p.help /\ q.drop = p.drop
             /\ q.menu = p.menu /\ q.tips = {} /\ q.pointed = p.pointed /\ q.focus = p.focus
  BY <1>1, <1>6 DEF GoodPage, Pages
<1> QED BY <1>2, <1>3, <1>4, <1>5, <1>6

\* The listeners that run when the focus moves from p.focus to "to".  They only
\* close what has lost the focus, and that of a help may keep the focus from
\* getting there.
FocusMoved(p, to, q) ==
  /\ q.menu = p.menu /\ q.pointed = p.pointed /\ q.cal.active = p.cal.active
  /\ q.help.armed = p.help.armed
  /\ q.drop.shown \in {p.drop.shown, {}} /\ q.help.shown \in {p.help.shown, {}}
  /\ p.focus # to /\ p.focus \in DropElements /\ ~SameDrop(p.focus, to) => q.drop.shown = {}
  /\ p.focus # to /\ Kind(p.focus) = "close" /\ Widget(p.focus) \in p.help.armed => q.help.shown = {}
  /\ Kind(p.focus) # "close" => q.help = p.help
  /\ \/ q.focus = to
     \/ /\ q.focus = <<"help", Widget(p.focus), 0>> /\ Kind(p.focus) = "close"
        /\ p.help.shown # {} /\ q.help.shown = {}

\* What the focus leaves, before it arrives.
Left(p, to) ==
  LET from == p.focus
  IN  CASE from = to -> p
        [] from # to /\ from \in DropElements /\ ~SameDrop(from, to)
             -> [p EXCEPT !.drop = CloseAllDropdowns(@)]
        [] from # to /\ from \in TipElements -> [p EXCEPT !.tips = {}]
        [] from # to /\ Kind(from) = "option" -> [p EXCEPT !.cal = ResetDateSelector(@)]
        [] from # to /\ Kind(from) = "close" /\ Widget(from) \in p.help.armed
             -> [p EXCEPT !.help = CloseAllTooltips(@)]
        [] OTHER -> p

LEMMA LeftFacts ==
  ASSUME NEW p, GoodPage(p), NEW to \in Elements, NEW q, q = Left(p, to)
  PROVE  /\ GoodPage(q) /\ q.focus = p.focus /\ q.menu = p.menu /\ q.pointed = p.pointed
         /\ q.cal.active = p.cal.active
         /\ q.drop.shown \in {p.drop.shown, {}}
         /\ q.help \in {p.help, CloseAllTooltips(p.help)}
         /\ p.focus # to /\ p.focus \in DropElements /\ ~SameDrop(p.focus, to) => q.drop.shown = {}
         /\ p.focus # to /\ Kind(p.focus) = "close" /\ Widget(p.focus) \in p.help.armed
              => q.help = CloseAllTooltips(p.help)
         /\ q.help # p.help => Kind(p.focus) = "close"
         /\ p.focus # to /\ p.focus \in TipElements => q.tips = {}
<1>1. /\ p.focus \in Elements /\ GoodMenu(p.menu) /\ GoodDrop(p.drop) /\ GoodHelp(p.help)
      /\ GoodCal(p.cal)
  BY DEF GoodPage, Pages
<1>2. /\ p.focus \in DropElements <=> Kind(p.focus) \in {"drop", "reset", "item"}
      /\ p.focus \in TipElements <=> Kind(p.focus) = "tip"
  BY <1>1, Kinds
<1>3. CASE p.focus = to
  BY <1>1, <1>3 DEF Left
<1>4. CASE p.focus # to /\ p.focus \in DropElements /\ ~SameDrop(p.focus, to)
  <2>1. q = [p EXCEPT !.drop = CloseAllDropdowns(p.drop)]
    BY <1>2, <1>4 DEF Left
  <2>2. GoodDrop(CloseAllDropdowns(p.drop)) /\ CloseAllDropdowns(p.drop).shown = {}
    BY <1>1, DropHandlers
  <2> QED BY <1>2, <1>4, <2>1, <2>2, OneWidget
<1>5. CASE p.focus # to /\ p.focus \in TipElements
  <2>1. q = [p EXCEPT !.tips = {}]
    BY <1>2, <1>5 DEF Left
  <2> QED BY <1>2, <1>5, <2>1, OneWidget
<1>6. CASE p.focus # to /\ Kind(p.focus) = "option"
  <2>1. q = [p EXCEPT !.cal = ResetDateSelector(p.cal)]
    BY <1>2, <1>6 DEF Left
  <2>2. /\ GoodCal(ResetDateSelector(p.cal)) /\ ResetDateSelector(p.cal).active = p.cal.active
    BY <1>1, CalHandlers
  <2> QED BY <1>2, <1>6, <2>1, <2>2, OneWidget
<1>7. CASE p.focus # to /\ Kind(p.focus) = "close" /\ Widget(p.focus) \in p.help.armed
  <2>1. q = [p EXCEPT !.help = CloseAllTooltips(p.help)]
    BY <1>2, <1>7 DEF Left
  <2>2. GoodHelp(CloseAllTooltips(p.help))
    BY <1>1, HelpsClosed
  <2> QED BY <1>2, <1>7, <2>1, <2>2, OneWidget
<1>8. CASE /\ p.focus # to /\ ~(p.focus \in DropElements /\ ~SameDrop(p.focus, to))
           /\ p.focus \notin TipElements /\ Kind(p.focus) # "option"
           /\ ~(Kind(p.focus) = "close" /\ Widget(p.focus) \in p.help.armed)
  <2>1. q = p
    BY <1>8 DEF Left
  <2> QED BY <1>8, <2>1
<1> QED BY <1>3, <1>4, <1>5, <1>6, <1>7, <1>8

LEMMA MovedFacts ==
  ASSUME NEW p, GoodPage(p), NEW to \in Elements, NEW q, q = MoveFocus(p, to)
  PROVE  GoodPage(q) /\ FocusMoved(p, to, q)
<1> DEFINE l == Left(p, to)
           there == IF l.help # p.help THEN <<"help", Widget(p.focus), 0>> ELSE to
<1>1. q = [l EXCEPT !.focus = there, !.tips = IF there \in TipElements THEN @ \cup {Widget(there)} ELSE @]
  BY DEF MoveFocus, Left
<1>2. /\ GoodPage(l) /\ l.focus = p.focus /\ l.menu = p.menu /\ l.pointed = p.pointed
      /\ l.cal.active = p.cal.active
      /\ l.drop.shown \in {p.drop.shown, {}}
      /\ l.help \in {p.help, CloseAllTooltips(p.help)}
      /\ p.focus # to /\ p.focus \in DropElements /\ ~SameDrop(p.focus, to) => l.drop.shown = {}
      /\ p.focus # to /\ Kind(p.focus) = "close" /\ Widget(p.focus) \in p.help.armed
           => l.help = CloseAllTooltips(p.help)
      /\ l.help # p.help => Kind(p.focus) = "close"
      /\ p.focus # to /\ p.focus \in TipElements => l.tips = {}
  BY LeftFacts
<1>3. /\ p.focus \in Elements /\ GoodHelp(p.help)
  BY DEF GoodPage, Pages
<1>4. /\ CloseAllTooltips(p.help).shown = {} /\ CloseAllTooltips(p.help).armed = p.help.armed
      /\ p.help.shown = {} => CloseAllTooltips(p.help) = p.help
  BY <1>3, HelpsClosed
<1>5. there \in Elements /\ (there = to \/ (there = <<"help", Widget(p.focus), 0>> /\ l.help # p.help))
      /\ (l.help # p.help \/ there = to)
  <2>1. l.help # p.help => Widget(p.focus) \in Helps
    BY <1>2, <1>3, Widgets
  <2>2. l.help # p.help => <<"help", Widget(p.focus), 0>> \in Elements
    BY <2>1, NamedElements
  <2> HIDE DEF l
  <2> QED BY <2>2
<1>6. there \in TipElements => there = <<"tip", Widget(there), 0>> /\ Widget(there) \in Tips
  BY <1>5, Kinds, Widgets
<1> HIDE DEF l, there
<1>7. /\ l \in Pages
      /\ GoodMenu(l.menu) /\ GoodDrop(l.drop) /\ GoodHelp(l.help) /\ GoodCal(l.cal)
      /\ \A i \in l.tips : <<"tip", i, 0>> \in l.pointed \cup {l.focus}
  BY <1>2 DEF GoodPage
<1>8. /\ q \in Pages /\ q.menu = l.menu /\ q.drop = l.drop /\ q.help = l.help /\ q.cal = l.cal
      /\ q.pointed = l.pointed /\ q.focus = there
      /\ q.tips = IF there \in TipElements THEN l.tips \cup {Widget(there)} ELSE l.tips
  BY <1>1, <1>5, <1>6, <1>7 DEF Pages
<1>9. ASSUME NEW i \in q.tips PROVE <<"tip", i, 0>> \in q.pointed \cup {q.focus}
  <2>1. CASE i \in l.tips
    <3>1. <<"tip", i, 0>> \in l.pointed \cup {p.focus}
      BY <1>2, <1>7, <2>1
    <3>2. CASE <<"tip", i, 0>> \in l.pointed
      BY <1>8, <3>2
    <3>3. CASE <<"tip", i, 0>> = p.focus
      <4>1. i \in Tips
        BY <1>7, <2>1 DEF Pages
      <4>2. p.focus \in TipElements
        BY <3>3, <4>1 DEF TipElements
      <4>3. p.focus = to
        BY <1>2, <2>1, <4>2
      <4>4. there = to
        BY <1>2, <1>3, <1>5, <4>2, Kinds
      <4> QED BY <1>8, <3>3, <4>3, <4>4
    <3> QED BY <3>1, <3>2, <3>3
  <2>2. CASE i \notin l.tips
    BY <1>6, <1>8, <2>2
  <2> QED BY <2>1, <2>2
<1>10. GoodPage(q)
  BY <1>7, <1>8, <1>9 DEF GoodPage
<1>11. FocusMoved(p, to, q)
  BY <1>2, <1>4, <1>5, <1>8 DEF FocusMoved
<1> QED BY <1>10, <1>11

\* What is open keeps the focus, or closes.
LEMMA MovedHolds ==
  ASSUME NEW p, GoodPage(p), NEW to \in Elements, NEW q, q = MoveFocus(p, to)
  PROVE  /\ HelpHolds(p) => HelpHolds(q)
         /\ \A S : DropHolds(p, S) => DropHolds(q, S)
<1>1. GoodPage(q) /\ FocusMoved(p, to, q)
  BY MovedFacts
<1>2. p.focus \in Elements
  BY DEF GoodPage, Pages
<1>3. ASSUME HelpHolds(p), NEW h \in q.help.shown
      PROVE  h \in q.help.armed /\ q.focus = <<"close", h, 0>>
  <2>1. h \in p.help.shown /\ q.help.shown # {} /\ q.help.armed = p.help.armed
    BY <1>1, <1>3 DEF FocusMoved
  <2>2. h \in p.help.armed /\ p.focus = <<"close", h, 0>>
    BY <1>3, <2>1 DEF HelpHolds
  <2>3. Kind(p.focus) = "close" /\ Widget(p.focus) = h
    BY <2>2 DEF Kind, Widget
  <2> QED BY <1>1, <2>1, <2>2, <2>3 DEF FocusMoved
<1>4. ASSUME NEW S, DropHolds(p, S), NEW d \in q.drop.shown \ S
      PROVE  q.focus \in DropElements /\ Widget(q.focus) = d
  <2>1. d \in p.drop.shown /\ q.drop.shown # {}
    BY <1>1, <1>4 DEF FocusMoved
  <2>2. p.focus \in DropElements /\ Widget(p.focus) = d
    BY <1>4, <2>1 DEF DropHolds
  <2>3. Kind(p.focus) # "close"
    BY <1>2, <2>2, Kinds
  <2> QED BY <1>1, <2>1, <2>2, <2>3 DEF FocusMoved, SameDrop
<1> QED BY <1>3, <1>4 DEF HelpHolds, DropHolds

LEMMA FocusFixedFacts ==
  ASSUME NEW p, GoodPage(p), NEW q, q = FocusFixed(p)
  PROVE  /\ GoodPage(q) /\ Displayed(q, q.focus)
         /\ q.menu = p.menu /\ q.help = p.help /\ q.drop = p.drop /\ q.cal = p.cal
         /\ q.pointed = p.pointed /\ q.tips = p.tips
         /\ q.focus = p.focus \/ (q.focus = Page /\ ~Displayed(p, p.focus))
         /\ HelpHolds(p) => HelpHolds(q)
         /\ \A S : DropHolds(p, S) => DropHolds(q, S)
<1>1. /\ p \in Pages /\ GoodMenu(p.menu) /\ GoodDrop(p.drop) /\ GoodHelp(p.help) /\ GoodCal(p.cal)
      /\ \A i \in p.tips : <<"tip", i, 0>> \in p.pointed \cup {p.focus}
      /\ p.focus \in Elements
  BY DEF GoodPage, Pages
<1>2. CASE Displayed(p, p.focus)
  <2>1. q = p
    BY <1>2 DEF FocusFixed
  <2> QED BY <1>2, <2>1
<1>3. CASE ~Displayed(p, p.focus)
  <2>1. q = [p EXCEPT !.focus = Page]
    BY <1>3 DEF FocusFixed
  <2>2. /\ q \in Pages /\ q.menu = p.menu /\ q.help = p.help /\ q.drop = p.drop /\ q.cal = p.cal
        /\ q.pointed = p.pointed /\ q.tips = p.tips /\ q.focus = Page
    BY <1>1, <2>1, NamedElements DEF Pages
  <2>3. Kind(p.focus) \in {"sub", "item", "reset", "close", "frame", "confirm", "switch", "option"}
    BY <1>3 DEF Displayed
  <2>4. \A i \in q.tips : <<"tip", i, 0>> \in q.pointed
    <3>1. \A i : Kind(<<"tip", i, 0>>) = "tip"
      BY DEF Kind
    <3> QED BY <1>1, <2>2, <2>3, <3>1
  <2>5. GoodPage(q)
    BY <1>1, <2>2, <2>4 DEF GoodPage
  <2>6. Displayed(q, q.focus)
    BY <2>2, NamedElements DEF Displayed
  <2>7. ASSUME HelpHolds(p) PROVE HelpHolds(q)
    <3>1. ASSUME NEW h \in p.help.shown PROVE FALSE
      <4>1. Kind(p.focus) = "close" /\ Widget(p.focus) = h
        BY <2>7, <3>1 DEF HelpHolds, Kind, Widget
      <4> QED BY <1>3, <3>1, <4>1 DEF Displayed
    <3> QED BY <2>2, <3>1 DEF HelpHolds
  <2>8. ASSUME NEW S, DropHolds(p, S) PROVE DropHolds(q, S)
    <3>1. ASSUME NEW d \in p.drop.shown \ S PROVE FALSE
      <4>1. p.focus \in DropElements /\ Widget(p.focus) = d
        BY <2>8, <3>1 DEF DropHolds
      <4>2. Kind(p.focus) \in {"item", "reset"}
        BY <1>1, <2>3, <4>1, Kinds
      <4> QED BY <1>3, <3>1, <4>1, <4>2 DEF Displayed
    <3> QED BY <2>2, <3>1 DEF DropHolds
  <2> QED BY <1>3, <2>2, <2>5, <2>6, <2>7, <2>8
<1> QED BY <1>2, <1>3

\* closeAllDatePickers: no picker is open any more, and the focus is on the
\* button of the one that was.
LEMMA PickersClosed ==
  ASSUME NEW p, GoodPage(p), NEW q, q = CloseAllDatePickers(p)
  PROVE  /\ GoodPage(q) /\ q.cal.active = {} /\ q.menu = p.menu /\ q.pointed = p.pointed
         /\ q.drop.shown \in {p.drop.shown, {}} /\ q.help.shown \in {p.help.shown, {}}
         /\ HelpHolds(p) => HelpHolds(q)
         /\ \A S : DropHolds(p, S) => DropHolds(q, S)
         /\ p.cal.active = {} => q.focus = p.focus /\ q.drop = p.drop /\ q.help = p.help
         /\ p.cal.active # {} /\ p.focus \in DropElements => q.drop.shown = {}
         /\ p.cal.active # {} /\ Kind(p.focus) = "close" /\ Widget(p.focus) \in p.help.armed
              => q.help.shown = {}
<1> DEFINE c == CHOOSE x \in p.cal.active : TRUE
           b == <<"cal", c, 0>>
           f == IF p.cal.active = {} THEN p ELSE MoveFocus(p, b)
<1>1. q = [f EXCEPT !.cal = Closed(f.cal)]
  BY DEF CloseAllDatePickers
<1>2. p.focus \in Elements /\ GoodCal(p.cal) /\ p.cal.active \subseteq Pickers
  BY DEF GoodPage, Pages, CalStates
<1>3. p.cal.active # {} => b \in Elements /\ Kind(b) = "cal"
  BY <1>2, NamedElements
<1>4. p.cal.active = {} => f = p
  OBVIOUS
<1>5. p.cal.active # {} => f = MoveFocus(p, b)
  OBVIOUS
<1> HIDE DEF c, b, f
<1>6. /\ GoodPage(f) /\ f.menu = p.menu /\ f.pointed = p.pointed
      /\ f.drop.shown \in {p.drop.shown, {}} /\ f.help.shown \in {p.help.shown, {}}
      /\ HelpHolds(p) => HelpHolds(f)
      /\ \A S : DropHolds(p, S) => DropHolds(f, S)
      /\ p.cal.active # {} => FocusMoved(p, b, f)
  <2>1. CASE p.cal.active = {}
    BY <1>4, <2>1
  <2>2. CASE p.cal.active # {}
    <3>1. GoodPage(f) /\ FocusMoved(p, b, f)
      BY <1>3, <1>5, <2>2, MovedFacts
    <3>2. (HelpHolds(p) => HelpHolds(f)) /\ \A S : DropHolds(p, S) => DropHolds(f, S)
      BY <1>3, <1>5, <2>2, MovedHolds
    <3> QED BY <3>1, <3>2 DEF FocusMoved
  <2> QED BY <2>1, <2>2
<1>7. GoodCal(Closed(f.cal)) /\ Closed(f.cal).active = {}
  <2>1. GoodCal(f.cal)
    BY <1>6 DEF GoodPage
  <2> QED BY <2>1, CalHandlers
<1>8. /\ GoodPage(q) /\ q.cal = Closed(f.cal) /\ q.help = f.help /\ q.drop = f.drop
      /\ q.menu = f.menu /\ q.pointed = f.pointed /\ q.focus = f.focus
  BY <1>1, <1>6, <1>7, OneWidget
<1>9. p.cal.active # {} /\ p.focus \in DropElements => f.drop.shown = {}
  <2> SUFFICES ASSUME p.cal.active # {}, p.focus \in DropElements PROVE f.drop.shown = {}
    OBVIOUS
  <2>1. p.focus # b /\ b \notin DropElements
    BY <1>2, <1>3, Kinds
  <2> QED BY <1>6, <2>1 DEF FocusMoved, SameDrop
<1>10. p.cal.active # {} /\ Kind(p.focus) = "close" /\ Widget(p.focus) \in p.help.armed
         => f.help.shown = {}
  BY <1>3, <1>6 DEF FocusMoved
<1>11. (HelpHolds(p) => HelpHolds(q)) /\ \A S : DropHolds(p, S) => DropHolds(q, S)
  BY <1>6, <1>8 DEF HelpHolds, DropHolds
<1> QED BY <1>4, <1>6, <1>7, <1>8, <1>9, <1>10, <1>11

\* What is known of the page when a click reaches element el: pressing the mouse
\* button or the Tab key has moved the focus there, if nothing prevented it.
Ready(p, el) == /\ p.focus = el \/ Kind(p.focus) \in {"page", "help"}
                /\ Kind(el) = "switch" => Widget(el) \in p.cal.active

\* A drop-down may be opened without having the focus only by a click on its
\* button that does not have it.
Exempt(p, el, S) == S \cup {d \in Drops : Kind(el) = "drop" /\ p.focus # el}

\* The listeners of the element.
LEMMA ElementClicked ==
  ASSUME NEW p, GoodPage(p), NEW el \in Elements, Ready(p, el), NEW S, DropHolds(p, S),
         NEW q, q = ClickElement(p, el)
  PROVE  /\ GoodPage(q) /\ DropHolds(q, Exempt(p, el, S))
         /\ Kind(el) = "close" => q.help.shown = {}
         /\ Kind(el) = "help" =>
              /\ q.help.shown = IF Widget(el) \in p.help.shown THEN {} ELSE {Widget(el)}
              /\ q.help.shown # {} => q.focus = <<"close", Widget(el), 0>>
              /\ q.cal.active = p.cal.active
         /\ Kind(el) = "drop" =>
              /\ q.drop.shown = IF Widget(el) \in p.drop.shown THEN {} ELSE {Widget(el)}
              /\ q.focus = p.focus /\ q.cal.active = p.cal.active
<1> DEFINE w == Widget(el)
<1>1. /\ GoodMenu(p.menu) /\ GoodDrop(p.drop) /\ GoodHelp(p.help) /\ GoodCal(p.cal)
      /\ p.focus \in Elements
  BY DEF GoodPage, Pages
<1>2. ASSUME NEW r, r.drop = p.drop, r.focus = p.focus PROVE DropHolds(r, Exempt(p, el, S))
  BY <1>2 DEF DropHolds, Exempt
<1>3. ASSUME NEW r, r.drop.shown = {} PROVE DropHolds(r, Exempt(p, el, S))
  BY <1>3 DEF DropHolds
<1>4. ASSUME NEW r, DropHolds(r, S) PROVE DropHolds(r, Exempt(p, el, S))
  BY <1>4 DEF DropHolds, Exempt
<1>5. CASE Kind(el) = "trigger"
  <2>1. q = [p EXCEPT !.menu = ToggleMainMenu(p.menu, w)]
    BY <1>5 DEF ClickElement
  <2>2. GoodMenu(ToggleMainMenu(p.menu, w))
    BY <1>1, <1>5, MenuHandlers, Widgets
  <2> QED BY <1>2, <1>5, <2>1, <2>2, OneWidget
<1>6. CASE Kind(el) = "sub"
  <2>1. q = [p EXCEPT !.menu = ToggleSubMenu(p.menu, w, Part(el))]
    BY <1>6 DEF ClickElement
  <2>2. GoodMenu(ToggleSubMenu(p.menu, w, Part(el)))
    BY <1>1, <1>6, MenuHandlers, Widgets
  <2> QED BY <1>2, <1>6, <2>1, <2>2, OneWidget
<1>7. CASE Kind(el) = "drop"
  <2>1. q = [p EXCEPT !.drop = ClickDrop(p.drop, w)]
    BY <1>7 DEF ClickElement
  <2>2. w \in Drops
    BY <1>7, Widgets
  <2>3. /\ GoodDrop(ClickDrop(p.drop, w))
        /\ ClickDrop(p.drop, w).shown = IF w \in p.drop.shown THEN {} ELSE {w}
    BY <1>1, <2>2, DropHandlers
  <2>4. /\ GoodPage(q) /\ q.drop = ClickDrop(p.drop, w) /\ q.focus = p.focus /\ q.cal = p.cal
    BY <2>1, <2>3, OneWidget
  <2>5. DropHolds(q, Exempt(p, el, S))
    <3> SUFFICES ASSUME NEW d \in q.drop.shown \ Exempt(p, el, S)
                 PROVE  q.focus \in DropElements /\ Widget(q.focus) = d
      BY DEF DropHolds
    <3>1. d = w
      BY <2>3, <2>4
    <3>2. p.focus = el
      BY <1>7, <2>2, <3>1 DEF Exempt
    <3> QED BY <1>1, <1>7, <2>4, <3>1, <3>2, Kinds
  <2> QED BY <1>7, <2>3, <2>4, <2>5
<1>8. CASE Kind(el) = "item"
  <2> DEFINE r == [p EXCEPT !.drop = ClickItem(p.drop, w, Part(el))]
             b == <<"drop", w, 0>>
  <2>1. q = MoveFocus(r, b)
    BY <1>8 DEF ClickElement
  <2>2. w \in Drops /\ Part(el) \in Items[w]
    BY <1>8, Widgets
  <2>3. /\ GoodDrop(ClickItem(p.drop, w, Part(el))) /\ ClickItem(p.drop, w, Part(el)).shown = {}
    BY <1>1, <2>2, DropHandlers
  <2>4. GoodPage(r) /\ r.drop.shown = {}
    BY <2>3, OneWidget
  <2>5. b \in Elements
    BY <2>2, NamedElements
  <2> HIDE DEF r, b
  <2>6. GoodPage(q) /\ FocusMoved(r, b, q)
    BY <2>1, <2>4, <2>5, MovedFacts
  <2>7. q.drop.shown = {}
    BY <2>4, <2>6 DEF FocusMoved
  <2> QED BY <1>3, <1>8, <2>6, <2>7
<1>9. CASE Kind(el) = "reset"
  <2>1. q = [p EXCEPT !.drop = ScaleContent(p.drop, w, Default)]
    BY <1>9 DEF ClickElement
  <2>2. w \in Scaling
    BY <1>9, Widgets
  <2>3. /\ GoodDrop(ScaleContent(p.drop, w, Default))
        /\ ScaleContent(p.drop, w, Default).shown = p.drop.shown
    BY <1>1, <2>2, DropHandlers
  <2>4. GoodPage(q) /\ q.drop.shown = p.drop.shown /\ q.focus = p.focus
    BY <2>1, <2>3, OneWidget
  <2>5. DropHolds(q, S)
    BY <2>4 DEF DropHolds
  <2> QED BY <1>4, <1>9, <2>4, <2>5
<1>10. CASE Kind(el) = "help"
  <2> DEFINE r == [p EXCEPT !.help = ToggleTooltip(p.help, w)]
             b == <<"close", w, 0>>
  <2>1. q = IF w \in r.help.shown THEN MoveFocus(r, b) ELSE r
    BY <1>10 DEF ClickElement
  <2>2. w \in Helps
    BY <1>10, Widgets
  <2>3. /\ GoodHelp(ToggleTooltip(p.help, w))
        /\ ToggleTooltip(p.help, w).shown = IF w \in p.help.shown THEN {} ELSE {w}
    BY <1>1, <2>2, HelpToggled
  <2>4. /\ GoodPage(r) /\ r.help.shown = IF w \in p.help.shown THEN {} ELSE {w}
        /\ r.drop = p.drop /\ r.focus = p.focus /\ r.cal = p.cal
    BY <2>3, OneWidget
  <2>5. b \in Elements
    BY <2>2, NamedElements
  <2>6. Kind(p.focus) # "close"
    BY <1>10 DEF Ready
  <2> HIDE DEF r
  <2>7. CASE w \in p.help.shown
    BY <1>2, <1>10, <2>1, <2>4, <2>7
  <2>8. CASE w \notin p.help.shown
    <3>1. q = MoveFocus(r, b)
      BY <2>1, <2>4, <2>8
    <3>2. GoodPage(q) /\ FocusMoved(r, b, q)
      BY <2>4, <2>5, <3>1, MovedFacts
    <3>3. DropHolds(r, S)
      BY <2>4 DEF DropHolds
    <3>4. DropHolds(q, S)
      BY <2>4, <2>5, <3>1, <3>3, MovedHolds
    <3>5. q.help = r.help /\ q.focus = b /\ q.cal.active = r.cal.active
      BY <2>4, <2>6, <3>2 DEF FocusMoved
    <3> QED BY <1>4, <1>10, <2>4, <2>8, <3>2, <3>4, <3>5
  <2> QED BY <2>7, <2>8
<1>11. CASE Kind(el) = "close"
  <2>1. q = [p EXCEPT !.help = CloseAllTooltips(p.help)]
    BY <1>11 DEF ClickElement
  <2>2. GoodHelp(CloseAllTooltips(p.help)) /\ CloseAllTooltips(p.help).shown = {}
    BY <1>1, HelpsClosed
  <2> QED BY <1>2, <1>11, <2>1, <2>2, OneWidget
<1>12. CASE Kind(el) = "cal"
  <2> DEFINE r == CloseAllDatePickers(p)
  <2>1. q = [r EXCEPT !.cal = OpenDatePicker(r.cal, w)]
    BY <1>12 DEF ClickElement
  <2>2. GoodPage(r) /\ DropHolds(r, S)
    BY PickersClosed
  <2>3. GoodCal(OpenDatePicker(r.cal, w))
    <3>1. GoodCal(r.cal) /\ w \in Pickers
      BY <1>12, <2>2, Widgets DEF GoodPage
    <3> QED BY <3>1, CalHandlers
  <2> HIDE DEF r
  <2>4. GoodPage(q) /\ q.drop = r.drop /\ q.focus = r.focus
    BY <2>1, <2>2, <2>3, OneWidget
  <2>5. DropHolds(q, S)
    BY <2>2, <2>4 DEF DropHolds
  <2> QED BY <1>4, <1>12, <2>4, <2>5
<1>13. CASE Kind(el) = "switch"
  <2> DEFINE l == <<w, Part(el)>>
  <2>1. q = [p EXCEPT !.cal = HandleBtnClick(p.cal, l)]
    BY <1>13 DEF ClickElement
  <2>2. l \in Layers /\ l[1] \in p.cal.active
    BY <1>13, Widgets DEF Ready
  <2> HIDE DEF l
  <2>3. GoodCal(HandleBtnClick(p.cal, l))
    BY <1>1, <2>2, CalHandlers
  <2> QED BY <1>2, <1>13, <2>1, <2>3, OneWidget
<1>14. CASE Kind(el) = "option"
  <2>1. q = [p EXCEPT !.cal = SelectOption(p.cal)]
    BY <1>14 DEF ClickElement
  <2>2. GoodCal(SelectOption(p.cal))
    BY <1>1, CalHandlers DEF SelectOption
  <2> QED BY <1>2, <1>14, <2>1, <2>2, OneWidget
<1>15. CASE Kind(el) = "confirm"
  <2>1. q = CloseAllDatePickers(p)
    BY <1>15 DEF ClickElement
  <2>2. GoodPage(q) /\ DropHolds(q, S)
    BY <2>1, PickersClosed
  <2> QED BY <1>4, <1>15, <2>2
<1>16. CASE Kind(el) \in {"page", "frame", "tip"}
  <2>1. q = p
    BY <1>16 DEF ClickElement
  <2> QED BY <1>2, <1>16, <2>1
<1> QED BY <1>5, <1>6, <1>7, <1>8, <1>9, <1>10, <1>11, <1>12, <1>13, <1>14, <1>15, <1>16, Kinds

\* The listeners of the document close everything that the element clicked is
\* not part of, and register the loss of the focus of an open help.
LEMMA DocumentClicked ==
  ASSUME NEW p, GoodPage(p), NEW el \in Elements, NEW q, q = ClickDocumentAt(p, el)
  PROVE  /\ GoodPage(q)
         /\ el \notin MenuElements => q.menu.active = {} /\ q.menu.backdrop = FALSE
         /\ el \notin HelpElements => q.help.shown = {}
         /\ el \notin DropElements => q.drop.shown = {}
         /\ el \notin CalElements => q.cal.active = {}
         /\ \A S : DropHolds(p, S) => DropHolds(q, S)
         /\ (\A h \in p.help.shown : h = Widget(el) /\ p.focus = <<"close", h, 0>>) => HelpHolds(q)
         /\ el \in DropElements /\ p.cal.active = {} => q.drop.shown = p.drop.shown
         /\ el \in DropElements /\ p.cal.active # {} /\ p.focus \in DropElements
              => q.drop.shown = {}
         /\ el \in HelpElements /\ p.cal.active = {} => q.help.shown = p.help.shown
         /\ /\ el \in HelpElements /\ p.cal.active # {}
            /\ \A h \in p.help.shown : h = Widget(el) /\ p.focus = <<"close", h, 0>>
            => q.help.shown = {}
<1> DEFINE I == IF el \in HelpElements THEN {Widget(el)} ELSE {}
           m == [p EXCEPT !.menu = IF el \in MenuElements THEN @ ELSE CloseMainMenu(@)]
           h == [m EXCEPT !.help = ClickDocument(@, I)]
           d == [h EXCEPT !.drop = IF el \in DropElements THEN @ ELSE CloseAllDropdowns(@)]
<1>1. q = IF el \in CalElements THEN d ELSE CloseAllDatePickers(d)
  BY DEF ClickDocumentAt
<1>2. GoodMenu(p.menu) /\ GoodDrop(p.drop) /\ GoodHelp(p.help) /\ GoodCal(p.cal)
  BY DEF GoodPage
<1>3. I \in SUBSET Helps /\ (I = {} <=> el \notin HelpElements)
      /\ (el \in HelpElements => Widget(el) \in I)
  BY Kinds, Widgets
<1> HIDE DEF I
<1>4. /\ GoodPage(m) /\ m.help = p.help /\ m.drop = p.drop /\ m.cal = p.cal /\ m.focus = p.focus
      /\ el \notin MenuElements => m.menu.active = {} /\ m.menu.backdrop = FALSE
  <2>1. /\ GoodMenu(CloseMainMenu(p.menu))
        /\ CloseMainMenu(p.menu).active = {} /\ CloseMainMenu(p.menu).backdrop = FALSE
    BY <1>2, MenuHandlers
  <2>2. CASE el \in MenuElements
    <3>1. m = [p EXCEPT !.menu = p.menu]
      BY <2>2
    <3> QED BY <1>2, <2>2, <3>1, OneWidget
  <2>3. CASE el \notin MenuElements
    <3>1. m = [p EXCEPT !.menu = CloseMainMenu(p.menu)]
      BY <2>3
    <3> QED BY <2>1, <2>3, <3>1, OneWidget
  <2> QED BY <2>2, <2>3
<1> HIDE DEF m
<1>5. /\ GoodPage(h) /\ h.menu = m.menu /\ h.drop = p.drop /\ h.cal = p.cal /\ h.focus = p.focus
      /\ h.help.shown = IF I = {} THEN {} ELSE p.help.shown
      /\ h.help.armed = p.help.armed \cup I
  <2>1. /\ GoodHelp(ClickDocument(p.help, I))
        /\ ClickDocument(p.help, I).shown = IF I = {} THEN {} ELSE p.help.shown
        /\ ClickDocument(p.help, I).armed = p.help.armed \cup I
    BY <1>2, <1>3, HelpClicked
  <2>2. h = [m EXCEPT !.help = ClickDocument(p.help, I)]
    BY <1>4
  <2> QED BY <1>4, <2>1, <2>2, OneWidget
<1> HIDE DEF h
<1>6. /\ GoodPage(d) /\ d.menu = m.menu /\ d.help = h.help /\ d.cal = p.cal /\ d.focus = p.focus
      /\ d.drop.shown = IF el \in DropElements THEN p.drop.shown ELSE {}
  <2>1. GoodDrop(CloseAllDropdowns(p.drop)) /\ CloseAllDropdowns(p.drop).shown = {}
    BY <1>2, DropHandlers
  <2>2. CASE el \in DropElements
    <3>1. d = [h EXCEPT !.drop = p.drop]
      BY <1>5, <2>2
    <3> QED BY <1>2, <1>5, <2>2, <3>1, OneWidget
  <2>3. CASE el \notin DropElements
    <3>1. d = [h EXCEPT !.drop = CloseAllDropdowns(p.drop)]
      BY <1>5, <2>3
    <3> QED BY <1>5, <2>1, <2>3, <3>1, OneWidget
  <2> QED BY <2>2, <2>3
<1> HIDE DEF d
<1>7. \A S : DropHolds(p, S) => DropHolds(d, S)
  BY <1>6 DEF DropHolds
<1>8. (\A x \in p.help.shown : x = Widget(el) /\ p.focus = <<"close", x, 0>>) => HelpHolds(d)
  BY <1>3, <1>5, <1>6 DEF HelpHolds
<1>9. CASE el \in CalElements
  <2>1. q = d /\ el \notin HelpElements /\ el \notin DropElements /\ el \notin MenuElements
    BY <1>1, <1>9, Kinds
  <2> QED BY <1>3, <1>4, <1>5, <1>6, <1>7, <1>8, <1>9, <2>1
<1>10. CASE el \notin CalElements
  <2>1. q = CloseAllDatePickers(d)
    BY <1>1, <1>10
  <2>2. /\ GoodPage(q) /\ q.cal.active = {} /\ q.menu = d.menu
        /\ q.drop.shown \in {d.drop.shown, {}} /\ q.help.shown \in {d.help.shown, {}}
        /\ HelpHolds(d) => HelpHolds(q)
        /\ \A S : DropHolds(d, S) => DropHolds(q, S)
        /\ d.cal.active = {} => q.focus = d.focus /\ q.drop = d.drop /\ q.help = d.help
        /\ d.cal.active # {} /\ d.focus \in DropElements => q.drop.shown = {}
        /\ d.cal.active # {} /\ Kind(d.focus) = "close" /\ Widget(d.focus) \in d.help.armed
             => q.help.shown = {}
    BY <1>6, <2>1, PickersClosed
  <2>3. /\ \A S : DropHolds(p, S) => DropHolds(q, S)
        /\ (\A x \in p.help.shown : x = Widget(el) /\ p.focus = <<"close", x, 0>>) => HelpHolds(q)
    BY <1>7, <1>8, <2>2
  <2>4. ASSUME el \in HelpElements, p.cal.active # {}, HelpHolds(d) PROVE q.help.shown = {}
    <3> SUFFICES ASSUME NEW x \in d.help.shown PROVE q.help.shown = {}
      BY <2>2
    <3>1. x \in d.help.armed /\ d.focus = <<"close", x, 0>>
      BY <2>4 DEF HelpHolds
    <3>2. Kind(d.focus) = "close" /\ Widget(d.focus) \in d.help.armed
      BY <3>1 DEF Kind, Widget
    <3> QED BY <1>6, <2>2, <2>4, <3>2
  <2>5. /\ GoodPage(q) /\ q.cal.active = {}
        /\ el \notin MenuElements => q.menu.active = {} /\ q.menu.backdrop = FALSE
        /\ el \notin HelpElements => q.help.shown = {}
        /\ el \notin DropElements => q.drop.shown = {}
    BY <1>3, <1>4, <1>5, <1>6, <2>2
  <2>6. /\ el \in DropElements /\ p.cal.active = {} => q.drop.shown = p.drop.shown
        /\ el \in DropElements /\ p.cal.active # {} /\ p.focus \in DropElements
             => q.drop.shown = {}
        /\ el \in HelpElements /\ p.cal.active = {} => q.help.shown = p.help.shown
    BY <1>3, <1>5, <1>6, <2>2
  <2> QED BY <1>8, <2>3, <2>4, <2>5, <2>6
<1> QED BY <1>9, <1>10

\* What a click on a button that opens something, and on the page, comes to.
Obeyed(p, el, q) ==
  /\ Kind(el) = "drop" /\ Widget(el) \notin p.drop.shown =>
       /\ p.cal.active = {} => q.drop.shown = {Widget(el)}
       /\ p.cal.active # {} /\ p.focus = el => q.drop.shown = {}
  /\ Kind(el) = "help" /\ Widget(el) \notin p.help.shown =>
       q.help.shown = IF p.cal.active = {} THEN {Widget(el)} ELSE {}
  /\ el = Page => /\ q.menu.active = {} /\ ~q.menu.backdrop /\ q.drop.shown = {}
                  /\ q.help.shown = {} /\ q.cal.active = {}

\* A click keeps the page in order, whatever it is on.
LEMMA ClickedFacts ==
  ASSUME NEW p, GoodPage(p), NEW el \in Elements, Ready(p, el), NEW S, DropHolds(p, S),
         NEW q, q = Clicked(p, el)
  PROVE  Settled(q, Exempt(p, el, S)) /\ Exclusive(q) /\ Obeyed(p, el, q)
<1> DEFINE w == Widget(el)
           E == Exempt(p, el, S)
           r == ClickElement(p, el)
           d == ClickDocumentAt(r, el)
<1>1. q = FocusFixed(d) /\ r = ClickElement(p, el) /\ d = ClickDocumentAt(r, el)
      /\ E = Exempt(p, el, S)
  BY DEF Clicked
<1> HIDE DEF E, r, d
<1>2. /\ GoodPage(r) /\ DropHolds(r, E)
      /\ Kind(el) = "close" => r.help.shown = {}
      /\ Kind(el) = "help" =>
           /\ r.help.shown = IF w \in p.help.shown THEN {} ELSE {w}
           /\ r.help.shown # {} => r.focus = <<"close", w, 0>>
           /\ r.cal.active = p.cal.active
      /\ Kind(el) = "drop" =>
           /\ r.drop.shown = IF w \in p.drop.shown THEN {} ELSE {w}
           /\ r.focus = p.focus /\ r.cal.active = p.cal.active
  BY <1>1, ElementClicked
<1>3. /\ el \in MenuElements <=> Kind(el) \in {"trigger", "sub"}
      /\ el \in DropElements <=> Kind(el) \in {"drop", "reset", "item"}
      /\ el \in HelpElements <=> Kind(el) \in {"help", "close"}
      /\ el \in CalElements <=> Kind(el) \in {"cal", "frame", "confirm", "switch", "option"}
      /\ el = Page <=> Kind(el) = "page"
  BY Kinds
<1>4. el \in HelpElements => \A h \in r.help.shown : h = w /\ r.focus = <<"close", h, 0>>
  BY <1>2, <1>3
<1>5. /\ GoodPage(d) /\ DropHolds(d, E)
      /\ el \notin MenuElements => d.menu.active = {} /\ d.menu.backdrop = FALSE
      /\ el \notin HelpElements => d.help.shown = {}
      /\ el \notin DropElements => d.drop.shown = {}
      /\ el \notin CalElements => d.cal.active = {}
      /\ el \in HelpElements => HelpHolds(d)
      /\ el \in DropElements /\ r.cal.active = {} => d.drop.shown = r.drop.shown
      /\ el \in DropElements /\ r.cal.active # {} /\ r.focus \in DropElements => d.drop.shown = {}
      /\ el \in HelpElements /\ r.cal.active = {} => d.help.shown = r.help.shown
      /\ el \in HelpElements /\ r.cal.active # {} => d.help.shown = {}
  <2>0. GoodPage(r) /\ d = ClickDocumentAt(r, el)
    BY <1>1, <1>2
  <2>1. /\ GoodPage(d) /\ \A T : DropHolds(r, T) => DropHolds(d, T)
        /\ (\A h \in r.help.shown : h = w /\ r.focus = <<"close", h, 0>>) => HelpHolds(d)
        /\ /\ el \in HelpElements /\ r.cal.active # {}
           /\ \A h \in r.help.shown : h = w /\ r.focus = <<"close", h, 0>>
           => d.help.shown = {}
    BY <2>0, DocumentClicked
  <2>2. /\ el \notin MenuElements => d.menu.active = {} /\ d.menu.backdrop = FALSE
        /\ el \notin HelpElements => d.help.shown = {}
        /\ el \notin DropElements => d.drop.shown = {}
        /\ el \notin CalElements => d.cal.active = {}
        /\ el \in DropElements /\ r.cal.active = {} => d.drop.shown = r.drop.shown
        /\ el \in DropElements /\ r.cal.active # {} /\ r.focus \in DropElements => d.drop.shown = {}
        /\ el \in HelpElements /\ r.cal.active = {} => d.help.shown = r.help.shown
    BY <2>0, DocumentClicked
  <2> QED BY <1>2, <1>4, <2>1, <2>2
<1>6. HelpHolds(d)
  BY <1>5 DEF HelpHolds
<1>7. /\ GoodPage(q) /\ Displayed(q, q.focus)
      /\ q.menu = d.menu /\ q.help = d.help /\ q.drop = d.drop /\ q.cal = d.cal
      /\ HelpHolds(q) /\ DropHolds(q, E)
  BY <1>1, <1>5, <1>6, FocusFixedFacts
<1>8. Settled(q, E)
  BY <1>7 DEF Settled
<1>9. Exclusive(q)
  BY <1>3, <1>5, <1>7 DEF Exclusive
<1>10. ASSUME Kind(el) = "drop", w \notin p.drop.shown
       PROVE  /\ p.cal.active = {} => q.drop.shown = {w}
              /\ p.cal.active # {} /\ p.focus = el => q.drop.shown = {}
  BY <1>2, <1>3, <1>5, <1>7, <1>10
<1>11. ASSUME Kind(el) = "help", w \notin p.help.shown
       PROVE  q.help.shown = IF p.cal.active = {} THEN {w} ELSE {}
  BY <1>2, <1>3, <1>5, <1>7, <1>11
<1>12. ASSUME el = Page
       PROVE  /\ q.menu.active = {} /\ q.menu.backdrop = FALSE /\ q.drop.shown = {}
              /\ q.help.shown = {} /\ q.cal.active = {}
  BY <1>3, <1>5, <1>7, <1>12
<1>13. Obeyed(p, el, q)
  BY <1>10, <1>11, <1>12 DEF Obeyed
<1> QED BY <1>1, <1>8, <1>9, <1>13

LEMMA KeyUpFacts ==
  ASSUME NEW p, NEW S, Settled(p, S), Exclusive(p), NEW q, q = KeyUp(p)
  PROVE  /\ Settled(q, S) /\ Exclusive(q) /\ q.drop = p.drop /\ q.help = p.help
         /\ q.cal = p.cal /\ q.focus = p.focus
<1>1. GoodPage(p) /\ HelpHolds(p) /\ DropHolds(p, S) /\ Displayed(p, p.focus)
  BY DEF Settled
<1>2. GoodMenu(p.menu) /\ p.focus \in Elements
  BY <1>1 DEF GoodPage, Pages
<1>3. CASE p.focus \in MenuElements
  <2>1. q = p
    BY <1>3 DEF KeyUp
  <2> QED BY <2>1
<1>4. CASE p.focus \notin MenuElements
  <2>1. q = [p EXCEPT !.menu = CloseMainMenu(p.menu)]
    BY <1>4 DEF KeyUp
  <2>2. GoodMenu(CloseMainMenu(p.menu)) /\ CloseMainMenu(p.menu).active = {}
    BY <1>2, MenuHandlers
  <2>3. /\ GoodPage(q) /\ q.menu = CloseMainMenu(p.menu) /\ q.help = p.help /\ q.drop = p.drop
        /\ q.cal = p.cal /\ q.focus = p.focus
    BY <1>1, <2>1, <2>2, OneWidget
  <2>4. Displayed(q, q.focus)
    <3>1. Kind(p.focus) # "sub"
      BY <1>2, <1>4, Kinds
    <3> QED BY <1>1, <2>3, <3>1 DEF Displayed
  <2>5. HelpHolds(q) /\ DropHolds(q, S)
    BY <1>1, <2>3 DEF HelpHolds, DropHolds
  <2>6. Exclusive(q)
    BY <2>2, <2>3 DEF Exclusive
  <2> QED BY <2>3, <2>4, <2>5, <2>6 DEF Settled
<1> QED BY <1>3, <1>4

\* The browser moves the focus to an element.
LEMMA FocusSettles ==
  ASSUME NEW p, NEW S, Settled(p, S), Exclusive(p), NEW to \in Elements,
         NEW q, q = FocusFixed(MoveFocus(p, to))
  PROVE  /\ Settled(q, S) /\ Exclusive(q)
         /\ q.drop.shown \subseteq p.drop.shown /\ q.help.shown \subseteq p.help.shown
         /\ q.cal.active = p.cal.active
         /\ q.focus = to \/ Kind(q.focus) \in {"page", "help"}
         /\ Kind(to) = "drop" /\ p.help.shown = {} => q.focus = to
<1> DEFINE r == MoveFocus(p, to)
<1>1. GoodPage(p) /\ HelpHolds(p) /\ DropHolds(p, S) /\ p.focus \in Elements
  BY DEF Settled, GoodPage, Pages
<1>2. GoodPage(r) /\ FocusMoved(p, to, r) /\ HelpHolds(r) /\ DropHolds(r, S)
  BY <1>1, MovedFacts, MovedHolds
<1> HIDE DEF r
<1>3. /\ GoodPage(q) /\ Displayed(q, q.focus)
      /\ q.menu = r.menu /\ q.help = r.help /\ q.drop = r.drop /\ q.cal = r.cal
      /\ q.focus = r.focus \/ (q.focus = Page /\ ~Displayed(r, r.focus))
      /\ HelpHolds(q) /\ DropHolds(q, S)
  BY <1>2, FocusFixedFacts DEF r
<1>4. /\ r.menu = p.menu /\ r.cal.active = p.cal.active
      /\ r.drop.shown \in {p.drop.shown, {}} /\ r.help.shown \in {p.help.shown, {}}
      /\ r.focus = to \/ (r.focus = <<"help", Widget(p.focus), 0>> /\ p.help.shown # {})
  BY <1>2 DEF FocusMoved
<1>5. Settled(q, S)
  BY <1>3 DEF Settled
<1>6. Exclusive(q)
  BY <1>3, <1>4 DEF Exclusive
<1>7. q.focus = to \/ Kind(q.focus) \in {"page", "help"}
  BY <1>3, <1>4 DEF Kind, Page
<1>8. Kind(to) = "drop" /\ p.help.shown = {} => q.focus = to
  BY <1>3, <1>4 DEF Displayed
<1> QED BY <1>3, <1>4, <1>5, <1>6, <1>7, <1>8

\* The keys of the main menu lead to one of its triggers.
LEMMA KeyTargets ==
  ASSUME NEW t \in Triggers, NEW key \in {"Home", "End", "Next", "Prev"}
  PROVE  KeyTarget(t, key) \in Triggers
<1> DEFINE last  == CHOOSE u \in Triggers : \A v \in Triggers : v <= u
           first == CHOOSE u \in Triggers : \A v \in Triggers : u <= v
<1> DEFINE n == Cardinality(Triggers)
<1>1. Triggers = 1 .. n /\ n \in Nat /\ Triggers # {}
  BY TriggersAssumption, FS_CardinalityType
<1> HIDE DEF n
<1>2. \E u \in Triggers : \A v \in Triggers : v <= u
  <2>1. n \in Triggers /\ \A v \in Triggers : v <= n
    BY <1>1
  <2> QED BY <2>1
<1>3. \E u \in Triggers : \A v \in Triggers : u <= v
  <2>1. 1 \in Triggers /\ \A v \in Triggers : 1 <= v
    BY <1>1
  <2> QED BY <2>1
<1>4. last \in Triggers /\ first \in Triggers
  BY <1>2, <1>3
<1>5. /\ key = "Home" => KeyTarget(t, key) = first
      /\ key = "End" => KeyTarget(t, key) = last
      /\ key = "Next" => KeyTarget(t, key) = IF t < last THEN t + 1 ELSE t
      /\ key = "Prev" => KeyTarget(t, key) = IF t > first THEN t - 1 ELSE t
  BY DEF KeyTarget
<1> HIDE DEF last, first
<1> QED BY <1>1, <1>4, <1>5

-----------------------------------------------------------------------------
(* The invariant is inductive *)

LEMMA InitHolds ==
  ASSUME Init PROVE IInv
<1>1. /\ page = [menu |-> MenuInit, help |-> HelpInit, drop |-> DropInit, cal |-> CalInit,
                 tips |-> {}, pointed |-> {}, focus |-> Page] /\ timers = <<>> /\ stolen = {}
      /\ window \in Windows /\ placed = <<>>
  BY DEF Init
<1>2. AtMostOne({})
  BY DEF AtMostOne
<1>3. GoodMenu(MenuInit) /\ MenuInit.active = {}
  <2> DEFINE first == [t \in Wrapped |-> IF 1 \in Subs[t] THEN 1 ELSE 0]
  <2>1. first \in [Wrapped -> (UNION {Subs[t] : t \in Wrapped}) \cup {0}]
    OBVIOUS
  <2>2. MenuInit = [active |-> {}, open |-> {}, backdrop |-> FALSE, scrollY |-> FALSE, sub |-> first]
    BY DEF MenuInit
  <2> HIDE DEF first
  <2> QED BY <1>2, <2>1, <2>2 DEF GoodMenu, MenuStates
<1>4. GoodDrop(DropInit) /\ DropInit.shown = {}
  BY <1>2, ItemsNamed, DropsAssumption DEF GoodDrop, DropInit, DropStates
<1>5. GoodHelp(HelpInit) /\ HelpInit.shown = {}
  BY <1>2 DEF GoodHelp, HelpInit, HelpStates
<1>6. GoodCal(CalInit) /\ CalInit.active = {}
  BY <1>2 DEF GoodCal, CalInit, CalStates
<1>7. /\ page.menu = MenuInit /\ page.help = HelpInit /\ page.drop = DropInit
      /\ page.cal = CalInit /\ page.tips = {} /\ page.focus = Page
  BY <1>1
<1>8. page \in Pages
  <2>1. /\ MenuInit \in MenuStates /\ HelpInit \in HelpStates /\ DropInit \in DropStates
        /\ CalInit \in CalStates
    BY <1>3, <1>4, <1>5, <1>6 DEF GoodMenu, GoodDrop, GoodHelp, GoodCal
  <2> QED BY <1>1, <2>1, NamedElements DEF Pages
<1>9. GoodPage(page)
  BY <1>3, <1>4, <1>5, <1>6, <1>7, <1>8 DEF GoodPage
<1>10. HelpHolds(page) /\ DropHolds(page, stolen) /\ Exclusive(page)
  BY <1>3, <1>4, <1>5, <1>6, <1>7 DEF HelpHolds, DropHolds, Exclusive
<1>11. Displayed(page, page.focus)
  BY <1>7, NamedElements DEF Displayed
<1>12. timers \in Seq(TimerSet) /\ Len(timers) <= MaxTimers
  BY <1>1, TimersAssumption
<1>13. window \in Windows /\ placed = [i \in page.tips |-> window]
  BY <1>1, <1>7
<1> QED BY <1>9, <1>10, <1>11, <1>12, <1>13 DEF IInv, Settled

\* The timers that a click sets are for elements of a picker.
LEMMA TimersSet ==
  ASSUME NEW el \in Elements, timers \in Seq(TimerSet), SetTimers(el)
  PROVE  timers' \in Seq(TimerSet) /\ Len(timers') <= MaxTimers
<1>1. TimersOf(el) \in Seq(TimerSet)
  <2>1. CASE Kind(el) = "cal"
    <3> DEFINE t == Timer("focus", <<"frame", Widget(el), 0>>, 50)
    <3>1. <<"frame", Widget(el), 0>> \in PickerElements
      <4>1. Widget(el) \in Pickers
        BY <2>1, Widgets
      <4> QED BY <4>1 DEF PickerElements
    <3>2. t \in TimerSet
      BY <3>1 DEF Timer, TimerSet
    <3>3. TimersOf(el) = <<t>>
      BY <2>1 DEF TimersOf
    <3> HIDE DEF t
    <3> QED BY <3>2, <3>3
  <2>2. CASE Kind(el) = "option"
    <3> DEFINE t == Timer("focus", <<"switch", Widget(el), Part(el)>>, 50)
               l == <<Widget(el), Part(el)>>
    <3>1. l \in Layers /\ l[1] = Widget(el) /\ l[2] = Part(el)
      BY <2>2, Widgets
    <3>2. <<"switch", l[1], l[2]>> \in PickerElements
      BY <3>1 DEF PickerElements
    <3>3. t \in TimerSet
      BY <3>1, <3>2 DEF Timer, TimerSet
    <3>4. TimersOf(el) = <<t>>
      BY <2>2 DEF TimersOf
    <3> HIDE DEF t
    <3> QED BY <3>3, <3>4
  <2>3. CASE Kind(el) \notin {"cal", "option"}
    BY <2>3 DEF TimersOf
  <2> QED BY <2>1, <2>2, <2>3
<1>2. timers' = timers \o TimersOf(el) /\ Len(timers) + Len(TimersOf(el)) <= MaxTimers
  BY DEF SetTimers
<1> QED BY <1>1, <1>2

\* A drop-down is opened without the focus only where a help has it.
LEMMA StepKeeps ==
  ASSUME IInv, Step \/ Resize
  PROVE  /\ \E S : Settled(page', S) /\ \A d \in S \ stolen : page.help.shown # {}
         /\ Exclusive(page')
         /\ timers' \in Seq(TimerSet) /\ Len(timers') <= MaxTimers
<1>1. /\ Settled(page, stolen) /\ Exclusive(page)
      /\ timers \in Seq(TimerSet) /\ Len(timers) <= MaxTimers
  BY DEF IInv
<1>2. /\ GoodPage(page) /\ HelpHolds(page) /\ DropHolds(page, stolen)
      /\ Displayed(page, page.focus)
  BY <1>1 DEF Settled
<1>3. /\ page.focus \in Elements /\ GoodMenu(page.menu) /\ GoodDrop(page.drop)
      /\ GoodHelp(page.help) /\ GoodCal(page.cal)
  BY <1>2 DEF GoodPage, Pages
<1>4. ASSUME NEW el \in Elements, Press(el)
      PROVE  /\ \E S : Settled(page', S) /\ \A d \in S \ stolen : page.help.shown # {}
             /\ Exclusive(page')
             /\ timers' \in Seq(TimerSet) /\ Len(timers') <= MaxTimers
  <2> DEFINE p == FocusFixed(MoveFocus(page, el))
             S == Exempt(p, el, stolen)
  <2>1. /\ Displayed(page, el) /\ SetTimers(el) /\ page' = Clicked(p, el)
    BY <1>4 DEF Press, Pressed
  <2>2. /\ Settled(p, stolen)
        /\ p.cal.active = page.cal.active
        /\ p.focus = el \/ Kind(p.focus) \in {"page", "help"}
        /\ Kind(el) = "drop" /\ page.help.shown = {} => p.focus = el
    BY <1>1, FocusSettles
  <2> HIDE DEF p
  <2>3. Ready(p, el)
    BY <2>1, <2>2 DEF Ready, Displayed
  <2>4. Settled(page', S) /\ Exclusive(page')
    <3>1. GoodPage(p) /\ DropHolds(p, stolen)
      BY <2>2 DEF Settled
    <3> QED BY <2>1, <2>3, <3>1, ClickedFacts
  <2>5. \A d \in S \ stolen : page.help.shown # {}
    BY <2>2 DEF Exempt
  <2>6. timers' \in Seq(TimerSet) /\ Len(timers') <= MaxTimers
    BY <1>1, <2>1, TimersSet
  <2> HIDE DEF S
  <2> QED BY <2>4, <2>5, <2>6
<1>5. ASSUME Enter
      PROVE  /\ \E S : Settled(page', S) /\ \A d \in S \ stolen : page.help.shown # {}
             /\ Exclusive(page')
             /\ timers' \in Seq(TimerSet) /\ Len(timers') <= MaxTimers
  <2> DEFINE el == page.focus
             S == Exempt(page, el, stolen)
             q == Clicked(page, el)
  <2>1. SetTimers(el) /\ page' = KeyUp(q)
    BY <1>5 DEF Enter
  <2>2. Ready(page, el)
    BY <1>2 DEF Ready, Displayed
  <2>3. Settled(q, S) /\ Exclusive(q)
    BY <1>2, <1>3, <2>2, ClickedFacts
  <2>4. Settled(page', S) /\ Exclusive(page')
    BY <2>1, <2>3, KeyUpFacts
  <2>5. \A d \in S \ stolen : page.help.shown # {}
    BY DEF Exempt
  <2>6. timers' \in Seq(TimerSet) /\ Len(timers') <= MaxTimers
    BY <1>1, <1>3, <2>1, TimersSet
  <2> HIDE DEF S
  <2> QED BY <2>4, <2>5, <2>6
<1>6. ASSUME Settled(page', stolen), Exclusive(page'), UNCHANGED timers
      PROVE  /\ \E S : Settled(page', S) /\ \A d \in S \ stolen : page.help.shown # {}
             /\ Exclusive(page')
             /\ timers' \in Seq(TimerSet) /\ Len(timers') <= MaxTimers
  BY <1>1, <1>6
<1>7. ASSUME NEW el \in Elements, Tab(el)
      PROVE  Settled(page', stolen) /\ Exclusive(page') /\ UNCHANGED timers
  <2> DEFINE p == FocusFixed(MoveFocus(page, el))
  <2>1. page' = KeyUp(p) /\ UNCHANGED timers
    BY <1>7 DEF Tab
  <2>2. Settled(p, stolen) /\ Exclusive(p)
    BY <1>1, FocusSettles
  <2> HIDE DEF p
  <2> QED BY <2>1, <2>2, KeyUpFacts
<1>8. ASSUME Escape
      PROVE  Settled(page', stolen) /\ Exclusive(page') /\ UNCHANGED timers
  <2> DEFINE target == page.focus
             a == [page EXCEPT !.cal = IF target \in PickerElements THEN ResetDateSelector(@) ELSE @]
             b == [a EXCEPT !.help = CloseAllTooltips(@)]
             c == [b EXCEPT !.tips = {}]
             d == [c EXCEPT !.drop = CloseAllDropdowns(@)]
             e == IF target \in DropElements THEN MoveFocus(d, <<"drop", Widget(target), 0>>) ELSE d
             f == [e EXCEPT !.menu = CloseMainMenu(@)]
  <2>1. page' = FocusFixed(f) /\ UNCHANGED timers
    <3>1. d = [page EXCEPT !.cal  = IF target \in PickerElements THEN ResetDateSelector(@) ELSE @,
                           !.help = CloseAllTooltips(@),
                           !.tips = {},
                           !.drop = CloseAllDropdowns(@)]
      BY <1>2 DEF GoodPage, Pages
    <3> HIDE DEF d
    <3> QED BY <1>8, <3>1 DEF Escape
  <2>2. GoodPage(a) /\ a.help = page.help /\ a.drop = page.drop /\ a.focus = page.focus
    <3>1. GoodCal(ResetDateSelector(page.cal))
      BY <1>3, CalHandlers
    <3>2. CASE target \in PickerElements
      <4>1. a = [page EXCEPT !.cal = ResetDateSelector(page.cal)]
        BY <3>2
      <4> QED BY <1>2, <3>1, <4>1, OneWidget
    <3>3. CASE target \notin PickerElements
      <4>1. a = [page EXCEPT !.cal = page.cal]
        BY <3>3
      <4> QED BY <1>2, <1>3, <4>1, OneWidget
    <3> QED BY <3>2, <3>3
  <2> HIDE DEF a
  <2>3. GoodPage(b) /\ b.help.shown = {} /\ b.drop = page.drop /\ b.focus = page.focus
    <3>1. GoodHelp(CloseAllTooltips(page.help)) /\ CloseAllTooltips(page.help).shown = {}
      BY <1>3, HelpsClosed
    <3>2. b = [a EXCEPT !.help = CloseAllTooltips(page.help)]
      BY <2>2
    <3> QED BY <2>2, <3>1, <3>2, OneWidget
  <2> HIDE DEF b
  <2>4. GoodPage(c) /\ c.help.shown = {} /\ c.drop = page.drop /\ c.focus = page.focus
    BY <2>3, OneWidget
  <2> HIDE DEF c
  <2>5. GoodPage(d) /\ d.help.shown = {} /\ d.drop.shown = {} /\ d.focus = page.focus
    <3>1. GoodDrop(CloseAllDropdowns(page.drop)) /\ CloseAllDropdowns(page.drop).shown = {}
      BY <1>3, DropHandlers
    <3>2. d = [c EXCEPT !.drop = CloseAllDropdowns(page.drop)]
      BY <2>4
    <3> QED BY <2>4, <3>1, <3>2, OneWidget
  <2> HIDE DEF d
  <2>6. GoodPage(e) /\ e.help.shown = {} /\ e.drop.shown = {}
    <3>1. CASE target \in DropElements
      <4> DEFINE to == <<"drop", Widget(target), 0>>
      <4>1. Widget(target) \in Drops
        BY <1>3, <3>1, Kinds, Widgets, DropsAssumption
      <4>2. to \in Elements
        BY <4>1, NamedElements
      <4>3. e = MoveFocus(d, to)
        BY <3>1
      <4> HIDE DEF e, to
      <4>4. GoodPage(e) /\ FocusMoved(d, to, e)
        BY <2>5, <4>2, <4>3, MovedFacts
      <4> QED BY <2>5, <4>4 DEF FocusMoved
    <3>2. CASE target \notin DropElements
      BY <2>5, <3>2
    <3> QED BY <3>1, <3>2
  <2> HIDE DEF e
  <2>7. GoodPage(f) /\ f.menu.active = {} /\ f.help.shown = {} /\ f.drop.shown = {}
    <3>1. GoodMenu(e.menu)
      BY <2>6 DEF GoodPage
    <3>2. GoodMenu(CloseMainMenu(e.menu)) /\ CloseMainMenu(e.menu).active = {}
      BY <3>1, MenuHandlers
    <3> QED BY <2>6, <3>2, OneWidget
  <2> HIDE DEF f
  <2>8. /\ GoodPage(page') /\ Displayed(page', page'.focus)
        /\ page'.menu = f.menu /\ page'.help = f.help /\ page'.drop = f.drop
    BY <2>1, <2>7, FocusFixedFacts
  <2> QED BY <2>1, <2>7, <2>8 DEF Settled, HelpHolds, DropHolds, Exclusive
<1>9. ASSUME NEW key \in {"Home", "End", "Next", "Prev"}, MenuKey(key)
      PROVE  Settled(page', stolen) /\ Exclusive(page') /\ UNCHANGED timers
  <2>1. PICK to \in Elements :
          /\ Kind(to) = "trigger" \/ (Kind(to) = "sub" /\ Displayed(page, to))
          /\ page' = MoveFocus(page, to)
    <3>1. CASE /\ Kind(page.focus) = "trigger" \/ (Kind(page.focus) = "sub" /\ key \in {"Home", "End"})
               /\ page' = MoveFocus(page, <<"trigger", KeyTarget(Widget(page.focus), key), 0>>)
      <4> DEFINE to == <<"trigger", KeyTarget(Widget(page.focus), key), 0>>
      <4>1. Widget(page.focus) \in Triggers
        BY <1>3, <3>1, Widgets, TriggersAssumption
      <4>2. to \in Elements /\ Kind(to) = "trigger"
        BY <4>1, KeyTargets, NamedElements
      <4>3. page' = MoveFocus(page, to)
        BY <3>1
      <4> HIDE DEF to
      <4> QED BY <4>2, <4>3
    <3>2. CASE /\ Kind(page.focus) = "sub"
               /\ page' = MoveFocus(page, <<"sub", Widget(page.focus),
                                            SubKeyTarget(Widget(page.focus), Part(page.focus), key)>>)
      <4> DEFINE t  == Widget(page.focus)
                 u  == SubKeyTarget(t, Part(page.focus), key)
                 to == <<"sub", t, u>>
      <4>1. t \in Wrapped /\ Part(page.focus) \in Subs[t]
        BY <1>3, <3>2, Widgets
      <4>2. u \in Subs[t]
        BY <4>1 DEF SubKeyTarget
      <4>3. t \in page.menu.open
        BY <1>2, <3>2 DEF Displayed
      <4>4. page' = MoveFocus(page, to)
        BY <3>2
      <4> HIDE DEF t, u
      <4>5. to \in Elements
        BY <4>1, <4>2 DEF Elements, MenuElements
      <4>6. Kind(to) = "sub" /\ Widget(to) = t
        BY DEF Kind, Widget
      <4> HIDE DEF to
      <4> QED BY <4>3, <4>4, <4>5, <4>6 DEF Displayed
    <3> QED BY <1>9, <3>1, <3>2 DEF MenuKey
  <2>2. UNCHANGED timers /\ Kind(page.focus) # "close"
    BY <1>9 DEF MenuKey
  <2>3. Kind(to) \in {"trigger", "sub"}
    BY <2>1
  <2>4. /\ GoodPage(page') /\ FocusMoved(page, to, page')
        /\ HelpHolds(page') /\ DropHolds(page', stolen)
    BY <1>2, <2>1, <2>3, MovedFacts, MovedHolds
  <2>5. page'.focus = to /\ page'.menu = page.menu
    BY <2>2, <2>4 DEF FocusMoved
  <2>6. Displayed(page', page'.focus)
    BY <2>1, <2>5 DEF Displayed
  <2>7. Exclusive(page')
    BY <1>1, <2>4 DEF Exclusive, FocusMoved
  <2> QED BY <2>2, <2>4, <2>6, <2>7 DEF Settled
<1>10. ASSUME NEW at \in {{}} \cup {{el} : el \in TipElements}, Point(at)
       PROVE  Settled(page', stolen) /\ Exclusive(page') /\ UNCHANGED timers
  <2> DEFINE tips == (IF page.pointed = {} THEN page.tips ELSE {}) \cup {Widget(el) : el \in at}
  <2>1. page' = [page EXCEPT !.pointed = at, !.tips = tips] /\ UNCHANGED timers
    BY <1>10 DEF Point
  <2>2. at \subseteq TipElements
    OBVIOUS
  <2>3. \A el \in TipElements : Widget(el) \in Tips /\ el = <<"tip", Widget(el), 0>>
    BY DEF TipElements, Widget
  <2>4. tips \subseteq Tips
    BY <1>2, <2>2, <2>3 DEF GoodPage, Pages
  <2>5. \A i \in tips : <<"tip", i, 0>> \in at \cup {page.focus}
    BY <1>2, <2>2, <2>3 DEF GoodPage
  <2> HIDE DEF tips
  <2>6. /\ page' \in Pages /\ page'.menu = page.menu /\ page'.help = page.help
        /\ page'.drop = page.drop /\ page'.cal = page.cal /\ page'.focus = page.focus
        /\ page'.pointed = at /\ page'.tips = tips
    BY <1>2, <2>1, <2>2, <2>4 DEF GoodPage, Pages
  <2>7. GoodPage(page')
    BY <1>3, <2>5, <2>6 DEF GoodPage
  <2> QED BY <1>1, <1>2, <2>1, <2>6, <2>7 DEF Settled, HelpHolds, DropHolds, Exclusive, Displayed
<1>11. ASSUME Scroll
       PROVE  Settled(page', stolen) /\ Exclusive(page') /\ UNCHANGED timers
  <2> DEFINE a == [page EXCEPT !.menu = CloseMainMenu(@)]
             b == [a EXCEPT !.tips = {}]
  <2>1. page' = FocusFixed(b) /\ UNCHANGED timers
    <3>1. b = [page EXCEPT !.menu = CloseMainMenu(@), !.tips = {}]
      BY <1>2 DEF GoodPage, Pages
    <3> HIDE DEF b
    <3> QED BY <1>11, <3>1 DEF Scroll
  <2>2. GoodMenu(CloseMainMenu(page.menu)) /\ CloseMainMenu(page.menu).active = {}
    BY <1>3, MenuHandlers
  <2>3. /\ GoodPage(a) /\ a.menu.active = {} /\ a.help = page.help /\ a.drop = page.drop
        /\ a.cal = page.cal /\ a.focus = page.focus
    BY <1>2, <2>2, OneWidget
  <2> HIDE DEF a
  <2>4. /\ GoodPage(b) /\ b.menu.active = {} /\ b.help = page.help /\ b.drop = page.drop
        /\ b.cal = page.cal /\ b.focus = page.focus
    BY <2>3, OneWidget
  <2> HIDE DEF b
  <2>5. HelpHolds(b) /\ DropHolds(b, stolen)
    BY <1>2, <2>4 DEF HelpHolds, DropHolds
  <2>6. /\ GoodPage(page') /\ Displayed(page', page'.focus)
        /\ page'.menu = b.menu /\ page'.help = b.help /\ page'.drop = b.drop /\ page'.cal = b.cal
        /\ HelpHolds(page') /\ DropHolds(page', stolen)
    BY <2>1, <2>4, <2>5, FocusFixedFacts
  <2> QED BY <1>1, <2>1, <2>4, <2>6 DEF Settled, Exclusive
<1>12. ASSUME Resize
       PROVE  Settled(page', stolen) /\ Exclusive(page') /\ UNCHANGED timers
  <2>1. page' = [page EXCEPT !.tips = {}] /\ UNCHANGED timers
    BY <1>12 DEF Resize
  <2>2. /\ GoodPage(page') /\ page'.menu = page.menu /\ page'.help = page.help
        /\ page'.drop = page.drop /\ page'.cal = page.cal /\ page'.focus = page.focus
    BY <1>2, <2>1, OneWidget
  <2> QED BY <1>1, <1>2, <2>1, <2>2 DEF Settled, HelpHolds, DropHolds, Exclusive, Displayed
<1>13. ASSUME RunTimer
       PROVE  /\ Settled(page', stolen) /\ Exclusive(page')
              /\ timers' \in Seq(TimerSet) /\ Len(timers') <= MaxTimers
  <2> DEFINE to == Head(timers).of
  <2>1. /\ timers # <<>> /\ timers' = Tail(timers)
        /\ page' = IF Displayed(page, to) THEN FocusFixed(MoveFocus(page, to)) ELSE page
    BY <1>13 DEF RunTimer
  <2>2. timers' \in Seq(TimerSet) /\ Len(timers') <= MaxTimers
    BY <1>1, <2>1, TimersAssumption
  <2>3. to \in Elements
    <3>1. Head(timers) \in TimerSet
      BY <1>1, <2>1
    <3>2. to \in PickerElements
      BY <3>1 DEF TimerSet
    <3> QED BY <3>2 DEF Elements, CalElements
  <2> HIDE DEF to
  <2>4. CASE Displayed(page, to)
    BY <1>1, <2>1, <2>2, <2>3, <2>4, FocusSettles
  <2>5. CASE ~Displayed(page, to)
    <3>1. page' = page
      BY <2>1, <2>5
    <3> QED BY <1>1, <2>2, <3>1
  <2> QED BY <2>4, <2>5
<1>14. ASSUME RunTimer
       PROVE  \E S : Settled(page', S) /\ \A d \in S \ stolen : page.help.shown # {}
  BY <1>13, <1>14
<1>15. \/ \E el \in Elements : Press(el) \/ Tab(el)
       \/ Enter \/ Escape \/ Scroll \/ RunTimer
       \/ \E key \in {"Home", "End", "Next", "Prev"} : MenuKey(key)
       \/ \E at \in {{}} \cup {{el} : el \in TipElements} : Point(at)
       \/ Resize
  BY DEF Step
<1> QED BY <1>4, <1>5, <1>6, <1>7, <1>8, <1>9, <1>10, <1>11, <1>12, <1>13, <1>14, <1>15

LEMMA NextKeeps ==
  ASSUME IInv, [Next]_vars PROVE IInv'
<1>1. CASE Next
  <2>1. /\ (Step /\ UNCHANGED window) \/ Resize
        /\ placed' = [i \in page'.tips |-> IF i \in page.tips THEN placed[i] ELSE window']
        /\ stolen' = {d \in page'.drop.shown :
                        d \in stolen \/ (d \notin page.drop.shown /\ page.help.shown # {})}
    BY <1>1 DEF Next
  <2>2. PICK S : Settled(page', S) /\ \A d \in S \ stolen : page.help.shown # {}
    BY <2>1, StepKeeps
  <2>3. /\ Exclusive(page') /\ timers' \in Seq(TimerSet) /\ Len(timers') <= MaxTimers
    BY <2>1, StepKeeps
  <2>4. ASSUME NEW d \in page'.drop.shown \ stolen' PROVE d \notin S
    <3>1. d \notin stolen /\ (d \in page.drop.shown \/ page.help.shown = {})
      BY <2>1, <2>4
    <3>2. page.help.shown # {} => page.drop.shown = {}
      BY DEF IInv, Exclusive
    <3> QED BY <2>2, <3>1, <3>2
  <2>5. GoodPage(page') /\ HelpHolds(page') /\ DropHolds(page', S) /\ Displayed(page', page'.focus)
    BY <2>2 DEF Settled
  <2>6. DropHolds(page', stolen')
    BY <2>4, <2>5 DEF DropHolds
  <2>7. Settled(page', stolen')
    BY <2>5, <2>6 DEF Settled
  <2>8. /\ window \in Windows /\ placed = [i \in page.tips |-> window]
        /\ page \in Pages
    BY DEF IInv, Settled, GoodPage
  <2>9. window' \in Windows /\ placed' = [i \in page'.tips |-> window']
    <3>1. CASE Step /\ UNCHANGED window
      BY <2>1, <2>8, <3>1
    <3>2. CASE Resize
      <4>1. window' \in Windows /\ page'.tips = {}
        BY <2>8, <3>2 DEF Resize, Pages
      <4> QED BY <2>1, <4>1
    <3> QED BY <2>1, <3>1, <3>2
  <2> QED BY <2>3, <2>7, <2>9 DEF IInv
<1>2. CASE UNCHANGED vars
  BY <1>2 DEF vars, IInv
<1> QED BY <1>1, <1>2

\* Every reachable page is good, and settled between two events.
THEOREM Invariance == Spec => []IInv
BY InitHolds, NextKeeps, PTL DEF Spec

\* At most one of the menus, drop-downs, helps and pickers of a page is open.
THEOREM OneOpenHolds == Spec => []OneOpen
<1>1. ASSUME NEW S, AtMostOne(S) PROVE S = {} \/ \E x : S = {x}
  BY <1>1 DEF AtMostOne
<1>2. Cardinality({}) = 0 /\ \A x : Cardinality({x}) = 1
  BY FS_EmptySet, FS_Singleton
<1>3. IInv => OneOpen
  <2> SUFFICES ASSUME IInv PROVE OneOpen
    OBVIOUS
  <2>1. Exclusive(page) /\ GoodPage(page)
    BY DEF IInv, Settled
  <2>2. /\ AtMostOne(OpenMenus) /\ AtMostOne(OpenDrops) /\ AtMostOne(OpenHelps)
        /\ AtMostOne(OpenPickers)
    BY <2>1 DEF GoodPage, GoodMenu, GoodDrop, GoodHelp, GoodCal,
                OpenMenus, OpenDrops, OpenHelps, OpenPickers
  <2>3. /\ OpenMenus = {} \/ (OpenDrops = {} /\ OpenHelps = {} /\ OpenPickers = {})
        /\ OpenDrops = {} \/ (OpenHelps = {} /\ OpenPickers = {})
        /\ OpenHelps = {} \/ OpenPickers = {}
    BY <2>1 DEF Exclusive, OpenMenus, OpenDrops, OpenHelps, OpenPickers
  <2>4. /\ Cardinality(OpenMenus) \in {0, 1} /\ Cardinality(OpenDrops) \in {0, 1}
        /\ Cardinality(OpenHelps) \in {0, 1} /\ Cardinality(OpenPickers) \in {0, 1}
    BY <1>1, <1>2, <2>2
  <2> QED BY <1>2, <2>3, <2>4 DEF OneOpen
<1> QED BY <1>3, Invariance, PTL

\* An open drop-down or help has the focus, but for the drop-downs whose button
\* was clicked while a help had it.
THEOREM FocusHeld == Spec => []PopupHoldsFocus
<1>1. IInv => PopupHoldsFocus
  BY DEF IInv, Settled, HelpHolds, DropHolds, PopupHoldsFocus, OpenDrops, OpenHelps
<1> QED BY <1>1, Invariance, PTL

\* In every widget what is displayed, what is marked, what screen readers are
\* told and what the script remembers agree.
THEOREM WidgetsAgreeHold == Spec => []WidgetsAgree
<1>1. IInv => WidgetsAgree
  <2> SUFFICES ASSUME IInv PROVE WidgetsAgree
    OBVIOUS
  <2>1. GoodPage(page) /\ Len(timers) <= MaxTimers
    BY DEF IInv, Settled
  <2>2. /\ page \in Pages /\ GoodMenu(page.menu) /\ GoodDrop(page.drop) /\ GoodHelp(page.help)
        /\ GoodCal(page.cal)
    BY <2>1 DEF GoodPage
  <2>10. window \in Windows /\ placed = [i \in page.tips |-> window]
    BY DEF IInv
  <2>3. TypeOK
    BY <2>1, <2>2, <2>10 DEF TypeOK, Pages, MenuStates, HelpStates, CalStates
  <2>4. AriaTells
    BY <2>2 DEF AriaTells, GoodMenu, GoodDrop, GoodHelp, GoodCal
  <2>5. ListOfOpenPicker
    <3>1. /\ page.cal.layers = page.cal.current /\ page.cal.combo = page.cal.current
          /\ AtMostOne(page.cal.current) /\ \A l \in page.cal.current : l[1] \in page.cal.active
      BY <2>2 DEF GoodCal
    <3>2. Cardinality(page.cal.current) <= 1
      <4>1. page.cal.current = {} \/ \E x : page.cal.current = {x}
        BY <3>1 DEF AtMostOne
      <4>2. Cardinality(page.cal.current) \in {0, 1}
        BY <4>1, FS_EmptySet, FS_Singleton
      <4> QED BY <4>2
    <3> QED BY <3>1, <3>2 DEF ListOfOpenPicker, OpenPickers
  <2>6. BackdropUnderMenu
    BY <2>2 DEF BackdropUnderMenu, GoodMenu, OpenMenus
  <2>7. TooltipHasElement /\ ScaleIsChosen
    BY <2>1, <2>2 DEF TooltipHasElement, ScaleIsChosen, GoodPage, GoodDrop
  <2>8. ShownTooltipInWindow
    BY <2>10, TooltipsInWindowHold DEF ShownTooltipInWindow
  <2> QED BY <2>3, <2>4, <2>5, <2>6, <2>7, <2>8 DEF WidgetsAgree
<1> QED BY <1>1, Invariance, PTL

\* In every state, a click on the button of a closed drop-down or help would
\* open it exactly if no date picker is open, and one beside all widgets would
\* close everything.
THEOREM ClicksAreObeyed == Spec => []ClicksObeyed
<1>1. ASSUME IInv, NEW el \in Elements, Kind(el) \in {"page", "drop", "help"}
      PROVE  Obeyed(FocusFixed(MoveFocus(page, el)), el, Pressed(el))
             /\ LET p == FocusFixed(MoveFocus(page, el))
                IN  /\ p.drop.shown \subseteq page.drop.shown
                    /\ p.help.shown \subseteq page.help.shown
                    /\ p.cal.active = page.cal.active
                    /\ Kind(el) = "drop" /\ page.help.shown = {} => p.focus = el
                    /\ page.cal.active # {} => page.help.shown = {}
  <2> DEFINE p == FocusFixed(MoveFocus(page, el))
  <2>1. Displayed(page, el)
    BY <1>1 DEF Displayed
  <2>2. Settled(page, stolen) /\ Exclusive(page)
    BY <1>1 DEF IInv
  <2>3. /\ Settled(p, stolen)
        /\ p.drop.shown \subseteq page.drop.shown /\ p.help.shown \subseteq page.help.shown
        /\ p.cal.active = page.cal.active
        /\ p.focus = el \/ Kind(p.focus) \in {"page", "help"}
        /\ Kind(el) = "drop" /\ page.help.shown = {} => p.focus = el
    BY <2>1, <2>2, FocusSettles
  <2>4. Pressed(el) = Clicked(p, el)
    BY DEF Pressed
  <2> HIDE DEF p
  <2>5. Ready(p, el)
    BY <1>1, <2>3 DEF Ready, Displayed
  <2>6. GoodPage(p) /\ DropHolds(p, stolen)
    BY <2>3 DEF Settled
  <2>7. Obeyed(p, el, Pressed(el))
    BY <2>4, <2>5, <2>6, ClickedFacts
  <2>8. page.cal.active # {} => page.help.shown = {}
    BY <2>2 DEF Exclusive
  <2> QED BY <2>3, <2>7, <2>8 DEF p
<1>2. IInv => ClicksObeyed
  <2> SUFFICES ASSUME IInv PROVE ClickOpens /\ OutsideClickCloses
    BY DEF ClicksObeyed
  <2>1. ASSUME NEW d \in Drops \ OpenDrops
        PROVE  d \in Pressed(<<"drop", d, 0>>).drop.shown <=> OpenPickers = {}
    <3>1. /\ <<"drop", d, 0>> \in Elements /\ Kind(<<"drop", d, 0>>) = "drop"
          /\ Widget(<<"drop", d, 0>>) = d
      BY NamedElements
    <3> DEFINE el == <<"drop", d, 0>>
               p  == FocusFixed(MoveFocus(page, el))
    <3>2. /\ Obeyed(p, el, Pressed(el)) /\ p.drop.shown \subseteq page.drop.shown
          /\ p.cal.active = page.cal.active
          /\ page.help.shown = {} => p.focus = el
          /\ page.cal.active # {} => page.help.shown = {}
      BY <1>1, <3>1
    <3> HIDE DEF p, el
    <3>3. Kind(el) = "drop" /\ Widget(el) = d
      BY <3>1 DEF el
    <3>4. d \notin p.drop.shown
      BY <2>1, <3>2 DEF OpenDrops
    <3>5. Pressed(el).drop.shown = IF page.cal.active = {} THEN {d} ELSE {}
      BY <3>2, <3>3, <3>4 DEF Obeyed
    <3> QED BY <3>5 DEF OpenPickers, el
  <2>2. ASSUME NEW h \in Helps \ OpenHelps
        PROVE  h \in Pressed(<<"help", h, 0>>).help.shown <=> OpenPickers = {}
    <3>1. /\ <<"help", h, 0>> \in Elements /\ Kind(<<"help", h, 0>>) = "help"
          /\ Widget(<<"help", h, 0>>) = h
      BY NamedElements
    <3> QED BY <1>1, <2>2, <3>1 DEF Obeyed, OpenHelps, OpenPickers
  <2>3. OutsideClickCloses
    BY <1>1, NamedElements DEF Obeyed, OutsideClickCloses, Kind, Page
  <2> QED BY <2>1, <2>2, <2>3 DEF ClickOpens
<1> QED BY <1>2, Invariance, PTL
=============================================================================
