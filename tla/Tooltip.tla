------------------------------- MODULE Tooltip -------------------------------
(***************************************************************************)
(* krds_tooltip: calculateTooltipPosition and showTooltip.  Lengths are in *)
(* half pixels, so that the halves of the code are exact.  An item is a    *)
(* record of its top, left, height and width in the window, a tooltip and  *)
(* a window one of height and width.                                       *)
(***************************************************************************)
EXTENDS Integers

CONSTANTS
  Offsets,  \* the places of an item's top and left edges
  Sizes,    \* heights and widths of items and tooltips
  Windows   \* the windows a page may have

ASSUME LengthsAssumption == /\ Offsets \cup Sizes \subseteq Nat
                            /\ Windows \subseteq [height : Nat, width : Nat]

TipItems  == [top : Offsets, left : Offsets, height : Sizes, width : Sizes]
Popovers  == [height : Sizes, width : Sizes]

Gap == 24  \* tooltipGap: 12 pixels

IsMobile(w)    == w.width < 2048   \* windowSize: less than 1024 pixels
MobileSmall(w) == w.width <= 840   \* showTooltip: at most 420 pixels

Half(x) == x \div 2

Right(i)  == i.left + i.width
Bottom(i) == i.top + i.height

\* Above the item if the item reaches into the lower half of the window.
VerticalTop(i, t, H) ==
  IF Bottom(i) > Half(H) THEN i.top - t.height - Gap ELSE Bottom(i) + Gap

\* Aligned with the item's right end, centred, or aligned with its left end.
VerticalLeft(i, t, W) ==
  LET centred == i.left + Half(i.width - t.width)
  IN  IF Right(i) > Half(W)
      THEN IF W - Right(i) > Half(t.width) THEN centred ELSE Right(i) - t.width
      ELSE IF centred < 0 THEN i.left ELSE centred

HorizontalTop(i, t) == i.top + Half(i.height - t.height)

HorizontalLeft(i, t, W) ==
  IF Right(i) > Half(W) THEN i.left - t.width - Gap ELSE Right(i) + Gap

\* The left edge when style.left is 50%: the style sheet moves the tooltip of a
\* small window to the left by half its width.
CentredLeft(t, W) == Half(W - t.width)

\* styled: an item of class tooltip-box or tooltip-vertical.
Position(i, t, w, styled) ==
  LET vertical == IsMobile(w) \/ styled
  IN  [top  |-> IF vertical THEN VerticalTop(i, t, w.height) ELSE HorizontalTop(i, t),
       left |-> IF MobileSmall(w) THEN CentredLeft(t, w.width)
                ELSE IF vertical THEN VerticalLeft(i, t, w.width)
                ELSE HorizontalLeft(i, t, w.width)]
-----------------------------------------------------------------------------
\* The item is in the window, and with its tooltip fits in half of it; in a
\* small window, where the tooltip is nearly as wide, only the heights do.
Fits(i, t, w) ==
  /\ Right(i) <= w.width
  /\ IF MobileSmall(w) THEN t.width <= w.width ELSE i.width + t.width + Gap <= Half(w.width)
  /\ Bottom(i) <= w.height /\ i.height + t.height + Gap <= Half(w.height)

\* A tooltip beside its item is centred on it, and nothing keeps it in the
\* window if the item is near the top or the bottom edge.
CutOff(i, t, w, styled) ==
  /\ ~IsMobile(w) /\ ~styled
  /\ HorizontalTop(i, t) < 0 \/ HorizontalTop(i, t) + t.height > w.height

InWindow(at, t, w) == /\ at.left >= 0 /\ at.left + t.width <= w.width
                      /\ at.top >= 0 /\ at.top + t.height <= w.height

\* A tooltip is placed inside the window wherever its item is, if both fit in
\* half of it and the item is not so near an edge that a tooltip beside it is
\* cut off: the four choices of side and alignment leave no gap.
TooltipsInWindow ==
  \A w \in Windows, i \in TipItems, t \in Popovers, styled \in BOOLEAN :
    Fits(i, t, w) /\ ~CutOff(i, t, w, styled) => InWindow(Position(i, t, w, styled), t, w)
=============================================================================
