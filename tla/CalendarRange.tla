---------------------------- MODULE CalendarRange ----------------------------
(***************************************************************************)
(* krds_calendar: example(), which selects the dates.  It is called once   *)
(* when the page is loaded and again whenever a year or month is selected, *)
(* and every call registers its click handlers anew, each set of them with *)
(* a start date of its own.  Cells are numbered in the order of their      *)
(* dates; what month they show is a number too.                            *)
(***************************************************************************)
EXTENDS Naturals, Sequences, FiniteSets

CONSTANTS
  Days,       \* cells that can be selected
  Today,      \* the cell of class today
  Months,     \* months that can be selected
  MaxSets     \* bound on calls of example()

ASSUME DaysAssumption == /\ Days \subseteq Nat \ {0} /\ Today \in Days
                         /\ Months # {} /\ MaxSets \in Nat

VARIABLE cal  \* a record of
  \* single    calendar-wrap has class single: one date, not a range
  \* month     what the cells show
  \* starts    startTd of every set of handlers, 0 if null
  \* period, start, end   the cells with these classes
  \* input     the two dates in the input, as month and cell
  \* history:
  \* chosen    the two dates that were clicked
  \* torn      a new set of handlers, or today, came between two clicks
  \* relabelled  the month has been changed under selected dates

NoDate == <<0, 0>>
NoRange == <<NoDate, NoDate>>

CalRangeInits ==
  {[single |-> single, month |-> m, starts |-> <<0>>,
    period |-> {}, start |-> {}, end |-> {}, input |-> NoRange,
    chosen |-> NoRange, torn |-> FALSE, relabelled |-> FALSE]
     : single \in BOOLEAN, m \in Months}

StartPending == \E k \in DOMAIN cal.starts : cal.starts[k] # 0

Marked(c, d) == [c EXCEPT !.period = {d}, !.start = {d}, !.end = {d}]

EndRange(c, from, to) == [c EXCEPT !.period = @ \cup {d \in Days : from <= d /\ d <= to},
                                   !.end = @ \cup {to}]

HandleNeverBack(c, k, d) ==
  IF c.starts[k] = 0
  THEN [c EXCEPT !.period = {d}, !.start = {d}, !.end = {}, !.starts[k] = d]
  ELSE [EndRange(c, c.starts[k], d) EXCEPT !.starts[k] = 0]

\* One of the click handlers of a date: a second date that is not before the
\* first one ends the range, any other starts a new one.
Handle(c, k, d) ==
  LET from == c.starts[k]
  IN  IF from = 0 \/ d < from
      THEN [c EXCEPT !.period = {d}, !.start = {d}, !.end = {}, !.starts[k] = d]
      ELSE [EndRange(c, from, d) EXCEPT !.starts[k] = 0]

\* All of them, in the order of their registration.
HandleAll(c, d) ==
  LET heard[k \in 0 .. Len(c.starts)] == IF k = 0 THEN c ELSE Handle(heard[k - 1], k, d)
  IN  heard[Len(c.starts)]

\* The dates a reader of the calendar expects.
Choose(c, d) ==
  LET at == <<c.month, d>>   from == c.chosen[1]
  IN  IF c.single THEN <<at, at>>
      ELSE IF from = NoDate \/ c.chosen[2] # NoDate \/ d < from[2] THEN <<at, NoDate>>
      ELSE <<from, at>>

SelectDate(d) ==
  cal' = [(IF cal.single THEN Marked(cal, d)
           ELSE HandleAll(cal, d))
          EXCEPT !.chosen = Choose(cal, d), !.relabelled = FALSE]

\* accSet, once for every handler set.
SelectToday ==
  cal' = [Marked(cal, Today) EXCEPT !.chosen = <<<<cal.month, Today>>, <<cal.month, Today>>>>,
                                    !.torn = @ \/ StartPending, !.relabelled = FALSE]

\* A year or month is selected: the cells get new dates and keep their classes.
ChangeMonth(m) ==
  /\ Len(cal.starts) < MaxSets
  /\ cal' = [cal EXCEPT !.month = m, !.starts = Append(@, 0),
                        !.torn = @ \/ StartPending,
                        !.relabelled = @ \/ (cal.period # {} /\ m # cal.month)]

FirstOf(cells) == IF cells = {} THEN NoDate
                  ELSE <<cal.month, CHOOSE d \in cells : \A e \in cells : d <= e>>

Value == <<FirstOf(cal.period \cap cal.start), FirstOf(cal.period \cap cal.end)>>

\* The confirm button.  Without a date the handler of a single date throws, and
\* that of a range writes what it has.
ConfirmDate == /\ ~cal.single \/ cal.period # {}
               /\ cal' = [cal EXCEPT !.input = Value]

CalRangeNext == \/ \E d \in Days : SelectDate(d)
                \/ SelectToday \/ ConfirmDate
                \/ \E m \in Months : ChangeMonth(m)
-----------------------------------------------------------------------------
\* The cells that look selected are the range that was clicked, unless a month
\* was selected or today taken after the first of two clicks: the second click
\* is then handled twice, by sets of handlers that disagree.
CellsAsClicked ==
  ~cal.torn =>
    LET from == cal.chosen[1][2]   to == cal.chosen[2][2]
    IN  IF from = 0 THEN cal.period = {}
        ELSE /\ cal.start = {from} /\ cal.end = (IF to = 0 THEN {} ELSE {to})
             /\ cal.period = (IF to = 0 THEN {from} ELSE {d \in Days : from <= d /\ d <= to})

\* ... and the sets of handlers agree on where the range starts.
StartsAgree == ~cal.torn =>
  \A k \in DOMAIN cal.starts :
    cal.starts[k] = IF cal.single \/ cal.chosen[2] # NoDate THEN 0 ELSE cal.chosen[1][2]

\* The calendar shows the range that was clicked, and its next click starts
\* from there.
RangeAsClicked == CellsAsClicked /\ StartsAgree

\* Confirming writes the clicked dates into the input, unless the month was
\* changed after the clicks: the same cells then stand for other dates.
InputAsClicked ==
  ConfirmDate => cal'.input = cal.chosen \/ cal.torn \/ cal.relabelled
=============================================================================
