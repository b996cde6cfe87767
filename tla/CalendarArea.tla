---------------------------- MODULE CalendarArea -----------------------------
(***************************************************************************)
(* krds_calendar: opening and closing of the date pickers, and of the two  *)
(* lists in each from which year and month are selected.  The state is     *)
(*   active   the pickers with class active                                *)
(*   aria     the pickers whose button has aria-expanded = true            *)
(*   layers   the lists with class active, as pairs of picker and list     *)
(*   current  activeDateSelector, as a set of at most one list             *)
(*   combo    the lists whose button has aria-expanded = true              *)
(***************************************************************************)
CONSTANT Pickers

Layers == Pickers \X {"year", "month"}

CalInit == [active |-> {}, aria |-> {}, layers |-> {}, current |-> {}, combo |-> {}]

\* It resets the lists of all pickers, once for each picker.
ResetDateSelector(s) == [s EXCEPT !.layers = {}, !.current = {}, !.combo = {}]

\* The part of closeAllDatePickers that does not move the focus.
Closed(s) == [ResetDateSelector(s) EXCEPT !.active = {}, !.aria = {}]

OpenDatePicker(s, c) == [Closed(s) EXCEPT !.active = {c}, !.aria = {c}]

HandleBtnClickBeside(s, l) == [s EXCEPT !.layers = @ \cup {l}, !.combo = {l}, !.current = {l}]

\* A click on the button of list l.
HandleBtnClick(s, l) ==
  IF l \in s.current
  THEN [s EXCEPT !.layers = @ \ {l}, !.combo = {}, !.current = {}]
  ELSE [s EXCEPT !.layers = (@ \ s.current) \cup {l}, !.combo = {l}, !.current = {l}]

\* A click on a year or month: resetDateSelector and setupDateComboBox.  The
\* latter also unmarks the options of every list of every picker and marks the
\* one clicked (class active, aria-selected): no code reads these marks, and
\* they are left out.
SelectOption(s) == ResetDateSelector(s)
=============================================================================
