---------------------------- MODULE ValidatedForm ---------------------------
(***************************************************************************)
(* EgovValidation.js at work: a value typed character by character, as its *)
(* rules judge it, and a form with every kind of element, filled in and    *)
(* validated again and again.                                              *)
(***************************************************************************)
EXTENDS EgovValidation

CONSTANTS
  Alphabet,  \* the characters that are typed
  MaxTyped,  \* bound on the characters typed one by one
  Pasted,    \* longer values, pasted into an empty field
  Elements,  \* the elements of the form with the values each can have
  Tables     \* tables of rules

ASSUME TypedAssumption == Alphabet \subseteq Nat /\ MaxTyped \in Nat /\ Pasted \subseteq Seq(Nat)

\* A table is a sequence of fields with their rules.
IsTable(t) == Len(t) \in Nat /\ DOMAIN t = 1 .. Len(t)

ASSUME TablesAssumption == \A t \in Tables : IsTable(t)

VARIABLES
  typed,  \* the value of the field
  entry   \* a record of
          \* table   the rules of the page
          \* form    the form as filled in
          \* errors  the messages that alert() shows
          \* focus   the field it has given the focus, as a set
          \* thrown  the last validation ended in an exception

TypedInits == {<<>>}

Type(c)  == Len(typed) < MaxTyped /\ typed' = Append(typed, c)
Paste(v) == typed = <<>> /\ typed' = v
TypedNext == \/ \E c \in Alphabet : Type(c)
             \/ \E v \in Pasted : Paste(v)

\* What can be entered in an element.
Entries(e) ==
  CASE e.kind = "text"               -> {e.values[k] : k \in DOMAIN e.values}
    [] e.kind = "checkbox"           -> BOOLEAN
    [] e.kind \in {"select-one", "radio list"} -> {{}} \cup {{k} : k \in DOMAIN e.values}
    [] e.kind \in {"select-multiple", "checkbox list"} -> SUBSET DOMAIN e.values

Filled(form, f, x) == [form EXCEPT ![f].entered = x]

EntryInits ==
  {[form   |-> [f \in DOMAIN Elements |-> [kind |-> Elements[f].kind, values |-> Elements[f].values,
                                           entered |-> CHOOSE x \in Entries(Elements[f]) : TRUE]],
    table  |-> t, errors |-> <<>>, focus |-> {}, thrown |-> FALSE] : t \in Tables}

Fill(f, x) == /\ entry.form[f].entered # x
              /\ entry' = [entry EXCEPT !.form = Filled(@, f, x), !.focus = {},
                                     !.errors = <<>>, !.thrown = FALSE]

HasFocusMethod(f) == entry.form[f].kind \notin {"radio list", "checkbox list"}

\* validateForm; a list of elements has no focus().
Validate ==
  LET out == ValidateForm(entry.form, entry.table)
  IN  entry' = [entry EXCEPT !.errors = out.errors,
                             !.focus  = IF out.first # {} /\ \A f \in out.first : HasFocusMethod(f)
                                        THEN out.first ELSE {},
                             !.thrown = \E f \in out.first : ~HasFocusMethod(f)]

EntryNext == \/ \E f \in DOMAIN Elements : \E x \in Entries(Elements[f]) : Fill(f, x)
             \/ Validate
-----------------------------------------------------------------------------
\* N characters that follow each other, each one more (one less, the same).
RunOf(v, n, step) == \E i \in 1 .. Len(v) - n + 1 : \A j \in i .. i + n - 2 : v[j + 1] - v[j] = step

\* The rules against sequences and repetitions find the runs their messages
\* speak of, of four characters or of three, wherever they are in the value.
RunsFound == /\ Password3(typed) <=> ~RunOf(typed, 4, 1) /\ ~RunOf(typed, 4, -1)
             /\ Password4(typed) <=> ~RunOf(typed, 4, 0)
             /\ PwdCheckSeries(typed) <=> ~RunOf(typed, 3, 1) /\ ~RunOf(typed, 3, -1)
             /\ PwdCheckRepeat(typed) <=> ~RunOf(typed, 3, 0)

\* The rule of an address lets one @ pass, with a dot after it that neither
\* follows it nor ends the value, and no blank.
AddressShape ==
  LET ats == {i \in DOMAIN typed : typed[i] = At}
  IN  typed # <<>> =>
        (Email(typed) <=> /\ Cardinality(ats) = 1 /\ ~Has(typed, Blanks) /\ 1 \notin ats
                          /\ \E a \in ats : \E d \in a + 2 .. Len(typed) - 1 : typed[d] = Dot)

\* The stricter rule of each pair implies the other one.  password2 and the
\* combination rules exclude each other: no password passes both.
StricterRules ==
  /\ PwdCheckSeries(typed) => Password3(typed)
  /\ PwdCheckRepeat(typed) => Password4(typed)
  /\ PwdCheckComb4(typed) => PwdCheckComb3(typed)
  /\ PwdCheckComb3(typed) /\ Password2(typed) => typed = <<>>
  /\ IsInteger(typed) \/ English(typed) => Password2(typed)
  /\ IsInteger(typed) /\ English(typed) => typed = <<>>

\* What a reader of the table expects of a field: that it has a value if it is
\* required, and that a value it has obeys the other rules.
Expected(row) ==
  LET f == entry.form[row.field]
      given == CASE f.kind = "text" -> f.entered # <<>> /\ ~Only(f.entered, Blanks)
                 [] f.kind = "checkbox" -> f.entered
                 [] OTHER -> f.entered # {}
  IN  \A i \in DOMAIN row.rules :
        IF row.rules[i].name = "required" THEN given
        ELSE ~given \/ Holds(row.rules[i], GetFieldValue(f))

\* A required field of several checkboxes never passes, and one of several
\* selected options passes though all their values are empty.
Misjudged(row) ==
  LET f == entry.form[row.field]
  IN  \/ f.kind = "checkbox list"
      \/ f.kind = "select-multiple" /\ \A k \in f.entered : f.values[k] = <<>>
      \/ f.kind = "select-one" /\ \E k \in f.entered : f.values[k] = <<>>

\* A validation passes exactly if every field of the form is as the table
\* expects, save the misjudged kinds.  Otherwise each failing field has one
\* message, in the table's order, and the first one gets the focus; only a list
\* of elements cannot take it, and the validation throws.
ValidatedAsExpected ==
  [][Validate =>
       LET rows  == SelectSeq(entry.table, LAMBDA r : r.field \in DOMAIN entry.form)
           wrong == {rows[k].field : k \in {j \in DOMAIN rows : ~Expected(rows[j])}}
           odd   == {rows[k].field : k \in {j \in DOMAIN rows : Misjudged(rows[j])}}
           told  == {entry'.errors[k][1] : k \in DOMAIN entry'.errors}
       IN  /\ told \ odd = wrong \ odd
           /\ Cardinality(told) = Len(entry'.errors)
           /\ entry'.errors # <<>> => entry'.focus = {entry'.errors[1][1]} \/ entry'.thrown
           /\ entry'.errors = <<>> => ~entry'.thrown]_entry
=============================================================================
