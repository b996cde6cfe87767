------------------------------ MODULE FormPage -------------------------------
(***************************************************************************)
(* The pages with forms.  A page has one of them, so that a behaviour uses *)
(* one: a field under the password rules, a form with a table of rules, or *)
(* the board's form for one row or for its list.                           *)
(***************************************************************************)
EXTENDS ValidatedForm, BoardForms

VARIABLE used  \* what the page has

vars == <<used, typed, entry, form, list>>

Init == /\ used \in {"typed", "entry", "form", "list"}
        /\ typed \in TypedInits /\ entry \in EntryInits
        /\ form \in FormInits /\ list \in ListInits

UseTyped == used = "typed" /\ TypedNext /\ UNCHANGED <<used, entry, form, list>>
UseEntry == used = "entry" /\ EntryNext /\ UNCHANGED <<used, typed, form, list>>
UseForm  == used = "form"  /\ FormNext  /\ UNCHANGED <<used, typed, entry, list>>
UseList  == used = "list"  /\ ListNext  /\ UNCHANGED <<used, typed, entry, form>>

Next == UseTyped \/ UseEntry \/ UseForm \/ UseList

Spec == Init /\ [][Next]_vars
-----------------------------------------------------------------------------
\* Types; a dialog and a planned request belong to a button of the page, and a
\* form that cannot be changed keeps what it was loaded with.
TypeOK ==
  /\ typed \in Seq(Nat)
  /\ entry.focus \subseteq DOMAIN Elements
  /\ form.asking \in Saves(form) \cup {"none"} /\ form.next \in Buttons(form) \cup {"none"}
  /\ \A x \in ReadOnly(form) : form.form[x] = form.default[x]
  /\ list.id \in Ids \cup {NoId} /\ list.page \in ListPages

\* The rules say what their messages say, for whatever is typed.
RulesAsDescribed == TypeOK /\ RunsFound /\ AddressShape /\ StricterRules

\* A save is complete, confirmed, and asked for.
SavesAsAsked == SavesAreComplete /\ SavesAreConfirmed /\ AskedOncePerClick

\* Requests of the list are checked, and carry no leftovers of earlier ones.
ListRequests == SearchesAreChecked /\ NewRowsHaveNoId
=============================================================================
