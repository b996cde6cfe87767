----------------------------- MODULE BoardForms -----------------------------
(***************************************************************************)
(* The scripts of the pages egovSampleRegister and egovSampleList with     *)
(* common.js: buttons that ask, validate and submit, and a keyboard        *)
(* listener that calls onclick of the element with the focus on Enter,     *)
(* after which the browser clicks on it as well.  A page lasts until the   *)
(* answer to a request arrives; a behaviour may stop there.                *)
(***************************************************************************)
EXTENDS EgovValidation

CONSTANTS
  Texts,        \* what a user types into a field
  MaxGestures,  \* bound on clicks and keys on a page
  MaxRequests,  \* bound on requests of a page
  ListPages,    \* pages of the list
  Ids, NoId     \* rows of the list

ASSUME TextsAssumption == /\ Texts \subseteq Seq(Nat) /\ \E v \in Texts : Required(v)
                          /\ 1 \in ListPages
                          /\ MaxGestures \in Nat /\ MaxRequests \in Nat /\ NoId \notin Ids

VARIABLES
  form,   \* egovSampleRegister: a record of
          \* new      the form of a new row, not of a stored one
          \* form     the fields, as EgovValidation has them
          \* default  what the page was loaded with
          \* focus    the field or button with the focus
          \* asking   the function that waits in confirm(), "none" if none does
          \* next     what the browser does after the keyboard listener: the
          \*          function that Enter calls for a second time, or "none"
          \* planned  the submitted request that has not been sent, as a set
          \* sent     the requests that have been
          \* history: gestures, by whether by keyboard; yes answers; of the
          \* last gesture the questions, and whether the form was refused
  list    \* egovSampleList: a record of
          \* keyword  the text of the search field
          \* id, page the hidden fields
          \* last     the latest request, as a set
          \* history: whether a link to another page was followed before

Fields == {"name", "description", "regUser"}
Saves(f) == IF f.new THEN {"sampleAdd"} ELSE {"sampleUpdate", "sampleDelete"}
Buttons(f) == Saves(f) \cup {"sampleList", "sampleReset"}
ReadOnly(f) == IF f.new THEN {} ELSE {"regUser"}

Texted(v) == [kind |-> "text", entered |-> v]
NewLine == 10

Blank == Texted(<<>>)
Stored == Texted(CHOOSE v \in Texts : Required(v))

FormInits ==
  {[new |-> n, form |-> [x \in Fields |-> IF n THEN Blank ELSE Stored],
    default |-> [x \in Fields |-> IF n THEN Blank ELSE Stored],
    focus |-> "none", asking |-> "none", next |-> "none", planned |-> {}, sent |-> <<>>,
    keys |-> 0, clicks |-> 0, yes |-> 0, asked |-> 0,
    refused |-> FALSE] : n \in BOOLEAN}

\* $('#detailForm').submit(): the latest submission of a page replaces one that
\* has not been sent yet.  Of the fields it carries only matters whether all
\* the required ones have a text.
Submit(f, do) ==
  [f EXCEPT !.planned = {[do |-> do, complete |-> \A x \in Fields : Required(f.form[x].entered)]}]

\* onclick of a button, as far as its confirm().
Call(f, do) ==
  CASE do = "sampleList"  -> Submit(f, do)
    [] do = "sampleReset" -> [f EXCEPT !.form = f.default]
    [] OTHER              -> [f EXCEPT !.asking = do, !.asked = @ + 1]

\* What follows confirm(): a message for a form that is not valid, and the
\* focus on its first such field.
ConfirmedBlindly(f, do) == Submit(f, do)
ConfirmedUnfocused(f, do) ==
  IF do = "sampleDelete" \/ ValidateForm(f.form, SampleTable).errors = <<>> THEN Submit(f, do)
  ELSE [f EXCEPT !.refused = TRUE]
Confirmed(f, do) ==
  LET out == ValidateForm(f.form, SampleTable)
  IN  IF do = "sampleDelete" \/ out.errors = <<>> THEN Submit(f, do)
      ELSE [f EXCEPT !.focus = CHOOSE x \in Fields : x \in out.first, !.refused = TRUE]

Idle(f) == f.asking = "none" /\ f.next = "none"

TypeText(x, v) ==
  /\ Idle(form) /\ x \notin ReadOnly(form) /\ form.form[x].entered # v
  /\ form' = [form EXCEPT !.form[x] = Texted(v), !.focus = x]

ClickButton(b) ==
  /\ Idle(form) /\ form.keys + form.clicks < MaxGestures
  /\ form' = Call([form EXCEPT !.focus = b, !.clicks = @ + 1, !.asked = 0, !.refused = FALSE], b)

\* Enter on the button with the focus: the listener of common.js.
PressEnter(b) ==
  /\ Idle(form) /\ form.keys + form.clicks < MaxGestures
  /\ form' = Call([form EXCEPT !.focus = b, !.keys = @ + 1, !.asked = 0, !.refused = FALSE, !.next = b], b)

\* After the listener the browser lets the element that has the focus by then
\* act on Enter: a button is clicked, a textarea gets a new line.
DefaultAction ==
  /\ form.asking = "none" /\ form.next # "none"
  /\ LET done == [form EXCEPT !.next = "none"]
     IN  form' = CASE form.focus \in Buttons(form) -> Call(done, form.focus)
                   [] form.focus = "description"   -> [done EXCEPT !.form["description"].entered = Append(@, NewLine)]
                   [] OTHER                        -> done

\* A browser may drop the key if a dialog has been open meanwhile.
KeyDropped ==
  /\ form.asking = "none" /\ form.next # "none" /\ form.asked > 0
  /\ form' = [form EXCEPT !.next = "none"]

Answer(yes) ==
  LET do == form.asking   heard == [form EXCEPT !.asking = "none"]
  IN  /\ do # "none"
      /\ form' = IF yes THEN Confirmed([heard EXCEPT !.yes = @ + 1], do) ELSE heard

\* The planned request is sent, dialog or no dialog.
Send ==
  /\ form.planned # {} /\ Len(form.sent) < MaxRequests
  /\ form' = [form EXCEPT !.planned = {}, !.sent = Append(@, CHOOSE r \in form.planned : TRUE)]

FormNext == \/ \E x \in Fields, v \in Texts : TypeText(x, v)
            \/ \E b \in Buttons(form) : ClickButton(b) \/ PressEnter(b)
            \/ DefaultAction \/ KeyDropped \/ Send
            \/ \E yes \in BOOLEAN : Answer(yes)

ListInits == {[keyword |-> <<>>, id |-> NoId, page |-> 1, last |-> {}, paged |-> FALSE]}

Request(l, do) ==
  [l EXCEPT !.last = {[do |-> do, keyword |-> l.keyword, id |-> l.id, page |-> l.page]}]

NotNullCheck(v) == v # <<>>

\* The page of a request may be come back to, as it was left.  What Enter calls
\* twice on this page submits the same request again, if any.
TypeKeyword(v) == v # list.keyword /\ list' = [list EXCEPT !.keyword = v]

SampleSearch == NotNullCheck(list.keyword) /\ list' = Request(list, "sampleSearch")

SamplePagination(p) ==
  list' = Request([list EXCEPT !.page = p, !.paged = TRUE], "samplePagination")

SampleCreateAsIs == list' = Request(list, "sampleCreate")
SampleCreate == list' = Request([list EXCEPT !.id = NoId], "sampleCreate")

SampleDetail(id) == list' = Request([list EXCEPT !.id = id], "sampleDetail")

\* Enter in the only text field of a form without a submit button submits the
\* form, past sampleSearch.
EnterInField == list' = Request(list, "submit")

ListNext == \/ \E v \in Texts : TypeKeyword(v)
            \/ SampleSearch \/ SampleCreate \/ EnterInField
            \/ \E p \in ListPages : SamplePagination(p)
            \/ \E id \in Ids : SampleDetail(id)
-----------------------------------------------------------------------------
IsSave(r) == r.do \in {"sampleAdd", "sampleUpdate", "sampleDelete"}
PlannedSaves == {r \in form.planned : IsSave(r)}
SentSaves == {k \in DOMAIN form.sent : IsSave(form.sent[k])}
SaveCount == Cardinality(SentSaves) + Cardinality(PlannedSaves)

\* Every add and update that leaves the page has the three required texts, also
\* if fields change or another button is used while a request is planned.
SavesAreComplete ==
  \A r \in {form.sent[k] : k \in DOMAIN form.sent} \cup form.planned :
    r.do \in {"sampleAdd", "sampleUpdate"} => r.complete

\* Each save has been confirmed by an answer of its own.
SavesAreConfirmed == SaveCount <= form.yes

\* A gesture asks one question; only Enter asks two, and may save twice.
AskedOncePerClick == /\ form.asked <= (IF form.keys = 0 THEN 1 ELSE 2)
                     /\ SaveCount <= form.clicks + 2 * form.keys

\* Nobody is asked a second time about a form that was refused as incomplete:
\* by then the focus has left the button, and Enter does not click on it.
NotAskedAgain ==
  [][form.next # "none" /\ form.refused
       => form'.asking = "none" /\ form'.planned \subseteq form.planned]_form

\* A search for nothing is sent only by Enter in the field, and one that does
\* not start at the first page only from a page come back to.
SearchesAreChecked ==
  \A r \in list.last : /\ r.do = "sampleSearch" => r.keyword # <<>>
                       /\ r.do \in {"sampleSearch", "submit"} => r.page = 1 \/ list.paged

\* The form of a new row is asked for without the id of another row, whichever
\* rows have been looked at before.
NewRowsHaveNoId == \A r \in list.last : r.do = "sampleCreate" => r.id = NoId
=============================================================================
