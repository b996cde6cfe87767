--------------------------- MODULE EgovValidation ----------------------------
(***************************************************************************)
(* The rules of EgovValidation.js and its validateForm.  A value is the    *)
(* sequence of its character codes; a form is a function of its fields,    *)
(* each a record of the kind of its element and of what the user entered.  *)
(***************************************************************************)
EXTENDS Integers, Sequences, SequencesExt, FiniteSets

Blanks   == {9, 10, 13, 32}
Digits   == 48 .. 57
Uppers   == 65 .. 90
Lowers   == 97 .. 122
Letters  == Uppers \cup Lowers
At       == 64
Dot      == 46
\* The special characters that password2 forbids, and those that count for a
\* combination: ~ ! @ # $ % ^ & * ?
Specials == (33 .. 47) \cup (58 .. 64) \cup (91 .. 96) \cup (123 .. 126)
Counted  == {126, 33, 64, 35, 36, 37, 94, 38, 42, 63}

Codes(v)    == {v[i] : i \in DOMAIN v}
Has(v, cs)  == Codes(v) \cap cs # {}
Only(v, cs) == Codes(v) \subseteq cs

Required(v)      == \E i \in DOMAIN v : v[i] \notin Blanks
MaxLength(v, n)  == Len(v) <= n
MinLength(v, n)  == v = <<>> \/ Len(v) >= n
IsInteger(v)     == Only(v, Digits)
English(v)       == Only(v, Letters)

\* ^[^\s@]+@[^\s@]+\.[^\s@]+$
Email(v) ==
  LET Part(i, j) == i <= j /\ \A k \in i .. j : v[k] \notin Blanks \cup {At}
  IN  v = <<>> \/ \E a, d \in DOMAIN v : /\ v[a] = At /\ v[d] = Dot
                                         /\ Part(1, a - 1) /\ Part(a + 1, d - 1)
                                         /\ Part(d + 1, Len(v))

Password1(v) == v = <<>> \/ (Len(v) >= 8 /\ Len(v) <= 20)
Password2(v) == ~Has(v, Specials)

\* One turn of password3's loop over two counters: cnt2 of ascending characters
\* and cnt3 of descending ones, as pair s; a counter of 4 ends the loop.
CountRunsOn(v, s, i) ==
  IF 4 \in {s[1], s[2]} THEN s
  ELSE <<IF v[i] - v[i - 1] = 1 THEN s[1] + 1 ELSE s[1], IF v[i] - v[i - 1] = -1 THEN s[2] + 1 ELSE s[2]>>
CountRuns(v, s, i) ==
  IF 4 \in {s[1], s[2]} THEN s
  ELSE <<IF v[i] - v[i - 1] = 1 THEN s[1] + 1 ELSE 1, IF v[i] - v[i - 1] = -1 THEN s[2] + 1 ELSE 1>>
Password3(v) ==
  LET counts[i \in 0 .. Len(v)] == IF i <= 1 THEN <<1, 1>> ELSE CountRuns(v, counts[i - 1], i)
  IN  4 \notin {counts[Len(v)][1], counts[Len(v)][2]}

Password4(v) == \A i \in 1 .. Len(v) - 3 : ~(v[i] = v[i + 1] /\ v[i] = v[i + 2] /\ v[i] = v[i + 3])

Kinds(v, classes) == Cardinality({c \in classes : Has(v, c)})
PwdCheckComb3(v) == v = <<>> \/ Kinds(v, {Letters, Digits, Counted}) >= 3
PwdCheckComb4(v) == v = <<>> \/ Kinds(v, {Uppers, Lowers, Digits, Counted}) >= 4

PwdCheckSeries(v) ==
  \A i \in 1 .. Len(v) - 2 : ~((v[i + 1] - v[i] = 1 /\ v[i + 2] - v[i + 1] = 1)
                               \/ (v[i] - v[i + 1] = 1 /\ v[i + 1] - v[i + 2] = 1))
PwdCheckRepeat(v) == \A i \in 1 .. Len(v) - 2 : ~(v[i] = v[i + 1] /\ v[i] = v[i + 2])

\* A rule that validateForm does not know, it passes over; whether a rule
\* without parameter is set to true or to something else makes no difference.
Holds(rule, v) ==
  CASE rule.name = "required"       -> Required(v)
    [] rule.name = "maxlength"      -> MaxLength(v, rule.param)
    [] rule.name = "minlength"      -> MinLength(v, rule.param)
    [] rule.name = "integer"        -> IsInteger(v)
    [] rule.name = "english"        -> English(v)
    [] rule.name = "email"          -> Email(v)
    [] rule.name = "password1"      -> Password1(v)
    [] rule.name = "password2"      -> Password2(v)
    [] rule.name = "password3"      -> Password3(v)
    [] rule.name = "password4"      -> Password4(v)
    [] rule.name = "pwdCheckComb3"  -> PwdCheckComb3(v)
    [] rule.name = "pwdCheckComb4"  -> PwdCheckComb4(v)
    [] rule.name = "pwdCheckSeries" -> PwdCheckSeries(v)
    [] rule.name = "pwdCheckRepeat" -> PwdCheckRepeat(v)
    [] OTHER                        -> TRUE

Comma == <<44>>

\* values.join(',')
Joined(vs) == IF vs = <<>> THEN <<>>
              ELSE FoldLeft(LAMBDA a, v : a \o Comma \o v, Head(vs), Tail(vs))

\* What was entered is the text, whether a box is checked, or the numbers of the
\* chosen ones among .values.  Several elements of one name are a list without a
\* type: its value is that of the checked radio button, and empty for checkboxes.
GetFieldValue(f) ==
  CASE f.kind = "text"                -> f.entered
    [] f.kind = "checkbox"            -> IF f.entered THEN f.values[1] ELSE <<>>
    [] f.kind \in {"select-one", "radio list"}
         -> IF f.entered = {} THEN <<>> ELSE f.values[CHOOSE k \in f.entered : TRUE]
    [] f.kind = "select-multiple"
         -> Joined([k \in 1 .. Cardinality(f.entered) |-> f.values[SetToSortSeq(f.entered, <)[k]]])
    [] f.kind = "checkbox list"       -> <<>>

\* The rules of one field that its value breaks.
Broken(form, row) == {k \in DOMAIN row.rules : ~Holds(row.rules[k], GetFieldValue(form[row.field]))}
Least(S) == CHOOSE k \in S : \A j \in S : k <= j
Message(form, row) == <<row.field, row.rules[Least(Broken(form, row))].name>>

\* One field of the table of rules: at most one message, of its first failing
\* rule; the first field that fails is remembered.
CheckFieldLast(form, out, row) ==
  IF row.field \notin DOMAIN form \/ Broken(form, row) = {} THEN out
  ELSE [errors |-> Append(out.errors, Message(form, row)), first |-> {row.field}]
CheckField(form, out, row) ==
  IF row.field \notin DOMAIN form \/ Broken(form, row) = {} THEN out
  ELSE [errors |-> Append(out.errors, Message(form, row)),
        first  |-> IF out.first = {} THEN {row.field} ELSE out.first]

\* The messages, none if the form is valid, and the field to get the focus.
ValidateForm(form, table) ==
  LET out[n \in 0 .. Len(table)] ==
        IF n = 0 THEN [errors |-> <<>>, first |-> {}] ELSE CheckField(form, out[n - 1], table[n])
  IN  out[Len(table)]

Rule(name) == [name |-> name, param |-> TRUE]

\* validateSampleVO
SampleTable == <<[field |-> "name",        rules |-> <<Rule("required")>>],
                 [field |-> "description", rules |-> <<Rule("required")>>],
                 [field |-> "regUser",     rules |-> <<Rule("required")>>]>>
=============================================================================
