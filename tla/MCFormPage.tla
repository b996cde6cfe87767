----------------------------- MODULE MCFormPage ------------------------------
(* The characters a b c d, A, 1, @ and the dot;    a form with an element   *)
(* of every kind, rules of every kind, and a rule that does not exist.      *)
EXTENDS FormPage

Typeable == {97, 98, 99, 100, 65, 49, 64, 46}
Letter(n) == [i \in 1 .. n |-> 97 + (i % 3)]
LongTexts == {Letter(n) : n \in {7, 8, 20, 21}}
FewTexts == {<<32>>, <<97>>}

Opt == <<111>>
FormElements ==
  [mail   |-> [kind |-> "text", values |-> <<<<>>, <<32>>, <<97, 64, 98, 46, 99>>, <<97, 64, 98, 46>>>>],
   secret |-> [kind |-> "text", values |-> <<<<>>, Letter(8), <<97, 98, 99, 100, 101, 102, 103, 104>>>>],
   agree  |-> [kind |-> "checkbox", values |-> <<<<89>>>>],
   kind   |-> [kind |-> "select-one", values |-> <<<<>>, Opt>>],
   sex    |-> [kind |-> "radio list", values |-> <<Opt, <<112>>>>],
   hobby  |-> [kind |-> "checkbox list", values |-> <<Opt, <<112>>>>],
   tags   |-> [kind |-> "select-multiple", values |-> <<<<>>, <<>>>>]]

With(name, n) == [name |-> name, param |-> n]
FormTables ==
  {<<[field |-> "mail",   rules |-> <<Rule("required"), Rule("email"), With("maxlength", 5)>>],
    [field |-> "absent", rules |-> <<Rule("required")>>],
    [field |-> "sex",    rules |-> <<Rule("required"), Rule("english")>>],
    [field |-> "secret", rules |-> <<Rule("password1"), Rule("password3"), Rule("unknown")>>],
    [field |-> "agree",  rules |-> <<Rule("required")>>],
    [field |-> "kind",   rules |-> <<Rule("required"), With("minlength", 1)>>],
    [field |-> "tags",   rules |-> <<Rule("required")>>],
    [field |-> "hobby",  rules |-> <<With("required", FALSE)>>]>>,
   <<[field |-> "tags",   rules |-> <<Rule("required")>>],
     [field |-> "secret", rules |-> <<Rule("pwdCheckSeries"), Rule("required")>>],
     [field |-> "mail",   rules |-> <<With("minlength", 1), Rule("required")>>],
     [field |-> "hobby",  rules |-> <<Rule("english")>>]>>}
=============================================================================
