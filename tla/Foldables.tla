------------------------------ MODULE Foldables ------------------------------
(***************************************************************************)
(* krds_accordion and krds_disclosure.  An accordion of type singleOpen    *)
(* closes its other items when an item is opened.                          *)
(***************************************************************************)
EXTENDS FiniteSets, Naturals

CONSTANTS
  Folds,       \* the items of an accordion
  Disclosures

VARIABLE fold  \* a record of
  \* multi      the accordion has type multiOpen
  \* active     items with class active
  \* expanded   items whose button is active, aria-expanded = true
  \* shown      disclosures with class active
  \* told       ... whose button has aria-expanded = true
  \* inert      ... whose content is inert

\* setupAccordions, setupDisclosure: items may be active in the page, and an
\* accordion of class is-open has them all so.
FoldInits ==
  {[multi |-> multi, active |-> a, expanded |-> a, shown |-> d, told |-> d, inert |-> Disclosures \ d]
     : multi \in BOOLEAN, a \in SUBSET Folds, d \in SUBSET Disclosures}

\* accordionToggle
ToggleFold(i) ==
  LET kept == IF fold.multi \/ i \in fold.active THEN fold
              ELSE [fold EXCEPT !.active = {}, !.expanded = {}]
  IN  fold' = IF i \in fold.expanded
              THEN [kept EXCEPT !.active = @ \ {i}, !.expanded = @ \ {i}]
              ELSE [kept EXCEPT !.active = @ \cup {i}, !.expanded = @ \cup {i}]

ToggleDisclosure(d) ==
  fold' = IF d \in fold.told
          THEN [fold EXCEPT !.shown = @ \ {d}, !.told = @ \ {d}, !.inert = @ \cup {d}]
          ELSE [fold EXCEPT !.shown = @ \cup {d}, !.told = @ \cup {d}, !.inert = @ \ {d}]

FoldNext == \/ \E i \in Folds : ToggleFold(i)
            \/ \E d \in Disclosures : ToggleDisclosure(d)
-----------------------------------------------------------------------------
\* What is unfolded is what screen readers are told, and folded content is out
\* of reach of the keyboard.
FoldsTold == /\ fold.expanded = fold.active
             /\ fold.told = fold.shown /\ fold.inert = Disclosures \ fold.shown

\* Opening an item of a singleOpen accordion leaves no other one open, however
\* many were open in the page as it was loaded.
OneItemOpen ==
  ~fold.multi /\ fold'.active \ fold.active # {} => Cardinality(fold'.active) = 1
=============================================================================
