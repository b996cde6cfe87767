------------------------------- MODULE Choices -------------------------------
(***************************************************************************)
(* krds_chkBox: boxed checkboxes and radio buttons, whose frame is to look *)
(* as the input in it is.  The script keeps its own idea of whether a      *)
(* checkbox is checked, and hears of clicks only.                          *)
(***************************************************************************)
EXTENDS FiniteSets

CONSTANTS
  Boxes,   \* checkboxes of one group
  Radios   \* radio buttons of another group

ASSUME ChoicesAssumption == Boxes \cap Radios = {} /\ Radios # {}

VARIABLE choice  \* a record of
  \* checked  the inputs that are checked
  \* framed   those whose frame has class checked
  \* believed is_checked of the handler of every checkbox
  \* default  what the page checks, and a reset of the form brings back
  \* stale    history: checkboxes that a reset has changed, not a click
  \* reset    history: a reset has changed the radio button since the last click

ChoiceInits ==
  {[checked |-> b \cup {r}, framed |-> b \cup {r}, believed |-> b, default |-> b \cup {r},
    stale |-> {}, reset |-> FALSE]
     : b \in SUBSET Boxes, r \in Radios}

\* A click: the browser checks or clears the box, the handler its frame.
ClickBox(b) ==
  choice' = [choice EXCEPT !.checked  = IF b \in @ THEN @ \ {b} ELSE @ \cup {b},
                           !.framed   = IF b \in choice.believed THEN @ \ {b} ELSE @ \cup {b},
                           !.believed = IF b \in @ THEN @ \ {b} ELSE @ \cup {b}]

\* The handler of a radio button clears the frames of its group.
ClickRadio(r) ==
  choice' = [choice EXCEPT !.checked = (@ \ Radios) \cup {r},
                           !.framed  = (@ \ Radios) \cup {r},
                           !.reset   = FALSE]

\* form.reset(), as sampleReset calls it: no click listener runs.
ResetForm ==
  LET changed == {b \in Boxes : (b \in choice.checked) # (b \in choice.default)}
  IN  choice' = [choice EXCEPT !.checked = choice.default,
                               !.stale = (@ \ changed) \cup (changed \ @),
                               !.reset = @ \/ choice.checked \cap Radios # choice.default \cap Radios]

ChoiceNext == \/ \E b \in Boxes : ClickBox(b)
              \/ \E r \in Radios : ClickRadio(r)
              \/ ResetForm
-----------------------------------------------------------------------------
\* A frame looks checked exactly if its input is, until a reset of the form: a
\* checkbox that the reset changes looks wrong from then on, click or no click,
\* until another reset changes it back, and a radio button until the next click.
FramesAsChecked ==
  /\ \A b \in Boxes : (b \in choice.framed <=> b \in choice.checked) <=> b \notin choice.stale
  /\ choice.reset \/ choice.framed \cap Radios = choice.checked \cap Radios
=============================================================================
