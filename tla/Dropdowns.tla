----------------------------- MODULE Dropdowns -------------------------------
(***************************************************************************)
(* krds_dropEvent, krds_contextualHelp and krds_adjustContentScale: what   *)
(* the handlers of drop-down menus and of help popovers do to their state. *)
(* Of the drop-downs:                                                      *)
(*   shown    those whose menu is displayed                                *)
(*   active   the buttons with class active, aria-expanded = true          *)
(*   chosen   the item of every menu with class active                     *)
(*   selected the item of every menu with aria-selected = true             *)
(*   scale    the zoom of the body, as the item it belongs to              *)
(* Of the popovers:                                                        *)
(*   shown    those displayed                                              *)
(*   active   the buttons with aria-expanded = true                        *)
(*   armed    those on which a focusout listener has been registered       *)
(***************************************************************************)
CONSTANTS
  Drops,    \* drop-downs
  Items,    \* the items of each
  Scaling,  \* the drop-downs whose items set the zoom of the page
  Default,  \* the item of the default zoom
  NoItem,
  Helps     \* contextual helps

ASSUME DropsAssumption == /\ Scaling \subseteq Drops /\ \A d, e \in Scaling : d = e
                          /\ \A d \in Drops : NoItem \notin Items[d]
                          /\ \A d \in Scaling : Default \in Items[d]

DropInit == [shown |-> {}, active |-> {}, chosen |-> [d \in Drops |-> NoItem],
             selected |-> [d \in Drops |-> NoItem], scale |-> Default]

CloseAllDropdowns(s) == [s EXCEPT !.shown = {}, !.active = {}]

\* The button's click handler.
ClickDrop(s, d) == IF d \in s.shown THEN CloseAllDropdowns(s)
                   ELSE [CloseAllDropdowns(s) EXCEPT !.shown = {d}, !.active = {d}]

ActivateMenuItem(s, d, i) == [s EXCEPT !.chosen[d] = i, !.selected[d] = i]

\* The click handler of a button of a zoom; the one for the default zoom also
\* marks the default item, and leaves it unselected.
ScaleContent(s, d, i) ==
  IF i = Default THEN [s EXCEPT !.scale = i, !.chosen[d] = i, !.selected[d] = NoItem]
  ELSE [s EXCEPT !.scale = i]

\* An item's click handlers: krds_dropEvent's, then krds_adjustContentScale's.
ClickItem(s, d, i) ==
  LET picked == CloseAllDropdowns(ActivateMenuItem(s, d, i))
  IN  IF d \in Scaling THEN ScaleContent(picked, d, i) ELSE picked

HelpInit == [shown |-> {}, active |-> {}, armed |-> {}]

CloseAllTooltips(s) == [s EXCEPT !.shown = {}, !.active = {}]

ToggleTooltip(s, h) == IF h \in s.shown THEN CloseAllTooltips(s)
                       ELSE [CloseAllTooltips(s) EXCEPT !.shown = {h}, !.active = {h}]

\* The document's click listener: a click inside a help registers one more
\* focusout listener on its popover, a click elsewhere closes all.
ClickDocumentUnarmed(s, inside) == IF inside = {} THEN CloseAllTooltips(s) ELSE s
ClickDocument(s, inside) == IF inside = {} THEN CloseAllTooltips(s)
                            ELSE [s EXCEPT !.armed = @ \cup inside]
=============================================================================
