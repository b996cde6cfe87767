---------------------------- MODULE MCContentPage ----------------------------
(* A layout whose header is lower than a fifth of the window, one whose    *)
(* header is higher, one with a footer higher than the window, and one     *)
(* with a section lower than the rest of the fifth under the header; two of *)
(* them with gaps, one also over the first section.  The                   *)
(* last list of the menu starts below the position at the bottom.          *)
EXTENDS ContentPage

Pages == {[heights |-> <<30, 40, 30>>, gaps |-> <<0, 0, 0>>, window |-> 50, header |-> 5,  above |-> 10, footer |-> 20],
          [heights |-> <<20, 30>>,     gaps |-> <<5, 12>>,   window |-> 40, header |-> 12, above |-> 20, footer |-> 30],
          [heights |-> <<40, 60, 20>>, gaps |-> <<0, 6, 0>>, window |-> 40, header |-> 4,  above |-> 0,  footer |-> 60],
          [heights |-> <<20, 4, 60>>,  gaps |-> <<0, 0, 0>>, window |-> 50, header |-> 5,  above |-> 10, footer |-> 10]}
Lists == <<10, 40, 95>>
=============================================================================
