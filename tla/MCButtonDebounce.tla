--------------------------- MODULE MCButtonDebounce ---------------------------
(* ButtonDebounce for a mouse with two buttons.  The cfg keeps the order   *)
(* and the ratio of 25 to 12 ms: two short timeouts fit into a long one.   *)
EXTENDS ButtonDebounce

CONSTANTS BTN_LEFT, BTN_RIGHT

MouseButtons == {BTN_LEFT, BTN_RIGHT}
=============================================================================
