--------------------------- MODULE MCTouchpadTyping ---------------------------
(* TouchpadTyping with two keyboards, as for a laptop whose internal       *)
(* keyboard is two devices, and one key of each kind.                      *)
EXTENDS TouchpadTyping
=============================================================================
