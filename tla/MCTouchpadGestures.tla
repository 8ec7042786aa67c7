------------------------ MODULE MCTouchpadGestures ------------------------
(* TouchpadGestures on a touchpad with many slots, with and without        *)
(* tapping, one with fewer slots than fingers, a semi-mt one and one with  *)
(* a single touch.                                                         *)
EXTENDS TouchpadGestures

Touchpad(slots, semi_mt, tapping) == [slots |-> slots, semi_mt |-> semi_mt, tap |-> tapping]

MCPads ==
  { Touchpad(5, FALSE, TRUE), Touchpad(5, FALSE, FALSE), Touchpad(2, FALSE, TRUE),
    Touchpad(2, TRUE, FALSE), Touchpad(1, FALSE, TRUE) }
=============================================================================
