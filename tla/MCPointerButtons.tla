--------------------------- MODULE MCPointerButtons ---------------------------
(* PointerButtons for a mouse with a side button and a button from the     *)
(* range that scrolls without delay.                                       *)
EXTENDS PointerButtons

MCCodeOrder == <<LEFT, RIGHT, MIDDLE, "BTN_FORWARD">>

MCDedicated == {"BTN_FORWARD"}

Setting(m, b, l) == [method |-> m, button |-> b, lock |-> l]

MCScrollSettings ==
  {Setting("none", NoScrollButton, FALSE), Setting("on_button", LEFT, TRUE),
   Setting("on_button", MIDDLE, FALSE), Setting("on_button", "BTN_FORWARD", FALSE)}

Configured == {"left_handed", "scroll"}
=============================================================================
