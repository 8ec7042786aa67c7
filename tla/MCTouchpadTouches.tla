------------------------- MODULE MCTouchpadTouches -------------------------
(* TouchpadTouches on touchpads that count more fingers than they track.   *)
EXTENDS TouchpadTouches

Model(has_mt, num_slots, real, fingers, contact, quirk, topbuttons) ==
  [has_mt |-> has_mt, num_slots |-> num_slots, real |-> real, fingers |-> fingers,
   contact |-> contact, quirk |-> quirk, topbuttons |-> topbuttons]

\* Two slots and three fingers by BTN_TOUCH and by pressure, one touch and a
\* count, five fingers on two slots, one that only knows sizes, two
\* Synaptics touchpads, and an ALPS touchpad with one slot less than it says.
MCModels ==
  { Model(TRUE, 2, 2, 3, "touch", "none", TRUE),
    Model(TRUE, 2, 2, 3, "pressure", "none", FALSE),
    Model(TRUE, 3, 3, 4, "pressure", "none", FALSE),
    Model(FALSE, 1, 1, 3, "touch", "none", FALSE),
    Model(FALSE, 1, 1, 3, "pressure", "none", FALSE),
    Model(TRUE, 2, 2, 5, "touch", "none", FALSE),
    Model(TRUE, 2, 2, 2, "size", "none", TRUE),
    Model(TRUE, 2, 2, 4, "touch", "synaptics", FALSE),
    Model(TRUE, 2, 2, 3, "pressure", "synaptics", FALSE),
    Model(TRUE, 3, 2, 3, "touch", "alps", FALSE) }
=============================================================================
