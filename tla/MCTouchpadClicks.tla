-------------------------- MODULE MCTouchpadClicks --------------------------
(* TouchpadClicks on clickpads with areas at the bottom, at the top and none. *)
EXTENDS TouchpadClicks, TLC

Model(has_mt, num_slots, fingers, contact, topbuttons) ==
  [has_mt |-> has_mt, num_slots |-> num_slots, real |-> num_slots, fingers |-> fingers,
   contact |-> contact, quirk |-> "none", topbuttons |-> topbuttons]

\* Two fingers in the top areas; one finger where the top area is larger
\* while the touchpad is suspended; three fingers on two slots; a middle
\* button that may be emulated; one touch and a count; and pressure with
\* clicks that are not believed without a touch.
TopPad == Model(TRUE, 2, 2, "touch", TRUE)
UpperPad == Model(TRUE, 1, 1, "touch", TRUE)
AreasPad == Model(TRUE, 2, 3, "touch", FALSE)
MiddlePad == Model(TRUE, 2, 2, "touch", FALSE)
SinglePad == Model(FALSE, 1, 2, "touch", FALSE)
FirmPad == Model(TRUE, 1, 2, "pressure", FALSE)

MCModels == {TopPad, UpperPad, AreasPad, MiddlePad, SinglePad, FirmPad}

Feature(spots, methods, start, emulation, phantom) ==
  [spots |-> spots, methods |-> methods, start |-> start, emulation |-> emulation,
   phantom |-> phantom]

MCFeatures ==
  TopPad :> Feature({"top_l", "top_r"}, {"areas"}, "areas", FALSE, FALSE)
  @@ UpperPad :> Feature({"top_m", "upper_l", "main", "bottom_r"}, {"areas"}, "areas", FALSE, FALSE)
  @@ AreasPad :> Feature({"main", "bottom_r"}, {"areas", "clickfinger"}, "areas", FALSE, FALSE)
  @@ MiddlePad :> Feature({"bottom_m", "bottom_r"}, {"areas"}, "areas", TRUE, FALSE)
  @@ SinglePad :> Feature({"main", "bottom_l", "bottom_r"}, {"areas", "none"}, "areas", TRUE, FALSE)
  @@ FirmPad :> Feature({"main", "bottom_r"}, {"areas", "clickfinger"}, "clickfinger", FALSE, TRUE)
=============================================================================
