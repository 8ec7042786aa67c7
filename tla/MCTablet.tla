------------------------------ MODULE MCTablet ------------------------------
(* Tablet on one model of each kind, with the features that matter for it. *)
EXTENDS Tablet, TLC

Features(kind, tools, features) ==
  [kind |-> kind, tools |-> tools] @@
    [feature \in {"pressure", "tilt", "area", "pen_bit"} |-> feature \in features]

\* A pen display with tilt, an Intuos with a mouse, a tablet whose active area
\* is smaller, a pen with an eraser, and the kinds the plugins are for.
MCModels ==
  { Features("proper", {"pen"}, {"pressure", "tilt"}),
    Features("proper", {"pen", "mouse"}, {}),
    Features("proper", {"pen"}, {"pressure", "area", "pen_bit"}),
    Features("proper", {"pen", "rubber"}, {"pressure"}),
    Features("sticky", {"pen"}, {"pen_bit"}),
    Features("toolless", {"pen"}, {"pressure"}),
    Features("toolless", {"pen"}, {"pen_bit"}),
    Features("doubled", {"pen", "rubber"}, {"pressure", "pen_bit"}) }
=============================================================================
