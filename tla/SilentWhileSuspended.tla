------------------------ MODULE SilentWhileSuspended ------------------------
(***************************************************************************)
(* What suspending a touchpad promises to everything behind it: while      *)
(* there is a reason to suspend it no touch is reported, and a change of   *)
(* the reasons never leaves a touch alive that was reported before.        *)
(***************************************************************************)
CONSTANTS
  Reasons,  \* the reasons to suspend the touchpad
  Slots     \* the touches it can report

VARIABLES
  reasons,  \* the reasons that hold now
  reported  \* the touches that are down for taps, gestures and motion

vars == <<reasons, reported>>

Init == reasons \in SUBSET Reasons /\ reported = {}

\* Touches come and go, but only when nothing suspends the touchpad.
Report ==
  /\ reasons = {}
  /\ reported' \in SUBSET Slots
  /\ UNCHANGED reasons

\* Whatever changes the reasons lifts every touch.
Change ==
  /\ reasons' \in SUBSET Reasons
  /\ reported' = {}

Next == Report \/ Change

Spec == Init /\ [][Next]_vars
=============================================================================
