-------------------------- MODULE MCTouchpadSuspend --------------------------
(* TouchpadSuspend on a seat with one or two mice, which are alike.        *)
EXTENDS TouchpadSuspend, TLC

Alike == Permutations(Mice) \cup Permutations(Slots)
=============================================================================
