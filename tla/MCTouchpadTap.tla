---------------------------- MODULE MCTouchpadTap ----------------------------
(* TouchpadTap for a clickpad that tells four touches apart, with every    *)
(* configuration call at any time.                                        *)
EXTENDS TouchpadTap

AllCalls == CallNames

=============================================================================
