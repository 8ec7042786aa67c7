----------------------------- MODULE MiddleButton -----------------------------
(***************************************************************************)
(* The state machine of the middle button emulation                        *)
(* (src/evdev-middle-button.c): a left and a right button pressed together *)
(* are a middle button.  The left and the right half of the machine are    *)
(* mirror images, so each row below stands for two of the code: `own' is   *)
(* the button the state is named for and Other(own) its partner.           *)
(***************************************************************************)
LEFT   == "BTN_LEFT"
RIGHT  == "BTN_RIGHT"
MIDDLE == "BTN_MIDDLE"

Sides == {LEFT, RIGHT}

Other(own) == IF own = LEFT THEN RIGHT ELSE LEFT

\* LEFT_DOWN and RIGHT_DOWN, LEFT_UP_PENDING and RIGHT_UP_PENDING, ...
DownState(own) == IF own = LEFT THEN "LEFT_DOWN" ELSE "RIGHT_DOWN"
UpPending(own) == IF own = LEFT THEN "LEFT_UP_PENDING" ELSE "RIGHT_UP_PENDING"
Ignore(own)    == IF own = LEFT THEN "IGNORE_L" ELSE "IGNORE_R"

MiddleStates ==
  {"IDLE", "LEFT_DOWN", "RIGHT_DOWN", "MIDDLE", "LEFT_UP_PENDING",
   "RIGHT_UP_PENDING", "PASSTHROUGH", "IGNORE_LR", "IGNORE_L", "IGNORE_R"}

\* The states middlebutton_set_state arms the 50 ms timer in; every other
\* state cancels it.
TimedStates == {"LEFT_DOWN", "RIGHT_DOWN"}

(* The event a button change is to the machine; "timeout" and "all_up" are *)
(* the two that no button makes.                                           *)
ButtonEvent(button, press) ==
  IF button \in Sides
    THEN [kind |-> IF press THEN "down" ELSE "up", side |-> button]
    ELSE [kind |-> "other", side |-> button]

TimeoutEvent == [kind |-> "timeout", side |-> "none"]
AllUpEvent   == [kind |-> "all_up", side |-> "none"]

-----------------------------------------------------------------------------
(* What an event does: the next state, the button events it posts, whether *)
(* the button change goes on to the caller (rc 0) and whether              *)
(* middlebutton_state_error reports it.                                    *)
Keep     == [to |-> "same", post |-> <<>>, pass |-> FALSE, error |-> FALSE]
PassOn   == [Keep EXCEPT !.pass = TRUE]
Error    == [Keep EXCEPT !.error = TRUE]
To(s)    == [Keep EXCEPT !.to = s]
Posting(s, post) == [Keep EXCEPT !.to = s, !.post = post]

Press(b)   == [button |-> b, press |-> TRUE]
Release(b) == [button |-> b, press |-> FALSE]

Idle(e) ==
  CASE e.kind = "down"   -> To(DownState(e.side))
    [] e.kind = "other"  -> PassOn
    [] e.kind = "all_up" -> Keep
    [] OTHER -> Error

OneDown(own, e) ==
  CASE e.kind = "down" /\ e.side # own -> Posting("MIDDLE", <<Press(MIDDLE)>>)
    [] e.kind = "other" ->
         [Posting("PASSTHROUGH", <<Press(own)>>) EXCEPT !.pass = TRUE]
    [] e.kind = "up" /\ e.side = own ->
         Posting("IDLE", <<Press(own), Release(own)>>)
    [] e.kind = "timeout" -> Posting("PASSTHROUGH", <<Press(own)>>)
    [] OTHER -> Error

\* Slip: a third button leaves the emulated one pressed.
BothDownHolding(e) ==
  CASE e.kind = "other" -> [To("IGNORE_LR") EXCEPT !.pass = TRUE]
    [] e.kind = "up" -> Posting(UpPending(Other(e.side)), <<Release(MIDDLE)>>)
    [] OTHER -> Error

BothDown(e) ==
  CASE e.kind = "other" ->
         [Posting("IGNORE_LR", <<Release(MIDDLE)>>) EXCEPT !.pass = TRUE]
    [] e.kind = "up" -> Posting(UpPending(Other(e.side)), <<Release(MIDDLE)>>)
    [] OTHER -> Error

OneUpPending(own, e) ==
  CASE e.kind = "down" /\ e.side # own -> Posting("MIDDLE", <<Press(MIDDLE)>>)
    [] e.kind = "other" -> [To(Ignore(own)) EXCEPT !.pass = TRUE]
    [] e.kind = "up" /\ e.side = own -> To("IDLE")
    [] OTHER -> Error

Passthrough(e) ==
  CASE e.kind = "timeout" -> Error
    [] e.kind = "all_up"  -> To("IDLE")
    [] OTHER -> PassOn

\* Slip: the state is named for the button that went up.
IgnoreBothSwapped(e) ==
  CASE e.kind = "other" -> PassOn
    [] e.kind = "up" -> To(Ignore(e.side))
    [] OTHER -> Error

IgnoreBoth(e) ==
  CASE e.kind = "other" -> PassOn
    [] e.kind = "up" -> To(Ignore(Other(e.side)))
    [] OTHER -> Error

\* IGNORE_R takes a timeout and ALL_UP without a word.
IgnoreOne(own, e) ==
  CASE e.kind = "up" /\ e.side = own   -> To("PASSTHROUGH")
    [] e.kind = "down" /\ e.side = own -> Error
    [] e.kind \in {"timeout", "all_up"} -> IF own = LEFT THEN Error ELSE Keep
    [] OTHER -> PassOn

MiddleReaction(state, e) ==
  CASE state = "IDLE"             -> Idle(e)
    [] state = "LEFT_DOWN"        -> OneDown(LEFT, e)
    [] state = "RIGHT_DOWN"       -> OneDown(RIGHT, e)
    [] state = "MIDDLE"           -> BothDown(e)
    [] state = "LEFT_UP_PENDING"  -> OneUpPending(LEFT, e)
    [] state = "RIGHT_UP_PENDING" -> OneUpPending(RIGHT, e)
    [] state = "PASSTHROUGH"      -> Passthrough(e)
    [] state = "IGNORE_LR"        -> IgnoreBoth(e)
    [] state = "IGNORE_L"         -> IgnoreOne(LEFT, e)
    [] OTHER                      -> IgnoreOne(RIGHT, e)
=============================================================================
