-------------------------- MODULE TouchpadGestures --------------------------
(* Pointer motion, two-finger scrolling, swipe, pinch and hold gestures    *)
(* and the three-finger drag of a touchpad                                 *)
(* (evdev-mt-touchpad-gestures.c), fed by frames that say how many touches *)
(* are active and how they moved, and by the timers.                       *)
(*                                                                         *)
(* Left out: where the touches are and how fast.  What their motion        *)
(* amounts to is an input of the frame, restricted to what                 *)
(* tp_gesture_detect_motion_gestures can make of that many fingers.  Of    *)
(* the other parts of the touchpad only what reaches the gestures: the     *)
(* kind of state that tapping is in (TouchpadTap), whether a click or      *)
(* typing interferes, whether the touchpad is suspended.  A thumb is a     *)
(* touch that is no longer active.                                         *)
EXTENDS Naturals, Sequences, Functions

CONSTANTS
  Pads,        \* the touchpads: slots, semi_mt, and whether tapping is enabled
  MaxFingers,  \* most fingers at a time
  DragCounts,  \* the finger counts the three-finger drag can be configured to
  Late         \* may timers be dispatched so late that a newer one comes first

ASSUME GesturesAssumption ==
  /\ Pads \subseteq [slots : Nat \ {0}, semi_mt : BOOLEAN, tap : BOOLEAN]
  /\ MaxFingers \in Nat
  /\ DragCounts \subseteq {3, 4}
  /\ Late \in BOOLEAN

VARIABLES
  pad,        \* the touchpad
  fingers,    \* the last frame: how many touches are active, is any touch down
  suspended,  \* does the device post no gestures
  g           \* tp->gesture, tp->drag_3fg and tp->scroll, the kind of state
              \* that tapping is in, and the client's view

vars == <<pad, fingers, suspended, g>>

GestureStates ==
  {"NONE", "UNKNOWN", "HOLD", "HOLD_AND_MOTION", "POINTER_MOTION", "SCROLL_START",
   "SCROLL", "PINCH_START", "PINCH", "SWIPE_START", "SWIPE", "DRAG_OR_SWIPE_START",
   "DRAG_OR_SWIPE", "DRAG_START", "DRAG", "DRAG_RELEASED"}

\* off: disabled.  touch: fingers down, waiting for a timeout.  double: a
\* second tap or a drag.  hold, dead: no tap any more.  other: all the rest.
TapKinds == {"off", "other", "touch", "double", "hold", "dead", "drag"}

NoTap == IF pad.tap THEN "other" ELSE "off"
NoGesture == [kind |-> "none", fingers |-> 0]

Enabled == ~pad.semi_mt /\ pad.slots > 1

-----------------------------------------------------------------------------
(* What the client is told.                                                *)

\* Without LIBINPUT_DEVICE_CAP_GESTURE gestures are not posted (gesture_notify).
Begin(s, kind) ==
  IF Enabled THEN [s EXCEPT !.open = [kind |-> kind, fingers |-> s.count],
                            !.wrong = @ \/ s.open # NoGesture]
  ELSE s

End(s, kind) ==
  IF Enabled THEN [s EXCEPT !.open = NoGesture,
                            !.wrong = @ \/ s.open # [kind |-> kind, fingers |-> s.count]]
  ELSE s

Press(s)   == [s EXCEPT !.button = TRUE, !.wrong = @ \/ s.button]
Release(s) == [s EXCEPT !.button = FALSE, !.wrong = @ \/ ~s.button]

\* tp_gesture_stop_twofinger_scroll
StopScroll(s) == IF s.twofinger THEN [s EXCEPT !.scrolling = FALSE] ELSE s

Bug(s, e) == [s EXCEPT !.bugs = @ \cup {<<s.state, e>>}]

To(s, state)   == [s EXCEPT !.state = state]
Unheld(s)      == [s EXCEPT !.hold_timer = FALSE]
Nothing(s)     == Unheld(To(s, "NONE"))

Closing == {"RESET", "END", "CANCEL"}

-----------------------------------------------------------------------------
(* The events of each state.  A handler that calls tp_gesture_cancel gets  *)
(* its own CANCEL.                                                         *)

Quick(s) == s.count \in {1, 2}

UseHoldTimer(s) ==
  \/ s.tap = "off" \/ Quick(s) \/ s.count > 3
  \/ s.tap \in {"hold", "dead"}

SetHoldTimer(s) ==
  IF s.hold_enabled /\ UseHoldTimer(s) THEN [s EXCEPT !.hold_timer = TRUE] ELSE s

OnNone(s, e) ==
  CASE e \in Closing -> Unheld(s)
    [] e = "FINGER_DETECTED" ->
         IF ~pad.tap /\ s.nfingers = s.count THEN To(s, "DRAG_OR_SWIPE_START")
         ELSE To(SetHoldTimer(s), "UNKNOWN")
    [] e \in {"HOLD_TIMEOUT", "TAP_TIMEOUT"} -> s
    [] e = "POINTER_MOTION_START" -> To(s, "POINTER_MOTION")
    [] e = "SCROLL_START" -> To(s, "SCROLL_START")
    [] OTHER -> Bug(s, e)

OnUnknown(s, e) ==
  CASE e \in Closing -> Nothing(s)
    [] e = "FINGER_SWITCH_TIMEOUT" -> s
    [] e \in {"HOLD_TIMEOUT", "TAP_TIMEOUT"} -> Begin(To(s, "HOLD"), "hold")
    [] e = "POINTER_MOTION_START" -> To(s, "POINTER_MOTION")
    [] e \in {"SCROLL_START", "SWIPE_START", "PINCH_START", "DRAG_OR_SWIPE_START"} ->
         Unheld(To(s, e))
    [] OTHER -> Bug(s, e)

HoldEnded(s) == End(Nothing(s), "hold")

OnHold(s, e) ==
  CASE e \in {"END", "CANCEL", "FINGER_SWITCH_TIMEOUT"} -> HoldEnded(s)
    [] e = "HOLD_AND_MOTION_START" -> To(s, "HOLD_AND_MOTION")
    [] e = "POINTER_MOTION_START" -> To(HoldEnded(s), "POINTER_MOTION")
    [] e \in {"SCROLL_START", "SWIPE_START", "PINCH_START", "DRAG_OR_SWIPE_START"} ->
         To(HoldEnded(s), e)
    [] OTHER -> Bug(s, e)

\* Slip: a hold that moves does not expect the finger count to change.
OnHoldAndMotionFixed(s, e) ==
  CASE e \in {"END", "CANCEL"} -> HoldEnded(s)
    [] e = "POINTER_MOTION_START" -> To(HoldEnded(s), "POINTER_MOTION")
    [] OTHER -> Bug(s, e)

OnHoldAndMotion(s, e) ==
  CASE e \in {"END", "CANCEL", "FINGER_SWITCH_TIMEOUT"} -> HoldEnded(s)
    [] e = "POINTER_MOTION_START" -> To(HoldEnded(s), "POINTER_MOTION")
    [] OTHER -> Bug(s, e)

\* `near': the finger is still within the threshold of a hold with motion.
OnPointerMotion(s, e, near) ==
  CASE e \in Closing -> Nothing(s)
    [] e \in {"HOLD_TIMEOUT", "TAP_TIMEOUT"} ->
         IF s.count = 1 /\ near THEN Begin(To(s, "HOLD_AND_MOTION"), "hold") ELSE s
    [] OTHER -> Bug(s, e)

OnScrollStart(s, e) ==
  CASE e \in Closing -> Nothing(s)
    [] e = "FINGER_SWITCH_TIMEOUT" -> s
    [] e = "PINCH_START" -> To(Nothing(s), "PINCH_START")
    [] OTHER -> Bug(s, e)

\* Slip: a scroll ends without telling the client.
ScrollForgotten(s) == Nothing(s)

ScrollEnded(s) == Nothing(StopScroll(s))

OnScroll(s, e) ==
  CASE e \in Closing \cup {"FINGER_SWITCH_TIMEOUT"} -> ScrollEnded(s)
    [] e = "PINCH_START" -> To(ScrollEnded(s), "PINCH_START")
    [] OTHER -> Bug(s, e)

\* The only state that stays when it is reset.
OnPinchStart(s, e) ==
  CASE e \in Closing -> Unheld(s)
    [] e = "FINGER_SWITCH_TIMEOUT" -> s
    [] OTHER -> Bug(s, e)

OnPinch(s, e) ==
  CASE e \in {"END", "CANCEL", "FINGER_SWITCH_TIMEOUT"} -> End(Nothing(s), "pinch")
    [] OTHER -> Bug(s, e)

OnSwipeStart(s, e) ==
  CASE e \in Closing -> Nothing(s)
    [] e = "FINGER_SWITCH_TIMEOUT" -> s
    [] OTHER -> Bug(s, e)

OnSwipe(s, e) ==
  CASE e \in {"END", "CANCEL", "FINGER_SWITCH_TIMEOUT"} -> End(Nothing(s), "swipe")
    [] OTHER -> Bug(s, e)

OnDragOrSwipeStart(s, e) ==
  CASE e \in Closing -> Nothing(s)
    [] e = "FINGER_SWITCH_TIMEOUT" -> s
    [] OTHER -> Bug(s, e)

\* Its end leaves the timer armed.  `near': the fingers have moved less than
\* a swipe does in that time.
OnDragOrSwipe(s, e, near) ==
  CASE e = "RESET" -> Nothing(s)
    [] e \in {"END", "CANCEL"} -> To(End(s, "swipe"), "NONE")
    [] e = "FINGER_SWITCH_TIMEOUT" -> s
    [] e = "DRAG_OR_SWIPE_TIMEOUT" ->
         IF near THEN To(End([s EXCEPT !.swipe_timer = FALSE], "swipe"), "DRAG_START")
         ELSE To([s EXCEPT !.swipe_timer = FALSE], "SWIPE")
    [] OTHER -> Bug(s, e)

OnDragStart(s, e) ==
  CASE e \in Closing -> Nothing(s)
    [] e = "FINGER_SWITCH_TIMEOUT" -> s
    [] OTHER -> Bug(s, e)

\* Slip: nothing times the wait for the fingers to return.
OnDragUntimed(s, e) ==
  CASE e = "CANCEL" -> To(Release(s), "NONE")
    [] e = "END" -> To(s, "DRAG_RELEASED")
    [] e = "FINGER_SWITCH_TIMEOUT" -> IF s.pending < 2 THEN To(Release(s), "NONE") ELSE s
    [] e = "TAP_TIMEOUT" -> s
    [] OTHER -> Bug(s, e)

OnDrag(s, e) ==
  CASE e = "CANCEL" -> To(Release(s), "NONE")
    [] e = "END" -> To([s EXCEPT !.drag_timer = TRUE], "DRAG_RELEASED")
    [] e = "FINGER_SWITCH_TIMEOUT" -> IF s.pending < 2 THEN To(Release(s), "NONE") ELSE s
    [] e = "TAP_TIMEOUT" -> s
    [] OTHER -> Bug(s, e)

OnDragReleased(s, e) ==
  LET untimed == [s EXCEPT !.drag_timer = FALSE]
  IN  CASE e \in {"END", "CANCEL", "DRAG_RELEASE_TIMEOUT"} ->
             To(Release([untimed EXCEPT !.switch_timer = FALSE]), "NONE")
        [] e \in {"FINGER_SWITCH_TIMEOUT", "TAP_TIMEOUT"} ->
             IF s.pending = s.nfingers THEN To(untimed, "DRAG") ELSE s
        [] e = "FINGER_DETECTED" -> s
        [] e = "POINTER_MOTION_START" -> To(Release(untimed), "POINTER_MOTION")
        [] e = "SCROLL_START" -> To(Release(untimed), "SCROLL_START")
        [] e \in {"SWIPE_START", "PINCH_START"} -> To(untimed, "DRAG")
        [] OTHER -> Bug(s, e)

\* tp_gesture_handle_event
Handle(s, e, near) ==
  CASE s.state = "NONE" -> OnNone(s, e)
    [] s.state = "UNKNOWN" -> OnUnknown(s, e)
    [] s.state = "HOLD" -> OnHold(s, e)
    [] s.state = "HOLD_AND_MOTION" -> OnHoldAndMotion(s, e)
    [] s.state = "POINTER_MOTION" -> OnPointerMotion(s, e, near)
    [] s.state = "SCROLL_START" -> OnScrollStart(s, e)
    [] s.state = "SCROLL" -> OnScroll(s, e)
    [] s.state = "PINCH_START" -> OnPinchStart(s, e)
    [] s.state = "PINCH" -> OnPinch(s, e)
    [] s.state = "SWIPE_START" -> OnSwipeStart(s, e)
    [] s.state = "SWIPE" -> OnSwipe(s, e)
    [] s.state = "DRAG_OR_SWIPE_START" -> OnDragOrSwipeStart(s, e)
    [] s.state = "DRAG_OR_SWIPE" -> OnDragOrSwipe(s, e, near)
    [] s.state = "DRAG_START" -> OnDragStart(s, e)
    [] s.state = "DRAG" -> OnDrag(s, e)
    [] OTHER -> OnDragReleased(s, e)

\* tp_gesture_end
Undecided == {"NONE", "UNKNOWN", "SCROLL_START", "PINCH_START", "SWIPE_START",
              "DRAG_START", "DRAG_OR_SWIPE_START"}

Ended(s, how) == Handle(s, IF s.state \in Undecided THEN "RESET" ELSE how, FALSE)
Cancel(s) == Ended(s, "CANCEL")
Stop(s)   == Ended(s, "END")

CancelMotion(s) ==
  IF s.state \in {"HOLD_AND_MOTION", "POINTER_MOTION", "SCROLL", "PINCH", "SWIPE",
                  "DRAG_OR_SWIPE", "DRAG_OR_SWIPE_START"}
    THEN Cancel(s) ELSE s

-----------------------------------------------------------------------------
(* What a frame does.  `m' is how the touches moved: whether they did in   *)
(* this frame (moved), and what they did since the gesture began (way):    *)
(* too little to tell, in parallel, apart, or one of them stayed behind    *)
(* like a resting thumb.                                                   *)

Ways == {"undecided", "parallel", "apart", "thumb"}
Motions == [moved : {TRUE}, way : Ways] \cup [moved : {FALSE}, way : {"undecided", "parallel"}]
Still == [moved |-> FALSE, way |-> "undecided"]
Straight == [moved |-> TRUE, way |-> "parallel"]

OnlyScrolls(s) == s.count = 2
Parallel(s) ==
  CASE OnlyScrolls(s) -> "SCROLL_START"
    [] s.count = s.nfingers -> "DRAG_OR_SWIPE_START"
    [] OTHER -> "SWIPE_START"

\* tp_gesture_detect_motion_gestures
DetectOne(s, m) ==
  CASE m.moved /\ m.way = "undecided" /\ s.state = "HOLD" ->
         Handle(s, "HOLD_AND_MOTION_START", FALSE)
    [] m.moved /\ ~(m.way = "undecided" /\ s.state \in {"HOLD", "HOLD_AND_MOTION"}) ->
         Handle(s, "POINTER_MOTION_START", FALSE)
    [] OTHER -> s

DetectMany(s, m) ==
  IF Enabled /\ s.count > 2 /\ s.count > pad.slots THEN Handle(s, Parallel(s), FALSE)
  ELSE CASE m.way = "undecided" -> s
         [] m.way = "thumb" -> Cancel(s)
         [] m.way = "parallel" -> Handle(s, Parallel(s), FALSE)
         [] m.way = "apart" ->
              Handle(s, IF s.count > pad.slots /\ OnlyScrolls(s)
                        THEN Parallel(s) ELSE "PINCH_START", FALSE)

Detect(s, m) == IF s.count = 1 THEN DetectOne(s, m) ELSE DetectMany(s, m)

\* tp_gesture_handle_state_none: with one slot three touches are in one place.
SeeFingers(s) ==
  CASE s.count = 2 /\ ~Enabled /\ ~pad.tap -> Handle(s, "SCROLL_START", FALSE)
    [] s.count > 2 /\ pad.slots = 1 -> s
    [] OTHER -> Handle(s, "FINGER_DETECTED", FALSE)

TryScroll(s, m) ==
  CASE s.twofinger /\ m.way = "apart" -> Handle(s, "PINCH_START", FALSE)
    [] s.twofinger /\ m.way # "apart" /\ m.moved -> To(s, "SCROLL")
    [] OTHER -> s

PostScroll(s, m) ==
  CASE s.twofinger /\ m.way = "apart" -> Handle(s, "PINCH_START", FALSE)
    [] s.twofinger /\ m.way # "apart" /\ m.moved -> [s EXCEPT !.scrolling = @ \/ m.way = "parallel"]
    [] OTHER -> s

BeginIfMoved(s, m, kind, state) == IF m.moved THEN To(Begin(s, kind), state) ELSE s

\* tp_gesture_handle_state: each state once, in this order, which makes at most
\* three visits.  In the frame that finds the fingers or a pinch nothing has
\* moved since.
Order ==
  <<"NONE", "UNKNOWN", "HOLD", "HOLD_AND_MOTION", "SCROLL", "SCROLL_START",
    "SWIPE_START", "PINCH_START", "DRAG_START", "DRAG_RELEASED", "DRAG_OR_SWIPE_START">>

Place(state) == IF state \in Range(Order) THEN CHOOSE i \in DOMAIN Order : Order[i] = state ELSE 0
HandleState(s, ignore_motion, m) ==
  LET Visit(r) ==
        CASE r.state = "NONE" -> SeeFingers(r)
          [] r.state \in {"UNKNOWN", "HOLD"} ->
               CASE ignore_motion -> r
                 [] ~ignore_motion /\ s.state = "NONE" ->
                      Detect(r, [m EXCEPT !.way = "undecided"])
                 [] OTHER -> Detect(r, m)
          [] r.state \in {"HOLD_AND_MOTION", "DRAG_RELEASED"} -> Detect(r, m)
          [] r.state = "SCROLL" -> PostScroll(r, m)
          [] r.state = "SCROLL_START" -> TryScroll(r, m)
          [] r.state = "SWIPE_START" -> BeginIfMoved(r, m, "swipe", "SWIPE")
          [] r.state = "PINCH_START" /\ s.state = "PINCH_START" ->
               BeginIfMoved(r, m, "pinch", "PINCH")
          [] r.state = "DRAG_START" -> To(Press(r), "DRAG")
          [] r.state = "DRAG_OR_SWIPE_START" ->
               [To(Begin(r, "swipe"), "DRAG_OR_SWIPE") EXCEPT !.swipe_timer = TRUE]
          [] OTHER -> r
      Onward(r, from) == IF Place(r.state) > Place(from) THEN Visit(r) ELSE r
      first == Visit(s)
      second == Onward(first, s.state)
  IN  Onward(second, first.state)

\* tp_gesture_post_events.  `clicked': the button of a clickpad is down and
\* not under a thumb.
Forced(s) ==
  LET moving == IF s.state = "POINTER_MOTION" THEN s
                ELSE Handle(Cancel(s), "POINTER_MOTION_START", FALSE)
  IN  [moving EXCEPT !.count = 1, !.pending = 0]

PostEvents(s, ignore_motion, clicked, m) ==
  IF s.count = 0 THEN s
  ELSE LET one == IF s.tap = "drag" \/ clicked THEN Forced(s) ELSE s
       IN  IF one.pending # 0 \/ one.count > 4 THEN one
           ELSE HandleState(one, ignore_motion, m)

\* tp_gesture_update_finger_state
Debounced ==
  {"HOLD", "HOLD_AND_MOTION", "SCROLL", "PINCH", "SWIPE", "DRAG_START",
   "DRAG_RELEASED", "DRAG", "DRAG_OR_SWIPE", "DRAG_OR_SWIPE_START"}

UpdateFingers(s, active) ==
  CASE active = s.count -> [s EXCEPT !.pending = 0]
    [] active = 0 /\ s.count # 0 -> [Stop(s) EXCEPT !.count = 0, !.pending = 0]
    [] active # 0 /\ active # s.count /\ s.state \notin Debounced ->
         LET now == [s EXCEPT !.count = active, !.pending = 0]
         IN  IF s.state \in {"UNKNOWN", "POINTER_MOTION"}
               THEN Handle(now, "RESET", FALSE) ELSE now
    [] OTHER ->
         IF active = s.pending THEN s
         ELSE [s EXCEPT !.pending = active, !.switch_timer = TRUE]

\* tp_3fg_drag_apply_config
ApplyDrag(s, down) == IF down THEN s ELSE [s EXCEPT !.nfingers = s.want_nfingers]

-----------------------------------------------------------------------------
(* A frame.                                                                *)

Fresh == [g EXCEPT !.bugs = {}]

\* What the rest of the touchpad makes of the frame (tp_post_events): all of
\* it goes to the gestures, the button of a clickpad is down, the motion is
\* ignored, typing or the trackpoint blocks it, another way of scrolling
\* takes it.
Fates == {"all", "clicked", "ignored", "ignored_clicked", "blocked", "elsewhere"}
Ignored == {"ignored", "ignored_clicked"}
Clicked == {"clicked", "ignored_clicked"}

Post(s, fate, m) ==
  CASE fate = "blocked" -> Cancel(s)
    [] fate = "elsewhere" -> s
    [] OTHER -> PostEvents(IF fate \in Ignored THEN CancelMotion(s) ELSE s,
                           fate \in Ignored, fate \in Clicked, m)

\* What the tapping machine can turn into in a frame (tp_tap_handle_state).
TapTurns == [
  off    |-> {"off"},
  other  |-> {"other", "touch", "double", "hold", "dead"},
  touch  |-> {"touch", "other", "dead"},
  double |-> {"double", "drag", "other", "touch", "dead"},
  hold   |-> {"hold", "touch", "other", "dead"},
  dead   |-> {"dead", "other"},
  drag   |-> {"drag", "other", "dead"}]

\* Tapping waits while up to three fingers are down, starts to when a finger
\* comes, is dead until the last one leaves, and misses no finger.  While it
\* waits it ignores the motion.
TapFollows(tap, active, down, fate) ==
  LET more == active > fingers.active \/ ~fingers.down
  IN  /\ tap \in TapTurns[g.tap]
      /\ suspended => tap = g.tap /\ fate = "all"
      /\ active = 0 => fate \in {"all", "ignored", "blocked"}
      /\ tap \in {"touch", "double"} => fate \in Ignored \cup {"blocked"}
      /\ ~down => tap \notin {"touch", "double", "hold", "dead"}
      /\ tap = "touch" => active <= 3
      /\ tap \in {"touch", "double"} /\ g.tap # tap => more
      /\ g.tap = "dead" /\ down => tap = "dead"
      /\ tap = "hold" /\ g.tap = "other" => ~more
      /\ tap = "other" /\ active > 0 /\ ~suspended =>
           \/ g.tap = "touch" /\ active < fingers.active
           \/ g.tap = "other" /\ active <= fingers.active

\* Does it press or release a button on the way (tp_tap_notify).
Notifies(tap) ==
  CASE g.tap = "drag" /\ tap # "drag" -> {TRUE}
    [] g.tap = "touch" /\ tap = "other" -> BOOLEAN
    [] g.tap = "double" /\ tap \in {"touch", "dead"} -> {TRUE}
    [] g.tap = "double" /\ tap = "other" -> BOOLEAN
    [] g.tap = "other" /\ tap = "dead" -> BOOLEAN
    [] OTHER -> {FALSE}

\* How the touches moved matters where their motion is looked at.  Fingers that
\* moved enough for a gesture moved too far to tap.
MotionsIn(tap, active, fate) ==
  IF active = 0 \/ suspended \/ fate \notin {"all", "ignored"} THEN {Still}
  ELSE CASE active = 1 -> {m \in Motions : m.way = "undecided" \/ m = Straight}
         [] active > 1 /\ tap \in {"other", "touch", "hold"} ->
              {m \in Motions : m.way = "undecided"}
         [] OTHER -> Motions

Frame ==
  /\ \E active \in 0..MaxFingers, down \in BOOLEAN, fate \in Fates, tap \in TapKinds :
       /\ active > 0 => down
       /\ TapFollows(tap, active, down, fate)
       /\ fingers' = [active |-> active, down |-> down]
       /\ LET seen == [UpdateFingers(Fresh, active) EXCEPT !.tap = tap]
          IN  \E tapped \in Notifies(tap), m \in MotionsIn(tap, active, fate) :
                g' = ApplyDrag(IF suspended THEN seen
                               ELSE Post(IF tapped THEN Cancel(seen) ELSE seen, fate, m), down)
  /\ UNCHANGED <<pad, suspended>>

-----------------------------------------------------------------------------
(* The timers.                                                             *)

world == <<pad, fingers, suspended>>

HoldTimeout ==
  /\ g.hold_timer
  /\ \E near \in BOOLEAN :
       g' = IF g.tap \in {"double", "drag"} THEN Unheld(Fresh)
            ELSE Handle(Unheld(Fresh), "HOLD_TIMEOUT", near)
  /\ UNCHANGED world

\* Three or more fingers hold when tapping gives up on them
\* (tp_gesture_tap_timeout), which takes longer than to see a finger.  Not when
\* the drag was disabled during the wait after one: that would resume it with
\* no finger at all (README).
TapTimeout ==
  /\ g.tap = "touch"
  /\ g.state = "DRAG_RELEASED" => g.nfingers # 0
  /\ g.pending # 0 => Late
  /\ LET s == [Fresh EXCEPT !.tap = "hold"]
     IN  g' = IF ~s.hold_enabled \/ Quick(s) THEN s ELSE Handle(s, "TAP_TIMEOUT", FALSE)
  /\ UNCHANGED world

\* A second tap turns into a drag.
TapDrags ==
  /\ g.tap = "double"
  /\ g' = [Fresh EXCEPT !.tap = "drag"]
  /\ UNCHANGED world

\* The end of a tap or of a drag releases the button.
TapReleases ==
  /\ g.tap \in {"drag", "other"} /\ fingers.active = 0
  /\ g' = [Cancel(Fresh) EXCEPT !.tap = "other"]
  /\ UNCHANGED world

\* Slip: the gesture ends after its finger count changed.
SwitchTimeoutEarly ==
  /\ g.switch_timer
  /\ LET s == [Fresh EXCEPT !.switch_timer = FALSE]
     IN  g' = IF s.pending = 0 THEN s
              ELSE [Handle([s EXCEPT !.count = s.pending], "FINGER_SWITCH_TIMEOUT", FALSE)
                      EXCEPT !.pending = 0]
  /\ UNCHANGED world

\* The timer that tells a swipe from a drag is the shorter one, armed before.
SwitchTimeout ==
  /\ g.switch_timer
  /\ g.state = "DRAG_OR_SWIPE" => Late
  /\ LET s == [Fresh EXCEPT !.switch_timer = FALSE]
     IN  g' = IF s.pending = 0 THEN s
              ELSE [Handle(s, "FINGER_SWITCH_TIMEOUT", FALSE)
                      EXCEPT !.count = s.pending, !.pending = 0]
  /\ UNCHANGED world

DragTimeout ==
  /\ g.drag_timer
  /\ g' = Handle([Fresh EXCEPT !.drag_timer = FALSE], "DRAG_RELEASE_TIMEOUT", FALSE)
  /\ UNCHANGED world

SwipeTimeout ==
  /\ g.swipe_timer
  /\ \E near \in BOOLEAN :
       g' = Handle([Fresh EXCEPT !.swipe_timer = FALSE], "DRAG_OR_SWIPE_TIMEOUT", near)
  /\ UNCHANGED world

-----------------------------------------------------------------------------
(* The client and the rest of the touchpad.                                *)

SetHoldEnabled ==
  /\ Enabled
  /\ g' = [Fresh EXCEPT !.hold_enabled = ~@]
  /\ UNCHANGED world

\* tp_3fg_drag_set_enabled
SetDrag ==
  /\ Enabled /\ pad.slots >= 3
  /\ \E n \in {0} \cup DragCounts :
       g' = ApplyDrag([Fresh EXCEPT !.want_nfingers = n], fingers.down)
  /\ UNCHANGED world

\* tp_scroll_config_scroll_method_set_method
SetScrollMethod ==
  /\ g' = [StopScroll(Fresh) EXCEPT !.twofinger = ~@]
  /\ UNCHANGED world

\* tp_stop_actions: typing begins.
StopActions ==
  /\ g' = Cancel(Fresh)
  /\ UNCHANGED world

\* tp_clear_state: every touch ends in a frame of its own.
ClearState ==
  /\ fingers' = [active |-> 0, down |-> FALSE]
  /\ \E tapped \in {FALSE, pad.tap} :
       LET released == IF tapped THEN Cancel(Fresh) ELSE Fresh
       IN  g' = [ApplyDrag(UpdateFingers(released, 0), FALSE) EXCEPT !.tap = NoTap]

Suspend ==
  /\ ~suspended /\ suspended' = TRUE
  /\ ClearState
  /\ UNCHANGED pad

\* Only touchpads with top software buttons clear their state again, which
\* the others have not left.
Resume ==
  /\ suspended /\ suspended' = FALSE
  /\ ClearState
  /\ UNCHANGED pad

-----------------------------------------------------------------------------
Init ==
  /\ pad \in Pads
  /\ fingers = [active |-> 0, down |-> FALSE]
  /\ suspended = FALSE
  /\ g = [tap |-> NoTap, state |-> "NONE", count |-> 0, pending |-> 0, hold_timer |-> FALSE,
          switch_timer |-> FALSE, drag_timer |-> FALSE, swipe_timer |-> FALSE,
          hold_enabled |-> Enabled, nfingers |-> 0, want_nfingers |-> 0,
          twofinger |-> TRUE, open |-> NoGesture, button |-> FALSE,
          scrolling |-> FALSE, wrong |-> FALSE, bugs |-> {}]

Timeouts == HoldTimeout \/ TapTimeout \/ TapDrags \/ TapReleases \/ SwitchTimeout \/ DragTimeout \/ SwipeTimeout
Client == SetHoldEnabled \/ SetDrag \/ SetScrollMethod
Next == Frame \/ Timeouts \/ Client \/ StopActions \/ Suspend \/ Resume

\* The event loop dispatches the timers; the fingers and the client owe nothing.
Fairness ==
  /\ WF_vars(HoldTimeout) /\ WF_vars(SwitchTimeout)
  /\ WF_vars(DragTimeout) /\ WF_vars(SwipeTimeout)
Spec == Init /\ [][Next]_vars /\ Fairness

-----------------------------------------------------------------------------
\* A changed finger count is settled by a timer.
TypeOK ==
  /\ pad \in Pads
  /\ fingers \in [active : 0..MaxFingers, down : BOOLEAN]
  /\ suspended \in BOOLEAN
  /\ g.tap \in TapKinds /\ g.state \in GestureStates
  /\ {g.count, g.pending} \subseteq 0..MaxFingers
  /\ {g.nfingers, g.want_nfingers} \subseteq {0} \cup DragCounts
  /\ g.pending # 0 /\ g.state \in Debounced => g.switch_timer

\* The client sees one gesture at a time, each one ends once and never changes
\* the finger count it began with, and presses and releases of the drag
\* alternate: through fingers that come and go within a gesture, clicks, taps,
\* typing, settings and suspension.
GesturesWellFormed ==
  /\ ~g.wrong
  /\ g.open # NoGesture => g.open.fingers = g.count

\* What the client sees is what the machine believes: no gesture stays open,
\* no button down and no scroll unstopped once the machine has moved on, and
\* nothing but a drag whose timer runs outlives the fingers.
ClientMatchesState ==
  /\ TypeOK
  /\ Enabled => g.open.kind =
       CASE g.state \in {"HOLD", "HOLD_AND_MOTION"} -> "hold"
         [] g.state = "PINCH" -> "pinch"
         [] g.state \in {"SWIPE", "DRAG_OR_SWIPE"} -> "swipe"
         [] OTHER -> "none"
  /\ g.button <=> g.state \in {"DRAG", "DRAG_RELEASED"}
  /\ g.scrolling => g.state = "SCROLL"
  /\ g.state = "DRAG_RELEASED" => g.drag_timer
  /\ g.count = 0 => g.open = NoGesture /\ ~g.scrolling /\ g.state # "DRAG"

\* The machine is handed no event that its state does not expect
\* (log_gesture_bug), but for five it can be made to meet: the timer of a swipe
\* too quick to be told from a drag, the motion of a click during what became a
\* pinch, the timer of a finger whose swipe was cancelled, the timeout of tapping
\* with three fingers that had already begun something else, and the same for
\* four that a touchpad with three slots took for a drag before they moved.
KnownBug(state, e) ==
  \/ e = "DRAG_OR_SWIPE_TIMEOUT"
  \/ state = "PINCH_START" /\ e = "POINTER_MOTION_START"
  \/ state = "NONE" /\ e = "FINGER_SWITCH_TIMEOUT"
  \/ state \in {"HOLD", "PINCH_START", "PINCH", "SWIPE_START", "SWIPE"} /\ e = "TAP_TIMEOUT"
  \/ state = "DRAG_START" /\ e = "TAP_TIMEOUT" /\ pad.slots < 4

OnlyKnownBugs == \A b \in g.bugs : KnownBug(b[1], b[2])

\* Once the fingers stay away, every gesture ends, the scroll stops and the
\* button of a drag is released.
EverythingEnds ==
  []<>fingers.down \/ <>[](g.open = NoGesture /\ ~g.button /\ ~g.scrolling)
=============================================================================
