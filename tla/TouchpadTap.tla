------------------------------ MODULE TouchpadTap ------------------------------
(***************************************************************************)
(* Tap-to-click and tap-and-drag of a touchpad                             *)
(* (src/evdev-mt-touchpad-tap.c).  A frame enters through                  *)
(* tp_tap_handle_state, which walks over the touches in the order of their *)
(* index and feeds one event per touch to the tap state machine; the walk  *)
(* is a FrameBegin, one step per touch and a FrameEnd, and nothing else    *)
(* happens in between.  What the touchpad core and the thumb and palm      *)
(* detection make of a touch in a frame is an input.  The tap timer fires  *)
(* at any moment while it is armed: the delays it is set to do not matter  *)
(* to the properties.                                                      *)
(*                                                                         *)
(* Left out: time stamps, the motion filtering and the gestures that a tap *)
(* cancels, and the state of each touch for tapping (tap.state of struct   *)
(* tp_touch), which no code reads to decide anything.                      *)
(***************************************************************************)
EXTENDS Integers, FiniteSets

CONSTANTS
  NumTouches,   \* ntouches, the touches the device can tell apart
  Clickpad,     \* a button press of the touchpad is an event for tapping
  Calls         \* the configuration calls and suspensions that may come

CallNames == {"enabled", "map", "drag", "drag_lock", "suspend", "clear"}

ASSUME TapAssumption ==
  /\ NumTouches \in Nat \ {0}
  /\ Clickpad \in BOOLEAN
  /\ Calls \subseteq CallNames

VARIABLES
  role,   \* what each touch is to the tap code
  tap,    \* the tap part of struct tp_dispatch
  walk    \* the touch tp_tap_handle_state looks at next, 0 between frames

vars == <<role, tap, walk>>

Touches == 1..NumTouches

(* "up" is a touch in TOUCH_NONE or TOUCH_HOVERING, "thumb" one with       *)
(* is_thumb and "palm" one with is_palm only (is_thumb is looked at first) *)
Roles == {"up", "finger", "palm", "thumb"}

\* A state of the code such as TAP_STATE_2FGTAP_DRAGGING is ours with n = 2.
PlainStates ==
  {"IDLE", "TOUCH", "HOLD", "TOUCH_2", "TOUCH_2_HOLD", "TOUCH_2_RELEASE",
   "TOUCH_3", "TOUCH_3_HOLD", "TOUCH_3_RELEASE", "TOUCH_3_RELEASE_2", "DEAD"}
NumberedStates ==
  {"TAPPED", "DRAGGING_OR_DOUBLETAP", "DRAGGING", "DRAGGING_WAIT",
   "DRAGGING_OR_TAP", "DRAGGING_2"}

DragLocks == {"disabled", "timeout", "sticky"}

Maps == {"LRM", "LMR"}

MappedButton(map, n) ==
  CASE n = 1 -> "left"
    [] n = 2 -> IF map = "LRM" THEN "right" ELSE "middle"
    [] OTHER -> IF map = "LRM" THEN "middle" ELSE "right"

-----------------------------------------------------------------------------
(* What an event does: the next state, the timer, and up to three calls of *)
(* tp_tap_notify in this order: release the button of an `up'-finger tap,  *)
(* press that of a `down'-finger tap and, if `brief', release it again (a  *)
(* number 0 stands for no call).  `thumb' marks the touch as a thumb.      *)

Stay == [state |-> "same", n |-> 0, timer |-> "keep", up |-> 0, down |-> 0,
         brief |-> FALSE, thumb |-> FALSE, bug |-> FALSE]

Go(s)       == [Stay EXCEPT !.state = s]
Drag(s, n)  == [Stay EXCEPT !.state = s, !.n = n]
Timed(r)    == [r EXCEPT !.timer = "set"]
Off(r)      == [r EXCEPT !.timer = "clear"]
Let(r, n)   == [r EXCEPT !.up = n]                    \* release of n
Click(r, n) == [r EXCEPT !.down = n, !.brief = TRUE]  \* press, release of n
TapBug      == [Stay EXCEPT !.bug = TRUE]             \* log_tap_bug

\* A completed tap stays pressed if it may become a drag.
Tap(n, drag) ==
  IF drag THEN [Drag("TAPPED", n) EXCEPT !.down = n] ELSE Click(Go("IDLE"), n)

ThumbFound == [Go("IDLE") EXCEPT !.thumb = TRUE]

Idle(e) ==
  CASE e = "touch" -> Timed(Go("TOUCH"))
    [] e = "button" -> Go("DEAD")
    [] e \in {"motion", "thumb"} -> TapBug
    [] OTHER -> Stay

Touch(e, drag) ==
  CASE e = "touch" -> Timed(Go("TOUCH_2"))
    [] e = "release" -> Timed(Tap(1, drag))
    [] e \in {"motion", "button"} -> Go("DEAD")
    [] e = "timeout" -> Off(Go("HOLD"))
    [] e = "thumb" -> ThumbFound
    [] e = "palm" -> Go("IDLE")
    [] OTHER -> Stay

Hold(e) ==
  CASE e = "touch" -> Timed(Go("TOUCH_2"))
    [] e \in {"release", "palm"} -> Go("IDLE")
    [] e \in {"motion", "button"} -> Go("DEAD")
    [] e = "thumb" -> ThumbFound
    [] OTHER -> Stay

\* Slip: the button of a tap is not released when its timer expires.
TappedForever(n, e) ==
  CASE e = "touch" -> Timed(Drag("DRAGGING_OR_DOUBLETAP", n))
    [] e = "button" -> Let(Go("DEAD"), n)
    [] e \in {"timeout", "palm_up"} -> Stay
    [] OTHER -> TapBug

Tapped(n, e) ==
  CASE e = "touch" -> Timed(Drag("DRAGGING_OR_DOUBLETAP", n))
    [] e = "timeout" -> Let(Go("IDLE"), n)
    [] e = "button" -> Let(Go("DEAD"), n)
    [] e = "palm_up" -> Stay
    [] OTHER -> TapBug

\* Slip: a palm ends the sequence although the other finger is down.
Touch2Palm(e) ==
  CASE e = "touch" -> Timed(Go("TOUCH_3"))
    [] e = "release" -> Timed(Go("TOUCH_2_RELEASE"))
    [] e \in {"motion", "button"} -> Go("DEAD")
    [] e = "timeout" -> Go("TOUCH_2_HOLD")
    [] e = "palm" -> Go("IDLE")
    [] OTHER -> Stay

Touch2(e) ==
  CASE e = "touch" -> Timed(Go("TOUCH_3"))
    [] e = "release" -> Timed(Go("TOUCH_2_RELEASE"))
    [] e \in {"motion", "button"} -> Go("DEAD")
    [] e = "timeout" -> Go("TOUCH_2_HOLD")
    [] e = "palm" -> Go("TOUCH")
    [] OTHER -> Stay

Touch2Hold(e) ==
  CASE e = "touch" -> Timed(Go("TOUCH_3"))
    [] e \in {"release", "palm"} -> Go("HOLD")
    [] e \in {"motion", "button"} -> Go("DEAD")
    [] OTHER -> Stay

Touch2Release(e, drag) ==
  CASE e = "touch" -> Off(Go("TOUCH_2_HOLD"))
    [] e = "release" -> Timed(Tap(2, drag))
    [] e \in {"motion", "button"} -> Go("DEAD")
    [] e = "timeout" -> Go("HOLD")
    [] e = "palm" -> Tap(1, drag)
    [] OTHER -> Stay

Touch3(e) ==
  CASE e \in {"touch", "motion", "button"} -> Go("DEAD")
    [] e = "release" -> Timed(Go("TOUCH_3_RELEASE"))
    [] e = "timeout" -> Off(Go("TOUCH_3_HOLD"))
    [] e = "palm" -> Go("TOUCH_2")
    [] OTHER -> Stay

Touch3Hold(e) ==
  CASE e \in {"touch", "motion", "button"} -> Go("DEAD")
    [] e \in {"release", "palm"} -> Go("TOUCH_2_HOLD")
    [] OTHER -> Stay

\* Slip: a palm is not counted as one finger less.
Touch3ReleasePalm(e) ==
  CASE e = "touch" -> Click(Timed(Go("TOUCH_3")), 3)
    [] e = "release" -> Timed(Go("TOUCH_3_RELEASE_2"))
    [] e \in {"motion", "button"} -> Click(Go("DEAD"), 3)
    [] e = "timeout" -> Click(Go("TOUCH_2_HOLD"), 3)
    [] e = "palm" -> Go("TOUCH_2")
    [] OTHER -> Stay

Touch3Release(e) ==
  CASE e = "touch" -> Click(Timed(Go("TOUCH_3")), 3)
    [] e = "release" -> Timed(Go("TOUCH_3_RELEASE_2"))
    [] e \in {"motion", "button"} -> Click(Go("DEAD"), 3)
    [] e = "timeout" -> Click(Go("TOUCH_2_HOLD"), 3)
    [] e = "palm" -> Go("TOUCH_2_RELEASE")
    [] OTHER -> Stay

Touch3Release2(e, drag) ==
  CASE e = "touch" -> Click(Timed(Go("TOUCH_2")), 3)
    [] e = "release" -> Timed(Tap(3, drag))
    [] e \in {"motion", "button"} -> Click(Go("DEAD"), 3)
    [] e = "timeout" -> Click(Go("HOLD"), 3)
    [] e = "palm" -> Tap(2, drag)
    [] OTHER -> Stay

DraggingOrDoubletap(n, e) ==
  CASE e = "touch" -> Let(Timed(Go("TOUCH_2")), n)
    [] e = "release" -> Let([Timed(Drag("TAPPED", 1)) EXCEPT !.down = 1], n)
    [] e \in {"motion", "timeout"} -> Drag("DRAGGING", n)
    [] e = "button" -> Let(Go("DEAD"), n)
    [] e = "palm" -> Drag("TAPPED", n)
    [] OTHER -> Stay

(* A finger lifted at the edge gets a timed drag lock if there is none.    *)
Dragging(n, e, lock, edge) ==
  CASE e = "touch" -> Drag("DRAGGING_2", n)
    [] e = "release" ->
         IF lock = "sticky" THEN Drag("DRAGGING_WAIT", n)
         ELSE IF lock = "timeout" \/ edge THEN Timed(Drag("DRAGGING_WAIT", n))
         ELSE Let(Go("IDLE"), n)
    [] e = "palm" -> Let(Go("IDLE"), n)
    [] e = "button" -> Let(Go("DEAD"), n)
    [] OTHER -> Stay

DraggingWait(n, e) ==
  CASE e = "touch" -> Timed(Drag("DRAGGING_OR_TAP", n))
    [] e = "timeout" -> Let(Go("IDLE"), n)
    [] e = "button" -> Let(Go("DEAD"), n)
    [] e = "palm_up" -> Stay
    [] OTHER -> TapBug

\* Slip: a second finger ends the drag without a release.
DraggingOrTapStuck(n, e) ==
  CASE e \in {"touch", "button"} -> Go("DEAD")
    [] e = "release" -> Let(Go("IDLE"), n)
    [] e \in {"motion", "timeout"} -> Drag("DRAGGING", n)
    [] e = "palm" -> Drag("DRAGGING_WAIT", n)
    [] OTHER -> Stay

DraggingOrTap(n, e) ==
  CASE e \in {"touch", "button"} -> Let(Go("DEAD"), n)
    [] e = "release" -> Let(Go("IDLE"), n)
    [] e \in {"motion", "timeout"} -> Drag("DRAGGING", n)
    [] e = "palm" -> Drag("DRAGGING_WAIT", n)
    [] OTHER -> Stay

Dragging2(n, e) ==
  CASE e \in {"release", "palm"} -> Drag("DRAGGING", n)
    [] e \in {"touch", "button"} -> Let(Go("DEAD"), n)
    [] OTHER -> Stay

Dead(e, fingers) ==
  IF e \in {"release", "palm", "palm_up"} /\ fingers = 0 THEN Go("IDLE") ELSE Stay

TapReaction(tp, e, edge) ==
  CASE tp.state = "IDLE"              -> Idle(e)
    [] tp.state = "TOUCH"             -> Touch(e, tp.drag)
    [] tp.state = "HOLD"              -> Hold(e)
    [] tp.state = "TOUCH_2"           -> Touch2(e)
    [] tp.state = "TOUCH_2_HOLD"      -> Touch2Hold(e)
    [] tp.state = "TOUCH_2_RELEASE"   -> Touch2Release(e, tp.drag)
    [] tp.state = "TOUCH_3"           -> Touch3(e)
    [] tp.state = "TOUCH_3_HOLD"      -> Touch3Hold(e)
    [] tp.state = "TOUCH_3_RELEASE"   -> Touch3Release(e)
    [] tp.state = "TOUCH_3_RELEASE_2" -> Touch3Release2(e, tp.drag)
    [] tp.state = "TAPPED"            -> Tapped(tp.n, e)
    [] tp.state = "DRAGGING_OR_DOUBLETAP" -> DraggingOrDoubletap(tp.n, e)
    [] tp.state = "DRAGGING"          -> Dragging(tp.n, e, tp.lock, edge)
    [] tp.state = "DRAGGING_WAIT"     -> DraggingWait(tp.n, e)
    [] tp.state = "DRAGGING_OR_TAP"   -> DraggingOrTap(tp.n, e)
    [] tp.state = "DRAGGING_2"        -> Dragging2(tp.n, e)
    [] OTHER                          -> Dead(e, tp.fingers)

-----------------------------------------------------------------------------
(* `pressed' is buttons_pressed, `held' the buttons that the client was    *)
(* told of and `redundant' that it was told one twice; `bug' is that       *)
(* log_tap_bug was reached and `aborted' that an assertion failed.         *)
NewTap(enabled, lock) ==
  [state |-> "IDLE", n |-> 0, timer |-> FALSE, fingers |-> 0,
   pressed |-> {}, held |-> {}, map |-> "LRM", wantMap |-> "LRM",
   drag |-> TRUE, lock |-> lock, enabled |-> enabled,
   suspended |-> FALSE, redundant |-> FALSE, bug |-> FALSE, aborted |-> FALSE]

Active(tp) == tp.enabled /\ ~tp.suspended      \* tp_tap_enabled

(* tp_tap_notify *)
NotifyPress(tp, n) ==
  IF n = 0 THEN tp
  ELSE LET b == MappedButton(tp.map, n)
       IN  [tp EXCEPT !.pressed = @ \cup {n}, !.held = @ \cup {b},
                      !.redundant = @ \/ b \in tp.held]

NotifyRelease(tp, n) ==
  IF n = 0 THEN tp
  ELSE LET b == MappedButton(tp.map, n)
       IN  [tp EXCEPT !.pressed = @ \ {n}, !.held = @ \ {b},
                      !.redundant = @ \/ b \notin tp.held]

Notify(tp, r) ==
  LET clicked == NotifyPress(NotifyRelease(tp, r.up), r.down)
  IN  IF r.brief THEN NotifyRelease(clicked, r.down) ELSE clicked

(* tp_tap_handle_event: IDLE and DEAD clear the timer whatever set it.     *)
HandleEvent(tp, e, edge) ==
  LET r == TapReaction(tp, e, edge)
      to == IF r.state = "same" THEN tp.state ELSE r.state
      n == IF r.state = "same" THEN tp.n ELSE r.n
  IN  [Notify(tp, r) EXCEPT
         !.state = to, !.n = n,
         !.timer = IF to \in {"IDLE", "DEAD"} \/ r.timer = "clear" THEN FALSE
                   ELSE r.timer = "set" \/ @,
         !.fingers = IF r.thumb THEN @ - 1 ELSE @,
         !.bug = @ \/ r.bug]

Abort(tp) == [tp EXCEPT !.aborted = TRUE]

\* The finger leaves the count before or after the state machine is told.
Uncount(tp) ==
  IF tp.fingers > 0 THEN [tp EXCEPT !.fingers = @ - 1] ELSE Abort(tp)

(* tp_tap_update_map *)
UpdateMap(tp) == IF tp.state = "IDLE" THEN [tp EXCEPT !.map = tp.wantMap] ELSE tp

-----------------------------------------------------------------------------
\* A new device, perhaps with its drag lock set already.
Init ==
  /\ role = [t \in Touches |-> "up"]
  /\ \E enabled \in BOOLEAN, lock \in DragLocks : tap = NewTap(enabled, lock)
  /\ walk = 0

(* A frame arrives; a press of a clickpad's button is handled first.       *)
FrameBegin(press) ==
  /\ walk = 0
  /\ walk' = 1
  /\ tap' = IF press /\ Clickpad /\ Active(tap)
              THEN HandleEvent(tap, "button", FALSE) ELSE tap
  /\ UNCHANGED role

\* The walk comes to touch t, which turns into `to'.
Visit(t, to) ==
  /\ walk = t
  /\ walk' = walk + 1
  /\ role' = [role EXCEPT ![t] = to]

\* A touch the frame says nothing of, or nothing the tap code cares for.
Unchanged(t) ==
  /\ Visit(t, role[t])
  /\ UNCHANGED tap

(* tp_begin_touch, as a finger or as what was found to be a palm or thumb. *)
Begin(t, as) ==
  /\ role[t] = "up"
  /\ IF Active(tap)
       THEN /\ Visit(t, as)
            /\ tap' = IF as = "finger"
                        THEN HandleEvent([tap EXCEPT !.fingers = @ + 1],
                                         "touch", FALSE)
                        ELSE tap
       ELSE /\ Visit(t, "finger")
            /\ UNCHANGED tap

(* TOUCH_END *)
End(t, edge) ==
  /\ role[t] # "up"
  /\ Visit(t, "up")
  /\ tap' = CASE Active(tap) /\ role[t] = "finger" ->
                     HandleEvent(Uncount(tap), "release", edge)
              [] Active(tap) /\ role[t] = "palm" ->
                     HandleEvent(tap, "palm_up", FALSE)
              [] OTHER -> tap

(* A finger turns out to be a palm, perhaps in its last frame.             *)
PalmFound(t, to) ==
  /\ Active(tap) /\ role[t] = "finger"
  /\ Visit(t, to)
  /\ tap' = Uncount(HandleEvent(tap, "palm", FALSE))

(* A finger is now ignored as the thumb, for tapping only in some states.  *)
ThumbIgnored(t) ==
  /\ Active(tap) /\ role[t] = "finger" /\ tap.state # "IDLE"
  /\ Visit(t, IF TapReaction(tap, "thumb", FALSE).thumb THEN "thumb" ELSE "finger")
  /\ tap' = HandleEvent(tap, "thumb", FALSE)

(* A finger moved further than a tap may.                                  *)
Motion(t) ==
  /\ Active(tap) /\ role[t] = "finger" /\ tap.state # "IDLE"
  /\ Visit(t, "finger")
  /\ tap' = HandleEvent(tap, "motion", FALSE)

Down == {t \in Touches : role[t] # "up"}     \* nfingers_down of the touchpad

(* The assertions at the end of tp_tap_handle_state, then the post-process *)
(* step of the frame.                                                      *)
FrameEnd ==
  /\ walk = NumTouches + 1
  /\ walk' = 0
  /\ tap' = UpdateMap(IF Active(tap) /\ tap.fingers > Cardinality(Down)
                        THEN Abort(tap) ELSE tap)
  /\ UNCHANGED role

(* tp_tap_handle_timeout *)
Timeout ==
  /\ walk = 0 /\ tap.timer
  /\ tap' = HandleEvent([tap EXCEPT !.timer = FALSE], "timeout", FALSE)
  /\ UNCHANGED <<role, walk>>

-----------------------------------------------------------------------------
Released(tp) ==
  NotifyRelease(NotifyRelease(NotifyRelease(tp,
    IF 1 \in tp.pressed THEN 1 ELSE 0),
    IF 2 \in tp.pressed THEN 2 ELSE 0),
    IF 3 \in tp.pressed THEN 3 ELSE 0)

\* All touches become palms; the timer is left as it is.
Neutral(tp) == [tp EXCEPT !.state = "IDLE", !.n = 0, !.fingers = 0]

AllPalms == [t \in Touches |-> IF role[t] = "finger" THEN "palm" ELSE role[t]]

(* tp_tap_enabled_update: disabling calls tp_release_all_taps.             *)
EnabledUpdate(enabled, suspended) ==
  LET set == [tap EXCEPT !.enabled = enabled, !.suspended = suspended]
  IN  /\ walk = 0
      /\ IF Active(set) = Active(tap)
           THEN tap' = set /\ role' = role
           ELSE /\ tap' = Neutral(IF Active(set) THEN set ELSE Released(set))
                /\ role' = AllPalms
      /\ UNCHANGED walk

SetEnabled ==
  /\ "enabled" \in Calls
  /\ EnabledUpdate(~tap.enabled, tap.suspended)

(* tp_tap_suspend and tp_tap_resume, called while typing and while the     *)
(* trackpoint moves.                                                       *)
Suspend ==
  /\ "suspend" \in Calls
  /\ \E suspended \in BOOLEAN : EnabledUpdate(tap.enabled, suspended)

SetMap ==
  /\ "map" \in Calls /\ walk = 0
  /\ \E map \in Maps : tap' = UpdateMap([tap EXCEPT !.wantMap = map])
  /\ UNCHANGED <<role, walk>>

SetDrag ==
  /\ "drag" \in Calls /\ walk = 0
  /\ tap' = [tap EXCEPT !.drag = ~@]
  /\ UNCHANGED <<role, walk>>

SetDragLock ==
  /\ "drag_lock" \in Calls /\ walk = 0
  /\ \E lock \in DragLocks : tap' = [tap EXCEPT !.lock = lock]
  /\ UNCHANGED <<role, walk>>

(* tp_clear_state, when the device is suspended: it neutralizes the taps,  *)
(* then ends all touches in a frame of their own.                          *)
ClearState ==
  /\ "clear" \in Calls /\ walk = 0
  /\ tap' = UpdateMap(Neutral(Released(tap)))
  /\ role' = [t \in Touches |-> "up"]
  /\ UNCHANGED walk

TouchStep(t) ==
  \/ Unchanged(t)
  \/ \E as \in Roles \ {"up"} : Begin(t, as)
  \/ \E edge \in BOOLEAN : End(t, edge)
  \/ \E to \in {"palm", "up"} : PalmFound(t, to)
  \/ ThumbIgnored(t)
  \/ Motion(t)

Next ==
  \/ \E press \in BOOLEAN : FrameBegin(press)
  \/ \E t \in Touches : TouchStep(t)
  \/ FrameEnd
  \/ Timeout
  \/ SetEnabled
  \/ Suspend
  \/ SetMap
  \/ SetDrag
  \/ SetDragLock
  \/ ClearState

(* A frame is worked off, and an expired timer is dispatched however many  *)
(* frames come: the event loop hands both out in turn.                     *)
Fairness ==
  /\ WF_vars((\E t \in Touches : TouchStep(t)) \/ FrameEnd)
  /\ SF_vars(Timeout)

Spec == Init /\ [][Next]_vars

FairSpec == Spec /\ Fairness

-----------------------------------------------------------------------------
(* The values the variables can have.                                      *)
TypeOK ==
  /\ role \in [Touches -> Roles]
  /\ walk \in 0..NumTouches + 1
  /\ tap.state \in PlainStates \cup NumberedStates
  /\ tap.n \in IF tap.state \in NumberedStates THEN 1..3 ELSE {0}
  /\ tap.fingers \in 0..NumTouches
  /\ tap.pressed \subseteq 1..3
  /\ tap.held \subseteq {"left", "middle", "right"}
  /\ {tap.map, tap.wantMap} \subseteq Maps
  /\ tap.lock \in DragLocks
  /\ {tap.timer, tap.drag, tap.enabled, tap.suspended, tap.redundant,
      tap.bug, tap.aborted} \subseteq BOOLEAN

(* The state machine is never handed an event it calls a bug (log_tap_bug) *)
(* although palms, thumbs and lifted fingers come in one frame and the     *)
(* configuration changes at any time, and the assertions on its count of   *)
(* fingers hold.                                                           *)
NoTapBug == ~tap.bug /\ ~tap.aborted

(* The number of fingers a state speaks of. *)
FingersOf(state) ==
  CASE state \in {"TOUCH", "HOLD", "TOUCH_2_RELEASE", "TOUCH_3_RELEASE_2",
                  "DRAGGING_OR_DOUBLETAP", "DRAGGING", "DRAGGING_OR_TAP"} -> 1
    [] state \in {"TOUCH_2", "TOUCH_2_HOLD", "TOUCH_3_RELEASE", "DRAGGING_2"} -> 2
    [] state \in {"TOUCH_3", "TOUCH_3_HOLD"} -> 3
    [] OTHER -> 0

(* The state agrees with the count of the fingers, and the count with the  *)
(* touches that are neither palm nor thumb: no event is lost or counted    *)
(* twice, whatever a touch turns into.                                     *)
FingersMatchState ==
  /\ TypeOK
  /\ tap.state # "DEAD" => tap.fingers = FingersOf(tap.state)
  /\ Active(tap) => tap.fingers = Cardinality({t \in Touches : role[t] = "finger"})

(* The client holds exactly the button of the tap whose number the state   *)
(* carries, under the map it was pressed with, and is never told twice: no *)
(* button is stuck when the state machine comes to rest.                   *)
ButtonsMatchState ==
  /\ ~tap.redundant
  /\ tap.pressed = {tap.n} \ {0}
  /\ tap.held = {MappedButton(tap.map, n) : n \in tap.pressed}

(* When the last finger is lifted the button of a tap or drag is released  *)
(* in the end, unless a drag lock without a timeout holds it or the hand   *)
(* comes back.                                                             *)
LiftReleases ==
  Down = {} /\ tap.pressed # {}
    ~> \/ tap.pressed = {} \/ Down # {}
       \/ tap.state = "DRAGGING_WAIT" /\ ~tap.timer

=============================================================================
