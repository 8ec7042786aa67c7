----------------------- MODULE TouchpadGesturesProofs -----------------------
(***************************************************************************)
(* Proofs about TouchpadGestures, for every touchpad, any number of        *)
(* fingers and any finger counts of the three-finger drag, while timers    *)
(* are dispatched in time (~Late): what the client holds open is what the  *)
(* machine believes to be open.                                            *)
(*                                                                         *)
(* The invariant GesturesInv says of the record g two things.  The client  *)
(* agrees with the state (Agrees): the gesture that is open, the button    *)
(* of a drag and the scroll are the ones the state stands for.  And the    *)
(* fingers agree with the timers (Timed): a state without fingers is one   *)
(* of the few that may rest so, a released drag has its timer, and a       *)
(* changed number of fingers that waits has its timer or nothing to end.   *)
(*                                                                         *)
(* The proof climbs with the code: the operators that change a field, the  *)
(* handler of each state (Handles), tp_gesture_handle_event (HandleSteady),*)
(* tp_gesture_handle_state, which calls it up to three times in a frame,   *)
(* tp_gesture_update_finger_state, the timers, and the actions.            *)
(*                                                                         *)
(* The second invariant, BugsInv, says which event can still meet which    *)
(* state (Sane): in which states a timer runs, how many fingers a state    *)
(* has, and what has begun while tapping still waits.  Its proof climbs    *)
(* the same way, from what an expected event does (Leads) to the actions.  *)
(***************************************************************************)
EXTENDS TouchpadGestures, TLAPS

-----------------------------------------------------------------------------
(* The record g, and the inductive invariant of its fields.                *)

Kinds == {"none", "hold", "pinch", "swipe"}

Starts == {"FINGER_DETECTED", "HOLD_AND_MOTION_START", "POINTER_MOTION_START", "SCROLL_START",
           "SWIPE_START", "PINCH_START", "DRAG_OR_SWIPE_START"}
GestureTimeouts == {"FINGER_SWITCH_TIMEOUT", "TAP_TIMEOUT", "HOLD_TIMEOUT",
                    "DRAG_OR_SWIPE_TIMEOUT", "DRAG_RELEASE_TIMEOUT"}
Events == Closing \cup Starts \cup GestureTimeouts

Gesture == [tap : TapKinds, state : GestureStates, count : 0..MaxFingers, pending : 0..MaxFingers,
            hold_timer : BOOLEAN, switch_timer : BOOLEAN, drag_timer : BOOLEAN,
            swipe_timer : BOOLEAN, hold_enabled : BOOLEAN,
            nfingers : {0} \cup DragCounts, want_nfingers : {0} \cup DragCounts,
            twofinger : BOOLEAN, open : [kind : Kinds, fingers : 0..MaxFingers],
            button : BOOLEAN, scrolling : BOOLEAN, wrong : BOOLEAN,
            bugs : SUBSET (GestureStates \X Events)]

\* The gesture that the client has open in each state, if it gets gestures.
OpenKind(state) ==
  CASE state \in {"HOLD", "HOLD_AND_MOTION"} -> "hold"
    [] state = "PINCH" -> "pinch"
    [] state \in {"SWIPE", "DRAG_OR_SWIPE"} -> "swipe"
    [] OTHER -> "none"

\* A record whose client has seen nothing wrong and has `kind' open.
Tells(s, kind) ==
  /\ s \in Gesture
  /\ s.open = IF Enabled /\ kind # "none" THEN [kind |-> kind, fingers |-> s.count] ELSE NoGesture
  /\ s.wrong = FALSE

Dragging == {"DRAG", "DRAG_RELEASED"}

\* What the client sees is what the machine believes.
Agrees(s) ==
  /\ Tells(s, OpenKind(s.state))
  /\ s.button <=> s.state \in Dragging
  /\ s.scrolling => s.state = "SCROLL" /\ s.twofinger

\* The states in which no finger may be down, and those in which a changed
\* number of fingers may wait for its timer.
Resting == {"NONE", "PINCH_START", "DRAG_RELEASED"}
Waiting == Debounced \cup {"NONE"}

Timed(s) ==
  /\ s.state = "DRAG_RELEASED" => s.drag_timer
  /\ s.count = 0 => s.state \in Resting
  /\ s.pending # 0 => s.state = "NONE" \/ (s.state \in Debounced /\ s.switch_timer)

Good(s) == Agrees(s) /\ Timed(s)

GesturesInv ==
  /\ pad \in Pads
  /\ fingers \in [active : 0..MaxFingers, down : BOOLEAN]
  /\ suspended \in BOOLEAN
  /\ Good(g)

-----------------------------------------------------------------------------
(* The operators that change a field or two.                               *)

LEMMA ToTells ==
  ASSUME NEW s, NEW kind, Tells(s, kind), NEW x \in GestureStates
  PROVE  Tells(To(s, x), kind) /\ To(s, x).state = x
<1>1. To(s, x) \in Gesture BY Zenon DEF To, Gesture, Tells
<1>2. QED BY <1>1 DEF To, Gesture, Tells

LEMMA UnheldTells ==
  ASSUME NEW s, NEW kind, Tells(s, kind)
  PROVE  Tells(Unheld(s), kind) /\ Unheld(s).state = s.state
<1>1. Unheld(s) \in Gesture BY Zenon DEF Unheld, Gesture, Tells
<1>2. QED BY <1>1 DEF Unheld, Gesture, Tells

LEMMA NothingTells ==
  ASSUME NEW s, NEW kind, Tells(s, kind)
  PROVE  Tells(Nothing(s), kind) /\ Nothing(s).state = "NONE"
<1>1. "NONE" \in GestureStates BY DEF GestureStates
<1>2. QED BY <1>1, ToTells, UnheldTells DEF Nothing

LEMMA HoldTells ==
  ASSUME NEW s, NEW kind, Tells(s, kind), NEW x \in BOOLEAN
  PROVE  LET r == [s EXCEPT !.hold_timer = x] IN Tells(r, kind) /\ r.state = s.state
<1>1. [s EXCEPT !.hold_timer = x] \in Gesture BY Zenon DEF Gesture, Tells
<1>2. QED BY <1>1 DEF Gesture, Tells

LEMMA SwitchTells ==
  ASSUME NEW s, NEW kind, Tells(s, kind), NEW x \in BOOLEAN
  PROVE  Tells([s EXCEPT !.switch_timer = x], kind) /\ [s EXCEPT !.switch_timer = x].state = s.state
<1>1. [s EXCEPT !.switch_timer = x] \in Gesture BY Zenon DEF Gesture, Tells
<1>2. QED BY <1>1 DEF Gesture, Tells

LEMMA DragTells ==
  ASSUME NEW s, NEW kind, Tells(s, kind), NEW x \in BOOLEAN
  PROVE  Tells([s EXCEPT !.drag_timer = x], kind) /\ [s EXCEPT !.drag_timer = x].state = s.state
<1>1. [s EXCEPT !.drag_timer = x] \in Gesture BY Zenon DEF Gesture, Tells
<1>2. QED BY <1>1 DEF Gesture, Tells

LEMMA SwipeTells ==
  ASSUME NEW s, NEW kind, Tells(s, kind), NEW x \in BOOLEAN
  PROVE  Tells([s EXCEPT !.swipe_timer = x], kind) /\ [s EXCEPT !.swipe_timer = x].state = s.state
<1>1. [s EXCEPT !.swipe_timer = x] \in Gesture BY Zenon DEF Gesture, Tells
<1>2. QED BY <1>1 DEF Gesture, Tells

LEMMA ScrollingTells ==
  ASSUME NEW s, NEW kind, Tells(s, kind), NEW x \in BOOLEAN
  PROVE  Tells([s EXCEPT !.scrolling = x], kind) /\ [s EXCEPT !.scrolling = x].state = s.state
<1>1. [s EXCEPT !.scrolling = x] \in Gesture BY Zenon DEF Gesture, Tells
<1>2. QED BY <1>1 DEF Gesture, Tells

LEMMA StopScrollTells ==
  ASSUME NEW s, NEW kind, Tells(s, kind)
  PROVE  Tells(StopScroll(s), kind) /\ StopScroll(s).state = s.state
  BY ScrollingTells DEF StopScroll

LEMMA PressTells ==
  ASSUME NEW s, NEW kind, Tells(s, kind), s.button = FALSE
  PROVE  Tells(Press(s), kind) /\ Press(s).state = s.state
<1> DEFINE x == s.wrong \/ s.button
<1>1. x \in BOOLEAN BY Zenon
<1>2. Press(s) = [s EXCEPT !.button = TRUE, !.wrong = x] BY Zenon DEF Press
<1> HIDE DEF x
<1>3. Press(s) \in Gesture BY <1>1, <1>2, Zenon DEF Gesture, Tells
<1>4. QED BY <1>3 DEF Press, Gesture, Tells

LEMMA ReleaseTells ==
  ASSUME NEW s, NEW kind, Tells(s, kind), s.button = TRUE
  PROVE  Tells(Release(s), kind) /\ Release(s).state = s.state
<1> DEFINE x == s.wrong \/ ~s.button
<1>1. x \in BOOLEAN BY Zenon
<1>2. Release(s) = [s EXCEPT !.button = FALSE, !.wrong = x] BY Zenon DEF Release
<1> HIDE DEF x
<1>3. Release(s) \in Gesture BY <1>1, <1>2, ZenonT(60) DEF Gesture, Tells
<1>4. QED BY <1>3 DEF Release, Gesture, Tells

LEMMA BugTells ==
  ASSUME NEW s, NEW kind, Tells(s, kind), NEW e \in Events
  PROVE  Tells(Bug(s, e), kind) /\ Bug(s, e).state = s.state
<1> DEFINE b == s.bugs \cup {<<s.state, e>>}
<1>1. s.state \in GestureStates /\ s.bugs \in SUBSET (GestureStates \X Events)
  BY DEF Gesture, Tells
<1>2. b \in SUBSET (GestureStates \X Events) BY <1>1
<1>3. Bug(s, e) = [s EXCEPT !.bugs = b] BY Zenon DEF Bug
<1> HIDE DEF b
<1>4. Bug(s, e) \in Gesture BY <1>2, <1>3, Zenon DEF Gesture, Tells
<1>5. QED BY <1>4, <1>3 DEF Gesture, Tells

LEMMA OpenType ==
  ASSUME NEW s \in Gesture, NEW kind \in Kinds
  PROVE  [kind |-> kind, fingers |-> s.count] \in [kind : Kinds, fingers : 0..MaxFingers]
  BY DEF Gesture

LEMMA NoGestureType ==
  ASSUME NEW s \in Gesture
  PROVE  NoGesture \in [kind : Kinds, fingers : 0..MaxFingers]
<1>1. s.count \in 0..MaxFingers BY DEF Gesture
<1>2. MaxFingers \in Nat BY GesturesAssumption DEF GesturesAssumption
<1>3. 0 \in 0..MaxFingers BY <1>1, <1>2
<1>4. QED BY <1>3 DEF NoGesture, Kinds

LEMMA BeginTells ==
  ASSUME NEW s, Tells(s, "none"), NEW kind \in Kinds \ {"none"}
  PROVE  Tells(Begin(s, kind), kind) /\ Begin(s, kind).state = s.state
<1> DEFINE x == s.wrong \/ s.open # NoGesture
           o == [kind |-> kind, fingers |-> s.count]
<1>1. x \in BOOLEAN BY Zenon
<1>2. o \in [kind : Kinds, fingers : 0..MaxFingers] BY OpenType DEF Tells
<1>3. CASE Enabled
  <2>1. Begin(s, kind) = [s EXCEPT !.open = o, !.wrong = x] BY <1>3, Zenon DEF Begin
  <2>2. x = FALSE BY DEF Tells
  <2> HIDE DEF x, o
  <2>3. Begin(s, kind) \in Gesture BY <1>1, <1>2, <2>1, Zenon DEF Gesture, Tells
  <2>4. /\ Begin(s, kind).open = o /\ Begin(s, kind).wrong = x
        /\ Begin(s, kind).count = s.count /\ Begin(s, kind).state = s.state
    BY <2>1 DEF Gesture, Tells
  <2>5. QED BY <1>3, <2>2, <2>3, <2>4 DEF Tells, o
<1>4. CASE ~Enabled BY <1>4 DEF Begin, Tells
<1>5. QED BY <1>3, <1>4

LEMMA EndTells ==
  ASSUME NEW s, NEW kind \in Kinds \ {"none"}, Tells(s, kind)
  PROVE  Tells(End(s, kind), "none") /\ End(s, kind).state = s.state
<1> DEFINE x == s.wrong \/ s.open # [kind |-> kind, fingers |-> s.count]
<1>1. x \in BOOLEAN BY Zenon
<1>2. NoGesture \in [kind : Kinds, fingers : 0..MaxFingers] BY NoGestureType DEF Tells
<1>3. CASE Enabled
  <2>1. End(s, kind) = [s EXCEPT !.open = NoGesture, !.wrong = x] BY <1>3, Zenon DEF End
  <2>2. x = FALSE BY <1>3 DEF Tells
  <2> HIDE DEF x
  <2>3. End(s, kind) \in Gesture BY <1>1, <1>2, <2>1, Zenon DEF Gesture, Tells
  <2>4. /\ End(s, kind).open = NoGesture /\ End(s, kind).wrong = x
        /\ End(s, kind).count = s.count /\ End(s, kind).state = s.state
    BY <2>1 DEF Gesture, Tells
  <2>5. QED BY <1>3, <2>2, <2>3, <2>4 DEF Tells
<1>4. CASE ~Enabled BY <1>4 DEF End, Tells
<1>5. QED BY <1>3, <1>4

-----------------------------------------------------------------------------
(* The handler of each state.                                              *)

Fits(s, e) == e = "RESET" => s.state \in Undecided \cup {"POINTER_MOTION"}

\* What a handler may change besides what the client sees.
Moves(s, e, r) ==
  /\ r.count = s.count /\ r.pending = s.pending
  /\ r.switch_timer = s.switch_timer \/ r.state = "NONE"
  /\ (s.state = "DRAG_RELEASED" => s.drag_timer) /\ r.state = "DRAG_RELEASED" => r.drag_timer
  /\ e \in {"CANCEL", "RESET"} => r.state \in {"NONE", "PINCH_START"}
  /\ e = "END" => r.state \in Resting
  /\ e \notin Starts /\ s.state = "NONE" => r.state = "NONE"
  /\ e \in Closing /\ r.state = "PINCH_START" => s.state = "PINCH_START"
  /\ e \in GestureTimeouts /\ s.state \in Resting =>
       r.state \in Resting \/ (s.state = "DRAG_RELEASED" /\ s.pending = s.nfingers
                              /\ e \in {"FINGER_SWITCH_TIMEOUT", "TAP_TIMEOUT"})
  /\ e \in GestureTimeouts /\ s.state \in Waiting => r.state \in Waiting
  /\ e = "FINGER_SWITCH_TIMEOUT" /\ s.state # "DRAG_OR_SWIPE" => OpenKind(r.state) = "none"

Handles(s, e, r) == Agrees(r) /\ Moves(s, e, r)

LEMMA NoneHandles ==
  ASSUME NEW s, Agrees(s), s.state = "NONE", NEW e \in Events, Fits(s, e)
  PROVE  Handles(s, e, OnNone(s, e))
<1> DEFINE r == OnNone(s, e)
<1>1. Tells(s, "none") BY DEF Agrees, OpenKind
<1>2. Tells(r, OpenKind(r.state))
  <2>1. CASE e \in Closing
    <3>1. r = Unheld(s) BY <2>1 DEF OnNone, Closing
    <3> HIDE DEF r
    <3>2. Tells(r, "none") /\ r.state = "NONE" BY <1>1, <3>1, UnheldTells DEF Closing
    <3>3. QED BY <3>2 DEF OpenKind
  <2>2. CASE e = "FINGER_DETECTED" /\ ~pad.tap /\ s.nfingers = s.count
    <3>1. r = To(s, "DRAG_OR_SWIPE_START") BY <2>2 DEF OnNone
    <3> HIDE DEF r
    <3>2. Tells(r, "none") /\ r.state = "DRAG_OR_SWIPE_START"
      BY <1>1, <3>1, ToTells DEF GestureStates
    <3>3. QED BY <3>2 DEF OpenKind
  <2>3. CASE e = "FINGER_DETECTED" /\ ~(~pad.tap /\ s.nfingers = s.count)
    <3>1. r = To(SetHoldTimer(s), "UNKNOWN") BY <2>3 DEF OnNone
    <3> HIDE DEF r
    <3>2. Tells(SetHoldTimer(s), "none") BY <1>1, HoldTells DEF SetHoldTimer
    <3>3. Tells(r, "none") /\ r.state = "UNKNOWN" BY <3>1, <3>2, ToTells DEF GestureStates
    <3>4. QED BY <3>3 DEF OpenKind
  <2>4. CASE e \in {"HOLD_TIMEOUT", "TAP_TIMEOUT"}
    BY <1>1, <2>4 DEF OnNone, OpenKind
  <2>5. CASE e = "POINTER_MOTION_START"
    <3>1. r = To(s, "POINTER_MOTION") BY <2>5 DEF OnNone
    <3> HIDE DEF r
    <3>2. Tells(r, "none") /\ r.state = "POINTER_MOTION" BY <1>1, <3>1, ToTells DEF GestureStates
    <3>3. QED BY <3>2 DEF OpenKind
  <2>6. CASE e = "SCROLL_START"
    <3>1. r = To(s, "SCROLL_START") BY <2>6 DEF OnNone
    <3> HIDE DEF r
    <3>2. Tells(r, "none") /\ r.state = "SCROLL_START" BY <1>1, <3>1, ToTells DEF GestureStates
    <3>3. QED BY <3>2 DEF OpenKind
  <2>7. CASE ~((e \in Closing) \/ (e = "FINGER_DETECTED" /\ ~pad.tap /\ s.nfingers = s.count) \/ (e
       = "FINGER_DETECTED" /\ ~(~pad.tap /\ s.nfingers = s.count)) \/ (e \in {"HOLD_TIMEOUT",
            "TAP_TIMEOUT"}) \/ (e = "POINTER_MOTION_START") \/ (e = "SCROLL_START"))
    <3>1. r = Bug(s, e) BY <2>7, Zenon DEF OnNone, Closing
    <3> HIDE DEF r
    <3>2. Tells(r, "none") /\ r.state = s.state BY <1>1, <3>1, BugTells
    <3>3. QED BY <3>2 DEF OpenKind
  <2>8. QED BY <2>1, <2>2, <2>3, <2>4, <2>5, <2>6, <2>7
<1>3. (r.button <=> r.state \in Dragging) /\ (r.scrolling => r.state = "SCROLL" /\ r.twofinger)
  BY <1>1
    DEF OnNone, SetHoldTimer, UseHoldTimer, Quick, Bug, To, Nothing, Unheld, Begin, End, Press,
         Release, StopScroll, Tells, Gesture, Agrees, Dragging, Fits, Undecided
<1>4. Moves(s, e, r)
  BY <1>1
    DEF OnNone, SetHoldTimer, UseHoldTimer, Quick, Bug, To, Nothing, Unheld, Begin, End, Press,
         Release, StopScroll, Tells, Gesture, Moves, Resting, Waiting, Debounced, GestureTimeouts,
              Closing, Starts, Fits, Undecided, OpenKind
<1>5. QED BY <1>2, <1>3, <1>4 DEF Handles, Agrees

LEMMA UnknownHandles ==
  ASSUME NEW s, Agrees(s), s.state = "UNKNOWN", NEW e \in Events, Fits(s, e)
  PROVE  Handles(s, e, OnUnknown(s, e))
<1> DEFINE r == OnUnknown(s, e)
<1>1. Tells(s, "none") BY DEF Agrees, OpenKind
<1>2. Tells(r, OpenKind(r.state))
  <2>1. CASE e \in Closing
    <3>1. r = Nothing(s) BY <2>1 DEF OnUnknown, Closing
    <3> HIDE DEF r
    <3>2. Tells(r, "none") /\ r.state = "NONE" BY <1>1, <3>1, NothingTells
    <3>3. QED BY <3>2 DEF OpenKind
  <2>2. CASE e = "FINGER_SWITCH_TIMEOUT"
    BY <1>1, <2>2 DEF OnUnknown, OpenKind
  <2>3. CASE e \in {"HOLD_TIMEOUT", "TAP_TIMEOUT"}
    <3>1. r = Begin(To(s, "HOLD"), "hold") BY <2>3 DEF OnUnknown
    <3> HIDE DEF r
    <3>2. Tells(r, "hold") /\ r.state = "HOLD"
      BY <1>1, <3>1, ToTells, BeginTells DEF GestureStates, Kinds
    <3>3. QED BY <3>2 DEF OpenKind
  <2>4. CASE e = "POINTER_MOTION_START"
    <3>1. r = To(s, "POINTER_MOTION") BY <2>4 DEF OnUnknown
    <3> HIDE DEF r
    <3>2. Tells(r, "none") /\ r.state = "POINTER_MOTION" BY <1>1, <3>1, ToTells DEF GestureStates
    <3>3. QED BY <3>2 DEF OpenKind
  <2>5. CASE e \in {"SCROLL_START", "SWIPE_START", "PINCH_START", "DRAG_OR_SWIPE_START"}
    <3>1. r = Unheld(To(s, e)) BY <2>5 DEF OnUnknown
    <3> HIDE DEF r
    <3>2. Tells(r, "none") /\ r.state = e
      BY <1>1, <2>5, <3>1, ToTells, UnheldTells DEF GestureStates
    <3>3. QED BY <2>5, <3>2 DEF OpenKind
  <2>6. CASE ~((e \in Closing) \/ (e = "FINGER_SWITCH_TIMEOUT") \/ (e \in {"HOLD_TIMEOUT",
       "TAP_TIMEOUT"}) \/ (e = "POINTER_MOTION_START") \/ (e \in {"SCROLL_START", "SWIPE_START",
            "PINCH_START", "DRAG_OR_SWIPE_START"}))
    <3>1. r = Bug(s, e) BY <2>6, Zenon DEF OnUnknown, Closing
    <3> HIDE DEF r
    <3>2. Tells(r, "none") /\ r.state = s.state BY <1>1, <3>1, BugTells
    <3>3. QED BY <3>2 DEF OpenKind
  <2>7. QED BY <2>1, <2>2, <2>3, <2>4, <2>5, <2>6
<1>3. (r.button <=> r.state \in Dragging) /\ (r.scrolling => r.state = "SCROLL" /\ r.twofinger)
  BY <1>1
    DEF OnUnknown, Bug, To, Nothing, Unheld, Begin, End, Press, Release, StopScroll, Tells,
         Gesture, Agrees, Dragging, Fits, Undecided
<1>4. Moves(s, e, r)
  BY <1>1
    DEF OnUnknown, Bug, To, Nothing, Unheld, Begin, End, Press, Release, StopScroll, Tells,
         Gesture, Moves, Resting, Waiting, Debounced, GestureTimeouts, Closing, Starts, Fits,
              Undecided, OpenKind
<1>5. QED BY <1>2, <1>3, <1>4 DEF Handles, Agrees

LEMMA HoldHandles ==
  ASSUME NEW s, Agrees(s), s.state = "HOLD", NEW e \in Events, Fits(s, e)
  PROVE  Handles(s, e, OnHold(s, e))
<1> DEFINE r == OnHold(s, e)
<1>1. Tells(s, "hold") BY DEF Agrees, OpenKind
<1>2. Tells(r, OpenKind(r.state))
  <2>1. CASE e \in {"END", "CANCEL", "FINGER_SWITCH_TIMEOUT"}
    <3>1. r = HoldEnded(s) BY <2>1 DEF OnHold
    <3> HIDE DEF r
    <3>2. Tells(r, "none") /\ r.state = "NONE"
      BY <1>1, <3>1, NothingTells, EndTells DEF HoldEnded, Kinds
    <3>3. QED BY <3>2 DEF OpenKind
  <2>2. CASE e = "HOLD_AND_MOTION_START"
    <3>1. r = To(s, "HOLD_AND_MOTION") BY <2>2 DEF OnHold
    <3> HIDE DEF r
    <3>2. Tells(r, "hold") /\ r.state = "HOLD_AND_MOTION" BY <1>1, <3>1, ToTells DEF GestureStates
    <3>3. QED BY <3>2 DEF OpenKind
  <2>3. CASE e = "POINTER_MOTION_START"
    <3>1. r = To(HoldEnded(s), "POINTER_MOTION") BY <2>3 DEF OnHold
    <3> HIDE DEF r
    <3>2. Tells(r, "none") /\ r.state = "POINTER_MOTION"
      BY <1>1, <3>1, NothingTells, EndTells, ToTells DEF HoldEnded, Kinds, GestureStates
    <3>3. QED BY <3>2 DEF OpenKind
  <2>4. CASE e \in {"SCROLL_START", "SWIPE_START", "PINCH_START", "DRAG_OR_SWIPE_START"}
    <3>1. r = To(HoldEnded(s), e) BY <2>4 DEF OnHold
    <3> HIDE DEF r
    <3>2. Tells(r, "none") /\ r.state = e
      BY <1>1, <2>4, <3>1, NothingTells, EndTells, ToTells DEF HoldEnded, Kinds, GestureStates
    <3>3. QED BY <2>4, <3>2 DEF OpenKind
  <2>5. CASE ~((e \in {"END", "CANCEL", "FINGER_SWITCH_TIMEOUT"}) \/ (e = "HOLD_AND_MOTION_START")
       \/ (e = "POINTER_MOTION_START") \/ (e \in {"SCROLL_START", "SWIPE_START", "PINCH_START",
            "DRAG_OR_SWIPE_START"}))
    <3>1. r = Bug(s, e) BY <2>5, Zenon DEF OnHold, Closing
    <3> HIDE DEF r
    <3>2. Tells(r, "hold") /\ r.state = s.state BY <1>1, <3>1, BugTells
    <3>3. QED BY <3>2 DEF OpenKind
  <2>6. QED BY <2>1, <2>2, <2>3, <2>4, <2>5
<1>3. (r.button <=> r.state \in Dragging) /\ (r.scrolling => r.state = "SCROLL" /\ r.twofinger)
  BY <1>1
    DEF OnHold, HoldEnded, Bug, To, Nothing, Unheld, Begin, End, Press, Release, StopScroll, Tells,
         Gesture, Agrees, Dragging, Fits, Undecided
<1>4. Moves(s, e, r)
  BY <1>1
    DEF OnHold, HoldEnded, Bug, To, Nothing, Unheld, Begin, End, Press, Release, StopScroll, Tells,
         Gesture, Moves, Resting, Waiting, Debounced, GestureTimeouts, Closing, Starts, Fits,
              Undecided, OpenKind
<1>5. QED BY <1>2, <1>3, <1>4 DEF Handles, Agrees

LEMMA HoldAndMotionHandles ==
  ASSUME NEW s, Agrees(s), s.state = "HOLD_AND_MOTION", NEW e \in Events, Fits(s, e)
  PROVE  Handles(s, e, OnHoldAndMotion(s, e))
<1> DEFINE r == OnHoldAndMotion(s, e)
<1>1. Tells(s, "hold") BY DEF Agrees, OpenKind
<1>2. Tells(r, OpenKind(r.state))
  <2>1. Tells(HoldEnded(s), "none") /\ HoldEnded(s).state = "NONE"
    BY <1>1, NothingTells, EndTells DEF HoldEnded, Kinds
  <2>2. QED
    BY <1>1, <2>1, ToTells, UnheldTells, NothingTells, BugTells
      DEF OnHoldAndMotion, OpenKind, GestureStates, Fits, Undecided
<1>3. (r.button <=> r.state \in Dragging) /\ (r.scrolling => r.state = "SCROLL" /\ r.twofinger)
  BY <1>1
    DEF OnHoldAndMotion, HoldEnded, Bug, To, Nothing, Unheld, Begin, End, Press, Release,
         StopScroll, Tells, Gesture, Agrees, Dragging, Fits, Undecided
<1>4. Moves(s, e, r)
  BY <1>1
    DEF OnHoldAndMotion, HoldEnded, Bug, To, Nothing, Unheld, Begin, End, Press, Release,
         StopScroll, Tells, Gesture, Moves, Resting, Waiting, Debounced, GestureTimeouts, Closing,
              Starts, Fits, Undecided, OpenKind
<1>5. QED BY <1>2, <1>3, <1>4 DEF Handles, Agrees

LEMMA PointerMotionHandles ==
  ASSUME NEW s, Agrees(s), s.state = "POINTER_MOTION", NEW e \in Events, Fits(s, e), NEW near \in
       BOOLEAN
  PROVE  Handles(s, e, OnPointerMotion(s, e, near))
<1> DEFINE r == OnPointerMotion(s, e, near)
<1>1. Tells(s, "none") BY DEF Agrees, OpenKind
<1>2. Tells(r, OpenKind(r.state))
  <2>1. CASE e \in Closing
    <3>1. r = Nothing(s) BY <2>1 DEF OnPointerMotion, Closing
    <3> HIDE DEF r
    <3>2. Tells(r, "none") /\ r.state = "NONE" BY <1>1, <3>1, NothingTells
    <3>3. QED BY <3>2 DEF OpenKind
  <2>2. CASE e \in {"HOLD_TIMEOUT", "TAP_TIMEOUT"} /\ s.count = 1 /\ near
    <3>1. r = Begin(To(s, "HOLD_AND_MOTION"), "hold") BY <2>2 DEF OnPointerMotion
    <3> HIDE DEF r
    <3>2. Tells(r, "hold") /\ r.state = "HOLD_AND_MOTION"
      BY <1>1, <3>1, ToTells, BeginTells DEF GestureStates, Kinds
    <3>3. QED BY <3>2 DEF OpenKind
  <2>3. CASE e \in {"HOLD_TIMEOUT", "TAP_TIMEOUT"} /\ ~(s.count = 1 /\ near)
    BY <1>1, <2>3 DEF OnPointerMotion, OpenKind
  <2>4. CASE ~((e \in Closing) \/ (e \in {"HOLD_TIMEOUT", "TAP_TIMEOUT"} /\ s.count = 1 /\ near) \/
       (e \in {"HOLD_TIMEOUT", "TAP_TIMEOUT"} /\ ~(s.count = 1 /\ near)))
    <3>1. r = Bug(s, e) BY <2>4, Zenon DEF OnPointerMotion, Closing
    <3> HIDE DEF r
    <3>2. Tells(r, "none") /\ r.state = s.state BY <1>1, <3>1, BugTells
    <3>3. QED BY <3>2 DEF OpenKind
  <2>5. QED BY <2>1, <2>2, <2>3, <2>4
<1>3. (r.button <=> r.state \in Dragging) /\ (r.scrolling => r.state = "SCROLL" /\ r.twofinger)
  BY <1>1
    DEF OnPointerMotion, Bug, To, Nothing, Unheld, Begin, End, Press, Release, StopScroll, Tells,
         Gesture, Agrees, Dragging, Fits, Undecided
<1>4. Moves(s, e, r)
  BY <1>1
    DEF OnPointerMotion, Bug, To, Nothing, Unheld, Begin, End, Press, Release, StopScroll, Tells,
         Gesture, Moves, Resting, Waiting, Debounced, GestureTimeouts, Closing, Starts, Fits,
              Undecided, OpenKind
<1>5. QED BY <1>2, <1>3, <1>4 DEF Handles, Agrees

LEMMA ScrollStartHandles ==
  ASSUME NEW s, Agrees(s), s.state = "SCROLL_START", NEW e \in Events, Fits(s, e)
  PROVE  Handles(s, e, OnScrollStart(s, e))
<1> DEFINE r == OnScrollStart(s, e)
<1>1. Tells(s, "none") BY DEF Agrees, OpenKind
<1>2. Tells(r, OpenKind(r.state))
  BY <1>1, ToTells, UnheldTells, NothingTells, BugTells
    DEF OnScrollStart, OpenKind, GestureStates, Fits, Undecided
<1>3. (r.button <=> r.state \in Dragging) /\ (r.scrolling => r.state = "SCROLL" /\ r.twofinger)
  BY <1>1
    DEF OnScrollStart, Bug, To, Nothing, Unheld, Begin, End, Press, Release, StopScroll, Tells,
         Gesture, Agrees, Dragging, Fits, Undecided
<1>4. Moves(s, e, r)
  BY <1>1
    DEF OnScrollStart, Bug, To, Nothing, Unheld, Begin, End, Press, Release, StopScroll, Tells,
         Gesture, Moves, Resting, Waiting, Debounced, GestureTimeouts, Closing, Starts, Fits,
              Undecided, OpenKind
<1>5. QED BY <1>2, <1>3, <1>4 DEF Handles, Agrees

LEMMA ScrollHandles ==
  ASSUME NEW s, Agrees(s), s.state = "SCROLL", NEW e \in Events, Fits(s, e)
  PROVE  Handles(s, e, OnScroll(s, e))
<1> DEFINE r == OnScroll(s, e)
<1>1. Tells(s, "none") BY DEF Agrees, OpenKind
<1>2. Tells(r, OpenKind(r.state))
  <2>1. Tells(ScrollEnded(s), "none") /\ ScrollEnded(s).state = "NONE"
    BY <1>1, NothingTells, StopScrollTells DEF ScrollEnded
  <2>2. QED
    BY <1>1, <2>1, ToTells, UnheldTells, NothingTells, BugTells
      DEF OnScroll, OpenKind, GestureStates, Fits
<1>3. (r.button <=> r.state \in Dragging) /\ (r.scrolling => r.state = "SCROLL" /\ r.twofinger)
  BY <1>1
    DEF OnScroll, ScrollEnded, Bug, To, Nothing, Unheld, Begin, End, Press, Release, StopScroll,
         Tells, Gesture, Agrees, Dragging, Fits, Undecided
<1>4. Moves(s, e, r)
  BY <1>1
    DEF OnScroll, ScrollEnded, Bug, To, Nothing, Unheld, Begin, End, Press, Release, StopScroll,
         Tells, Gesture, Moves, Resting, Waiting, Debounced, GestureTimeouts, Closing, Starts,
              Fits, Undecided, OpenKind
<1>5. QED BY <1>2, <1>3, <1>4 DEF Handles, Agrees

LEMMA PinchStartHandles ==
  ASSUME NEW s, Agrees(s), s.state = "PINCH_START", NEW e \in Events, Fits(s, e)
  PROVE  Handles(s, e, OnPinchStart(s, e))
<1> DEFINE r == OnPinchStart(s, e)
<1>1. Tells(s, "none") BY DEF Agrees, OpenKind
<1>2. Tells(r, OpenKind(r.state))
  BY <1>1, ToTells, UnheldTells, NothingTells, BugTells
    DEF OnPinchStart, OpenKind, GestureStates, Fits, Undecided
<1>3. (r.button <=> r.state \in Dragging) /\ (r.scrolling => r.state = "SCROLL" /\ r.twofinger)
  BY <1>1
    DEF OnPinchStart, Bug, To, Nothing, Unheld, Begin, End, Press, Release, StopScroll, Tells,
         Gesture, Agrees, Dragging, Fits, Undecided
<1>4. Moves(s, e, r)
  BY <1>1
    DEF OnPinchStart, Bug, To, Nothing, Unheld, Begin, End, Press, Release, StopScroll, Tells,
         Gesture, Moves, Resting, Waiting, Debounced, GestureTimeouts, Closing, Starts, Fits,
              Undecided, OpenKind
<1>5. QED BY <1>2, <1>3, <1>4 DEF Handles, Agrees

LEMMA PinchHandles ==
  ASSUME NEW s, Agrees(s), s.state = "PINCH", NEW e \in Events, Fits(s, e)
  PROVE  Handles(s, e, OnPinch(s, e))
<1> DEFINE r == OnPinch(s, e)
<1>1. Tells(s, "pinch") BY DEF Agrees, OpenKind
<1>2. Tells(r, OpenKind(r.state))
  <2>1. CASE e \in {"END", "CANCEL", "FINGER_SWITCH_TIMEOUT"}
    <3>1. r = End(Nothing(s), "pinch") BY <2>1 DEF OnPinch
    <3> HIDE DEF r
    <3>2. Tells(r, "none") /\ r.state = "NONE" BY <1>1, <3>1, NothingTells, EndTells DEF Kinds
    <3>3. QED BY <3>2 DEF OpenKind
  <2>2. CASE ~((e \in {"END", "CANCEL", "FINGER_SWITCH_TIMEOUT"}))
    <3>1. r = Bug(s, e) BY <2>2, Zenon DEF OnPinch, Closing
    <3> HIDE DEF r
    <3>2. Tells(r, "pinch") /\ r.state = s.state BY <1>1, <3>1, BugTells
    <3>3. QED BY <3>2 DEF OpenKind
  <2>3. QED BY <2>1, <2>2
<1>3. (r.button <=> r.state \in Dragging) /\ (r.scrolling => r.state = "SCROLL" /\ r.twofinger)
  BY <1>1
    DEF OnPinch, Bug, To, Nothing, Unheld, Begin, End, Press, Release, StopScroll, Tells, Gesture,
         Agrees, Dragging, Fits, Undecided
<1>4. Moves(s, e, r)
  BY <1>1
    DEF OnPinch, Bug, To, Nothing, Unheld, Begin, End, Press, Release, StopScroll, Tells, Gesture,
         Moves, Resting, Waiting, Debounced, GestureTimeouts, Closing, Starts, Fits, Undecided,
              OpenKind
<1>5. QED BY <1>2, <1>3, <1>4 DEF Handles, Agrees

LEMMA SwipeStartHandles ==
  ASSUME NEW s, Agrees(s), s.state = "SWIPE_START", NEW e \in Events, Fits(s, e)
  PROVE  Handles(s, e, OnSwipeStart(s, e))
<1> DEFINE r == OnSwipeStart(s, e)
<1>1. Tells(s, "none") BY DEF Agrees, OpenKind
<1>2. Tells(r, OpenKind(r.state))
  BY <1>1, ToTells, UnheldTells, NothingTells, BugTells
    DEF OnSwipeStart, OpenKind, GestureStates, Fits, Undecided
<1>3. (r.button <=> r.state \in Dragging) /\ (r.scrolling => r.state = "SCROLL" /\ r.twofinger)
  BY <1>1
    DEF OnSwipeStart, Bug, To, Nothing, Unheld, Begin, End, Press, Release, StopScroll, Tells,
         Gesture, Agrees, Dragging, Fits, Undecided
<1>4. Moves(s, e, r)
  BY <1>1
    DEF OnSwipeStart, Bug, To, Nothing, Unheld, Begin, End, Press, Release, StopScroll, Tells,
         Gesture, Moves, Resting, Waiting, Debounced, GestureTimeouts, Closing, Starts, Fits,
              Undecided, OpenKind
<1>5. QED BY <1>2, <1>3, <1>4 DEF Handles, Agrees

LEMMA SwipeHandles ==
  ASSUME NEW s, Agrees(s), s.state = "SWIPE", NEW e \in Events, Fits(s, e)
  PROVE  Handles(s, e, OnSwipe(s, e))
<1> DEFINE r == OnSwipe(s, e)
<1>1. Tells(s, "swipe") BY DEF Agrees, OpenKind
<1>2. Tells(r, OpenKind(r.state))
  <2>1. CASE e \in {"END", "CANCEL", "FINGER_SWITCH_TIMEOUT"}
    <3>1. r = End(Nothing(s), "swipe") BY <2>1 DEF OnSwipe
    <3> HIDE DEF r
    <3>2. Tells(r, "none") /\ r.state = "NONE" BY <1>1, <3>1, NothingTells, EndTells DEF Kinds
    <3>3. QED BY <3>2 DEF OpenKind
  <2>2. CASE ~((e \in {"END", "CANCEL", "FINGER_SWITCH_TIMEOUT"}))
    <3>1. r = Bug(s, e) BY <2>2, Zenon DEF OnSwipe, Closing
    <3> HIDE DEF r
    <3>2. Tells(r, "swipe") /\ r.state = s.state BY <1>1, <3>1, BugTells
    <3>3. QED BY <3>2 DEF OpenKind
  <2>3. QED BY <2>1, <2>2
<1>3. (r.button <=> r.state \in Dragging) /\ (r.scrolling => r.state = "SCROLL" /\ r.twofinger)
  BY <1>1
    DEF OnSwipe, Bug, To, Nothing, Unheld, Begin, End, Press, Release, StopScroll, Tells, Gesture,
         Agrees, Dragging, Fits, Undecided
<1>4. Moves(s, e, r)
  BY <1>1
    DEF OnSwipe, Bug, To, Nothing, Unheld, Begin, End, Press, Release, StopScroll, Tells, Gesture,
         Moves, Resting, Waiting, Debounced, GestureTimeouts, Closing, Starts, Fits, Undecided,
              OpenKind
<1>5. QED BY <1>2, <1>3, <1>4 DEF Handles, Agrees

LEMMA DragOrSwipeStartHandles ==
  ASSUME NEW s, Agrees(s), s.state = "DRAG_OR_SWIPE_START", NEW e \in Events, Fits(s, e)
  PROVE  Handles(s, e, OnDragOrSwipeStart(s, e))
<1> DEFINE r == OnDragOrSwipeStart(s, e)
<1>1. Tells(s, "none") BY DEF Agrees, OpenKind
<1>2. Tells(r, OpenKind(r.state))
  BY <1>1, ToTells, UnheldTells, NothingTells, BugTells
    DEF OnDragOrSwipeStart, OpenKind, GestureStates, Fits, Undecided
<1>3. (r.button <=> r.state \in Dragging) /\ (r.scrolling => r.state = "SCROLL" /\ r.twofinger)
  BY <1>1
    DEF OnDragOrSwipeStart, Bug, To, Nothing, Unheld, Begin, End, Press, Release, StopScroll,
         Tells, Gesture, Agrees, Dragging, Fits, Undecided
<1>4. Moves(s, e, r)
  BY <1>1
    DEF OnDragOrSwipeStart, Bug, To, Nothing, Unheld, Begin, End, Press, Release, StopScroll,
         Tells, Gesture, Moves, Resting, Waiting, Debounced, GestureTimeouts, Closing, Starts,
              Fits, Undecided, OpenKind
<1>5. QED BY <1>2, <1>3, <1>4 DEF Handles, Agrees

LEMMA DragOrSwipeHandles ==
  ASSUME NEW s, Agrees(s), s.state = "DRAG_OR_SWIPE", NEW e \in Events, Fits(s, e), NEW near \in
       BOOLEAN
  PROVE  Handles(s, e, OnDragOrSwipe(s, e, near))
<1> DEFINE r == OnDragOrSwipe(s, e, near)
<1>1. Tells(s, "swipe") BY DEF Agrees, OpenKind
<1>2. Tells(r, OpenKind(r.state))
  <2>1. CASE e = "RESET" BY <2>1 DEF Fits, Undecided
  <2>2. CASE e \in {"END", "CANCEL"}
    <3>1. r = To(End(s, "swipe"), "NONE") BY <2>2 DEF OnDragOrSwipe
    <3> HIDE DEF r
    <3>2. Tells(r, "none") /\ r.state = "NONE"
      BY <1>1, <3>1, EndTells, ToTells DEF Kinds, GestureStates
    <3>3. QED BY <3>2 DEF OpenKind
  <2>3. CASE e = "FINGER_SWITCH_TIMEOUT"
    BY <1>1, <2>3 DEF OnDragOrSwipe, OpenKind
  <2>4. CASE e = "DRAG_OR_SWIPE_TIMEOUT" /\ near
    <3>1. r = To(End([s EXCEPT !.swipe_timer = FALSE], "swipe"), "DRAG_START")
      BY <2>4 DEF OnDragOrSwipe
    <3> HIDE DEF r
    <3>2. Tells(r, "none") /\ r.state = "DRAG_START"
      BY <1>1, <3>1, SwipeTells, EndTells, ToTells DEF Kinds, GestureStates
    <3>3. QED BY <3>2 DEF OpenKind
  <2>5. CASE e = "DRAG_OR_SWIPE_TIMEOUT" /\ ~near
    <3>1. r = To([s EXCEPT !.swipe_timer = FALSE], "SWIPE") BY <2>5 DEF OnDragOrSwipe
    <3> HIDE DEF r
    <3>2. Tells(r, "swipe") /\ r.state = "SWIPE"
      BY <1>1, <3>1, SwipeTells, ToTells DEF GestureStates
    <3>3. QED BY <3>2 DEF OpenKind
  <2>6. CASE ~((e = "RESET") \/ (e \in {"END", "CANCEL"}) \/ (e = "FINGER_SWITCH_TIMEOUT") \/ (e =
       "DRAG_OR_SWIPE_TIMEOUT" /\ near) \/ (e = "DRAG_OR_SWIPE_TIMEOUT" /\ ~near))
    <3>1. r = Bug(s, e) BY <2>6, Zenon DEF OnDragOrSwipe, Closing
    <3> HIDE DEF r
    <3>2. Tells(r, "swipe") /\ r.state = s.state BY <1>1, <3>1, BugTells
    <3>3. QED BY <3>2 DEF OpenKind
  <2>7. QED BY <2>1, <2>2, <2>3, <2>4, <2>5, <2>6
<1>3. (r.button <=> r.state \in Dragging) /\ (r.scrolling => r.state = "SCROLL" /\ r.twofinger)
  BY <1>1
    DEF OnDragOrSwipe, Bug, To, Nothing, Unheld, Begin, End, Press, Release, StopScroll, Tells,
         Gesture, Agrees, Dragging, Fits, Undecided
<1>4. Moves(s, e, r)
  BY <1>1
    DEF OnDragOrSwipe, Bug, To, Nothing, Unheld, Begin, End, Press, Release, StopScroll, Tells,
         Gesture, Moves, Resting, Waiting, Debounced, GestureTimeouts, Closing, Starts, Fits,
              Undecided, OpenKind
<1>5. QED BY <1>2, <1>3, <1>4 DEF Handles, Agrees

LEMMA DragStartHandles ==
  ASSUME NEW s, Agrees(s), s.state = "DRAG_START", NEW e \in Events, Fits(s, e)
  PROVE  Handles(s, e, OnDragStart(s, e))
<1> DEFINE r == OnDragStart(s, e)
<1>1. Tells(s, "none") BY DEF Agrees, OpenKind
<1>2. Tells(r, OpenKind(r.state))
  BY <1>1, ToTells, UnheldTells, NothingTells, BugTells
    DEF OnDragStart, OpenKind, GestureStates, Fits, Undecided
<1>3. (r.button <=> r.state \in Dragging) /\ (r.scrolling => r.state = "SCROLL" /\ r.twofinger)
  BY <1>1
    DEF OnDragStart, Bug, To, Nothing, Unheld, Begin, End, Press, Release, StopScroll, Tells,
         Gesture, Agrees, Dragging, Fits, Undecided
<1>4. Moves(s, e, r)
  BY <1>1
    DEF OnDragStart, Bug, To, Nothing, Unheld, Begin, End, Press, Release, StopScroll, Tells,
         Gesture, Moves, Resting, Waiting, Debounced, GestureTimeouts, Closing, Starts, Fits,
              Undecided, OpenKind
<1>5. QED BY <1>2, <1>3, <1>4 DEF Handles, Agrees

LEMMA DragHandles ==
  ASSUME NEW s, Agrees(s), s.state = "DRAG", NEW e \in Events, Fits(s, e)
  PROVE  Handles(s, e, OnDrag(s, e))
<1> DEFINE r == OnDrag(s, e)
<1>1. Tells(s, "none") BY DEF Agrees, OpenKind
<1>2. Tells(r, OpenKind(r.state))
  <2>1. s.button = TRUE BY <1>1 DEF Agrees, Dragging, Tells, Gesture
  <2>2. Tells(Release(s), "none") BY <1>1, <2>1, ReleaseTells
  <2>3. Tells([s EXCEPT !.drag_timer = TRUE], "none") BY <1>1, DragTells
  <2>4. QED
    BY <1>1, <2>2, <2>3, ToTells, UnheldTells, NothingTells, BugTells
      DEF OnDrag, OpenKind, GestureStates, Fits, Undecided
<1>3. (r.button <=> r.state \in Dragging) /\ (r.scrolling => r.state = "SCROLL" /\ r.twofinger)
  <2>1. s.button = TRUE /\ s.scrolling = FALSE BY <1>1 DEF Agrees, Dragging, Tells, Gesture
  <2>2. (r.button = TRUE /\ r.state \in Dragging) \/ (r.button = FALSE /\ r.state \notin Dragging)
    BY <1>1, <2>1
      DEF OnDrag, Bug, To, Nothing, Unheld, Begin, End, Press, Release, StopScroll, Tells, Gesture,
           Dragging, Fits, Undecided
  <2>3. r.scrolling = FALSE
    BY <1>1, <2>1
      DEF OnDrag, Bug, To, Nothing, Unheld, Begin, End, Press, Release, StopScroll, Tells, Gesture
  <2> HIDE DEF r
  <2>4. QED BY <2>2, <2>3
<1>4. Moves(s, e, r)
  BY <1>1
    DEF OnDrag, Bug, To, Nothing, Unheld, Begin, End, Press, Release, StopScroll, Tells, Gesture,
         Moves, Resting, Waiting, Debounced, GestureTimeouts, Closing, Starts, Fits, Undecided,
              OpenKind
<1>5. QED BY <1>2, <1>3, <1>4 DEF Handles, Agrees

LEMMA DragReleasedHandles ==
  ASSUME NEW s, Agrees(s), s.state = "DRAG_RELEASED", NEW e \in Events, Fits(s, e)
  PROVE  Handles(s, e, OnDragReleased(s, e))
<1> DEFINE r == OnDragReleased(s, e)
<1>1. Tells(s, "none") BY DEF Agrees, OpenKind
<1>2. Tells(r, OpenKind(r.state))
  <2> DEFINE untimed == [s EXCEPT !.drag_timer = FALSE]
             settled == [untimed EXCEPT !.switch_timer = FALSE]
  <2>1. s.button = TRUE BY <1>1 DEF Agrees, Dragging, Tells, Gesture
  <2>2. Tells(untimed, "none") BY <1>1, DragTells
  <2>3. Tells(settled, "none") BY <2>2, SwitchTells
  <2>4. untimed.button = TRUE BY <1>1, <2>1 DEF Tells, Gesture
  <2>5. settled.button = TRUE BY <1>1, <2>1 DEF Tells, Gesture
  <2>6. Tells(Release(untimed), "none") BY <2>2, <2>4, ReleaseTells
  <2>7. Tells(Release(settled), "none") BY <2>3, <2>5, ReleaseTells
  <2>8. CASE e \in {"END", "CANCEL", "DRAG_RELEASE_TIMEOUT"}
    <3>1. r = To(Release(settled), "NONE") BY <2>8 DEF OnDragReleased
    <3> HIDE DEF untimed, settled, r
    <3>2. Tells(r, "none") /\ r.state = "NONE" BY <1>1, <3>1, <2>7, ToTells DEF GestureStates
    <3>3. QED BY <3>2 DEF OpenKind
  <2>9. CASE e \in {"FINGER_SWITCH_TIMEOUT", "TAP_TIMEOUT"} /\ s.pending = s.nfingers
    <3>1. r = To(untimed, "DRAG") BY <2>9 DEF OnDragReleased
    <3> HIDE DEF untimed, settled, r
    <3>2. Tells(r, "none") /\ r.state = "DRAG" BY <1>1, <3>1, <2>2, ToTells DEF GestureStates
    <3>3. QED BY <3>2 DEF OpenKind
  <2>10. CASE e \in {"FINGER_SWITCH_TIMEOUT", "TAP_TIMEOUT"} /\ s.pending # s.nfingers
    BY <1>1, <2>10 DEF OnDragReleased, OpenKind
  <2>11. CASE e = "FINGER_DETECTED"
    BY <1>1, <2>11 DEF OnDragReleased, OpenKind
  <2>12. CASE e = "POINTER_MOTION_START"
    <3>1. r = To(Release(untimed), "POINTER_MOTION") BY <2>12 DEF OnDragReleased
    <3> HIDE DEF untimed, settled, r
    <3>2. Tells(r, "none") /\ r.state = "POINTER_MOTION"
      BY <1>1, <3>1, <2>6, ToTells DEF GestureStates
    <3>3. QED BY <3>2 DEF OpenKind
  <2>13. CASE e = "SCROLL_START"
    <3>1. r = To(Release(untimed), "SCROLL_START") BY <2>13 DEF OnDragReleased
    <3> HIDE DEF untimed, settled, r
    <3>2. Tells(r, "none") /\ r.state = "SCROLL_START"
      BY <1>1, <3>1, <2>6, ToTells DEF GestureStates
    <3>3. QED BY <3>2 DEF OpenKind
  <2>14. CASE e \in {"SWIPE_START", "PINCH_START"}
    <3>1. r = To(untimed, "DRAG") BY <2>14 DEF OnDragReleased
    <3> HIDE DEF untimed, settled, r
    <3>2. Tells(r, "none") /\ r.state = "DRAG" BY <1>1, <3>1, <2>2, ToTells DEF GestureStates
    <3>3. QED BY <3>2 DEF OpenKind
  <2>15. CASE ~((e \in {"END", "CANCEL", "DRAG_RELEASE_TIMEOUT"}) \/ (e \in
       {"FINGER_SWITCH_TIMEOUT", "TAP_TIMEOUT"} /\ s.pending = s.nfingers) \/ (e \in
            {"FINGER_SWITCH_TIMEOUT", "TAP_TIMEOUT"} /\ s.pending # s.nfingers) \/ (e =
                 "FINGER_DETECTED") \/ (e = "POINTER_MOTION_START") \/ (e = "SCROLL_START") \/ (e
                      \in {"SWIPE_START", "PINCH_START"}))
    <3>1. r = Bug(s, e) BY <2>15, Zenon DEF OnDragReleased, Closing
    <3> HIDE DEF r
    <3>2. Tells(r, "none") /\ r.state = s.state BY <1>1, <3>1, BugTells
    <3>3. QED BY <3>2 DEF OpenKind
  <2>16. QED BY <2>8, <2>9, <2>10, <2>11, <2>12, <2>13, <2>14, <2>15
<1>3. (r.button <=> r.state \in Dragging) /\ (r.scrolling => r.state = "SCROLL" /\ r.twofinger)
  <2>1. s.button = TRUE /\ s.scrolling = FALSE BY <1>1 DEF Agrees, Dragging, Tells, Gesture
  <2>2. (r.button = TRUE /\ r.state \in Dragging) \/ (r.button = FALSE /\ r.state \notin Dragging)
    BY <1>1, <2>1
      DEF OnDragReleased, Bug, To, Nothing, Unheld, Begin, End, Press, Release, StopScroll, Tells,
           Gesture, Dragging, Fits, Undecided
  <2>3. r.scrolling = FALSE
    BY <1>1, <2>1
      DEF OnDragReleased, Bug, To, Nothing, Unheld, Begin, End, Press, Release, StopScroll, Tells,
           Gesture
  <2> HIDE DEF r
  <2>4. QED BY <2>2, <2>3
<1>4. Moves(s, e, r)
  BY <1>1
    DEF OnDragReleased, Bug, To, Nothing, Unheld, Begin, End, Press, Release, StopScroll, Tells,
         Gesture, Moves, Resting, Waiting, Debounced, GestureTimeouts, Closing, Starts, Fits,
              Undecided, OpenKind
<1>5. QED BY <1>2, <1>3, <1>4 DEF Handles, Agrees

-----------------------------------------------------------------------------
(* The machine as a whole.                                                 *)

LEMMA HandleHandles ==
  ASSUME NEW s, Agrees(s), NEW e \in Events, Fits(s, e), NEW near \in BOOLEAN
  PROVE  Handles(s, e, Handle(s, e, near))
<1>1. s.state \in GestureStates BY DEF Agrees, Tells, Gesture
<1>2. CASE s.state = "NONE" BY <1>2, NoneHandles DEF Handle
<1>3. CASE s.state = "UNKNOWN" BY <1>3, UnknownHandles DEF Handle
<1>4. CASE s.state = "HOLD" BY <1>4, HoldHandles DEF Handle
<1>5. CASE s.state = "HOLD_AND_MOTION" BY <1>5, HoldAndMotionHandles DEF Handle
<1>6. CASE s.state = "POINTER_MOTION" BY <1>6, PointerMotionHandles DEF Handle
<1>7. CASE s.state = "SCROLL_START" BY <1>7, ScrollStartHandles DEF Handle
<1>8. CASE s.state = "SCROLL" BY <1>8, ScrollHandles DEF Handle
<1>9. CASE s.state = "PINCH_START" BY <1>9, PinchStartHandles DEF Handle
<1>10. CASE s.state = "PINCH" BY <1>10, PinchHandles DEF Handle
<1>11. CASE s.state = "SWIPE_START" BY <1>11, SwipeStartHandles DEF Handle
<1>12. CASE s.state = "SWIPE" BY <1>12, SwipeHandles DEF Handle
<1>13. CASE s.state = "DRAG_OR_SWIPE_START" BY <1>13, DragOrSwipeStartHandles DEF Handle
<1>14. CASE s.state = "DRAG_OR_SWIPE" BY <1>14, DragOrSwipeHandles DEF Handle
<1>15. CASE s.state = "DRAG_START" BY <1>15, DragStartHandles DEF Handle
<1>16. CASE s.state = "DRAG" BY <1>16, DragHandles DEF Handle
<1>17. CASE s.state = "DRAG_RELEASED" BY <1>17, DragReleasedHandles DEF Handle
<1>18. QED
  BY <1>1, <1>2, <1>3, <1>4, <1>5, <1>6, <1>7, <1>8, <1>9, <1>10, <1>11, <1>12, <1>13, <1>14,
     <1>15, <1>16, <1>17 DEF GestureStates

\* The number of fingers, and the one that waits for its timer, stay.
Steady(r, s) == Good(r) /\ r.count = s.count /\ r.pending = s.pending

\* The events that do so in a good state.
Allowed(s, e) ==
  /\ Fits(s, e)
  /\ e \in Starts => s.count # 0 /\ s.pending = 0
  /\ e = "TAP_TIMEOUT" => s.pending = 0 /\ (s.state = "DRAG_RELEASED" => s.nfingers # 0)
  /\ e # "FINGER_SWITCH_TIMEOUT"

LEMMA HandleSteady ==
  ASSUME NEW s, Good(s), NEW e \in Events, Allowed(s, e), NEW near \in BOOLEAN
  PROVE  Steady(Handle(s, e, near), s)
<1> DEFINE r == Handle(s, e, near)
<1>1. Handles(s, e, r) BY HandleHandles DEF Good, Allowed
<1> HIDE DEF r
<1>2. r.state = "DRAG_RELEASED" => r.drag_timer BY <1>1 DEF Handles, Moves, Good, Timed
<1>3. r.count = 0 => r.state \in Resting
  BY <1>1
    DEF Handles, Moves, Good, Timed, Allowed, Events, Closing, GestureTimeouts, Starts, Resting
<1>4. r.pending # 0 => r.state = "NONE" \/ (r.state \in Debounced /\ r.switch_timer)
  <2>1. SUFFICES ASSUME r.pending # 0
    PROVE r.state = "NONE" \/ (r.state \in Debounced /\ r.switch_timer)
    OBVIOUS
  <2>2. s.pending # 0 /\ s.state \in Waiting /\ (s.state # "NONE" => s.switch_timer)
    BY <1>1, <2>1 DEF Handles, Moves, Good, Timed, Waiting
  <2>3. e \in Closing \/ e \in GestureTimeouts BY <2>2 DEF Allowed, Events
  <2>4. r.state \in Waiting
    <3>1. CASE e \in GestureTimeouts BY <1>1, <2>2, <3>1 DEF Handles, Moves
    <3>2. CASE e \in Closing
      BY <1>1, <2>2, <3>2 DEF Handles, Moves, Closing, Waiting, Debounced, Resting
    <3>3. QED BY <2>3, <3>1, <3>2
  <2>5. s.state = "NONE" => r.state = "NONE"
    BY <1>1, <2>3 DEF Handles, Moves, Closing, GestureTimeouts, Starts
  <2>6. QED BY <1>1, <2>2, <2>4, <2>5 DEF Handles, Moves, Waiting
<1>5. Timed(r) BY <1>2, <1>3, <1>4 DEF Timed
<1>6. Agrees(r) /\ r.count = s.count /\ r.pending = s.pending BY <1>1 DEF Handles, Moves
<1>7. QED BY <1>5, <1>6 DEF r, Steady, Good

LEMMA EndedSteady ==
  ASSUME NEW s, Good(s), NEW how \in {"CANCEL", "END"}
  PROVE  /\ Steady(Ended(s, how), s)
         /\ Ended(s, how).state \in Resting
         /\ how = "CANCEL" => Ended(s, how).state \in {"NONE", "PINCH_START"}
<1> DEFINE e == IF s.state \in Undecided THEN "RESET" ELSE how
<1>1. e \in Events /\ Allowed(s, e) /\ Fits(s, e)
  BY DEF Events, Closing, Starts, Allowed, Fits
<1>2. e \in {"CANCEL", "RESET", "END"} /\ (how = "CANCEL" => e \in {"CANCEL", "RESET"})
  OBVIOUS
<1>3. Ended(s, how) = Handle(s, e, FALSE) BY DEF Ended
<1> HIDE DEF e
<1>4. Steady(Handle(s, e, FALSE), s) BY <1>1, HandleSteady
<1>5. Handles(s, e, Handle(s, e, FALSE)) BY <1>1, HandleHandles DEF Good
<1>6. QED BY <1>2, <1>3, <1>4, <1>5 DEF Handles, Moves, Resting

LEMMA CancelSteady ==
  ASSUME NEW s, Good(s)
  PROVE  Steady(Cancel(s), s) /\ Cancel(s).state \in {"NONE", "PINCH_START"}
  BY EndedSteady DEF Cancel

LEMMA StopSteady ==
  ASSUME NEW s, Good(s)
  PROVE  Steady(Stop(s), s) /\ Stop(s).state \in Resting
  BY EndedSteady DEF Stop

LEMMA CancelMotionSteady ==
  ASSUME NEW s, Good(s)
  PROVE  Steady(CancelMotion(s), s)
<1>1. Steady(s, s) BY DEF Steady
<1>2. QED BY <1>1, CancelSteady DEF CancelMotion

-----------------------------------------------------------------------------
(* What a frame does to fingers that are down and not about to change.     *)

Settled(s) == Good(s) /\ s.count # 0 /\ s.pending = 0

LEMMA StartSteady ==
  ASSUME NEW s, Settled(s), NEW e \in Starts
  PROVE  Steady(Handle(s, e, FALSE), s)
<1>1. e \in Events /\ Allowed(s, e) BY DEF Events, Starts, Closing, Allowed, Fits, Settled
<1>2. QED BY <1>1, HandleSteady DEF Settled

LEMMA SelfSteady ==
  ASSUME NEW s, Settled(s)
  PROVE  Steady(s, s)
  BY DEF Settled, Steady

LEMMA DetectSteady ==
  ASSUME NEW s, Settled(s), NEW m, m.way \in Ways
  PROVE  Steady(Detect(s, m), s)
<1>1. Parallel(s) \in Starts BY DEF Parallel, Starts
<1>2. Steady(DetectOne(s, m), s)
  BY StartSteady, SelfSteady DEF DetectOne, Starts
<1>3. Steady(DetectMany(s, m), s)
  <2>1. Steady(s, s) /\ Steady(Cancel(s), s) BY SelfSteady, CancelSteady DEF Settled
  <2>2. Steady(Handle(s, Parallel(s), FALSE), s) BY <1>1, StartSteady
  <2>3. Steady(Handle(s, "PINCH_START", FALSE), s) BY StartSteady DEF Starts
  <2>4. \/ DetectMany(s, m) = Handle(s, Parallel(s), FALSE)
        \/ DetectMany(s, m) = Handle(s, "PINCH_START", FALSE)
        \/ DetectMany(s, m) = s
        \/ DetectMany(s, m) = Cancel(s)
    BY DEF DetectMany, Ways
  <2>5. QED BY <2>1, <2>2, <2>3, <2>4
<1>4. QED BY <1>2, <1>3 DEF Detect

LEMMA SeeFingersSteady ==
  ASSUME NEW s, Settled(s)
  PROVE  Steady(SeeFingers(s), s)
  BY StartSteady, SelfSteady DEF SeeFingers, Starts

\* A field that the state and the fingers do not depend on.
LEMMA ToScrollSteady ==
  ASSUME NEW s, Settled(s), s.state \in {"SCROLL_START", "SCROLL"}
  PROVE  Steady(To(s, "SCROLL"), s)
<1>1. Tells(s, "none") BY DEF Settled, Good, Agrees, OpenKind
<1>2. Tells(To(s, "SCROLL"), "none") BY <1>1, ToTells DEF GestureStates
<1>3. QED
  BY <1>1, <1>2 DEF To, Tells, Gesture, Steady, Good, Agrees, Timed, Settled, OpenKind, Dragging

LEMMA TryScrollSteady ==
  ASSUME NEW s, Settled(s), s.state = "SCROLL_START", NEW m
  PROVE  Steady(TryScroll(s, m), s)
  BY StartSteady, SelfSteady, ToScrollSteady DEF TryScroll, Starts

LEMMA PostScrollSteady ==
  ASSUME NEW s, Settled(s), s.state = "SCROLL", NEW m
  PROVE  Steady(PostScroll(s, m), s)
<1> DEFINE x == s.scrolling \/ m.way = "parallel"
           r == [s EXCEPT !.scrolling = x]
<1>1. CASE s.twofinger /\ m.way # "apart" /\ m.moved
  <2>1. PostScroll(s, m) = r BY <1>1, Zenon DEF PostScroll
  <2>2. x \in BOOLEAN BY Zenon
  <2> HIDE DEF x
  <2>3. Tells(s, "none") BY DEF Settled, Good, Agrees, OpenKind
  <2>4. Tells(r, "none") /\ r.state = "SCROLL" BY <2>2, <2>3, ScrollingTells
  <2>5. r.count = s.count /\ r.pending = s.pending /\ (r.button <=> s.button) /\ r.twofinger
    BY <1>1, <2>3 DEF Tells, Gesture
  <2> HIDE DEF r
  <2>6. Agrees(r) BY <2>4, <2>5 DEF Agrees, OpenKind, Dragging, Settled, Good
  <2>7. Timed(r) BY <2>4, <2>5 DEF Timed, Settled
  <2>8. QED BY <2>1, <2>5, <2>6, <2>7 DEF Steady, Good
<1>2. CASE ~(s.twofinger /\ m.way # "apart" /\ m.moved)
  <2>1. PostScroll(s, m) = s \/ PostScroll(s, m) = Handle(s, "PINCH_START", FALSE)
    BY <1>2, Zenon DEF PostScroll
  <2>2. QED BY <2>1, StartSteady, SelfSteady DEF Starts
<1>3. QED BY <1>1, <1>2

LEMMA BeginsSteady ==
  ASSUME NEW s, Settled(s), NEW kind \in {"swipe", "pinch"},
         NEW x \in {"SWIPE", "PINCH", "DRAG_OR_SWIPE"}, OpenKind(x) = kind,
         s.state \in {"SWIPE_START", "PINCH_START", "DRAG_OR_SWIPE_START"}
  PROVE  Steady(To(Begin(s, kind), x), s)
<1> DEFINE r == To(Begin(s, kind), x)
<1>1. Tells(s, "none") BY DEF Settled, Good, Agrees, OpenKind
<1>2. Tells(Begin(s, kind), kind) BY <1>1, BeginTells DEF Kinds
<1>3. Tells(r, kind) /\ r.state = x BY <1>2, ToTells DEF GestureStates
<1>4. /\ r.count = s.count /\ r.pending = s.pending /\ (r.button <=> s.button)
      /\ (r.scrolling <=> s.scrolling)
  BY <1>1 DEF To, Begin, Tells, Gesture
<1> HIDE DEF r
<1>5. Agrees(r) BY <1>3, <1>4 DEF Agrees, OpenKind, Dragging, Settled, Good
<1>6. Timed(r) BY <1>3, <1>4 DEF Timed, Settled
<1>7. QED BY <1>4, <1>5, <1>6 DEF r, Steady, Good

LEMMA BeginIfMovedSteady ==
  ASSUME NEW s, Settled(s), NEW m,
         \/ s.state = "SWIPE_START"
         \/ s.state = "PINCH_START"
  PROVE  /\ Steady(BeginIfMoved(s, m, "swipe", "SWIPE"), s)
         /\ Steady(BeginIfMoved(s, m, "pinch", "PINCH"), s)
  BY BeginsSteady, SelfSteady DEF BeginIfMoved, OpenKind

LEMMA DragOrSwipeSteady ==
  ASSUME NEW s, Settled(s), s.state = "DRAG_OR_SWIPE_START"
  PROVE  Steady([To(Begin(s, "swipe"), "DRAG_OR_SWIPE") EXCEPT !.swipe_timer = TRUE], s)
<1> DEFINE q == To(Begin(s, "swipe"), "DRAG_OR_SWIPE")
           r == [q EXCEPT !.swipe_timer = TRUE]
<1>1. Steady(q, s) BY BeginsSteady DEF OpenKind
<1>2. Tells(q, "swipe") /\ q.state = "DRAG_OR_SWIPE"
  <2>1. Tells(s, "none") BY DEF Settled, Good, Agrees, OpenKind
  <2>2. Tells(Begin(s, "swipe"), "swipe") BY <2>1, BeginTells DEF Kinds
  <2>3. QED BY <2>2, ToTells DEF GestureStates
<1> HIDE DEF q
<1>3. Tells(r, "swipe") /\ r.state = "DRAG_OR_SWIPE" BY <1>2, SwipeTells
<1>4. /\ r.count = q.count /\ r.pending = q.pending /\ (r.button <=> q.button)
      /\ (r.scrolling <=> q.scrolling)
  BY <1>2 DEF Tells, Gesture
<1> HIDE DEF r
<1>5. Agrees(r) BY <1>1, <1>2, <1>3, <1>4 DEF Agrees, OpenKind, Dragging, Steady, Good
<1>6. Timed(r) BY <1>1, <1>3, <1>4 DEF Timed, Settled, Steady
<1>7. QED BY <1>1, <1>4, <1>5, <1>6 DEF r, q, Steady, Good

LEMMA DragStartsSteady ==
  ASSUME NEW s, Settled(s), s.state = "DRAG_START"
  PROVE  Steady(To(Press(s), "DRAG"), s)
<1> DEFINE r == To(Press(s), "DRAG")
<1>1. Tells(s, "none") /\ s.button = FALSE /\ s.scrolling = FALSE
  BY DEF Settled, Good, Agrees, OpenKind, Dragging, Tells, Gesture
<1>2. Tells(Press(s), "none") BY <1>1, PressTells
<1>3. Tells(r, "none") /\ r.state = "DRAG" BY <1>2, ToTells DEF GestureStates
<1>4. r.count = s.count /\ r.pending = s.pending /\ r.button = TRUE /\ r.scrolling = FALSE
  BY <1>1 DEF To, Press, Tells, Gesture
<1> HIDE DEF r
<1>5. Agrees(r) BY <1>3, <1>4 DEF Agrees, OpenKind, Dragging
<1>6. Timed(r) BY <1>3, <1>4 DEF Timed, Settled
<1>7. QED BY <1>4, <1>5, <1>6 DEF r, Steady, Good

LEMMA HandleStateSteady ==
  ASSUME NEW s, Settled(s), NEW ignore_motion, NEW m \in Motions
  PROVE  Steady(HandleState(s, ignore_motion, m), s)
<1> DEFINE Visit(r) ==
             CASE r.state = "NONE" -> SeeFingers(r)
               [] r.state \in {"UNKNOWN", "HOLD"} ->
                    CASE ignore_motion -> r
                      [] ~ignore_motion /\ s.state = "NONE" ->
                           Detect(r, [m EXCEPT !.way = "undecided"])
                      [] OTHER -> Detect(r, m)
               [] r.state \in {"HOLD_AND_MOTION", "DRAG_RELEASED"} -> Detect(r, m)
               [] r.state = "SCROLL" -> PostScroll(r, m)
               [] r.state = "SCROLL_START" -> TryScroll(r, m)
               [] r.state = "SWIPE_START" -> BeginIfMoved(r, m, "swipe", "SWIPE")
               [] r.state = "PINCH_START" /\ s.state = "PINCH_START" ->
                    BeginIfMoved(r, m, "pinch", "PINCH")
               [] r.state = "DRAG_START" -> To(Press(r), "DRAG")
               [] r.state = "DRAG_OR_SWIPE_START" ->
                    [To(Begin(r, "swipe"), "DRAG_OR_SWIPE") EXCEPT !.swipe_timer = TRUE]
               [] OTHER -> r
           Onward(r, from) == IF Place(r.state) > Place(from) THEN Visit(r) ELSE r
           first == Visit(s)
           second == Onward(first, s.state)
<1>1. HandleState(s, ignore_motion, m) = Onward(second, first.state) BY DEF HandleState
<1>2. ASSUME NEW r, Settled(r) PROVE Steady(Visit(r), r)
  <2>1. m.way \in Ways /\ [m EXCEPT !.way = "undecided"].way \in Ways BY DEF Motions, Ways
  <2>2. Steady(r, r) BY <1>2, SelfSteady
  <2>3. CASE r.state = "NONE" BY <1>2, <2>3, SeeFingersSteady
  <2>4. CASE r.state \in {"UNKNOWN", "HOLD", "HOLD_AND_MOTION", "DRAG_RELEASED"}
    <3>1. Steady(Detect(r, m), r) BY <1>2, <2>1, DetectSteady
    <3>2. Steady(Detect(r, [m EXCEPT !.way = "undecided"]), r) BY <1>2, <2>1, DetectSteady
    <3>3. Visit(r) \in {r, Detect(r, m), Detect(r, [m EXCEPT !.way = "undecided"])} BY <2>4
    <3> HIDE DEF Visit
    <3>4. QED BY <2>2, <3>1, <3>2, <3>3
  <2>5. CASE r.state = "SCROLL" BY <1>2, <2>5, PostScrollSteady
  <2>6. CASE r.state = "SCROLL_START" BY <1>2, <2>6, TryScrollSteady
  <2>7. CASE r.state = "SWIPE_START" BY <1>2, <2>7, BeginIfMovedSteady
  <2>8. CASE r.state = "PINCH_START"
    <3>1. Steady(BeginIfMoved(r, m, "pinch", "PINCH"), r) BY <1>2, <2>8, BeginIfMovedSteady
    <3>2. Visit(r) \in {r, BeginIfMoved(r, m, "pinch", "PINCH")} BY <2>8
    <3> HIDE DEF Visit
    <3>3. QED BY <2>2, <3>1, <3>2
  <2>9. CASE r.state = "DRAG_START" BY <1>2, <2>9, DragStartsSteady
  <2>10. CASE r.state = "DRAG_OR_SWIPE_START" BY <1>2, <2>10, DragOrSwipeSteady
  <2>11. CASE r.state \notin {"NONE", "UNKNOWN", "HOLD", "HOLD_AND_MOTION", "DRAG_RELEASED",
                              "SCROLL", "SCROLL_START", "SWIPE_START", "PINCH_START",
                              "DRAG_START", "DRAG_OR_SWIPE_START"}
    BY <2>2, <2>11
  <2>12. QED BY <2>3, <2>4, <2>5, <2>6, <2>7, <2>8, <2>9, <2>10, <2>11
<1> HIDE DEF Visit
<1>3. ASSUME NEW r, Steady(r, s), NEW from PROVE Steady(Onward(r, from), s)
  <2>1. Settled(r) BY <1>3 DEF Settled, Steady
  <2>2. Steady(Visit(r), r) BY <1>2, <2>1
  <2>3. QED BY <1>3, <2>2 DEF Steady
<1>4. Steady(first, s) BY <1>2
<1> HIDE DEF first, Onward
<1>5. Steady(second, s) BY <1>3, <1>4
<1> HIDE DEF second
<1>6. QED BY <1>1, <1>3, <1>5

-----------------------------------------------------------------------------
(* Fields that nothing else depends on.                                    *)

LEMMA Alike ==
  ASSUME NEW s, Good(s), NEW r, Tells(r, OpenKind(s.state)), r.state = s.state,
         r.button <=> s.button, r.scrolling <=> s.scrolling, r.twofinger <=> s.twofinger
  PROVE  Agrees(r)
  BY DEF Good, Agrees

LEMMA TapSteady ==
  ASSUME NEW s, Good(s), NEW x \in TapKinds
  PROVE  Steady([s EXCEPT !.tap = x], s)
<1> DEFINE r == [s EXCEPT !.tap = x]
<1>1. Tells(s, OpenKind(s.state)) BY DEF Good, Agrees
<1>2. r \in Gesture BY <1>1, Zenon DEF Gesture, Tells
<1>3. QED BY <1>1, <1>2 DEF Gesture, Tells, Good, Agrees, Timed, Steady

LEMMA FreshSteady ==
  ASSUME NEW s, Good(s)
  PROVE  Steady([s EXCEPT !.bugs = {}], s)
<1> DEFINE r == [s EXCEPT !.bugs = {}]
<1>1. Tells(s, OpenKind(s.state)) BY DEF Good, Agrees
<1>2. {} \in SUBSET (GestureStates \X Events) OBVIOUS
<1>3. r \in Gesture BY <1>1, <1>2, Zenon DEF Gesture, Tells
<1>4. QED BY <1>1, <1>3 DEF Gesture, Tells, Good, Agrees, Timed, Steady

LEMMA UnheldSteady ==
  ASSUME NEW s, Good(s)
  PROVE  Steady(Unheld(s), s)
<1>1. Tells(s, OpenKind(s.state)) BY DEF Good, Agrees
<1>2. Tells(Unheld(s), OpenKind(s.state)) BY <1>1, UnheldTells
<1>3. QED BY <1>1, <1>2 DEF Unheld, Gesture, Tells, Good, Agrees, Timed, Steady

LEMMA SwipeTimerSteady ==
  ASSUME NEW s, Good(s)
  PROVE  Steady([s EXCEPT !.swipe_timer = FALSE], s)
<1>1. Tells(s, OpenKind(s.state)) BY DEF Good, Agrees
<1>2. Tells([s EXCEPT !.swipe_timer = FALSE], OpenKind(s.state)) BY <1>1, SwipeTells
<1>3. QED BY <1>1, <1>2 DEF Gesture, Tells, Good, Agrees, Timed, Steady

LEMMA HoldEnabledSteady ==
  ASSUME NEW s, Good(s), NEW x \in BOOLEAN
  PROVE  Steady([s EXCEPT !.hold_enabled = x], s)
<1> DEFINE r == [s EXCEPT !.hold_enabled = x]
<1>1. Tells(s, OpenKind(s.state)) BY DEF Good, Agrees
<1>2. r \in Gesture BY <1>1, Zenon DEF Gesture, Tells
<1>3. QED BY <1>1, <1>2 DEF Gesture, Tells, Good, Agrees, Timed, Steady

LEMMA WantSteady ==
  ASSUME NEW s, Good(s), NEW x \in {0} \cup DragCounts
  PROVE  Steady([s EXCEPT !.want_nfingers = x], s)
<1> DEFINE r == [s EXCEPT !.want_nfingers = x]
<1>1. Tells(s, OpenKind(s.state)) BY DEF Good, Agrees
<1>2. r \in Gesture BY <1>1, Zenon DEF Gesture, Tells
<1>3. QED BY <1>1, <1>2 DEF Gesture, Tells, Good, Agrees, Timed, Steady

LEMMA ApplyDragSteady ==
  ASSUME NEW s, Good(s), NEW down
  PROVE  Steady(ApplyDrag(s, down), s)
<1> DEFINE x == s.want_nfingers
           r == [s EXCEPT !.nfingers = x]
<1>1. Tells(s, OpenKind(s.state)) BY DEF Good, Agrees
<1>2. x \in {0} \cup DragCounts BY <1>1 DEF Tells, Gesture
<1>3. ApplyDrag(s, down) \in {s, r} BY DEF ApplyDrag
<1> HIDE DEF x
<1>4. r \in Gesture BY <1>1, <1>2, Zenon DEF Gesture, Tells
<1>5. Steady(r, s) BY <1>1, <1>4 DEF Gesture, Tells, Good, Agrees, Timed, Steady
<1>6. Steady(s, s) BY DEF Steady
<1> HIDE DEF r
<1>7. QED BY <1>3, <1>5, <1>6

LEMMA PendingTells ==
  ASSUME NEW s, NEW kind, Tells(s, kind), NEW k \in 0..MaxFingers
  PROVE  Tells([s EXCEPT !.pending = k], kind)
<1>1. [s EXCEPT !.pending = k] \in Gesture BY Zenon DEF Gesture, Tells
<1>2. QED BY <1>1 DEF Gesture, Tells

\* No open gesture tells the number of fingers.
LEMMA CountTells ==
  ASSUME NEW s, Tells(s, "none"), NEW n \in 0..MaxFingers
  PROVE  Tells([s EXCEPT !.count = n, !.pending = 0], "none")
<1>1. 0 \in 0..MaxFingers BY GesturesAssumption DEF GesturesAssumption
<1>2. [s EXCEPT !.count = n, !.pending = 0] \in Gesture BY <1>1, Zenon DEF Gesture, Tells
<1>3. QED BY <1>2 DEF Gesture, Tells

Counted(s, n) == [s EXCEPT !.count = n, !.pending = 0]

\* The count changes when no gesture is open.
LEMMA CountedGood ==
  ASSUME NEW s, Agrees(s), OpenKind(s.state) = "none", NEW n \in 0..MaxFingers,
         s.state = "DRAG_RELEASED" => s.drag_timer,
         n = 0 => s.state \in Resting
  PROVE  /\ Good(Counted(s, n))
         /\ Counted(s, n).count = n
         /\ Counted(s, n).pending = 0
         /\ Counted(s, n).state = s.state
<1> DEFINE r == Counted(s, n)
<1>1. Tells(s, "none") BY DEF Agrees
<1>2. Tells(r, "none") BY <1>1, CountTells DEF Counted
<1>3. /\ r.state = s.state /\ (r.button <=> s.button) /\ (r.scrolling <=> s.scrolling)
      /\ (r.twofinger <=> s.twofinger) /\ (r.drag_timer <=> s.drag_timer)
      /\ r.count = n /\ r.pending = 0
  BY <1>1 DEF Gesture, Tells, Counted
<1> HIDE DEF r
<1>4. Agrees(r) BY <1>2, <1>3 DEF Agrees
<1>5. Timed(r) BY <1>3 DEF Timed
<1>6. QED BY <1>3, <1>4, <1>5 DEF r, Good

LEMMA ForcedSettled ==
  ASSUME NEW s, Good(s), s.count # 0
  PROVE  Settled(Forced(s))
<1> DEFINE c == Cancel(s)
           h == Handle(c, "POINTER_MOTION_START", FALSE)
           moving == IF s.state = "POINTER_MOTION" THEN s ELSE h
<1>1. 1 \in 0..MaxFingers
  <2>1. s.count \in 0..MaxFingers /\ s.count # 0 BY DEF Good, Agrees, Tells, Gesture
  <2>2. QED BY <2>1, GesturesAssumption DEF GesturesAssumption
<1>2. Good(c) /\ c.state \in {"NONE", "PINCH_START"} BY CancelSteady DEF Steady
<1> HIDE DEF c
<1>3. Agrees(h) /\ h.state \in {"POINTER_MOTION", "PINCH_START"}
  <2>1. Handles(c, "POINTER_MOTION_START", h)
    BY <1>2, HandleHandles DEF Good, Fits, Events, Starts
  <2>2. c.state = "NONE" => h.state = "POINTER_MOTION"
    BY <1>2 DEF Handle, OnNone, Closing, To, Good, Agrees, Tells, Gesture
  <2>3. c.state = "PINCH_START" => h.state = "PINCH_START"
    BY <1>2 DEF Handle, OnPinchStart, Closing, Bug, Good, Agrees, Tells, Gesture
  <2>4. QED BY <1>2, <2>1, <2>2, <2>3 DEF Handles
<1> HIDE DEF h
<1>4. Agrees(moving) /\ moving.state \in {"POINTER_MOTION", "PINCH_START"}
  BY <1>3 DEF Good
<1>5. Forced(s) = Counted(moving, 1) BY DEF Forced, Counted, h, c
<1> HIDE DEF moving
<1>6. OpenKind(moving.state) = "none" /\ moving.state # "DRAG_RELEASED" BY <1>4 DEF OpenKind
<1>7. QED BY <1>1, <1>4, <1>5, <1>6, CountedGood DEF Settled

LEMMA PostEventsGood ==
  ASSUME NEW s, Good(s), NEW ignore_motion, NEW clicked, NEW m \in Motions
  PROVE  Good(PostEvents(s, ignore_motion, clicked, m))
<1>1. CASE s.count = 0 BY <1>1 DEF PostEvents
<1>2. CASE s.count # 0
  <2> DEFINE one == IF s.tap = "drag" \/ clicked THEN Forced(s) ELSE s
  <2>1. Good(one) /\ one.count # 0 BY <1>2, ForcedSettled DEF Settled
  <2>2. PostEvents(s, ignore_motion, clicked, m) =
          IF one.pending # 0 \/ one.count > 4 THEN one ELSE HandleState(one, ignore_motion, m)
    BY <1>2 DEF PostEvents
  <2> HIDE DEF one
  <2>3. one.pending = 0 => Good(HandleState(one, ignore_motion, m))
    BY <2>1, HandleStateSteady DEF Settled, Steady
  <2>4. QED BY <2>1, <2>2, <2>3
<1>3. QED BY <1>1, <1>2

LEMMA UpdateFingersGood ==
  ASSUME NEW s, Good(s), NEW active \in 0..MaxFingers
  PROVE  Good(UpdateFingers(s, active))
<1>1. Tells(s, OpenKind(s.state)) BY DEF Good, Agrees
<1>2. CASE active = s.count
  <2> DEFINE r == [s EXCEPT !.pending = 0]
  <2>1. UpdateFingers(s, active) = r BY <1>2 DEF UpdateFingers
  <2>2. Tells(r, OpenKind(s.state))
    BY <1>1, <1>2, PendingTells, GesturesAssumption DEF GesturesAssumption
  <2>3. QED BY <1>1, <2>1, <2>2 DEF Gesture, Tells, Good, Agrees, Timed
<1>3. CASE active # s.count /\ active = 0
  <2>1. UpdateFingers(s, active) = Counted(Stop(s), 0)
    BY <1>3 DEF UpdateFingers, Counted
  <2>2. Good(Stop(s)) /\ Stop(s).state \in Resting BY StopSteady DEF Steady
  <2>3. OpenKind(Stop(s).state) = "none" BY <2>2 DEF Resting, OpenKind
  <2>4. Agrees(Stop(s)) /\ (Stop(s).state = "DRAG_RELEASED" => Stop(s).drag_timer)
    BY <2>2 DEF Good, Timed
  <2>5. QED BY <1>3, <2>1, <2>2, <2>3, <2>4, CountedGood
<1>4. CASE active # s.count /\ active # 0 /\ s.state \notin Debounced
  <2> DEFINE now == Counted(s, active)
  <2>1. UpdateFingers(s, active) = IF s.state \in {"UNKNOWN", "POINTER_MOTION"}
                                     THEN Handle(now, "RESET", FALSE) ELSE now
    BY <1>4 DEF UpdateFingers, Counted
  <2>2. OpenKind(s.state) = "none" BY <1>4 DEF OpenKind, Debounced
  <2>3. Good(now) /\ now.state = s.state BY <1>4, <2>2, CountedGood DEF Good, Timed
  <2> HIDE DEF now
  <2>4. s.state \in {"UNKNOWN", "POINTER_MOTION"} => Good(Handle(now, "RESET", FALSE))
    BY <2>3, HandleSteady DEF Allowed, Fits, Events, Closing, Starts, Steady, Undecided
  <2>5. QED BY <2>1, <2>3, <2>4
<1>5. CASE active # s.count /\ active # 0 /\ s.state \in Debounced
  <2> DEFINE q == [s EXCEPT !.pending = active]
             r == [q EXCEPT !.switch_timer = TRUE]
  <2>1. UpdateFingers(s, active) \in {s, r}
    <3>1. [s EXCEPT !.pending = active, !.switch_timer = TRUE] = r BY <1>1 DEF Tells, Gesture
    <3>2. UpdateFingers(s, active) \in {s, [s EXCEPT !.pending = active, !.switch_timer = TRUE]}
      BY <1>5 DEF UpdateFingers
    <3>3. QED BY <3>1, <3>2
  <2>2. Tells(q, OpenKind(s.state)) BY <1>1, PendingTells
  <2>3. Tells(r, OpenKind(s.state)) BY <2>2, SwitchTells
  <2>4. Good(r) BY <1>1, <1>5, <2>3 DEF Gesture, Tells, Good, Agrees, Timed, Debounced
  <2> HIDE DEF r
  <2>5. QED BY <2>1, <2>4
<1>6. QED BY <1>2, <1>3, <1>4, <1>5

LEMMA PostGood ==
  ASSUME NEW s, Good(s), NEW fate \in Fates, NEW m \in Motions
  PROVE  Good(Post(s, fate, m))
<1>1. Good(Cancel(s)) BY CancelSteady DEF Steady
<1>2. Good(CancelMotion(s)) BY CancelMotionSteady DEF Steady
<1> DEFINE q == IF fate \in Ignored THEN CancelMotion(s) ELSE s
<1>3. Good(q) BY <1>2
<1>4. Post(s, fate, m) \in {Cancel(s), s, PostEvents(q, fate \in Ignored, fate \in Clicked, m)}
  BY DEF Post
<1> HIDE DEF q
<1>5. Good(PostEvents(q, fate \in Ignored, fate \in Clicked, m)) BY <1>3, PostEventsGood
<1>6. QED BY <1>1, <1>4, <1>5

LEMMA SwitchGood ==
  ASSUME NEW s, Agrees(s), s.pending # 0, s.state # "DRAG_OR_SWIPE",
         s.state = "DRAG_RELEASED" => s.drag_timer
  PROVE  Good(Counted(Handle(s, "FINGER_SWITCH_TIMEOUT", FALSE), s.pending))
<1> DEFINE r == Handle(s, "FINGER_SWITCH_TIMEOUT", FALSE)
<1>1. Handles(s, "FINGER_SWITCH_TIMEOUT", r)
  BY HandleHandles DEF Fits, Events, GestureTimeouts
<1>2. s.pending \in 0..MaxFingers BY DEF Agrees, Tells, Gesture
<1> HIDE DEF r
<1>3. Agrees(r) /\ OpenKind(r.state) = "none" /\ (r.state = "DRAG_RELEASED" => r.drag_timer)
  BY <1>1 DEF Handles, Moves
<1>4. QED BY <1>2, <1>3, CountedGood DEF r

LEMMA ReleaseTimeoutGood ==
  ASSUME NEW s, Good(s)
  PROVE  Good(Handle([s EXCEPT !.drag_timer = FALSE], "DRAG_RELEASE_TIMEOUT", FALSE))
<1> DEFINE q == [s EXCEPT !.drag_timer = FALSE]
           r == Handle(q, "DRAG_RELEASE_TIMEOUT", FALSE)
<1>1. Tells(s, OpenKind(s.state)) BY DEF Good, Agrees
<1>2. CASE s.state # "DRAG_RELEASED"
  <2>1. Tells(q, OpenKind(s.state)) /\ q.state = s.state BY <1>1, DragTells
  <2>2. Good(q) BY <1>1, <1>2, <2>1 DEF Gesture, Tells, Good, Agrees, Timed
  <2> HIDE DEF q
  <2>3. "DRAG_RELEASE_TIMEOUT" \in Events /\ Allowed(q, "DRAG_RELEASE_TIMEOUT")
    BY DEF Allowed, Fits, Events, GestureTimeouts, Starts
  <2>4. Good(r) BY <2>2, <2>3, HandleSteady DEF Steady
  <2>5. QED BY <2>4 DEF r, q
<1>3. CASE s.state = "DRAG_RELEASED"
  <2>1. Tells(q, "none") /\ q.state = s.state BY <1>1, <1>3, DragTells DEF OpenKind
  <2>2. Agrees(q) BY <1>1, <1>3, <2>1 DEF Gesture, Tells, Good, Agrees, OpenKind, Dragging
  <2>3. r.state = "NONE" /\ r.count = s.count
    BY <1>3, <1>1 DEF Handle, OnDragReleased, To, Release, Tells, Gesture
  <2> HIDE DEF q
  <2>4. Handles(q, "DRAG_RELEASE_TIMEOUT", r)
    BY <2>2, HandleHandles DEF Fits, Events, GestureTimeouts
  <2> HIDE DEF r
  <2>5. Good(r) BY <2>3, <2>4 DEF Handles, Good, Timed, Resting
  <2>6. QED BY <2>5 DEF r, q
<1>4. QED BY <1>2, <1>3

-----------------------------------------------------------------------------
(* The actions.                                                            *)

LEMMA InitInv == Init => GesturesInv
<1> SUFFICES ASSUME Init PROVE GesturesInv OBVIOUS
<1>1. 0 \in 0..MaxFingers BY GesturesAssumption DEF GesturesAssumption
<1>2. Enabled \in BOOLEAN BY Zenon DEF Enabled
<1>3. NoTap \in TapKinds BY DEF NoTap, TapKinds
<1>4. NoGesture \in [kind : Kinds, fingers : 0..MaxFingers] BY <1>1 DEF NoGesture, Kinds
<1>5. "NONE" \in GestureStates BY DEF GestureStates
<1>6. {} \in SUBSET (GestureStates \X Events) OBVIOUS
<1>7. g \in Gesture BY <1>1, <1>2, <1>3, <1>4, <1>5, <1>6, Zenon DEF Init, Gesture
<1>8. Good(g) BY <1>7 DEF Init, Good, Agrees, Timed, Tells, OpenKind, Dragging, Resting
<1>9. QED BY <1>1, <1>8 DEF Init, GesturesInv

LEMMA FreshGood ==
  ASSUME GesturesInv
  PROVE  Good(Fresh) /\ Fresh.count = g.count /\ Fresh.pending = g.pending
  BY FreshSteady DEF GesturesInv, Fresh, Steady

LEMMA FrameGood ==
  ASSUME GesturesInv, Frame
  PROVE  Good(g') /\ fingers' \in [active : 0..MaxFingers, down : BOOLEAN]
<1>1. PICK active \in 0..MaxFingers, down \in BOOLEAN, fate \in Fates, tap \in TapKinds :
        /\ fingers' = [active |-> active, down |-> down]
        /\ LET seen == [UpdateFingers(Fresh, active) EXCEPT !.tap = tap]
           IN  \E tapped \in Notifies(tap), m \in MotionsIn(tap, active, fate) :
                 g' = ApplyDrag(IF suspended THEN seen
                                ELSE Post(IF tapped THEN Cancel(seen) ELSE seen, fate, m), down)
  BY Zenon DEF Frame
<1> DEFINE seen == [UpdateFingers(Fresh, active) EXCEPT !.tap = tap]
<1>2. PICK tapped \in Notifies(tap), m \in MotionsIn(tap, active, fate) :
        g' = ApplyDrag(IF suspended THEN seen
                       ELSE Post(IF tapped THEN Cancel(seen) ELSE seen, fate, m), down)
  BY <1>1
<1>3. m \in Motions
  <2>1. Still \in Motions BY DEF Still, Motions, Ways
  <2>2. CASE active = 0 \/ suspended \/ fate \notin {"all", "ignored"}
    BY <2>1, <2>2 DEF MotionsIn
  <2>3. CASE ~(active = 0 \/ suspended \/ fate \notin {"all", "ignored"})
    <3>1. \/ m \in {n \in Motions : n.way = "undecided" \/ n = Straight}
          \/ m \in {n \in Motions : n.way = "undecided"}
          \/ m \in Motions
      BY <2>3, Zenon DEF MotionsIn
    <3>2. QED BY <3>1, Zenon
  <2>4. QED BY <2>2, <2>3
<1>4. Good(seen)
  <2>1. Good(UpdateFingers(Fresh, active)) BY FreshGood, UpdateFingersGood
  <2>2. QED BY <2>1, TapSteady DEF Steady
<1> HIDE DEF seen
<1> DEFINE heard == IF tapped THEN Cancel(seen) ELSE seen
<1>5. Good(heard) BY <1>4, CancelSteady DEF Steady
<1> HIDE DEF heard
<1>6. Good(Post(heard, fate, m)) BY <1>3, <1>5, PostGood
<1> DEFINE posted == IF suspended THEN seen ELSE Post(heard, fate, m)
<1>7. Good(posted) BY <1>4, <1>6
<1>8. g' = ApplyDrag(posted, down) BY <1>2 DEF heard
<1> HIDE DEF posted
<1>9. Good(g') BY <1>7, <1>8, ApplyDragSteady DEF Steady
<1>10. QED BY <1>1, <1>9

LEMMA HoldTimeoutGood ==
  ASSUME GesturesInv, HoldTimeout
  PROVE  Good(g')
<1>1. Good(Unheld(Fresh)) BY FreshGood, UnheldSteady DEF Steady
<1>2. PICK near \in BOOLEAN : g' = IF g.tap \in {"double", "drag"} THEN Unheld(Fresh)
                                   ELSE Handle(Unheld(Fresh), "HOLD_TIMEOUT", near)
  BY DEF HoldTimeout
<1>3. "HOLD_TIMEOUT" \in Events /\ Allowed(Unheld(Fresh), "HOLD_TIMEOUT")
  BY DEF Events, GestureTimeouts, Allowed, Fits, Starts
<1>4. Good(Handle(Unheld(Fresh), "HOLD_TIMEOUT", near)) BY <1>1, <1>3, HandleSteady DEF Steady
<1>5. QED BY <1>1, <1>2, <1>4

LEMMA TapTimeoutGood ==
  ASSUME GesturesInv, TapTimeout, ~Late
  PROVE  Good(g')
<1> DEFINE s == [Fresh EXCEPT !.tap = "hold"]
<1>1. Good(s) /\ s.pending = g.pending
  BY FreshGood, TapSteady DEF Steady, TapKinds
<1>2. s.state = g.state /\ s.nfingers = g.nfingers
  BY DEF GesturesInv, Good, Agrees, Tells, Gesture, Fresh
<1>3. "TAP_TIMEOUT" \in Events /\ Allowed(s, "TAP_TIMEOUT")
  BY <1>1, <1>2 DEF Events, GestureTimeouts, Allowed, Fits, Starts, TapTimeout
<1>4. g' \in {s, Handle(s, "TAP_TIMEOUT", FALSE)} BY DEF TapTimeout
<1> HIDE DEF s
<1>5. Good(Handle(s, "TAP_TIMEOUT", FALSE)) BY <1>1, <1>3, HandleSteady DEF Steady
<1>6. QED BY <1>1, <1>4, <1>5

LEMMA TapDragsGood ==
  ASSUME GesturesInv, TapDrags
  PROVE  Good(g')
  BY FreshGood, TapSteady DEF TapDrags, Steady, TapKinds

LEMMA TapReleasesGood ==
  ASSUME GesturesInv, TapReleases
  PROVE  Good(g')
<1>1. Good(Cancel(Fresh)) BY FreshGood, CancelSteady DEF Steady
<1>2. QED BY <1>1, TapSteady DEF TapReleases, Steady, TapKinds

LEMMA SwitchTimeoutGood ==
  ASSUME GesturesInv, SwitchTimeout, ~Late
  PROVE  Good(g')
<1> DEFINE s == [Fresh EXCEPT !.switch_timer = FALSE]
<1>1. Tells(Fresh, OpenKind(Fresh.state)) BY FreshGood DEF Good, Agrees
<1>2. Tells(s, OpenKind(Fresh.state)) /\ s.state = Fresh.state BY <1>1, SwitchTells
<1>3. /\ s.count = Fresh.count /\ s.pending = Fresh.pending
      /\ (s.button <=> Fresh.button) /\ (s.scrolling <=> Fresh.scrolling)
      /\ (s.twofinger <=> Fresh.twofinger) /\ (s.drag_timer <=> Fresh.drag_timer)
  BY <1>1 DEF Tells, Gesture
<1>4. Fresh.state = g.state BY DEF GesturesInv, Good, Agrees, Tells, Gesture, Fresh
<1>5. g' = IF s.pending = 0 THEN s
           ELSE Counted(Handle(s, "FINGER_SWITCH_TIMEOUT", FALSE), s.pending)
  BY DEF SwitchTimeout, Counted
<1>6. s.state # "DRAG_OR_SWIPE" BY <1>2, <1>4 DEF SwitchTimeout
<1> HIDE DEF s
<1>7. Agrees(s) BY <1>2, <1>3, FreshGood, Alike
<1>8. s.state = "DRAG_RELEASED" => s.drag_timer BY <1>2, <1>3, FreshGood DEF Good, Timed
<1>9. CASE s.pending = 0
  <2>1. Timed(s) BY <1>2, <1>3, <1>8, <1>9, FreshGood DEF Good, Timed
  <2>2. QED BY <1>5, <1>7, <1>9, <2>1 DEF Good
<1>10. CASE s.pending # 0 BY <1>5, <1>6, <1>7, <1>8, <1>10, SwitchGood
<1>11. QED BY <1>9, <1>10

LEMMA DragTimeoutGood ==
  ASSUME GesturesInv, DragTimeout
  PROVE  Good(g')
<1>1. [Fresh EXCEPT !.drag_timer = FALSE] = [[g EXCEPT !.bugs = {}] EXCEPT !.drag_timer = FALSE]
  BY DEF Fresh
<1>2. QED BY FreshGood, ReleaseTimeoutGood DEF DragTimeout

LEMMA SwipeTimeoutGood ==
  ASSUME GesturesInv, SwipeTimeout
  PROVE  Good(g')
<1> DEFINE s == [Fresh EXCEPT !.swipe_timer = FALSE]
<1>1. Good(s) BY FreshGood, SwipeTimerSteady DEF Steady
<1>2. PICK near \in BOOLEAN : g' = Handle(s, "DRAG_OR_SWIPE_TIMEOUT", near) BY DEF SwipeTimeout
<1>3. "DRAG_OR_SWIPE_TIMEOUT" \in Events /\ Allowed(s, "DRAG_OR_SWIPE_TIMEOUT")
  BY DEF Events, GestureTimeouts, Allowed, Fits, Starts
<1> HIDE DEF s
<1>4. QED BY <1>1, <1>2, <1>3, HandleSteady DEF Steady

LEMMA SetHoldEnabledGood ==
  ASSUME GesturesInv, SetHoldEnabled
  PROVE  Good(g')
<1> DEFINE x == ~Fresh.hold_enabled
<1>1. g' = [Fresh EXCEPT !.hold_enabled = x] BY Zenon DEF SetHoldEnabled
<1>2. x \in BOOLEAN BY Zenon
<1> HIDE DEF x
<1>3. QED BY <1>1, <1>2, FreshGood, HoldEnabledSteady DEF Steady

LEMMA SetDragGood ==
  ASSUME GesturesInv, SetDrag
  PROVE  Good(g')
<1>1. PICK n \in {0} \cup DragCounts :
        g' = ApplyDrag([Fresh EXCEPT !.want_nfingers = n], fingers.down)
  BY DEF SetDrag
<1>2. Good([Fresh EXCEPT !.want_nfingers = n]) BY FreshGood, WantSteady DEF Steady
<1>3. QED BY <1>1, <1>2, ApplyDragSteady DEF Steady

LEMMA SetScrollMethodGood ==
  ASSUME GesturesInv, SetScrollMethod
  PROVE  Good(g')
<1> DEFINE q == StopScroll(Fresh)
           x == ~q.twofinger
           r == [q EXCEPT !.twofinger = x]
<1>1. g' = r BY Zenon DEF SetScrollMethod
<1>2. x \in BOOLEAN BY Zenon
<1>3. Tells(Fresh, OpenKind(Fresh.state)) BY FreshGood DEF Good, Agrees
<1>4. Tells(q, OpenKind(Fresh.state)) /\ q.state = Fresh.state BY <1>3, StopScrollTells
<1>5. /\ q.count = Fresh.count /\ q.pending = Fresh.pending /\ (q.button <=> Fresh.button)
      /\ (q.switch_timer <=> Fresh.switch_timer) /\ (q.drag_timer <=> Fresh.drag_timer)
      /\ q.scrolling = FALSE
  BY <1>3, FreshGood DEF StopScroll, Good, Agrees, Tells, Gesture
<1> HIDE DEF q, x
<1>6. r \in Gesture BY <1>2, <1>4, Zenon DEF Gesture, Tells
<1>7. /\ r.count = q.count /\ r.pending = q.pending /\ (r.button <=> q.button)
      /\ (r.switch_timer <=> q.switch_timer) /\ (r.drag_timer <=> q.drag_timer)
      /\ r.scrolling = FALSE /\ r.state = q.state /\ r.open = q.open /\ r.wrong = q.wrong
  BY <1>4, <1>5 DEF Gesture, Tells
<1> HIDE DEF r
<1>8. Tells(r, OpenKind(r.state)) BY <1>4, <1>6, <1>7 DEF Tells
<1>9. Agrees(r) BY <1>4, <1>5, <1>7, <1>8, FreshGood DEF Agrees, Good
<1>10. Timed(r) BY <1>4, <1>5, <1>7, FreshGood DEF Timed, Good
<1>11. QED BY <1>1, <1>9, <1>10 DEF Good

LEMMA ClearStateGood ==
  ASSUME GesturesInv, ClearState
  PROVE  Good(g') /\ fingers' \in [active : 0..MaxFingers, down : BOOLEAN]
<1>1. 0 \in 0..MaxFingers BY GesturesAssumption DEF GesturesAssumption
<1>2. PICK tapped \in {FALSE, pad.tap} :
        LET released == IF tapped THEN Cancel(Fresh) ELSE Fresh
        IN  g' = [ApplyDrag(UpdateFingers(released, 0), FALSE) EXCEPT !.tap = NoTap]
  BY DEF ClearState
<1> DEFINE released == IF tapped THEN Cancel(Fresh) ELSE Fresh
<1>3. Good(released) BY FreshGood, CancelSteady DEF Steady
<1>4. g' = [ApplyDrag(UpdateFingers(released, 0), FALSE) EXCEPT !.tap = NoTap] BY <1>2
<1> HIDE DEF released
<1>5. Good(UpdateFingers(released, 0)) BY <1>1, <1>3, UpdateFingersGood
<1>6. Good(ApplyDrag(UpdateFingers(released, 0), FALSE)) BY <1>5, ApplyDragSteady DEF Steady
<1>7. NoTap \in TapKinds BY DEF NoTap, TapKinds
<1>8. Good(g') BY <1>4, <1>6, <1>7, TapSteady DEF Steady
<1>9. fingers' = [active |-> 0, down |-> FALSE] BY DEF ClearState
<1>10. QED BY <1>1, <1>8, <1>9

LEMMA NextInv ==
  ASSUME ~Late, GesturesInv, [Next]_vars
  PROVE  GesturesInv'
<1> DEFINE Kept == /\ Good(g') /\ pad' = pad /\ suspended' \in BOOLEAN
                   /\ fingers' \in [active : 0..MaxFingers, down : BOOLEAN]
<1>1. Kept => GesturesInv' BY DEF GesturesInv, Good, Agrees, Tells, Timed, Enabled
<1>2. suspended \in BOOLEAN /\ fingers \in [active : 0..MaxFingers, down : BOOLEAN]
  BY DEF GesturesInv
<1> HIDE DEF Kept
<1>3. ASSUME Frame PROVE Kept BY <1>2, <1>3, FrameGood DEF Kept, Frame
<1>4. ASSUME HoldTimeout PROVE Kept BY <1>2, <1>4, HoldTimeoutGood DEF Kept, HoldTimeout, world
<1>5. ASSUME TapTimeout PROVE Kept BY <1>2, <1>5, TapTimeoutGood DEF Kept, TapTimeout, world
<1>6. ASSUME TapDrags PROVE Kept BY <1>2, <1>6, TapDragsGood DEF Kept, TapDrags, world
<1>7. ASSUME TapReleases PROVE Kept BY <1>2, <1>7, TapReleasesGood DEF Kept, TapReleases, world
<1>8. ASSUME SwitchTimeout
  PROVE Kept BY <1>2, <1>8, SwitchTimeoutGood DEF Kept, SwitchTimeout, world
<1>9. ASSUME DragTimeout PROVE Kept BY <1>2, <1>9, DragTimeoutGood DEF Kept, DragTimeout, world
<1>10. ASSUME SwipeTimeout PROVE Kept BY <1>2, <1>10, SwipeTimeoutGood DEF Kept, SwipeTimeout, world
<1>11. ASSUME SetHoldEnabled
  PROVE Kept BY <1>2, <1>11, SetHoldEnabledGood DEF Kept, SetHoldEnabled, world
<1>12. ASSUME SetDrag PROVE Kept BY <1>2, <1>12, SetDragGood DEF Kept, SetDrag, world
<1>13. ASSUME SetScrollMethod
  PROVE Kept BY <1>2, <1>13, SetScrollMethodGood DEF Kept, SetScrollMethod, world
<1>14. ASSUME StopActions PROVE Kept
  <2>1. Good(g') BY <1>14, FreshGood, CancelSteady DEF StopActions, Steady
  <2>2. QED BY <1>2, <1>14, <2>1 DEF Kept, StopActions, world
<1>15. ASSUME Suspend PROVE Kept BY <1>15, ClearStateGood DEF Kept, Suspend
<1>16. ASSUME Resume PROVE Kept BY <1>16, ClearStateGood DEF Kept, Resume
<1>17. ASSUME UNCHANGED vars PROVE Kept BY <1>2, <1>17 DEF vars, Kept, GesturesInv
<1>18. QED
  BY <1>1, <1>3, <1>4, <1>5, <1>6, <1>7, <1>8, <1>9, <1>10, <1>11, <1>12, <1>13, <1>14, <1>15,
     <1>16, <1>17 DEF Next, Timeouts, Client

-----------------------------------------------------------------------------
(* The theorems.                                                           *)

\* Whatever frames, timers and settings the gesture machine of
\* evdev-mt-touchpad-gestures.c meets, the client's view, the state, the
\* fingers and the timers agree as GesturesInv says.
THEOREM GesturesInvariance == ASSUME ~Late PROVE Spec => []GesturesInv
<1>1. Init => GesturesInv BY InitInv
<1>2. GesturesInv /\ [Next]_vars => GesturesInv' BY NextInv
<1>3. QED BY <1>1, <1>2, PTL DEF Spec

\* The gesture the client has open is the one of the machine's state, a button
\* is held only by a drag, a scroll runs only in SCROLL, a released drag has
\* its timer, and without fingers nothing is open
\* (tp_gesture_handle_event, tp_gesture_end, tp_gesture_update_finger_state).
THEOREM ClientMatches == ASSUME ~Late PROVE Spec => []ClientMatchesState
<1>1. GesturesInv => ClientMatchesState
  <2> SUFFICES ASSUME GesturesInv PROVE ClientMatchesState OBVIOUS
  <2>1. g \in Gesture BY DEF GesturesInv, Good, Agrees, Tells
  <2>2. TypeOK BY <2>1 DEF TypeOK, GesturesInv, Good, Timed, Gesture, Debounced
  <2>3. Enabled => g.open.kind = OpenKind(g.state)
    BY DEF GesturesInv, Good, Agrees, Tells, NoGesture, OpenKind
  <2>4. g.button <=> g.state \in {"DRAG", "DRAG_RELEASED"}
    BY DEF GesturesInv, Good, Agrees, Dragging
  <2>5. g.scrolling => g.state = "SCROLL" BY DEF GesturesInv, Good, Agrees
  <2>6. g.state = "DRAG_RELEASED" => g.drag_timer BY DEF GesturesInv, Good, Timed
  <2>7. g.count = 0 => g.open = NoGesture /\ ~g.scrolling /\ g.state # "DRAG"
    BY <2>5 DEF GesturesInv, Good, Agrees, Timed, Tells, OpenKind, Resting
  <2>8. QED BY <2>2, <2>3, <2>4, <2>5, <2>6, <2>7 DEF ClientMatchesState, OpenKind
<1>2. QED BY <1>1, GesturesInvariance, PTL

\* No gesture begins while another is open or ends with a finger count it did
\* not begin with, and the button of a drag is pressed and released in turn
\* (gesture_notify_*, tp_gesture_update_finger_state).
THEOREM GesturesAreWellFormed == ASSUME ~Late PROVE Spec => []GesturesWellFormed
<1>1. GesturesInv => GesturesWellFormed
  BY DEF GesturesInv, Good, Agrees, Tells, GesturesWellFormed, NoGesture
<1>2. QED BY <1>1, GesturesInvariance, PTL

-----------------------------------------------------------------------------
(* Which events can meet which state: the invariant behind OnlyKnownBugs.  *)

\* Each timer belongs to its states, a hold that moves has one finger, and a
\* drag that waits for its fingers has not got them back.
Timely(s) ==
  /\ s.hold_timer => s.state \in {"UNKNOWN", "POINTER_MOTION"}
  /\ s.drag_timer => s.state = "DRAG_RELEASED"
  /\ s.state = "HOLD_AND_MOTION" => s.count = 1
  /\ s.state = "DRAG_RELEASED" /\ s.count # 0 => s.count # s.nfingers

Known(bugs) == \A b \in bugs : KnownBug(b[1], b[2])

\* The events that each state expects, the known bugs among them.
DragStates == {"DRAG_OR_SWIPE_START", "DRAG_OR_SWIPE", "DRAG_START"}
TapTimeoutStates ==
  {"NONE", "UNKNOWN", "POINTER_MOTION", "DRAG", "DRAG_RELEASED",
   "HOLD", "PINCH_START", "PINCH", "SWIPE_START", "SWIPE"}

Expects(s, e) ==
  /\ Fits(s, e)
  /\ e = "FINGER_DETECTED" => s.state = "NONE"
  /\ e = "HOLD_AND_MOTION_START" => s.state = "HOLD" /\ s.count = 1
  /\ e = "POINTER_MOTION_START" =>
       s.state \in {"NONE", "UNKNOWN", "HOLD", "HOLD_AND_MOTION", "DRAG_RELEASED", "PINCH_START"}
  /\ e = "SCROLL_START" => s.state \in {"NONE", "UNKNOWN", "HOLD", "DRAG_RELEASED"}
  /\ e = "SWIPE_START" => s.state \in {"UNKNOWN", "HOLD", "DRAG_RELEASED"}
  /\ e = "PINCH_START" => s.state \in {"UNKNOWN", "HOLD", "SCROLL_START", "SCROLL", "DRAG_RELEASED"}
  /\ e = "DRAG_OR_SWIPE_START" => s.state \in {"UNKNOWN", "HOLD"}
  /\ e = "FINGER_SWITCH_TIMEOUT" => s.state \in Waiting \ {"DRAG_OR_SWIPE"}
  /\ e = "HOLD_TIMEOUT" => s.state \in {"NONE", "UNKNOWN", "POINTER_MOTION"} /\ ~s.hold_timer
  /\ e = "TAP_TIMEOUT" =>
       /\ s.state \in TapTimeoutStates \/ (s.state = "DRAG_START" /\ pad.slots < 4)
       /\ s.state = "UNKNOWN" => ~s.hold_timer
       /\ s.count # 1
  /\ e = "DRAG_RELEASE_TIMEOUT" => s.state = "DRAG_RELEASED"

\* What an expected event does: nothing that the other parts of the record
\* could notice, no unknown bug, and few ways into the states that matter.
Leads(s, e, r) ==
  /\ r.tap = s.tap /\ r.count = s.count /\ r.pending = s.pending
  /\ r.nfingers = s.nfingers /\ r.want_nfingers = s.want_nfingers
  /\ r.hold_timer => r.state \in {"UNKNOWN", "POINTER_MOTION"}
  /\ r.drag_timer => r.state = "DRAG_RELEASED"
  /\ r.state = "HOLD_AND_MOTION" => r.count = 1
  /\ r.state = "DRAG_RELEASED" => s.state = "DRAG_RELEASED" \/ e = "END"
  /\ r.bugs = s.bugs \/ (KnownBug(s.state, e) /\ r.bugs = s.bugs \cup {<<s.state, e>>})
  /\ r.state = "UNKNOWN" =>
       \/ s.state = "UNKNOWN" /\ r.hold_timer = s.hold_timer
       \/ e = "FINGER_DETECTED" /\ (r.hold_timer => UseHoldTimer(s))
  /\ r.state \in {"SCROLL_START", "SCROLL"} => r.state = s.state \/ e = "SCROLL_START"
  /\ r.state = "DRAG_OR_SWIPE_START" =>
       \/ r.state = s.state \/ e = "DRAG_OR_SWIPE_START"
       \/ e = "FINGER_DETECTED" /\ ~pad.tap
  /\ r.state = "DRAG_OR_SWIPE" => s.state = "DRAG_OR_SWIPE"
  /\ r.state = "DRAG_START" => s.state \in {"DRAG_START", "DRAG_OR_SWIPE"}
  /\ r.state = "HOLD" => s.state = "HOLD" \/ e \in {"HOLD_TIMEOUT", "TAP_TIMEOUT"}
  /\ e = "FINGER_SWITCH_TIMEOUT" /\ r.state = "DRAG_RELEASED" => s.pending # s.nfingers

LEMMA NoneLeads ==
  ASSUME NEW s, Agrees(s), Timely(s), s.state = "NONE", NEW e \in Events, Expects(s, e),
         NEW near \in BOOLEAN
  PROVE  Leads(s, e, OnNone(s, e))
  BY DEF OnNone, Bug, To, Unheld, SetHoldTimer, UseHoldTimer, Quick, Agrees, Tells, Gesture,
         Timely, Expects, Leads, KnownBug, Fits, Undecided, Closing, Waiting, Debounced, Events,
         Starts, GestureTimeouts, TapTimeoutStates

LEMMA UnknownLeads ==
  ASSUME NEW s, Agrees(s), Timely(s), s.state = "UNKNOWN", NEW e \in Events, Expects(s, e),
         NEW near \in BOOLEAN
  PROVE  Leads(s, e, OnUnknown(s, e))
<1> USE DEF OnUnknown, Bug, To, Nothing, Unheld, Begin, Agrees, Tells, Gesture, Timely, Expects,
            Leads, KnownBug, Fits, Undecided, Closing, Waiting, Debounced, Events, Starts,
            GestureTimeouts, TapTimeoutStates
<1>1. CASE e \in Closing BY <1>1
<1>2. CASE e \in {"FINGER_SWITCH_TIMEOUT", "POINTER_MOTION_START"} BY <1>2
<1>3. CASE e \in {"HOLD_TIMEOUT", "TAP_TIMEOUT"} BY <1>3
<1>4. CASE e \in {"SCROLL_START", "SWIPE_START", "PINCH_START", "DRAG_OR_SWIPE_START"} BY <1>4
<1>5. CASE e \in {"FINGER_DETECTED", "HOLD_AND_MOTION_START", "DRAG_OR_SWIPE_TIMEOUT",
                 "DRAG_RELEASE_TIMEOUT"} BY <1>5
<1>6. QED BY <1>1, <1>2, <1>3, <1>4, <1>5

LEMMA HoldLeads ==
  ASSUME NEW s, Agrees(s), Timely(s), s.state = "HOLD", NEW e \in Events, Expects(s, e),
         NEW near \in BOOLEAN
  PROVE  Leads(s, e, OnHold(s, e))
  BY DEF OnHold, Bug, To, Nothing, Unheld, End, HoldEnded, Agrees, Tells, Gesture, Timely,
         Expects, Leads, KnownBug, Fits, Undecided, Closing, Waiting, Debounced, Events, Starts,
         GestureTimeouts, TapTimeoutStates

LEMMA HoldAndMotionLeads ==
  ASSUME NEW s, Agrees(s), Timely(s), s.state = "HOLD_AND_MOTION", NEW e \in Events, Expects(s, e),
         NEW near \in BOOLEAN
  PROVE  Leads(s, e, OnHoldAndMotion(s, e))
  BY DEF OnHoldAndMotion, Bug, To, Nothing, Unheld, End, HoldEnded, Agrees, Tells, Gesture,
         Timely, Expects, Leads, KnownBug, Fits, Undecided, Closing, Waiting, Debounced, Events,
         Starts, GestureTimeouts, TapTimeoutStates

LEMMA PointerMotionLeads ==
  ASSUME NEW s, Agrees(s), Timely(s), s.state = "POINTER_MOTION", NEW e \in Events, Expects(s, e),
         NEW near \in BOOLEAN
  PROVE  Leads(s, e, OnPointerMotion(s, e, near))
  BY DEF OnPointerMotion, Bug, To, Nothing, Unheld, Begin, Agrees, Tells, Gesture, Timely,
         Expects, Leads, KnownBug, Fits, Undecided, Closing, Waiting, Debounced, Events, Starts,
         GestureTimeouts, TapTimeoutStates

LEMMA ScrollStartLeads ==
  ASSUME NEW s, Agrees(s), Timely(s), s.state = "SCROLL_START", NEW e \in Events, Expects(s, e),
         NEW near \in BOOLEAN
  PROVE  Leads(s, e, OnScrollStart(s, e))
  BY DEF OnScrollStart, Bug, To, Nothing, Unheld, Agrees, Tells, Gesture, Timely, Expects, Leads,
         KnownBug, Fits, Undecided, Closing, Waiting, Debounced, Events, Starts, GestureTimeouts,
         TapTimeoutStates

LEMMA ScrollLeads ==
  ASSUME NEW s, Agrees(s), Timely(s), s.state = "SCROLL", NEW e \in Events, Expects(s, e),
         NEW near \in BOOLEAN
  PROVE  Leads(s, e, OnScroll(s, e))
  BY DEF OnScroll, Bug, To, Nothing, Unheld, StopScroll, ScrollEnded, Agrees, Tells, Gesture,
         Timely, Expects, Leads, KnownBug, Fits, Undecided, Closing, Waiting, Debounced, Events,
         Starts, GestureTimeouts, TapTimeoutStates

LEMMA PinchStartLeads ==
  ASSUME NEW s, Agrees(s), Timely(s), s.state = "PINCH_START", NEW e \in Events, Expects(s, e),
         NEW near \in BOOLEAN
  PROVE  Leads(s, e, OnPinchStart(s, e))
  BY DEF OnPinchStart, Bug, Unheld, Agrees, Tells, Gesture, Timely, Expects, Leads, KnownBug,
         Fits, Undecided, Closing, Waiting, Debounced, Events, Starts, GestureTimeouts,
         TapTimeoutStates

LEMMA PinchLeads ==
  ASSUME NEW s, Agrees(s), Timely(s), s.state = "PINCH", NEW e \in Events, Expects(s, e),
         NEW near \in BOOLEAN
  PROVE  Leads(s, e, OnPinch(s, e))
  BY DEF OnPinch, Bug, To, Nothing, Unheld, End, Agrees, Tells, Gesture, Timely, Expects, Leads,
         KnownBug, Fits, Undecided, Closing, Waiting, Debounced, Events, Starts, GestureTimeouts,
         TapTimeoutStates

LEMMA SwipeStartLeads ==
  ASSUME NEW s, Agrees(s), Timely(s), s.state = "SWIPE_START", NEW e \in Events, Expects(s, e),
         NEW near \in BOOLEAN
  PROVE  Leads(s, e, OnSwipeStart(s, e))
  BY DEF OnSwipeStart, Bug, To, Nothing, Unheld, Agrees, Tells, Gesture, Timely, Expects, Leads,
         KnownBug, Fits, Undecided, Closing, Waiting, Debounced, Events, Starts, GestureTimeouts,
         TapTimeoutStates

LEMMA SwipeLeads ==
  ASSUME NEW s, Agrees(s), Timely(s), s.state = "SWIPE", NEW e \in Events, Expects(s, e),
         NEW near \in BOOLEAN
  PROVE  Leads(s, e, OnSwipe(s, e))
  BY DEF OnSwipe, Bug, To, Nothing, Unheld, End, Agrees, Tells, Gesture, Timely, Expects, Leads,
         KnownBug, Fits, Undecided, Closing, Waiting, Debounced, Events, Starts, GestureTimeouts,
         TapTimeoutStates

LEMMA DragOrSwipeStartLeads ==
  ASSUME NEW s, Agrees(s), Timely(s), s.state = "DRAG_OR_SWIPE_START", NEW e \in Events,
         Expects(s, e),
         NEW near \in BOOLEAN
  PROVE  Leads(s, e, OnDragOrSwipeStart(s, e))
  BY DEF OnDragOrSwipeStart, Bug, To, Nothing, Unheld, Agrees, Tells, Gesture, Timely, Expects,
         Leads, KnownBug, Fits, Undecided, Closing, Waiting, Debounced, Events, Starts,
         GestureTimeouts, TapTimeoutStates

LEMMA DragOrSwipeLeads ==
  ASSUME NEW s, Agrees(s), Timely(s), s.state = "DRAG_OR_SWIPE", NEW e \in Events, Expects(s, e),
         NEW near \in BOOLEAN
  PROVE  Leads(s, e, OnDragOrSwipe(s, e, near))
  BY DEF OnDragOrSwipe, Bug, To, Nothing, Unheld, End, Agrees, Tells, Gesture, Timely, Expects,
         Leads, KnownBug, Fits, Undecided, Closing, Waiting, Debounced, Events, Starts,
         GestureTimeouts, TapTimeoutStates

LEMMA DragStartLeads ==
  ASSUME NEW s, Agrees(s), Timely(s), s.state = "DRAG_START", NEW e \in Events, Expects(s, e),
         NEW near \in BOOLEAN
  PROVE  Leads(s, e, OnDragStart(s, e))
  BY DEF OnDragStart, Bug, To, Nothing, Unheld, Agrees, Tells, Gesture, Timely, Expects, Leads,
         KnownBug, Fits, Undecided, Closing, Waiting, Debounced, Events, Starts, GestureTimeouts,
         TapTimeoutStates

LEMMA DragLeads ==
  ASSUME NEW s, Agrees(s), Timely(s), s.state = "DRAG", NEW e \in Events, Expects(s, e),
         NEW near \in BOOLEAN
  PROVE  Leads(s, e, OnDrag(s, e))
  BY DEF OnDrag, Bug, To, Release, Agrees, Tells, Gesture, Timely, Expects, Leads, KnownBug, Fits,
         Undecided, Closing, Waiting, Debounced, Events, Starts, GestureTimeouts, TapTimeoutStates

LEMMA DragReleasedLeads ==
  ASSUME NEW s, Agrees(s), Timely(s), s.state = "DRAG_RELEASED", NEW e \in Events, Expects(s, e),
         NEW near \in BOOLEAN
  PROVE  Leads(s, e, OnDragReleased(s, e))
  BY DEF OnDragReleased, Bug, To, Release, Agrees, Tells, Gesture, Timely, Expects, Leads,
         KnownBug, Fits, Undecided, Closing, Waiting, Debounced, Events, Starts, GestureTimeouts,
         TapTimeoutStates

LEMMA HandleLeads ==
  ASSUME NEW s, Agrees(s), Timely(s), NEW e \in Events, Expects(s, e), NEW near \in BOOLEAN
  PROVE  Leads(s, e, Handle(s, e, near))
<1>1. s.state \in GestureStates BY DEF Agrees, Tells, Gesture
<1>2. CASE s.state = "NONE" BY <1>2, NoneLeads DEF Handle
<1>3. CASE s.state = "UNKNOWN" BY <1>3, UnknownLeads DEF Handle
<1>4. CASE s.state = "HOLD" BY <1>4, HoldLeads DEF Handle
<1>5. CASE s.state = "HOLD_AND_MOTION" BY <1>5, HoldAndMotionLeads DEF Handle
<1>6. CASE s.state = "POINTER_MOTION" BY <1>6, PointerMotionLeads DEF Handle
<1>7. CASE s.state = "SCROLL_START" BY <1>7, ScrollStartLeads DEF Handle
<1>8. CASE s.state = "SCROLL" BY <1>8, ScrollLeads DEF Handle
<1>9. CASE s.state = "PINCH_START" BY <1>9, PinchStartLeads DEF Handle
<1>10. CASE s.state = "PINCH" BY <1>10, PinchLeads DEF Handle
<1>11. CASE s.state = "SWIPE_START" BY <1>11, SwipeStartLeads DEF Handle
<1>12. CASE s.state = "SWIPE" BY <1>12, SwipeLeads DEF Handle
<1>13. CASE s.state = "DRAG_OR_SWIPE_START" BY <1>13, DragOrSwipeStartLeads DEF Handle
<1>14. CASE s.state = "DRAG_OR_SWIPE" BY <1>14, DragOrSwipeLeads DEF Handle
<1>15. CASE s.state = "DRAG_START" BY <1>15, DragStartLeads DEF Handle
<1>16. CASE s.state = "DRAG" BY <1>16, DragLeads DEF Handle
<1>17. CASE s.state = "DRAG_RELEASED" BY <1>17, DragReleasedLeads DEF Handle
<1>18. QED
  BY <1>1, <1>2, <1>3, <1>4, <1>5, <1>6, <1>7, <1>8, <1>9, <1>10, <1>11, <1>12, <1>13, <1>14,
     <1>15, <1>16, <1>17 DEF GestureStates

\* While tapping waits for a finger or for the next frame, or tells three
\* fingers from a hold, no gesture has begun but one of four fingers on a
\* touchpad with three slots, which needs no motion.
Waits == {"other", "touch", "hold"}
Tapped(s) ==
  /\ s.tap = "off" <=> ~pad.tap
  /\ s.nfingers # 0 \/ s.want_nfingers # 0 => Enabled /\ pad.slots >= 3
  /\ s.tap \in Waits =>
       /\ s.state \notin {"SCROLL_START", "SCROLL"}
       /\ s.state \in DragStates => pad.slots < 4
       /\ s.state \in {"DRAG_OR_SWIPE_START", "DRAG_OR_SWIPE"} => s.count = 4
  /\ s.tap = "touch" /\ s.state = "UNKNOWN" /\ s.hold_timer => Quick(s)

Sane(s) == Good(s) /\ Timely(s) /\ Tapped(s) /\ Known(s.bugs)

\* What the start of a gesture asks of tapping.
Ripe(s, e) ==
  /\ e = "SCROLL_START" => s.tap \notin Waits
  /\ e = "DRAG_OR_SWIPE_START" /\ s.tap \in Waits => pad.slots < 4 /\ s.count = 4
  /\ e = "FINGER_DETECTED" /\ s.tap = "touch" => s.count <= 3

\* What stays the same while a frame is worked on.
Same(r, s) ==
  /\ r.tap = s.tap /\ r.count = s.count /\ r.pending = s.pending
  /\ r.nfingers = s.nfingers /\ r.want_nfingers = s.want_nfingers

\* What does not depend on where the machine stands.
Linked(s) ==
  /\ s.tap = "off" <=> ~pad.tap
  /\ s.nfingers # 0 \/ s.want_nfingers # 0 => Enabled /\ pad.slots >= 3
  /\ Known(s.bugs)

LEMMA SaneLinked == ASSUME NEW s, Sane(s) PROVE Linked(s)
  BY DEF Sane, Tapped, Linked

LEMMA LeadsKnown ==
  ASSUME NEW s, Known(s.bugs), NEW e, NEW r, Leads(s, e, r)
  PROVE  Known(r.bugs)
<1>1. CASE r.bugs = s.bugs BY <1>1
<1>2. CASE KnownBug(s.state, e) /\ r.bugs = s.bugs \cup {<<s.state, e>>}
  BY <1>2 DEF Known
<1>3. QED BY <1>1, <1>2 DEF Leads

\* Where no gesture has begun, tapping may wait for anything.
Calm == {"NONE", "PINCH_START", "POINTER_MOTION"}

LEMMA CalmSane ==
  ASSUME NEW s, Linked(s), NEW e, NEW r, Leads(s, e, r), Good(r), r.state \in Calm
  PROVE  Sane(r) /\ Same(r, s)
<1>1. Same(r, s) BY DEF Leads, Same
<1>2. Timely(r) BY DEF Leads, Timely, Calm
<1>3. Tapped(r) BY <1>1 DEF Linked, Same, Tapped, Calm, DragStates
<1>4. Known(r.bugs) BY LeadsKnown DEF Linked
<1>5. QED BY <1>1, <1>2, <1>3, <1>4 DEF Sane

LEMMA LeadsSane ==
  ASSUME NEW s, Sane(s), NEW e \in Events \ {"END"}, Ripe(s, e), NEW r, Leads(s, e, r), Good(r)
  PROVE  Sane(r) /\ Same(r, s)
<1>1. Same(r, s) BY DEF Leads, Same
<1>2. Timely(r) BY DEF Leads, Timely, Sane
<1>3. Known(r.bugs) BY LeadsKnown DEF Sane
<1>4. Tapped(r)
  <2>1. /\ r.tap = "off" <=> ~pad.tap
        /\ r.nfingers # 0 \/ r.want_nfingers # 0 => Enabled /\ pad.slots >= 3
    BY <1>1 DEF Same, Sane, Tapped
  <2>2. ASSUME r.tap \in Waits
        PROVE  /\ r.state \notin {"SCROLL_START", "SCROLL"}
               /\ r.state \in DragStates => pad.slots < 4
               /\ r.state \in {"DRAG_OR_SWIPE_START", "DRAG_OR_SWIPE"} => r.count = 4
    <3>1. r.state \notin {"SCROLL_START", "SCROLL"}
      BY <1>1, <2>2 DEF Leads, Sane, Tapped, Same, Ripe
    <3>2. r.state = "DRAG_OR_SWIPE_START" => pad.slots < 4 /\ r.count = 4
      BY <1>1, <2>1, <2>2 DEF Leads, Sane, Tapped, Same, Ripe, Waits, DragStates
    <3>3. r.state = "DRAG_OR_SWIPE" => pad.slots < 4 /\ r.count = 4
      BY <1>1, <2>2 DEF Leads, Sane, Tapped, Same, DragStates
    <3>4. r.state = "DRAG_START" => pad.slots < 4
      BY <1>1, <2>2 DEF Leads, Sane, Tapped, Same, DragStates
    <3>5. QED BY <3>1, <3>2, <3>3, <3>4 DEF DragStates
  <2>3. ASSUME r.tap = "touch", r.state = "UNKNOWN", r.hold_timer PROVE Quick(r)
    <3>1. CASE s.state = "UNKNOWN" /\ r.hold_timer = s.hold_timer
      BY <1>1, <2>3, <3>1 DEF Sane, Tapped, Same, Quick
    <3>2. CASE e = "FINGER_DETECTED" /\ (r.hold_timer => UseHoldTimer(s))
      <4>1. s.tap = "touch" /\ s.count <= 3 BY <1>1, <2>3, <3>2 DEF Same, Ripe
      <4>2. s.count \in Nat BY GesturesAssumption DEF Sane, Good, Agrees, Tells, Gesture,
           GesturesAssumption
      <4>3. CASE UseHoldTimer(s) BY <1>1, <4>1, <4>2, <4>3 DEF UseHoldTimer, Quick, Same
      <4>4. QED BY <2>3, <3>2, <4>3
    <3>3. QED BY <2>3, <3>1, <3>2 DEF Leads
  <2>4. QED BY <2>1, <2>2, <2>3 DEF Tapped
<1>5. QED BY <1>1, <1>2, <1>3, <1>4 DEF Sane

LEMMA HandleSane ==
  ASSUME NEW s, Sane(s), NEW e \in Events \ {"END"}, Allowed(s, e), Expects(s, e), Ripe(s, e),
         NEW near \in BOOLEAN
  PROVE  LET r == Handle(s, e, near) IN Sane(r) /\ Same(r, s) /\ Leads(s, e, r)
<1> DEFINE r == Handle(s, e, near)
<1>1. Leads(s, e, r) BY HandleLeads DEF Sane, Good
<1>2. Good(r) BY HandleSteady DEF Sane, Steady
<1> HIDE DEF r
<1>3. Sane(r) /\ Same(r, s) BY <1>1, <1>2, LeadsSane
<1>4. QED BY <1>1, <1>3 DEF r

-----------------------------------------------------------------------------
(* A frame, from the machine's point of view.                              *)

LEMMA CancelCalm ==
  ASSUME NEW s, Good(s), Timely(s), Linked(s)
  PROVE  Sane(Cancel(s)) /\ Same(Cancel(s), s) /\ Cancel(s).state \in {"NONE", "PINCH_START"}
<1> DEFINE e == IF s.state \in Undecided THEN "RESET" ELSE "CANCEL"
<1>1. e \in Events /\ Expects(s, e)
  BY DEF Events, Closing, Starts, Fits, Expects
<1>2. Cancel(s) = Handle(s, e, FALSE) BY DEF Cancel, Ended
<1> HIDE DEF e
<1>3. Leads(s, e, Cancel(s)) BY <1>1, <1>2, HandleLeads DEF Good
<1>4. Good(Cancel(s)) /\ Cancel(s).state \in {"NONE", "PINCH_START"} BY CancelSteady DEF Steady
<1>5. QED BY <1>3, <1>4, CalmSane DEF Calm

LEMMA CancelSane ==
  ASSUME NEW s, Sane(s)
  PROVE  Sane(Cancel(s)) /\ Same(Cancel(s), s) /\ Cancel(s).state \in {"NONE", "PINCH_START"}
  BY CancelCalm, SaneLinked DEF Sane

LEMMA SelfSame == ASSUME NEW s PROVE Same(s, s)
  BY DEF Same

LEMMA CancelMotionSane ==
  ASSUME NEW s, Sane(s)
  PROVE  /\ Sane(CancelMotion(s)) /\ Same(CancelMotion(s), s)
         /\ CancelMotion(s).state \in {s.state, "NONE", "PINCH_START"}
  BY CancelSane, SelfSame DEF CancelMotion

\* Fingers that are down and not about to change: `active' of them, but for
\* the one that a drag or a click is taken for.
Seen(r, active) ==
  /\ Sane(r) /\ r.count # 0 /\ r.pending = 0
  /\ r.count = active \/ r.state \in {"POINTER_MOTION", "PINCH_START", "PINCH"}

LEMMA StartSane ==
  ASSUME NEW s, Sane(s), s.count # 0, s.pending = 0, NEW e \in Starts, Expects(s, e), Ripe(s, e)
  PROVE  LET r == Handle(s, e, FALSE) IN Sane(r) /\ Same(r, s) /\ Leads(s, e, r)
<1>1. e \in Events \ {"END"} /\ Allowed(s, e)
  BY DEF Events, Starts, Closing, Allowed, Fits
<1>2. QED BY <1>1, HandleSane

\* Two or more fingers that wait to be tapped begin no gesture but the one
\* that needs no motion.
LEMMA DetectSane ==
  ASSUME pad \in Pads, NEW s, NEW active, Seen(s, active), NEW m, m.way \in Ways,
         s.state \in {"UNKNOWN", "HOLD", "HOLD_AND_MOTION", "DRAG_RELEASED"},
         s.tap \in Waits /\ active > 1 => m.way = "undecided"
  PROVE  /\ Sane(Detect(s, m)) /\ Same(Detect(s, m), s)
         /\ Detect(s, m).state = "HOLD" => s.state = "HOLD"
         /\ Detect(s, m).state = "UNKNOWN" => s.state = "UNKNOWN"
         /\ Detect(s, m).state = "DRAG_OR_SWIPE_START" => s.state \in {"UNKNOWN", "HOLD"}
<1> DEFINE Fine(r) == /\ Sane(r) /\ Same(r, s)
                      /\ r.state = "HOLD" => s.state = "HOLD"
                      /\ r.state = "UNKNOWN" => s.state = "UNKNOWN"
                      /\ r.state = "DRAG_OR_SWIPE_START" => s.state \in {"UNKNOWN", "HOLD"}
<1>1. s.count = active /\ s.count \in Nat /\ s.count # 0 /\ s.pending = 0 /\ Sane(s)
  BY GesturesAssumption DEF Seen, Sane, Good, Agrees, Tells, Gesture, GesturesAssumption
<1>2. ASSUME NEW e \in Starts, Expects(s, e), Ripe(s, e), e # "FINGER_DETECTED",
             e = "DRAG_OR_SWIPE_START" => s.state \in {"UNKNOWN", "HOLD"}
      PROVE  Fine(Handle(s, e, FALSE))
  <2>1. /\ Sane(Handle(s, e, FALSE)) /\ Same(Handle(s, e, FALSE), s)
        /\ Leads(s, e, Handle(s, e, FALSE))
    BY <1>1, <1>2, StartSane
  <2>2. QED BY <1>2, <2>1 DEF Leads, Starts
<1>3. Fine(s) BY <1>1, SelfSame
<1>4. CASE s.count = 1
  <2>1. Expects(s, "POINTER_MOTION_START") /\ Ripe(s, "POINTER_MOTION_START")
    BY DEF Expects, Ripe, Fits
  <2>2. Fine(Handle(s, "POINTER_MOTION_START", FALSE)) BY <1>2, <2>1 DEF Starts
  <2>3. ASSUME s.state = "HOLD" PROVE Fine(Handle(s, "HOLD_AND_MOTION_START", FALSE))
    <3>1. Expects(s, "HOLD_AND_MOTION_START") /\ Ripe(s, "HOLD_AND_MOTION_START")
      BY <1>4, <2>3 DEF Expects, Ripe, Fits
    <3>2. QED BY <1>2, <3>1 DEF Starts
  <2>4. \/ Detect(s, m) = s
        \/ Detect(s, m) = Handle(s, "POINTER_MOTION_START", FALSE)
        \/ s.state = "HOLD" /\ Detect(s, m) = Handle(s, "HOLD_AND_MOTION_START", FALSE)
    BY <1>4, Zenon DEF Detect, DetectOne
  <2> HIDE DEF Fine
  <2>5. Fine(Detect(s, m)) BY <1>3, <2>2, <2>3, <2>4
  <2>6. QED BY <2>5 DEF Fine
<1>5. CASE s.count # 1
  <2>1. s.count > 1 /\ s.state # "HOLD_AND_MOTION" BY <1>1, <1>5 DEF Sane, Timely
  <2>2. Fine(Cancel(s)) BY <1>1, CancelSane
  <2>3. s.tap \notin Waits \/ m.way = "undecided" BY <1>1, <2>1
  <2> s.nfingers # 2 /\ pad.slots \in Nat
    BY <1>1, GesturesAssumption DEF Sane, Good, Agrees, Tells, Gesture, GesturesAssumption
  <2>4. ASSUME \/ Enabled /\ s.count > 2 /\ s.count > pad.slots
               \/ s.tap \notin Waits
        PROVE  Fine(Handle(s, Parallel(s), FALSE))
    <3>1. CASE s.count = 2
      <4>1. Parallel(s) = "SCROLL_START" BY <3>1 DEF Parallel, OnlyScrolls
      <4>2. s.tap \notin Waits BY <2>4, <3>1
      <4>3. Expects(s, "SCROLL_START") /\ Ripe(s, "SCROLL_START")
        BY <2>1, <4>2 DEF Expects, Ripe, Fits
      <4>4. QED BY <1>2, <4>1, <4>3 DEF Starts
    <3>2. CASE s.count # 2 /\ s.count = s.nfingers
      <4>1. Parallel(s) = "DRAG_OR_SWIPE_START" BY <3>2 DEF Parallel, OnlyScrolls
      <4>2. s.state \in {"UNKNOWN", "HOLD"} BY <1>1, <2>1, <3>2 DEF Sane, Timely
      <4>3. s.nfingers \in {3, 4} /\ pad.slots >= 3
        BY <1>1, <3>2, GesturesAssumption
          DEF Sane, Good, Agrees, Tells, Gesture, GesturesAssumption, Tapped
      <4>4. s.tap \in Waits => s.count = 4 /\ pad.slots < 4
        <5>1. CASE s.nfingers = 3 BY <2>4, <3>2, <4>3, <5>1
        <5>2. CASE s.nfingers = 4 BY <2>4, <3>2, <4>3, <5>2
        <5>3. QED BY <4>3, <5>1, <5>2
      <4>5. Expects(s, "DRAG_OR_SWIPE_START") /\ Ripe(s, "DRAG_OR_SWIPE_START")
        BY <4>2, <4>4 DEF Expects, Ripe, Fits
      <4>6. QED BY <1>2, <4>1, <4>2, <4>5 DEF Starts
    <3>3. CASE s.count # 2 /\ s.count # s.nfingers
      <4>1. Parallel(s) = "SWIPE_START" BY <3>3 DEF Parallel, OnlyScrolls
      <4>2. Expects(s, "SWIPE_START") /\ Ripe(s, "SWIPE_START")
        BY <2>1 DEF Expects, Ripe, Fits
      <4>3. QED BY <1>2, <4>1, <4>2 DEF Starts
    <3>4. QED BY <3>1, <3>2, <3>3
  <2>5. Fine(Handle(s, "PINCH_START", FALSE))
    <3>1. Expects(s, "PINCH_START") /\ Ripe(s, "PINCH_START")
      BY <2>1 DEF Expects, Ripe, Fits
    <3>2. QED BY <1>2, <3>1 DEF Starts
  <2>6. \/ Detect(s, m) = s
        \/ Detect(s, m) = Cancel(s)
        \/ Detect(s, m) = Handle(s, "PINCH_START", FALSE)
        \/ /\ Detect(s, m) = Handle(s, Parallel(s), FALSE)
           /\ (Enabled /\ s.count > 2 /\ s.count > pad.slots) \/ m.way # "undecided"
    BY <1>5, ZenonT(60) DEF Detect, DetectMany, Ways
  <2> HIDE DEF Fine
  <2>7. Fine(Detect(s, m)) BY <1>3, <2>2, <2>3, <2>4, <2>5, <2>6
  <2>8. QED BY <2>7 DEF Fine
<1>6. QED BY <1>4, <1>5

LEMMA SeeFingersSane ==
  ASSUME NEW s, NEW active, Seen(s, active), s.state = "NONE", s.tap = "touch" => active <= 3
  PROVE  /\ Sane(SeeFingers(s)) /\ Same(SeeFingers(s), s)
         /\ SeeFingers(s).state # "HOLD"
<1>1. s.count # 0 /\ s.pending = 0 /\ Sane(s) /\ s.count = active BY DEF Seen
<1>2. ASSUME ~pad.tap PROVE Expects(s, "SCROLL_START") /\ Ripe(s, "SCROLL_START")
  BY <1>1, <1>2 DEF Expects, Ripe, Fits, Sane, Tapped, Waits
<1>3. Expects(s, "FINGER_DETECTED") /\ Ripe(s, "FINGER_DETECTED")
  BY <1>1 DEF Expects, Ripe, Fits
<1>4. ~pad.tap => LET r == Handle(s, "SCROLL_START", FALSE)
                  IN  Sane(r) /\ Same(r, s) /\ Leads(s, "SCROLL_START", r)
  BY <1>1, <1>2, StartSane DEF Starts
<1>5. LET r == Handle(s, "FINGER_DETECTED", FALSE)
      IN  Sane(r) /\ Same(r, s) /\ Leads(s, "FINGER_DETECTED", r)
  BY <1>1, <1>3, StartSane DEF Starts
<1> s.count \in Nat
  BY <1>1, GesturesAssumption DEF Sane, Good, Agrees, Tells, Gesture, GesturesAssumption
<1>6. \/ SeeFingers(s) = s
      \/ SeeFingers(s) = Handle(s, "FINGER_DETECTED", FALSE)
      \/ ~pad.tap /\ SeeFingers(s) = Handle(s, "SCROLL_START", FALSE)
  <2>1. CASE s.count = 2 /\ ~Enabled /\ ~pad.tap
    <3>1. ~(s.count > 2) BY <2>1
    <3>2. QED BY <2>1, <3>1, Zenon DEF SeeFingers
  <2>2. CASE s.count > 2 /\ pad.slots = 1
    <3>1. s.count # 2 BY <2>2
    <3>2. QED BY <2>2, <3>1, Zenon DEF SeeFingers
  <2>3. CASE ~(s.count = 2 /\ ~Enabled /\ ~pad.tap) /\ ~(s.count > 2 /\ pad.slots = 1)
    BY <2>3, Zenon DEF SeeFingers
  <2>4. QED BY <2>1, <2>2, <2>3
<1>7. QED BY <1>1, <1>4, <1>5, <1>6, SelfSame DEF Leads

\* A step of the machine that is not an event: a gesture begins or goes on.
LEMMA StepSane ==
  ASSUME NEW s, Sane(s), NEW r, Good(r), Same(r, s), r.bugs = s.bugs,
         r.hold_timer = s.hold_timer, r.drag_timer = s.drag_timer,
         s.state \notin {"UNKNOWN", "POINTER_MOTION", "DRAG_RELEASED"},
         r.state \notin {"UNKNOWN", "HOLD_AND_MOTION", "DRAG_RELEASED", "DRAG_START"},
         r.state \in {"SCROLL_START", "SCROLL"} => s.state \in {"SCROLL_START", "SCROLL"},
         r.state \in {"DRAG_OR_SWIPE_START", "DRAG_OR_SWIPE"}
           => s.state \in {"DRAG_OR_SWIPE_START", "DRAG_OR_SWIPE"}
  PROVE  Sane(r)
<1>1. Timely(r) BY DEF Sane, Timely, Same
<1>2. Tapped(r) BY DEF Sane, Tapped, Same, DragStates
<1>3. QED BY <1>1, <1>2 DEF Sane

LEMMA TryScrollSane ==
  ASSUME NEW s, NEW active, Seen(s, active), s.state = "SCROLL_START", NEW m
  PROVE  /\ Sane(TryScroll(s, m)) /\ Same(TryScroll(s, m), s)
         /\ TryScroll(s, m).state \in {"SCROLL_START", "SCROLL", "PINCH_START"}
<1>1. Sane(s) /\ s.count # 0 /\ s.pending = 0 BY DEF Seen
<1>2. Expects(s, "PINCH_START") /\ Ripe(s, "PINCH_START") BY DEF Expects, Ripe, Fits
<1>3. LET r == Handle(s, "PINCH_START", FALSE) IN Sane(r) /\ Same(r, s) /\ r.state = "PINCH_START"
  <2>1. LET r == Handle(s, "PINCH_START", FALSE) IN Sane(r) /\ Same(r, s)
    BY <1>1, <1>2, StartSane DEF Starts
  <2>2. Handle(s, "PINCH_START", FALSE).state = "PINCH_START"
    BY <1>1 DEF Handle, OnScrollStart, Closing, To, Nothing, Unheld, Sane, Good, Agrees, Tells,
         Gesture
  <2>3. QED BY <2>1, <2>2
<1>4. Sane(To(s, "SCROLL")) /\ Same(To(s, "SCROLL"), s) /\ To(s, "SCROLL").state = "SCROLL"
  <2> DEFINE r == To(s, "SCROLL")
  <2>1. Good(r) BY <1>1, ToScrollSteady DEF Settled, Steady, Sane
  <2>2. /\ Same(r, s) /\ r.state = "SCROLL" /\ r.bugs = s.bugs
        /\ r.hold_timer = s.hold_timer /\ r.drag_timer = s.drag_timer
    BY <1>1 DEF To, Same, Sane, Good, Agrees, Tells, Gesture
  <2> HIDE DEF r
  <2>3. Sane(r) BY <1>1, <2>1, <2>2, StepSane
  <2>4. QED BY <2>2, <2>3 DEF r
<1>5. TryScroll(s, m) \in {s, Handle(s, "PINCH_START", FALSE), To(s, "SCROLL")}
  BY DEF TryScroll
<1>6. QED BY <1>1, <1>3, <1>4, <1>5, SelfSame

LEMMA PostScrollSane ==
  ASSUME NEW s, NEW active, Seen(s, active), s.state = "SCROLL", NEW m
  PROVE  /\ Sane(PostScroll(s, m)) /\ Same(PostScroll(s, m), s)
         /\ PostScroll(s, m).state \in {"SCROLL", "PINCH_START"}
<1>1. Sane(s) /\ s.count # 0 /\ s.pending = 0 BY DEF Seen
<1>2. CASE s.twofinger /\ m.way = "apart"
  <2>1. Expects(s, "PINCH_START") /\ Ripe(s, "PINCH_START") BY DEF Expects, Ripe, Fits
  <2>2. LET r == Handle(s, "PINCH_START", FALSE) IN Sane(r) /\ Same(r, s)
    BY <1>1, <2>1, StartSane DEF Starts
  <2>3. Handle(s, "PINCH_START", FALSE).state = "PINCH_START"
    BY <1>1 DEF Handle, OnScroll, ScrollEnded, StopScroll, Closing, To, Nothing, Unheld,
                Sane, Good, Agrees, Tells, Gesture
  <2>4. PostScroll(s, m) = Handle(s, "PINCH_START", FALSE) BY <1>2, Zenon DEF PostScroll
  <2>5. QED BY <2>2, <2>3, <2>4
<1>3. CASE s.twofinger /\ m.way # "apart" /\ m.moved
  <2> DEFINE x == s.scrolling \/ m.way = "parallel"
             r == [s EXCEPT !.scrolling = x]
  <2>1. PostScroll(s, m) = r BY <1>3, Zenon DEF PostScroll
  <2>2. Good(r) BY <1>1, <2>1, PostScrollSteady DEF Settled, Steady, Sane
  <2>3. /\ Same(r, s) /\ r.state = "SCROLL" /\ r.bugs = s.bugs
        /\ r.hold_timer = s.hold_timer /\ r.drag_timer = s.drag_timer
    BY <1>1 DEF Same, Sane, Good, Agrees, Tells, Gesture
  <2> HIDE DEF r
  <2>4. Sane(r) BY <1>1, <2>2, <2>3, StepSane
  <2>5. QED BY <2>1, <2>3, <2>4
<1>4. CASE ~(s.twofinger /\ m.way = "apart") /\ ~(s.twofinger /\ m.way # "apart" /\ m.moved)
  <2>1. PostScroll(s, m) = s BY <1>4, Zenon DEF PostScroll
  <2>2. QED BY <1>1, <2>1, SelfSame
<1>5. QED BY <1>2, <1>3, <1>4

LEMMA BeginsSane ==
  ASSUME NEW s, NEW active, Seen(s, active), NEW m,
         NEW kind \in {"swipe", "pinch"}, NEW x \in {"SWIPE", "PINCH"}, OpenKind(x) = kind,
         s.state \in {"SWIPE_START", "PINCH_START"}
  PROVE  LET r == BeginIfMoved(s, m, kind, x)
         IN  Sane(r) /\ Same(r, s) /\ r.state \in {s.state, x}
<1>1. Sane(s) /\ s.count # 0 /\ s.pending = 0 BY DEF Seen
<1> DEFINE r == To(Begin(s, kind), x)
<1>2. Good(r) BY <1>1, BeginsSteady DEF Settled, Steady, Sane
<1>3. /\ Same(r, s) /\ r.state = x /\ r.bugs = s.bugs
      /\ r.hold_timer = s.hold_timer /\ r.drag_timer = s.drag_timer
  BY <1>1 DEF To, Begin, Same, Sane, Good, Agrees, Tells, Gesture
<1> HIDE DEF r
<1>4. Sane(r) BY <1>1, <1>2, <1>3, StepSane
<1>5. BeginIfMoved(s, m, kind, x) \in {s, r} BY DEF BeginIfMoved, r
<1>6. QED BY <1>1, <1>3, <1>4, <1>5, SelfSame

LEMMA DragOrSwipeSane ==
  ASSUME NEW s, NEW active, Seen(s, active), s.state = "DRAG_OR_SWIPE_START"
  PROVE  LET r == [To(Begin(s, "swipe"), "DRAG_OR_SWIPE") EXCEPT !.swipe_timer = TRUE]
         IN  Sane(r) /\ Same(r, s) /\ r.state = "DRAG_OR_SWIPE"
<1>1. Sane(s) /\ s.count # 0 /\ s.pending = 0 BY DEF Seen
<1> DEFINE r == [To(Begin(s, "swipe"), "DRAG_OR_SWIPE") EXCEPT !.swipe_timer = TRUE]
<1>2. Good(r) BY <1>1, DragOrSwipeSteady DEF Settled, Steady, Sane
<1>3. /\ Same(r, s) /\ r.state = "DRAG_OR_SWIPE" /\ r.bugs = s.bugs
      /\ r.hold_timer = s.hold_timer /\ r.drag_timer = s.drag_timer
  BY <1>1 DEF To, Begin, Same, Sane, Good, Agrees, Tells, Gesture
<1> HIDE DEF r
<1>4. Sane(r) BY <1>1, <1>2, <1>3, StepSane
<1>5. QED BY <1>3, <1>4 DEF r

LEMMA DragStartsSane ==
  ASSUME NEW s, NEW active, Seen(s, active), s.state = "DRAG_START"
  PROVE  LET r == To(Press(s), "DRAG") IN Sane(r) /\ Same(r, s) /\ r.state = "DRAG"
<1>1. Sane(s) /\ s.count # 0 /\ s.pending = 0 BY DEF Seen
<1> DEFINE r == To(Press(s), "DRAG")
<1>2. Good(r) BY <1>1, DragStartsSteady DEF Settled, Steady, Sane
<1>3. /\ Same(r, s) /\ r.state = "DRAG" /\ r.bugs = s.bugs
      /\ r.hold_timer = s.hold_timer /\ r.drag_timer = s.drag_timer
  BY <1>1 DEF To, Press, Same, Sane, Good, Agrees, Tells, Gesture
<1> HIDE DEF r
<1>4. Sane(r) BY <1>1, <1>2, <1>3, StepSane
<1>5. QED BY <1>3, <1>4 DEF r

\* tp_gesture_handle_state looks at the states in Order.
LEMMA Places ==
  /\ Place("NONE") = 1 /\ Place("UNKNOWN") = 2 /\ Place("HOLD") = 3
  /\ Place("DRAG_OR_SWIPE_START") = 11
  /\ \A x : Place(x) \in 0..11 /\ (Place(x) = 11 => x = "DRAG_OR_SWIPE_START")
  /\ \A x : Place(x) = 0 => x \notin Range(Order)
<1>1. DOMAIN Order = 1..11 BY DEF Order
<1>2. ASSUME NEW x \in Range(Order)
      PROVE  Place(x) \in 1..11 /\ Order[Place(x)] = x
  <2>1. \E i \in DOMAIN Order : Order[i] = x BY DEF Range
  <2>2. Place(x) = CHOOSE i \in DOMAIN Order : Order[i] = x BY <1>2, Zenon DEF Place
  <2>3. Place(x) \in DOMAIN Order /\ Order[Place(x)] = x BY <2>1, <2>2, Zenon
  <2>4. QED BY <1>1, <2>3
<1>3. ASSUME NEW x, x \notin Range(Order) PROVE Place(x) = 0 BY <1>3, Zenon DEF Place
<1>4. ASSUME NEW i \in 1..11 PROVE Order[i] \in Range(Order) BY <1>1, <1>4 DEF Range
<1>5. /\ Order[1] = "NONE" /\ Order[2] = "UNKNOWN" /\ Order[3] = "HOLD"
      /\ Order[11] = "DRAG_OR_SWIPE_START"
  BY DEF Order
<1>6. ASSUME NEW i \in 1..11, NEW j \in 1..11, Order[i] = Order[j] PROVE i = j
  BY <1>6 DEF Order
<1>7. ASSUME NEW i \in 1..11 PROVE Place(Order[i]) = i BY <1>2, <1>4, <1>6, <1>7
<1>8. Place("NONE") = 1 /\ Place("UNKNOWN") = 2 /\ Place("HOLD") = 3
      /\ Place("DRAG_OR_SWIPE_START") = 11
  BY <1>5, <1>7
<1>9. ASSUME NEW x PROVE /\ Place(x) \in 0..11 /\ (Place(x) = 11 => x = "DRAG_OR_SWIPE_START")
                         /\ Place(x) = 0 => x \notin Range(Order)
  BY <1>2, <1>3, <1>5
<1>10. QED BY <1>8, <1>9

\* What HandleState does in a state.
Visited(r, from, ignore_motion, m) ==
  CASE r.state = "NONE" -> SeeFingers(r)
    [] r.state \in {"UNKNOWN", "HOLD"} ->
         CASE ignore_motion -> r
           [] ~ignore_motion /\ from = "NONE" -> Detect(r, [m EXCEPT !.way = "undecided"])
           [] OTHER -> Detect(r, m)
    [] r.state \in {"HOLD_AND_MOTION", "DRAG_RELEASED"} -> Detect(r, m)
    [] r.state = "SCROLL" -> PostScroll(r, m)
    [] r.state = "SCROLL_START" -> TryScroll(r, m)
    [] r.state = "SWIPE_START" -> BeginIfMoved(r, m, "swipe", "SWIPE")
    [] r.state = "PINCH_START" /\ from = "PINCH_START" -> BeginIfMoved(r, m, "pinch", "PINCH")
    [] r.state = "DRAG_START" -> To(Press(r), "DRAG")
    [] r.state = "DRAG_OR_SWIPE_START" ->
         [To(Begin(r, "swipe"), "DRAG_OR_SWIPE") EXCEPT !.swipe_timer = TRUE]
    [] OTHER -> r

Fitting(s, active, m) ==
  /\ m \in Motions
  /\ s.tap \in Waits /\ active > 1 => m.way = "undecided"
  /\ s.tap = "touch" => active <= 3

LEMMA VisitSane ==
  ASSUME pad \in Pads, NEW r, NEW active, Seen(r, active), NEW from, NEW ignore_motion,
         NEW m, Fitting(r, active, m)
  PROVE  LET q == Visited(r, from, ignore_motion, m)
         IN  /\ Seen(q, active) /\ Same(q, r)
             /\ q.state = "DRAG_OR_SWIPE_START" => r.state \in {"NONE", "UNKNOWN", "HOLD"}
             /\ q.state = "HOLD" => r.state = "HOLD"
             /\ q.state = "UNKNOWN" => r.state \in {"UNKNOWN", "NONE"}
             /\ Place(r.state) = 0 => q = r
<1> DEFINE q == Visited(r, from, ignore_motion, m)
           Fine(x) == /\ Sane(x) /\ Same(x, r)
                      /\ x.state = "DRAG_OR_SWIPE_START" => r.state \in {"NONE", "UNKNOWN", "HOLD"}
                      /\ x.state = "HOLD" => r.state = "HOLD"
                      /\ x.state = "UNKNOWN" => r.state \in {"UNKNOWN", "NONE"}
<1>1. Sane(r) /\ Same(r, r) BY SelfSame DEF Seen
<1>2. m.way \in Ways /\ [m EXCEPT !.way = "undecided"].way = "undecided"
      /\ "undecided" \in Ways
  BY DEF Fitting, Motions, Ways
<1>3. CASE r.state = "NONE"
  <2>1. q = SeeFingers(r) BY <1>3 DEF Visited
  <2>2. Fine(SeeFingers(r)) BY <1>3, SeeFingersSane DEF Fitting
  <2>3. Place(r.state) # 0 BY <1>3, Places
  <2>4. r.count = active BY <1>3 DEF Seen
  <2> HIDE DEF q
  <2>5. QED BY <2>1, <2>2, <2>3, <2>4 DEF Seen, Same, q
<1>4. CASE r.state \in {"UNKNOWN", "HOLD", "HOLD_AND_MOTION", "DRAG_RELEASED"}
  <2>1. q \in {r, Detect(r, m), Detect(r, [m EXCEPT !.way = "undecided"])}
    BY <1>4 DEF Visited
  <2>2. r.state = "HOLD_AND_MOTION" \/ r.state = "DRAG_RELEASED" => r.state \in Range(Order)
    BY DEF Order, Range
  <2>3. Place(r.state) # 0 BY <1>4, <2>2, Places
  <2>4. r.count = active BY <1>4 DEF Seen
  <2>5. Fine(Detect(r, m)) BY <1>2, <1>4, DetectSane DEF Fitting
  <2>6. Fine(Detect(r, [m EXCEPT !.way = "undecided"])) BY <1>2, <1>4, DetectSane
  <2>7. Fine(r) BY <1>1, <1>4
  <2> HIDE DEF Fine, q
  <2>8. Fine(q) BY <2>1, <2>5, <2>6, <2>7
  <2>9. QED BY <2>3, <2>4, <2>8 DEF Seen, Same, Fine, q
<1>5. CASE r.state \in {"SCROLL", "SCROLL_START", "SWIPE_START", "DRAG_START",
                        "DRAG_OR_SWIPE_START"}
  <2>1. r.state \in Range(Order) BY <1>5 DEF Order, Range
  <2>2. Place(r.state) # 0 BY <2>1, Places
  <2>3. r.count = active BY <1>5 DEF Seen
  <2>4. CASE r.state = "SCROLL"
    <3>1. q = PostScroll(r, m) BY <2>4 DEF Visited
    <3> HIDE DEF q
    <3>2. QED BY <2>2, <2>3, <2>4, <3>1, PostScrollSane DEF Seen, Same, q
  <2>5. CASE r.state = "SCROLL_START"
    <3>1. q = TryScroll(r, m) BY <2>5 DEF Visited
    <3> HIDE DEF q
    <3>2. QED BY <2>2, <2>3, <2>5, <3>1, TryScrollSane DEF Seen, Same, q
  <2>6. CASE r.state = "SWIPE_START"
    <3>1. q = BeginIfMoved(r, m, "swipe", "SWIPE") BY <2>6 DEF Visited
    <3> HIDE DEF q
    <3>2. Sane(q) /\ Same(q, r) /\ q.state \in {"SWIPE_START", "SWIPE"}
      BY <2>6, <3>1, BeginsSane DEF OpenKind
    <3>3. QED BY <2>2, <2>3, <3>2 DEF Seen, Same, q
  <2>7. CASE r.state = "DRAG_START"
    <3>1. q = To(Press(r), "DRAG") BY <2>7 DEF Visited
    <3> HIDE DEF q
    <3>2. QED BY <2>2, <2>3, <2>7, <3>1, DragStartsSane DEF Seen, Same, q
  <2>8. CASE r.state = "DRAG_OR_SWIPE_START"
    <3>1. q = [To(Begin(r, "swipe"), "DRAG_OR_SWIPE") EXCEPT !.swipe_timer = TRUE]
      BY <2>8 DEF Visited
    <3> HIDE DEF q
    <3>2. QED BY <2>2, <2>3, <2>8, <3>1, DragOrSwipeSane DEF Seen, Same, q
  <2>9. QED BY <1>5, <2>4, <2>5, <2>6, <2>7, <2>8
<1>6. CASE r.state = "PINCH_START"
  <2>1. q \in {r, BeginIfMoved(r, m, "pinch", "PINCH")} BY <1>6 DEF Visited
  <2>2. r.state \in Range(Order) BY <1>6 DEF Order, Range
  <2>3. Place(r.state) # 0 BY <2>2, Places
  <2> HIDE DEF q
  <2>4. LET x == BeginIfMoved(r, m, "pinch", "PINCH")
        IN  Sane(x) /\ Same(x, r) /\ x.state \in {"PINCH_START", "PINCH"}
    BY <1>6, BeginsSane DEF OpenKind
  <2>5. Sane(q) /\ Same(q, r) /\ q.state \in {"PINCH_START", "PINCH"} BY <1>1, <1>6, <2>1, <2>4
  <2>6. QED BY <2>3, <2>5 DEF Seen, Same, q
<1>7. CASE r.state \notin {"NONE", "UNKNOWN", "HOLD", "HOLD_AND_MOTION", "DRAG_RELEASED",
                           "SCROLL", "SCROLL_START", "SWIPE_START", "PINCH_START",
                           "DRAG_START", "DRAG_OR_SWIPE_START"}
  <2>1. q = r BY <1>7 DEF Visited
  <2>2. QED BY <1>1, <1>7, <2>1
<1>8. QED BY <1>3, <1>4, <1>5, <1>6, <1>7

LEMMA HandleStateSane ==
  ASSUME pad \in Pads, NEW s, NEW active, Seen(s, active), s.state # "DRAG_OR_SWIPE_START",
         NEW ignore_motion, NEW m, Fitting(s, active, m)
  PROVE  LET r == HandleState(s, ignore_motion, m)
         IN  Seen(r, active) /\ Same(r, s) /\ r.state # "DRAG_OR_SWIPE_START"
<1> DEFINE Visit(r) == Visited(r, s.state, ignore_motion, m)
           Onward(r, from) == IF Place(r.state) > Place(from) THEN Visit(r) ELSE r
           first == Visit(s)
           second == Onward(first, s.state)
           third == Onward(second, first.state)
<1>1. HandleState(s, ignore_motion, m) = third BY DEF HandleState, Visited
<1>2. ASSUME NEW r, Seen(r, active), Same(r, s)
      PROVE  LET q == Visit(r)
             IN  /\ Seen(q, active) /\ Same(q, s)
                 /\ q.state = "DRAG_OR_SWIPE_START" => r.state \in {"NONE", "UNKNOWN", "HOLD"}
                 /\ q.state = "HOLD" => r.state = "HOLD"
                 /\ q.state = "UNKNOWN" => r.state \in {"UNKNOWN", "NONE"}
                 /\ Place(r.state) = 0 => q = r
  <2>1. Fitting(r, active, m) BY <1>2 DEF Fitting, Same
  <2>2. QED BY <1>2, <2>1, VisitSane DEF Same
<1> HIDE DEF Visit
<1>3. Seen(first, active) /\ Same(first, s) BY <1>2, SelfSame
<1>4. /\ first.state = "HOLD" => s.state = "HOLD"
      /\ first.state = "UNKNOWN" => s.state \in {"UNKNOWN", "NONE"}
      /\ Place(s.state) = 0 => first = s
  BY <1>2, SelfSame
<1> HIDE DEF first
<1>5. Seen(second, active) /\ Same(second, s) BY <1>2, <1>3
<1>6. \/ second = first
      \/ /\ Place(first.state) > Place(s.state)
         /\ second.state = "DRAG_OR_SWIPE_START" => first.state \in {"NONE", "UNKNOWN", "HOLD"}
         /\ second.state = "HOLD" => first.state = "HOLD"
         /\ second.state = "UNKNOWN" => first.state \in {"UNKNOWN", "NONE"}
         /\ Place(first.state) = 0 => second = first
  BY <1>2, <1>3
<1> HIDE DEF second
<1>7. Seen(third, active) /\ Same(third, s) BY <1>2, <1>5
<1>8. \/ third = second /\ ~(Place(second.state) > Place(first.state))
      \/ /\ Place(second.state) > Place(first.state)
         /\ third.state = "DRAG_OR_SWIPE_START" => second.state \in {"NONE", "UNKNOWN", "HOLD"}
  BY <1>2, <1>5
<1> HIDE DEF third
<1>9. third.state # "DRAG_OR_SWIPE_START"
  <2>1. SUFFICES ASSUME third.state = "DRAG_OR_SWIPE_START" PROVE FALSE OBVIOUS
  <2>2. /\ Place(first.state) \in 0..11 /\ Place(second.state) \in 0..11 /\ Place(s.state) \in 0..11
        /\ Place(first.state) = 11 => first.state = "DRAG_OR_SWIPE_START"
    BY Places
  <2>3. CASE third = second /\ ~(Place(second.state) > Place(first.state))
    <3>1. first.state = "DRAG_OR_SWIPE_START" /\ Place(first.state) = 11
      BY <2>1, <2>2, <2>3, Places
    <3>2. Place(s.state) # 11 BY Places
    <3>3. Place(first.state) > Place(s.state) BY <2>2, <3>1, <3>2
    <3>4. second.state # "DRAG_OR_SWIPE_START"
      <4>1. first # second \/ first = second OBVIOUS
      <4>2. second = Visit(first) BY <3>3 DEF second
      <4>3. QED BY <1>2, <1>3, <3>1, <4>2
    <3>5. QED BY <2>1, <2>3, <3>4
  <2>4. CASE /\ Place(second.state) > Place(first.state)
             /\ second.state \in {"NONE", "UNKNOWN", "HOLD"}
    <3>1. second # first /\ Place(first.state) > Place(s.state) BY <1>6, <2>2, <2>4
    <3>2. CASE second.state = "HOLD" BY <1>6, <2>2, <2>4, <3>1, <3>2
    <3>3. CASE second.state = "UNKNOWN"
      <4>1. first.state = "NONE" /\ Place(first.state) = 1 /\ Place(s.state) = 0
        BY <1>6, <2>2, <2>4, <3>1, <3>3, Places
      <4>2. QED BY <1>4, <4>1
    <3>4. CASE second.state = "NONE"
      <4>1. Place(first.state) = 0 BY <2>2, <2>4, <3>4, Places
      <4>2. QED BY <2>2, <3>1, <4>1
    <3>5. QED BY <2>4, <3>2, <3>3, <3>4
  <2>5. QED BY <1>8, <2>1, <2>3, <2>4
<1>10. QED BY <1>1, <1>7, <1>9

-----------------------------------------------------------------------------
(* The fingers of a frame.                                                 *)

\* Nothing that Sane speaks of changes.
LEMMA KeptSane ==
  ASSUME NEW s, Sane(s), NEW r, Good(r), r.state = s.state, r.count = s.count, r.tap = s.tap,
         r.nfingers = s.nfingers, r.want_nfingers = s.want_nfingers,
         r.hold_timer => s.hold_timer, r.drag_timer => s.drag_timer,
         r.bugs = s.bugs \/ r.bugs = {}
  PROVE  Sane(r)
<1>1. Timely(r) BY DEF Sane, Timely
<1>2. Tapped(r) BY DEF Sane, Tapped, Quick
<1>3. Known(r.bugs) BY DEF Sane, Known
<1>4. QED BY <1>1, <1>2, <1>3 DEF Sane

LEMMA ForcedSane ==
  ASSUME NEW s, Sane(s), s.count # 0
  PROVE  LET r == Forced(s)
         IN  /\ Sane(r) /\ r.count = 1 /\ r.pending = 0
             /\ r.state \in {"POINTER_MOTION", "PINCH_START"}
             /\ r.tap = s.tap /\ r.nfingers = s.nfingers /\ r.want_nfingers = s.want_nfingers
<1> DEFINE c == Cancel(s)
           h == Handle(c, "POINTER_MOTION_START", FALSE)
           moving == IF s.state = "POINTER_MOTION" THEN s ELSE h
           r == Forced(s)
<1>1. Sane(c) /\ Same(c, s) /\ c.state \in {"NONE", "PINCH_START"} BY CancelSane
<1> HIDE DEF c
<1>2. Leads(c, "POINTER_MOTION_START", h)
  <2>1. "POINTER_MOTION_START" \in Events /\ Expects(c, "POINTER_MOTION_START")
    BY <1>1 DEF Events, Starts, Expects, Fits
  <2>2. QED BY <1>1, <2>1, HandleLeads DEF Sane, Good
<1>3. h \in Gesture /\ h.state \in {"POINTER_MOTION", "PINCH_START"}
  <2>1. Handles(c, "POINTER_MOTION_START", h)
    BY <1>1, HandleHandles DEF Sane, Good, Fits, Events, Starts
  <2>2. c.state = "NONE" => h.state = "POINTER_MOTION"
    BY <1>1 DEF Handle, OnNone, Closing, To, Sane, Good, Agrees, Tells, Gesture
  <2>3. c.state = "PINCH_START" => h.state = "PINCH_START"
    BY <1>1 DEF Handle, OnPinchStart, Closing, Bug, Sane, Good, Agrees, Tells, Gesture
  <2>4. QED BY <1>1, <2>1, <2>2, <2>3 DEF Handles, Agrees, Tells
<1>4. Known(h.bugs) BY <1>1, <1>2, LeadsKnown DEF Sane
<1>5. /\ h.tap = s.tap /\ h.nfingers = s.nfingers /\ h.want_nfingers = s.want_nfingers
      /\ h.drag_timer = FALSE
  BY <1>1, <1>2, <1>3 DEF Leads, Same, Gesture
<1> HIDE DEF h
<1>6. /\ moving \in Gesture /\ moving.state \in {"POINTER_MOTION", "PINCH_START"}
      /\ moving.tap = s.tap /\ moving.nfingers = s.nfingers
      /\ moving.want_nfingers = s.want_nfingers /\ moving.drag_timer = FALSE
      /\ Known(moving.bugs) /\ (moving.hold_timer => moving.state = "POINTER_MOTION")
  <2>1. CASE s.state = "POINTER_MOTION"
    <3>1. s.drag_timer = FALSE BY <2>1 DEF Sane, Timely, Good, Agrees, Tells, Gesture
    <3>2. QED BY <2>1, <3>1 DEF Sane, Good, Agrees, Tells
  <2>2. CASE s.state # "POINTER_MOTION"
    <3>1. h.hold_timer => h.state = "POINTER_MOTION" BY <1>2, <1>3 DEF Leads
    <3>2. QED BY <1>3, <1>4, <1>5, <2>2, <3>1
  <2>3. QED BY <2>1, <2>2
<1>7. r = Counted(moving, 1) BY DEF Forced, Counted, h, c
<1> HIDE DEF moving
<1>8. /\ r.count = 1 /\ r.pending = 0 /\ r.state = moving.state /\ r.tap = moving.tap
      /\ r.nfingers = moving.nfingers /\ r.want_nfingers = moving.want_nfingers
      /\ r.drag_timer = moving.drag_timer /\ r.hold_timer = moving.hold_timer
      /\ r.bugs = moving.bugs
  BY <1>6, <1>7 DEF Counted, Gesture
<1>9. Good(r) BY ForcedSettled DEF Sane, Settled
<1> HIDE DEF r
<1>10. Timely(r) BY <1>6, <1>8 DEF Timely
<1>11. Tapped(r) BY <1>6, <1>8, SaneLinked DEF Linked, Tapped, DragStates
<1>12. QED BY <1>6, <1>8, <1>9, <1>10, <1>11 DEF r, Sane

\* The fingers that the machine counts, and those it is about to, are the ones
\* of the last frame, or the one that a drag or a click is taken for.
Counts(s, active) ==
  /\ active = 0 => s.count = 0 /\ s.pending = 0
  /\ s.pending # 0 => s.pending = active
  /\ s.pending = 0 => s.count \in {1, active}
  /\ s.state = "UNKNOWN" => s.count = active /\ s.pending = 0

\* What a frame leaves of that, before it is posted.
Updated(r, s, active) ==
  /\ Sane(r) /\ r.state # "DRAG_OR_SWIPE_START"
  /\ r.tap = s.tap /\ r.nfingers = s.nfingers /\ r.want_nfingers = s.want_nfingers
  /\ active = 0 => r.count = 0 /\ r.pending = 0
  /\ r.pending # 0 => r.pending = active
  /\ r.pending = 0 => r.count = active
  /\ r.state = "UNKNOWN" => s.state = "UNKNOWN" /\ s.count = active /\ r.hold_timer = s.hold_timer
                           /\ r.pending = 0

LEMMA UpdateFingersSane ==
  ASSUME NEW s, Sane(s), NEW active \in 0..MaxFingers, s.state # "DRAG_OR_SWIPE_START"
  PROVE  Updated(UpdateFingers(s, active), s, active)
<1> DEFINE r == UpdateFingers(s, active)
<1>1. Good(r) BY UpdateFingersGood DEF Sane
<1>2. s \in Gesture BY DEF Sane, Good, Agrees, Tells
<1>3. CASE active = s.count
  <2>1. r = [s EXCEPT !.pending = 0] BY <1>3 DEF UpdateFingers
  <2> HIDE DEF r
  <2>2. /\ r.state = s.state /\ r.count = s.count /\ r.tap = s.tap /\ r.nfingers = s.nfingers
        /\ r.want_nfingers = s.want_nfingers /\ r.hold_timer = s.hold_timer
        /\ r.drag_timer = s.drag_timer /\ r.bugs = s.bugs /\ r.pending = 0
    BY <1>2, <2>1 DEF Gesture
  <2>3. Sane(r) BY <1>1, <2>2, KeptSane
  <2>4. Updated(r, s, active) BY <1>3, <2>2, <2>3 DEF Updated
  <2>5. QED BY <2>4 DEF r
<1>4. CASE active # s.count /\ active = 0
  <2> DEFINE e == IF s.state \in Undecided THEN "RESET" ELSE "END"
             q == Stop(s)
  <2>1. e \in Events /\ Expects(s, e) BY DEF Events, Closing, Starts, Fits, Expects
  <2>2. q = Handle(s, e, FALSE) BY DEF Stop, Ended
  <2> HIDE DEF e
  <2>3. Leads(s, e, q) BY <2>1, <2>2, HandleLeads DEF Sane, Good
  <2>4. q.state \in Resting /\ q \in Gesture BY StopSteady DEF Sane, Steady, Good, Agrees, Tells
  <2>5. r = Counted(q, 0) BY <1>4 DEF UpdateFingers, Counted
  <2> HIDE DEF q, r
  <2>6. /\ r.state = q.state /\ r.count = 0 /\ r.pending = 0 /\ r.tap = q.tap
        /\ r.nfingers = q.nfingers /\ r.want_nfingers = q.want_nfingers
        /\ r.hold_timer = q.hold_timer /\ r.drag_timer = q.drag_timer /\ r.bugs = q.bugs
    BY <2>4, <2>5 DEF Counted, Gesture
  <2>7. Known(r.bugs) BY <2>3, <2>6, LeadsKnown DEF Sane
  <2>8. Timely(r) BY <2>3, <2>4, <2>6 DEF Leads, Timely, Resting
  <2>9. Tapped(r) BY <2>3, <2>4, <2>6, SaneLinked DEF Leads, Linked, Tapped, Resting, DragStates
  <2>10. Updated(r, s, active)
    BY <1>1, <1>4, <2>3, <2>4, <2>6, <2>7, <2>8, <2>9 DEF Updated, Leads, Sane, Resting, r
  <2>11. QED BY <2>10 DEF r
<1>5. CASE active # s.count /\ active # 0 /\ s.state \notin Debounced
  <2> DEFINE now == Counted(s, active)
             h == Handle(now, "RESET", FALSE)
  <2>1. r = IF s.state \in {"UNKNOWN", "POINTER_MOTION"} THEN h ELSE now
    BY <1>5 DEF UpdateFingers, Counted
  <2>2. /\ now.state = s.state /\ now.count = active /\ now.pending = 0 /\ now.tap = s.tap
        /\ now.nfingers = s.nfingers /\ now.want_nfingers = s.want_nfingers
        /\ now.hold_timer = s.hold_timer /\ now.drag_timer = s.drag_timer /\ now.bugs = s.bugs
    BY <1>2 DEF Counted, Gesture
  <2>3. Good(now)
    <3>1. OpenKind(s.state) = "none" BY <1>5 DEF OpenKind, Debounced
    <3>2. QED BY <1>5, <3>1, CountedGood DEF Sane, Good, Timed
  <2> HIDE DEF now
  <2>4. Timely(now) BY <1>5, <2>2 DEF Sane, Timely, Debounced
  <2>5. Linked(now) BY <2>2, SaneLinked DEF Linked
  <2>6. CASE s.state \in {"UNKNOWN", "POINTER_MOTION"}
    <3>1. "RESET" \in Events /\ Fits(now, "RESET") /\ Expects(now, "RESET")
      BY <2>2, <2>6 DEF Events, Closing, Fits, Expects, Undecided
    <3>2. Leads(now, "RESET", h) BY <2>3, <2>4, <3>1, HandleLeads DEF Good
    <3>3. Handles(now, "RESET", h) BY <2>3, <3>1, HandleHandles DEF Good
    <3> HIDE DEF h
    <3>4. h.state = "NONE" BY <2>2, <2>6, <3>3 DEF Handles, Moves, Closing
    <3>5. r = h BY <2>1, <2>6
    <3> HIDE DEF r
    <3>6. Sane(r) /\ Same(r, now) BY <1>1, <2>5, <3>2, <3>4, <3>5, CalmSane DEF Calm, r
    <3>7. Updated(r, s, active) BY <1>5, <2>2, <3>4, <3>5, <3>6 DEF Updated, Same
    <3>8. QED BY <3>7 DEF r
  <2>7. CASE s.state \notin {"UNKNOWN", "POINTER_MOTION"}
    <3>1. r = now BY <2>1, <2>7
    <3> HIDE DEF r
    <3>2. Tapped(now) BY <1>5, <2>2, <2>7 DEF Sane, Tapped, Debounced, DragStates
    <3>3. Sane(r) BY <2>2, <2>3, <2>4, <3>1, <3>2 DEF Sane
    <3>4. Updated(r, s, active) BY <1>5, <2>2, <2>7, <3>1, <3>3 DEF Updated
    <3>5. QED BY <3>4 DEF r
  <2>8. QED BY <2>6, <2>7
<1>6. CASE active # s.count /\ active # 0 /\ s.state \in Debounced
  <2> DEFINE q == [s EXCEPT !.pending = active, !.switch_timer = TRUE]
  <2>1. r = IF active = s.pending THEN s ELSE q BY <1>6 DEF UpdateFingers
  <2>2. /\ q.state = s.state /\ q.count = s.count /\ q.tap = s.tap /\ q.nfingers = s.nfingers
        /\ q.want_nfingers = s.want_nfingers /\ q.hold_timer = s.hold_timer
        /\ q.drag_timer = s.drag_timer /\ q.bugs = s.bugs /\ q.pending = active
    BY <1>2 DEF Gesture
  <2> HIDE DEF q, r
  <2>3. /\ r.state = s.state /\ r.count = s.count /\ r.tap = s.tap /\ r.nfingers = s.nfingers
        /\ r.want_nfingers = s.want_nfingers /\ r.hold_timer = s.hold_timer
        /\ r.drag_timer = s.drag_timer /\ r.bugs = s.bugs /\ r.pending = active
    BY <2>1, <2>2
  <2>4. Sane(r) BY <1>1, <2>3, KeptSane DEF r
  <2>5. Updated(r, s, active) BY <1>6, <2>3, <2>4 DEF Updated, Debounced
  <2>6. QED BY <2>5 DEF r
<1>7. QED BY <1>3, <1>4, <1>5, <1>6

-----------------------------------------------------------------------------
(* A whole frame.                                                          *)

\* What the machine keeps through a frame.
Carried(r, s, active) ==
  /\ Sane(r) /\ r.state # "DRAG_OR_SWIPE_START" /\ Counts(r, active)
  /\ r.tap = s.tap /\ r.nfingers = s.nfingers /\ r.want_nfingers = s.want_nfingers

\* Before it is posted, a frame has all fingers counted or about to be.
Heard(s, active) ==
  /\ Sane(s) /\ s.state # "DRAG_OR_SWIPE_START" /\ Counts(s, active)
  /\ s.pending = 0 => s.count = active

LEMMA PostEventsSane ==
  ASSUME pad \in Pads, NEW s, NEW active, Heard(s, active), NEW ignore_motion, NEW clicked,
         NEW m, Fitting(s, active, m)
  PROVE  Carried(PostEvents(s, ignore_motion, clicked, m), s, active)
<1>1. CASE s.count = 0
  <2>1. PostEvents(s, ignore_motion, clicked, m) = s BY <1>1 DEF PostEvents
  <2>2. QED BY <2>1 DEF Carried, Heard
<1>2. CASE s.count # 0
  <2> DEFINE one == IF s.tap = "drag" \/ clicked THEN Forced(s) ELSE s
             r == HandleState(one, ignore_motion, m)
  <2>1. active # 0 BY <1>2 DEF Heard, Counts
  <2>2. Forced(s).count = 1 /\ Carried(Forced(s), s, active) /\ Seen(Forced(s), active)
    <3>1. LET q == Forced(s)
          IN  /\ Sane(q) /\ q.count = 1 /\ q.pending = 0
              /\ q.state \in {"POINTER_MOTION", "PINCH_START"}
              /\ q.tap = s.tap /\ q.nfingers = s.nfingers /\ q.want_nfingers = s.want_nfingers
      BY <1>2, ForcedSane DEF Heard
    <3>2. QED BY <2>1, <3>1 DEF Carried, Counts, Seen
  <2>3. Carried(one, s, active) /\ (one.pending = 0 => Seen(one, active))
    BY <1>2, <2>2 DEF Heard, Carried, Seen
  <2>4. PostEvents(s, ignore_motion, clicked, m) =
          IF one.pending # 0 \/ one.count > 4 THEN one ELSE r
    BY <1>2 DEF PostEvents
  <2> HIDE DEF one
  <2>5. one.pending = 0 => Carried(r, s, active)
    <3> SUFFICES ASSUME one.pending = 0 PROVE Carried(r, s, active) OBVIOUS
    <3>1. Seen(one, active) /\ one.state # "DRAG_OR_SWIPE_START" /\ Fitting(one, active, m)
      BY <2>3 DEF Carried, Fitting
    <3>2. Seen(r, active) /\ Same(r, one) /\ r.state # "DRAG_OR_SWIPE_START"
      BY <3>1, HandleStateSane
    <3> HIDE DEF r
    <3>3. Counts(r, active) BY <2>1, <2>3, <3>2 DEF Carried, Counts, Seen, Same
    <3>4. QED BY <2>3, <3>2, <3>3 DEF Carried, Seen, Same
  <2> HIDE DEF r
  <2>6. QED BY <2>3, <2>4, <2>5
<1>3. QED BY <1>1, <1>2

LEMMA PostSane ==
  ASSUME pad \in Pads, NEW s, NEW active, Heard(s, active), NEW fate \in Fates,
         NEW m, Fitting(s, active, m)
  PROVE  Carried(Post(s, fate, m), s, active)
<1>1. /\ Sane(Cancel(s)) /\ Same(Cancel(s), s) /\ Cancel(s).state \in {"NONE", "PINCH_START"}
      /\ Sane(CancelMotion(s)) /\ Same(CancelMotion(s), s)
      /\ CancelMotion(s).state \in {s.state, "NONE", "PINCH_START"}
  BY CancelSane, CancelMotionSane DEF Heard
<1>2. Carried(Cancel(s), s, active) BY <1>1 DEF Heard, Carried, Counts, Same
<1>3. Carried(s, s, active) BY DEF Heard, Carried
<1> DEFINE q == IF fate \in Ignored THEN CancelMotion(s) ELSE s
           p == PostEvents(q, fate \in Ignored, fate \in Clicked, m)
<1>4. Heard(q, active) /\ Same(q, s) BY <1>1, SelfSame DEF Heard, Counts, Same
<1>5. Post(s, fate, m) \in {Cancel(s), s, p} BY DEF Post
<1> HIDE DEF q
<1>6. Fitting(q, active, m) BY <1>4 DEF Fitting, Same
<1>7. Carried(p, q, active) BY <1>4, <1>6, PostEventsSane
<1> HIDE DEF p
<1>8. Carried(p, s, active) BY <1>4, <1>7 DEF Carried, Same
<1>9. QED BY <1>2, <1>3, <1>5, <1>8

\* The drag is enabled and disabled while no finger is down.
LEMMA ApplyDragSane ==
  ASSUME NEW s, Sane(s), NEW down, down \/ s.count = 0
  PROVE  LET r == ApplyDrag(s, down)
         IN  /\ Sane(r) /\ r.state = s.state /\ r.count = s.count /\ r.pending = s.pending
             /\ r.tap = s.tap /\ r.hold_timer = s.hold_timer
<1> DEFINE r == ApplyDrag(s, down)
<1>1. CASE down
  <2>1. r = s BY <1>1 DEF ApplyDrag
  <2>2. QED BY <2>1
<1>2. CASE ~down
  <2>1. r = [s EXCEPT !.nfingers = s.want_nfingers] BY <1>2 DEF ApplyDrag
  <2>2. Good(r) BY ApplyDragSteady DEF Steady, Sane
  <2> HIDE DEF r
  <2>3. /\ r.state = s.state /\ r.count = s.count /\ r.pending = s.pending /\ r.tap = s.tap
        /\ r.nfingers = s.want_nfingers /\ r.want_nfingers = s.want_nfingers
        /\ r.hold_timer = s.hold_timer /\ r.drag_timer = s.drag_timer /\ r.bugs = s.bugs
    BY <2>1 DEF Sane, Good, Agrees, Tells, Gesture
  <2>4. Timely(r) BY <1>2, <2>3 DEF Sane, Timely
  <2>5. Tapped(r) BY <2>3 DEF Sane, Tapped, Quick
  <2>6. Sane(r) BY <2>2, <2>3, <2>4, <2>5 DEF Sane
  <2>7. QED BY <2>3, <2>6 DEF r
<1>3. QED BY <1>1, <1>2

\* The invariant behind OnlyKnownBugs.
BugsInv ==
  /\ GesturesInv
  /\ Sane(g) /\ g.state # "DRAG_OR_SWIPE_START"
  /\ Counts(g, fingers.active)
  /\ fingers.active > 0 => fingers.down
  /\ g.tap = "touch" => fingers.active <= 3

LEMMA FreshSane ==
  ASSUME BugsInv
  PROVE  /\ Sane(Fresh) /\ Fresh.state = g.state /\ Fresh.count = g.count
         /\ Fresh.pending = g.pending /\ Fresh.tap = g.tap
         /\ Fresh.nfingers = g.nfingers /\ Fresh.want_nfingers = g.want_nfingers
         /\ Fresh.hold_timer = g.hold_timer /\ Fresh.drag_timer = g.drag_timer
         /\ Fresh.hold_enabled = g.hold_enabled /\ Fresh \in Gesture
<1>1. Good(Fresh) BY FreshGood DEF BugsInv
<1>2. /\ Fresh.state = g.state /\ Fresh.count = g.count /\ Fresh.pending = g.pending
      /\ Fresh.tap = g.tap /\ Fresh.nfingers = g.nfingers /\ Fresh.want_nfingers = g.want_nfingers
      /\ Fresh.hold_timer = g.hold_timer /\ Fresh.drag_timer = g.drag_timer
      /\ Fresh.hold_enabled = g.hold_enabled /\ Fresh.bugs = {}
  BY DEF Fresh, BugsInv, Sane, Good, Agrees, Tells, Gesture
<1>3. Sane(Fresh) BY <1>1, <1>2, KeptSane DEF BugsInv
<1>4. QED BY <1>1, <1>2, <1>3 DEF Good, Agrees, Tells

\* Tapping starts to wait when the last finger leaves, or for one that comes,
\* which the machine has not counted; then it has told a tap.
LEMMA TapTurnsSane ==
  ASSUME BugsInv, NEW active \in 0..MaxFingers, NEW down \in BOOLEAN, NEW fate \in Fates,
         NEW tap \in TapKinds, active > 0 => down, TapFollows(tap, active, down, fate),
         NEW u, Updated(u, Fresh, active),
         NEW seen, seen = [u EXCEPT !.tap = tap],
         NEW tapped \in Notifies(tap)
  PROVE  IF ~suspended /\ tapped THEN Timely(seen) /\ Linked(seen) ELSE Sane(seen)
<1>1. active \in Nat /\ fingers.active \in Nat
  BY GesturesAssumption DEF BugsInv, GesturesInv, GesturesAssumption
<1>2. Sane(u) /\ u \in Gesture BY DEF Updated, Sane, Good, Agrees, Tells
<1>3. /\ seen.state = u.state /\ seen.count = u.count /\ seen.pending = u.pending
      /\ seen.nfingers = u.nfingers /\ seen.want_nfingers = u.want_nfingers
      /\ seen.hold_timer = u.hold_timer /\ seen.drag_timer = u.drag_timer
      /\ seen.bugs = u.bugs /\ seen.tap = tap
  BY <1>2 DEF Gesture
<1>4. Good(seen) BY <1>2, TapSteady DEF Sane, Steady
<1>5. Timely(seen) BY <1>2, <1>3 DEF Sane, Timely
<1>6. u.tap = g.tap BY FreshSane DEF Updated
<1>7. /\ g.tap = "off" => tap = "off"
      /\ g.tap # "off" => tap # "off"
      /\ tap \in TapTurns[g.tap] /\ g.tap \in TapKinds
  BY DEF TapFollows, TapTurns, TapKinds, BugsInv, Sane, Good, Agrees, Tells, Gesture
<1>8. Linked(seen) BY <1>2, <1>3, <1>6, <1>7, SaneLinked DEF Linked
<1>9. CASE ~suspended /\ tapped BY <1>5, <1>8, <1>9
<1>10. CASE suspended
  <2>1. tap = g.tap BY <1>10 DEF TapFollows
  <2>2. Sane(seen) BY <1>2, <1>3, <1>4, <1>6, <2>1, KeptSane
  <2>3. QED BY <1>10, <2>2
<1>11. CASE ~suspended /\ ~tapped
  <2>1. ASSUME tap \in Waits
        PROVE  /\ seen.state \notin {"SCROLL_START", "SCROLL"}
               /\ seen.state \in DragStates => pad.slots < 4
               /\ seen.state \in {"DRAG_OR_SWIPE_START", "DRAG_OR_SWIPE"} => seen.count = 4
    <3>1. CASE g.tap \in Waits BY <1>2, <1>3, <1>6, <3>1 DEF Sane, Tapped
    <3>2. CASE g.tap \notin Waits
      <4>1. active = 0
        <5>1. g.tap \in {"double", "dead", "drag"} BY <1>7, <2>1, <3>2 DEF Waits, TapKinds
        <5>2. CASE tap = "touch"
          <6>1. g.tap = "double" BY <1>7, <5>1, <5>2 DEF TapTurns
          <6>2. Notifies(tap) = {TRUE} BY <5>2, <6>1 DEF Notifies
          <6>3. QED BY <1>11, <6>2
        <5>3. CASE tap = "hold" BY <1>7, <5>1, <5>3 DEF TapTurns
        <5>4. CASE tap = "other" BY <1>1, <1>11, <5>1, <5>4 DEF TapFollows
        <5>5. QED BY <2>1, <5>2, <5>3, <5>4 DEF Waits
      <4>2. seen.state \in Resting BY <1>3, <1>4, <4>1 DEF Updated, Good, Timed
      <4>3. QED BY <4>2 DEF Resting, DragStates
    <3>3. QED BY <3>1, <3>2
  <2>2. ASSUME tap = "touch", seen.state = "UNKNOWN", seen.hold_timer PROVE Quick(seen)
    <3>1. CASE g.tap = "touch"
      <4>1. Quick(u) BY <1>2, <1>3, <1>6, <2>2, <3>1 DEF Sane, Tapped
      <4>2. QED BY <1>3, <4>1 DEF Quick
    <3>2. CASE g.tap # "touch"
      <4>1. active > fingers.active \/ ~fingers.down BY <2>2, <3>2 DEF TapFollows
      <4>2. g.state = "UNKNOWN" /\ g.count = active BY <1>3, <2>2, FreshSane DEF Updated
      <4>3. g.count = fingers.active BY <4>2 DEF BugsInv, Counts
      <4>4. fingers.active = 0 BY <1>1, <4>1, <4>2, <4>3 DEF BugsInv
      <4>5. g.state \in Resting BY <4>3, <4>4 DEF BugsInv, Sane, Good, Timed
      <4>6. QED BY <4>2, <4>5 DEF Resting
    <3>3. QED BY <3>1, <3>2
  <2>3. Tapped(seen) BY <1>3, <1>8, <2>1, <2>2 DEF Tapped, Linked
  <2>4. QED BY <1>4, <1>5, <1>8, <1>11, <2>3 DEF Sane, Linked
<1>12. QED BY <1>9, <1>10, <1>11

Outcome == Sane(g') /\ g'.state # "DRAG_OR_SWIPE_START"

LEMMA FrameSane ==
  ASSUME BugsInv, Frame
  PROVE  /\ Outcome /\ Counts(g', fingers'.active)
         /\ fingers'.active > 0 => fingers'.down
         /\ g'.tap = "touch" => fingers'.active <= 3
<1>1. PICK active \in 0..MaxFingers, down \in BOOLEAN, fate \in Fates, tap \in TapKinds :
        /\ active > 0 => down
        /\ TapFollows(tap, active, down, fate)
        /\ fingers' = [active |-> active, down |-> down]
        /\ LET seen == [UpdateFingers(Fresh, active) EXCEPT !.tap = tap]
           IN  \E tapped \in Notifies(tap), m \in MotionsIn(tap, active, fate) :
                 g' = ApplyDrag(IF suspended THEN seen
                                ELSE Post(IF tapped THEN Cancel(seen) ELSE seen, fate, m), down)
  BY Zenon DEF Frame
<1> DEFINE u == UpdateFingers(Fresh, active)
           seen == [u EXCEPT !.tap = tap]
<1>2. PICK tapped \in Notifies(tap), m \in MotionsIn(tap, active, fate) :
        g' = ApplyDrag(IF suspended THEN seen
                       ELSE Post(IF tapped THEN Cancel(seen) ELSE seen, fate, m), down)
  BY <1>1
<1>3. active \in Nat BY GesturesAssumption DEF GesturesAssumption
<1>4. Updated(u, Fresh, active) BY FreshSane, UpdateFingersSane DEF BugsInv
<1> HIDE DEF u
<1>5. IF ~suspended /\ tapped THEN Timely(seen) /\ Linked(seen) ELSE Sane(seen)
  BY <1>1, <1>4, TapTurnsSane
<1>6. /\ seen.state = u.state /\ seen.count = u.count /\ seen.pending = u.pending /\ seen.tap = tap
      /\ Good(seen)
  BY <1>4, TapSteady DEF Steady, Updated, Sane, Good, Agrees, Tells, Gesture
<1>7. /\ active = 0 => seen.count = 0 /\ seen.pending = 0
      /\ seen.pending # 0 => seen.pending = active
      /\ seen.pending = 0 => seen.count = active
      /\ seen.state = "UNKNOWN" => seen.count = active /\ seen.pending = 0
      /\ seen.state # "DRAG_OR_SWIPE_START"
  BY <1>4, <1>6 DEF Updated
<1> HIDE DEF seen
<1> DEFINE heard == IF tapped THEN Cancel(seen) ELSE seen
           posted == IF suspended THEN seen ELSE Post(heard, fate, m)
<1>8. CASE suspended
  <2>1. posted = seen /\ Sane(seen) BY <1>5, <1>8
  <2>2. Carried(seen, seen, active) BY <1>7, <2>1 DEF Carried, Counts
  <2>3. Carried(posted, seen, active) BY <2>1, <2>2
  <2>4. QED
    <3> HIDE DEF posted
    <3>1. g' = ApplyDrag(posted, down) BY <1>2, <1>8, <2>1
    <3>2. active = 0 => posted.count = 0 BY <2>3 DEF Carried, Counts
    <3>3. down \/ posted.count = 0 BY <1>1, <1>3, <3>2
    <3>4. /\ Sane(g') /\ g'.state = posted.state /\ g'.count = posted.count
          /\ g'.pending = posted.pending /\ g'.tap = posted.tap
      BY <2>3, <3>1, <3>3, ApplyDragSane DEF Carried
    <3>5. g'.tap = "touch" => active <= 3 BY <1>1, <1>6, <2>3, <3>4 DEF Carried, TapFollows
    <3>6. QED BY <1>1, <2>3, <3>4, <3>5 DEF Carried, Counts, Outcome
<1>9. CASE ~suspended
  <2>1. Heard(heard, active) /\ heard.tap = tap
    <3>1. CASE tapped
      <4>1. /\ Sane(Cancel(seen)) /\ Same(Cancel(seen), seen)
            /\ Cancel(seen).state \in {"NONE", "PINCH_START"}
        BY <1>5, <1>6, <1>9, <3>1, CancelCalm
      <4>2. QED BY <1>6, <1>7, <3>1, <4>1 DEF Heard, Counts, Same
    <3>2. CASE ~tapped BY <1>5, <1>6, <1>7, <3>2 DEF Heard, Counts
    <3>3. QED BY <3>1, <3>2
  <2> HIDE DEF heard
  <2>2. m \in Motions /\ (tap \in Waits /\ active > 1 => m.way = "undecided")
    <3>1. Still \in Motions /\ Still.way = "undecided" BY DEF Still, Motions, Ways
    <3>2. CASE active = 0 \/ suspended \/ fate \notin {"all", "ignored"}
      BY <3>1, <3>2 DEF MotionsIn
    <3>3. CASE ~(active = 0 \/ suspended \/ fate \notin {"all", "ignored"})
      <4>1. CASE active = 1
        <5>1. m \in {n \in Motions : n.way = "undecided" \/ n = Straight}
          BY <3>3, <4>1, Zenon DEF MotionsIn
        <5>2. QED BY <4>1, <5>1
      <4>2. CASE active > 1 /\ tap \in Waits
        <5>1. active # 1 BY <1>3, <4>2
        <5>2. m \in {n \in Motions : n.way = "undecided"}
          BY <3>3, <4>2, <5>1, Zenon DEF MotionsIn, Waits
        <5>3. QED BY <5>2
      <4>3. CASE active # 1 /\ ~(active > 1 /\ tap \in Waits)
        <5>1. ~(active > 1 /\ tap \in {"other", "touch", "hold"}) BY <4>3 DEF Waits
        <5>2. m \in Motions BY <3>3, <4>3, <5>1, Zenon DEF MotionsIn
        <5>3. QED BY <4>3, <5>2
      <4>4. QED BY <4>1, <4>2, <4>3
    <3>4. QED BY <3>2, <3>3
  <2>3. Fitting(heard, active, m) BY <1>1, <2>1, <2>2 DEF Fitting, TapFollows
  <2>4. Carried(Post(heard, fate, m), heard, active) BY <2>1, <2>3, PostSane DEF BugsInv,
       GesturesInv
  <2>5. Carried(posted, heard, active) BY <1>9, <2>4
  <2>6. g' = ApplyDrag(posted, down) BY <1>2, <1>9 DEF heard
  <2> HIDE DEF posted
  <2>7. active = 0 => posted.count = 0 BY <2>5 DEF Carried, Counts
  <2>8. down \/ posted.count = 0 BY <1>1, <1>3, <2>7
  <2>9. /\ Sane(g') /\ g'.state = posted.state /\ g'.count = posted.count
        /\ g'.pending = posted.pending /\ g'.tap = posted.tap
    BY <2>5, <2>6, <2>8, ApplyDragSane DEF Carried
  <2>10. g'.tap = "touch" => active <= 3 BY <1>1, <2>1, <2>5, <2>9 DEF Carried, TapFollows
  <2>11. QED BY <1>1, <2>5, <2>9, <2>10 DEF Carried, Counts, Outcome
<1>10. QED BY <1>8, <1>9

-----------------------------------------------------------------------------
(* The timers, the client and the rest of the touchpad.                    *)

\* The number of fingers stays with the machine, whatever it is told.
LEMMA LeadsCounts ==
  ASSUME NEW s, s.state # "DRAG_OR_SWIPE_START", NEW active, Counts(s, active),
         NEW e, e \notin {"FINGER_DETECTED", "DRAG_OR_SWIPE_START"}, NEW r, Leads(s, e, r)
  PROVE  r.state # "DRAG_OR_SWIPE_START" /\ Counts(r, active)
  BY DEF Leads, Counts

LEMMA SameCounts ==
  ASSUME NEW s, NEW active, Counts(s, active), NEW r, r.count = s.count, r.pending = s.pending,
         r.state \in {s.state, "NONE", "PINCH_START"}
  PROVE  Counts(r, active)
  BY DEF Counts

LEMMA HoldTimeoutSane ==
  ASSUME BugsInv, HoldTimeout
  PROVE  Outcome /\ Counts(g', fingers.active) /\ g'.tap = g.tap
<1> DEFINE s == Unheld(Fresh)
<1>1. /\ s.state = g.state /\ s.count = g.count /\ s.pending = g.pending /\ s.tap = g.tap
      /\ s.nfingers = g.nfingers /\ s.want_nfingers = g.want_nfingers
      /\ s.hold_timer = FALSE /\ s.drag_timer = g.drag_timer /\ s.bugs = Fresh.bugs
  BY FreshSane DEF Unheld, Gesture
<1>2. PICK near \in BOOLEAN :
        g' = IF g.tap \in {"double", "drag"} THEN s ELSE Handle(s, "HOLD_TIMEOUT", near)
  BY DEF HoldTimeout
<1>3. Sane(s)
  <2>1. Good(s) BY FreshSane, UnheldSteady DEF Sane, Steady
  <2> HIDE DEF s
  <2>2. QED BY <1>1, <2>1, FreshSane, KeptSane
<1>4. Counts(s, fingers.active) BY <1>1, SameCounts DEF BugsInv
<1> HIDE DEF s
<1>5. "HOLD_TIMEOUT" \in Events \ {"END"} /\ Allowed(s, "HOLD_TIMEOUT") /\ Ripe(s, "HOLD_TIMEOUT")
  BY DEF Events, GestureTimeouts, Allowed, Fits, Starts, Ripe
<1>6. g.state \in {"UNKNOWN", "POINTER_MOTION"} BY DEF HoldTimeout, BugsInv, Sane, Timely
<1>7. Expects(s, "HOLD_TIMEOUT") BY <1>1, <1>6 DEF Expects, Fits
<1> DEFINE r == Handle(s, "HOLD_TIMEOUT", near)
<1>8. Sane(r) /\ Same(r, s) /\ Leads(s, "HOLD_TIMEOUT", r) BY <1>3, <1>5, <1>7, HandleSane
<1>9. g' \in {s, r} BY <1>2
<1> HIDE DEF r
<1>10. r.state # "DRAG_OR_SWIPE_START" /\ Counts(r, fingers.active)
  BY <1>1, <1>4, <1>6, <1>8, LeadsCounts
<1>11. QED BY <1>1, <1>3, <1>4, <1>6, <1>8, <1>9, <1>10 DEF Outcome, Same

\* A tap that takes too long finds no more than three fingers, all of them
\* counted, and no gesture that needs motion.
LEMMA TapTimeoutSane ==
  ASSUME BugsInv, TapTimeout, ~Late
  PROVE  Outcome /\ Counts(g', fingers.active) /\ g'.tap = "hold"
<1> DEFINE s == [Fresh EXCEPT !.tap = "hold"]
           r == Handle(s, "TAP_TIMEOUT", FALSE)
<1>1. /\ s.state = g.state /\ s.count = g.count /\ s.pending = g.pending /\ s.tap = "hold"
      /\ s.nfingers = g.nfingers /\ s.want_nfingers = g.want_nfingers
      /\ s.hold_timer = g.hold_timer /\ s.drag_timer = g.drag_timer /\ s.bugs = Fresh.bugs
  BY FreshSane DEF Gesture
<1>2. g.tap = "touch" /\ g.pending = 0 /\ fingers.active <= 3 /\ fingers.active \in Nat
      /\ (g.state = "DRAG_RELEASED" => g.nfingers # 0)
  BY GesturesAssumption DEF TapTimeout, BugsInv, GesturesInv, GesturesAssumption
<1>3. Sane(s)
  <2>1. Good(s) BY FreshSane, TapSteady DEF Sane, Steady, TapKinds
  <2>2. Timely(s) BY <1>1 DEF BugsInv, Sane, Timely
  <2>3. Tapped(s) BY <1>1, <1>2 DEF BugsInv, Sane, Tapped, Waits
  <2>4. Known(s.bugs) BY <1>1, FreshSane DEF Sane
  <2> HIDE DEF s
  <2>5. QED BY <2>1, <2>2, <2>3, <2>4 DEF Sane
<1>4. Counts(s, fingers.active) BY <1>1, SameCounts DEF BugsInv
<1>5. g' \in {s, r} /\ (g' = s \/ ~Quick(s)) BY DEF TapTimeout
<1> HIDE DEF s
<1>6. ASSUME ~Quick(s) PROVE Sane(r) /\ Same(r, s) /\ Leads(s, "TAP_TIMEOUT", r)
  <2>1. "TAP_TIMEOUT" \in Events \ {"END"} /\ Allowed(s, "TAP_TIMEOUT") /\ Ripe(s, "TAP_TIMEOUT")
    BY <1>1, <1>2 DEF Events, GestureTimeouts, Allowed, Fits, Starts, Ripe
  <2>2. s.count # 1 /\ g.count # 1 BY <1>1, <1>6 DEF Quick
  <2>3. g.state \in GestureStates BY DEF BugsInv, Sane, Good, Agrees, Tells, Gesture
  <2>4. g.state # "HOLD_AND_MOTION" BY <2>2 DEF BugsInv, Sane, Timely
  <2>5. /\ g.state \notin {"SCROLL_START", "SCROLL"}
        /\ g.state = "DRAG_OR_SWIPE" => g.count = 4
        /\ g.state = "DRAG_START" => pad.slots < 4
    BY <1>2 DEF BugsInv, Sane, Tapped, Waits, DragStates
  <2>6. g.state # "DRAG_OR_SWIPE" BY <1>2, <2>5 DEF BugsInv, Counts
  <2>7. s.state = "UNKNOWN" => ~s.hold_timer
    <3>1. g.tap = "touch" /\ g.state = "UNKNOWN" /\ g.hold_timer => Quick(g) BY DEF BugsInv, Sane,
         Tapped
    <3>2. ~Quick(g) BY <1>1, <1>6 DEF Quick
    <3>3. QED BY <1>1, <1>2, <3>1, <3>2
  <2>8. s.state \in TapTimeoutStates \/ (s.state = "DRAG_START" /\ pad.slots < 4)
    BY <1>1, <2>3, <2>4, <2>5, <2>6 DEF BugsInv, GestureStates, TapTimeoutStates
  <2>9. Expects(s, "TAP_TIMEOUT") BY <2>2, <2>7, <2>8 DEF Expects, Fits
  <2>10. QED BY <1>3, <2>1, <2>9, HandleSane
<1> HIDE DEF r
<1>7. ASSUME ~Quick(s) PROVE r.state # "DRAG_OR_SWIPE_START" /\ Counts(r, fingers.active)
  BY <1>1, <1>4, <1>6, <1>7, LeadsCounts DEF BugsInv
<1>8. s.state # "DRAG_OR_SWIPE_START" BY <1>1 DEF BugsInv
<1>9. QED BY <1>1, <1>3, <1>4, <1>5, <1>6, <1>7, <1>8 DEF Outcome, Same

LEMMA TapDragsSane ==
  ASSUME BugsInv, TapDrags
  PROVE  Outcome /\ Counts(g', fingers.active) /\ g'.tap = "drag"
<1> DEFINE s == [Fresh EXCEPT !.tap = "drag"]
<1>1. g' = s /\ g.tap = "double" BY DEF TapDrags
<1>2. /\ s.state = g.state /\ s.count = g.count /\ s.pending = g.pending /\ s.tap = "drag"
      /\ s.nfingers = g.nfingers /\ s.want_nfingers = g.want_nfingers
      /\ s.hold_timer = g.hold_timer /\ s.drag_timer = g.drag_timer /\ s.bugs = Fresh.bugs
  BY FreshSane DEF Gesture
<1>3. Good(s) BY FreshSane, TapSteady DEF Sane, Steady, TapKinds
<1> HIDE DEF s
<1>4. Timely(s) BY <1>2 DEF BugsInv, Sane, Timely
<1>5. Tapped(s) BY <1>1, <1>2 DEF BugsInv, Sane, Tapped, Waits
<1>6. Known(s.bugs) BY <1>2, FreshSane DEF Sane
<1>7. Counts(s, fingers.active) BY <1>2, SameCounts DEF BugsInv
<1>8. QED BY <1>1, <1>2, <1>3, <1>4, <1>5, <1>6, <1>7 DEF Outcome, Sane, BugsInv

LEMMA TapReleasesSane ==
  ASSUME BugsInv, TapReleases
  PROVE  Outcome /\ Counts(g', fingers.active) /\ g'.tap = "other"
<1> DEFINE c == Cancel(Fresh)
           s == [c EXCEPT !.tap = "other"]
<1>1. g' = s /\ g.tap \in {"drag", "other"} BY DEF TapReleases
<1>2. Sane(c) /\ Same(c, Fresh) /\ c.state \in {"NONE", "PINCH_START"}
  BY FreshSane, CancelSane
<1> HIDE DEF c
<1>3. Good(s) BY <1>2, TapSteady DEF Sane, Steady, TapKinds
<1>4. /\ s.state = c.state /\ s.count = c.count /\ s.pending = c.pending /\ s.tap = "other"
      /\ s.nfingers = c.nfingers /\ s.want_nfingers = c.want_nfingers
      /\ s.hold_timer = c.hold_timer /\ s.drag_timer = c.drag_timer /\ s.bugs = c.bugs
  BY <1>2 DEF Sane, Good, Agrees, Tells, Gesture
<1> HIDE DEF s
<1>5. Timely(s) BY <1>2, <1>4 DEF Sane, Timely
<1>6. c.tap \in {"drag", "other"} BY <1>1, <1>2, FreshSane DEF Same
<1>7. Tapped(s) BY <1>2, <1>4, <1>6 DEF Sane, Tapped, DragStates
<1>8. Counts(s, fingers.active) BY <1>2, <1>4, SameCounts, FreshSane DEF BugsInv, Same
<1>9. QED BY <1>1, <1>2, <1>3, <1>4, <1>5, <1>7, <1>8 DEF Outcome, Sane

\* A changed number of fingers is counted, and a drag whose fingers are back
\* goes on.
LEMMA SwitchTimeoutSane ==
  ASSUME BugsInv, SwitchTimeout, ~Late
  PROVE  Outcome /\ Counts(g', fingers.active) /\ g'.tap = g.tap
<1> DEFINE s == [Fresh EXCEPT !.switch_timer = FALSE]
           e == "FINGER_SWITCH_TIMEOUT"
           r == Handle(s, e, FALSE)
<1>1. /\ s.state = g.state /\ s.count = g.count /\ s.pending = g.pending /\ s.tap = g.tap
      /\ s.nfingers = g.nfingers /\ s.want_nfingers = g.want_nfingers
      /\ s.hold_timer = g.hold_timer /\ s.drag_timer = g.drag_timer /\ s.bugs = Fresh.bugs
  BY FreshSane DEF Gesture
<1>2. g' = IF s.pending = 0 THEN s ELSE Counted(r, s.pending)
  BY DEF SwitchTimeout, Counted
<1>3. Good(g') BY SwitchTimeoutGood DEF BugsInv
<1>4. g.state # "DRAG_OR_SWIPE" BY DEF SwitchTimeout
<1>5. Agrees(s)
  <2>1. Tells(Fresh, OpenKind(Fresh.state)) BY FreshSane DEF Sane, Good, Agrees
  <2>2. Tells(s, OpenKind(Fresh.state)) /\ s.state = Fresh.state BY <2>1, SwitchTells
  <2>3. (s.button <=> Fresh.button) /\ (s.scrolling <=> Fresh.scrolling)
        /\ (s.twofinger <=> Fresh.twofinger)
    BY <2>1 DEF Tells, Gesture
  <2> HIDE DEF s
  <2>4. QED BY <2>2, <2>3, FreshSane, Alike DEF Sane
<1> HIDE DEF s, r
<1>6. CASE s.pending = 0
  <2>1. g' = s BY <1>2, <1>6
  <2>2. Sane(s) BY <1>1, <1>3, <2>1, FreshSane, KeptSane
  <2>3. Counts(s, fingers.active) BY <1>1, SameCounts DEF BugsInv
  <2>4. QED BY <1>1, <2>1, <2>2, <2>3 DEF Outcome, BugsInv
<1>7. CASE s.pending # 0
  <2>1. e \in Events /\ Fits(s, e) BY DEF Events, GestureTimeouts, Fits
  <2>2. Timely(s) BY <1>1 DEF BugsInv, Sane, Timely
  <2>3. s.state \in Waiting \ {"DRAG_OR_SWIPE"}
    BY <1>1, <1>4, <1>7 DEF BugsInv, Sane, Good, Timed, Waiting
  <2>4. Leads(s, e, r)
    <3>1. Expects(s, e) BY <2>1, <2>3 DEF Expects
    <3>2. QED BY <1>5, <2>1, <2>2, <3>1, HandleLeads DEF r
  <2>5. OpenKind(r.state) = "none" /\ r \in Gesture
    <3>1. Handles(s, e, r) BY <1>5, <2>1, HandleHandles DEF r
    <3>2. QED BY <2>3, <3>1 DEF Handles, Moves, Agrees, Tells
  <2>6. g' = Counted(r, s.pending) BY <1>2, <1>7
  <2>7. /\ g'.state = r.state /\ g'.count = s.pending /\ g'.pending = 0 /\ g'.tap = r.tap
        /\ g'.nfingers = r.nfingers /\ g'.want_nfingers = r.want_nfingers
        /\ g'.hold_timer = r.hold_timer /\ g'.drag_timer = r.drag_timer /\ g'.bugs = r.bugs
    BY <2>5, <2>6 DEF Counted, Gesture
  <2>8. /\ r.tap = s.tap /\ r.nfingers = s.nfingers /\ r.want_nfingers = s.want_nfingers
    BY <2>4 DEF Leads
  <2>9. Timely(g')
    <3>1. r.state # "HOLD_AND_MOTION" BY <2>5 DEF OpenKind
    <3>2. QED BY <2>4, <2>7, <3>1 DEF Leads, Timely
  <2>10. r.state \notin {"DRAG_OR_SWIPE_START", "DRAG_OR_SWIPE", "UNKNOWN"}
    <3>1. r.state # "DRAG_OR_SWIPE" BY <2>5 DEF OpenKind
    <3>2. r.state # "DRAG_OR_SWIPE_START" BY <1>1, <2>4 DEF Leads, BugsInv
    <3>3. r.state # "UNKNOWN" BY <2>3, <2>4 DEF Leads, Waiting, Debounced
    <3>4. QED BY <3>1, <3>2, <3>3
  <2>11. s.tap \in Waits => /\ r.state \notin {"SCROLL_START", "SCROLL"}
                            /\ r.state = "DRAG_START" => pad.slots < 4
    BY <1>1, <1>4, <2>4 DEF Leads, BugsInv, Sane, Tapped, DragStates
  <2>12. Tapped(g')
    <3>1. Linked(s) BY <1>1, FreshSane, SaneLinked DEF Linked
    <3>2. QED BY <2>7, <2>8, <2>10, <2>11, <3>1 DEF Linked, Tapped, DragStates
  <2>13. Known(g'.bugs) BY <1>1, <2>4, <2>7, LeadsKnown, FreshSane DEF Sane
  <2>14. Counts(g', fingers.active) BY <1>1, <1>7, <2>7, <2>10 DEF BugsInv, Counts
  <2>15. QED BY <1>1, <1>3, <2>7, <2>8, <2>9, <2>10, <2>12, <2>13, <2>14 DEF Outcome, Sane
<1>8. QED BY <1>6, <1>7

LEMMA DragTimeoutSane ==
  ASSUME BugsInv, DragTimeout
  PROVE  Outcome /\ Counts(g', fingers.active) /\ g'.tap = g.tap
<1> DEFINE s == [Fresh EXCEPT !.drag_timer = FALSE]
           e == "DRAG_RELEASE_TIMEOUT"
<1>1. g' = Handle(s, e, FALSE) /\ g.drag_timer BY DEF DragTimeout
<1>2. Good(g') BY DragTimeoutGood DEF BugsInv
<1>3. /\ s.state = g.state /\ s.count = g.count /\ s.pending = g.pending /\ s.tap = g.tap
      /\ s.nfingers = g.nfingers /\ s.want_nfingers = g.want_nfingers
      /\ s.hold_timer = g.hold_timer /\ s.drag_timer = FALSE /\ s.bugs = Fresh.bugs
  BY FreshSane DEF Gesture
<1>4. g.state = "DRAG_RELEASED" BY <1>1 DEF BugsInv, Sane, Timely
<1>5. Agrees(s)
  <2>1. Tells(Fresh, OpenKind(Fresh.state)) BY FreshSane DEF Sane, Good, Agrees
  <2>2. Tells(s, OpenKind(Fresh.state)) /\ s.state = Fresh.state BY <2>1, DragTells
  <2>3. (s.button <=> Fresh.button) /\ (s.scrolling <=> Fresh.scrolling)
        /\ (s.twofinger <=> Fresh.twofinger)
    BY <2>1 DEF Tells, Gesture
  <2> HIDE DEF s
  <2>4. QED BY <2>2, <2>3, FreshSane, Alike DEF Sane
<1>6. g'.state = "NONE"
  <2>1. s \in Gesture BY <1>5 DEF Agrees, Tells
  <2> HIDE DEF s
  <2>2. QED BY <1>1, <1>3, <1>4, <2>1 DEF Handle, OnDragReleased, To, Release, Gesture
<1> HIDE DEF s
<1>7. Timely(s) BY <1>3 DEF BugsInv, Sane, Timely
<1>8. Linked(s) BY <1>3, FreshSane, SaneLinked DEF Linked
<1>9. e \in Events /\ Expects(s, e)
  BY <1>3, <1>4 DEF Events, GestureTimeouts, Expects, Fits
<1>10. Leads(s, e, g') BY <1>1, <1>5, <1>7, <1>9, HandleLeads
<1>11. Sane(g') /\ Same(g', s) BY <1>2, <1>6, <1>8, <1>10, CalmSane DEF Calm
<1>12. Counts(g', fingers.active) BY <1>3, <1>6, <1>11, SameCounts DEF BugsInv, Same
<1>13. QED BY <1>3, <1>6, <1>11, <1>12 DEF Outcome, Same

LEMMA SwipeTimeoutSane ==
  ASSUME BugsInv, SwipeTimeout
  PROVE  Outcome /\ Counts(g', fingers.active) /\ g'.tap = g.tap
<1> DEFINE s == [Fresh EXCEPT !.swipe_timer = FALSE]
           e == "DRAG_OR_SWIPE_TIMEOUT"
<1>1. /\ s.state = g.state /\ s.count = g.count /\ s.pending = g.pending /\ s.tap = g.tap
      /\ s.nfingers = g.nfingers /\ s.want_nfingers = g.want_nfingers
      /\ s.hold_timer = g.hold_timer /\ s.drag_timer = g.drag_timer /\ s.bugs = Fresh.bugs
  BY FreshSane DEF Gesture
<1>2. PICK near \in BOOLEAN : g' = Handle(s, e, near) BY DEF SwipeTimeout
<1>3. Good(s) BY FreshSane, SwipeTimerSteady DEF Sane, Steady
<1> HIDE DEF s
<1>4. Sane(s) BY <1>1, <1>3, FreshSane, KeptSane
<1>5. e \in Events \ {"END"} /\ Allowed(s, e) /\ Expects(s, e) /\ Ripe(s, e)
  BY DEF Events, GestureTimeouts, Allowed, Fits, Starts, Expects, Ripe
<1>6. Sane(g') /\ Same(g', s) /\ Leads(s, e, g') BY <1>2, <1>4, <1>5, HandleSane
<1>7. Counts(s, fingers.active) BY <1>1, SameCounts DEF BugsInv
<1>8. g'.state # "DRAG_OR_SWIPE_START" /\ Counts(g', fingers.active)
  BY <1>1, <1>6, <1>7, LeadsCounts DEF BugsInv
<1>9. QED BY <1>1, <1>6, <1>8 DEF Outcome, Same

LEMMA SetHoldEnabledSane ==
  ASSUME BugsInv, SetHoldEnabled
  PROVE  Outcome /\ Counts(g', fingers.active) /\ g'.tap = g.tap
<1>1. Good(g') BY SetHoldEnabledGood DEF BugsInv
<1>2. /\ g'.state = g.state /\ g'.count = g.count /\ g'.pending = g.pending /\ g'.tap = g.tap
      /\ g'.nfingers = g.nfingers /\ g'.want_nfingers = g.want_nfingers
      /\ g'.hold_timer = g.hold_timer /\ g'.drag_timer = g.drag_timer /\ g'.bugs = Fresh.bugs
  BY FreshSane DEF SetHoldEnabled, Gesture
<1>3. Sane(g') BY <1>1, <1>2, FreshSane, KeptSane
<1>4. QED BY <1>2, <1>3, SameCounts DEF Outcome, BugsInv

LEMMA SetDragSane ==
  ASSUME BugsInv, SetDrag
  PROVE  Outcome /\ Counts(g', fingers.active) /\ g'.tap = g.tap
<1>1. PICK n \in {0} \cup DragCounts :
        g' = ApplyDrag([Fresh EXCEPT !.want_nfingers = n], fingers.down)
  BY DEF SetDrag
<1> DEFINE s == [Fresh EXCEPT !.want_nfingers = n]
<1>2. /\ s.state = g.state /\ s.count = g.count /\ s.pending = g.pending /\ s.tap = g.tap
      /\ s.nfingers = g.nfingers /\ s.want_nfingers = n
      /\ s.hold_timer = g.hold_timer /\ s.drag_timer = g.drag_timer /\ s.bugs = Fresh.bugs
  BY FreshSane DEF Gesture
<1>3. Good(s) BY FreshSane, WantSteady DEF Sane, Steady
<1> HIDE DEF s
<1>4. Timely(s) BY <1>2 DEF BugsInv, Sane, Timely
<1>5. Tapped(s) BY <1>2 DEF BugsInv, Sane, Tapped, Quick, SetDrag
<1>6. Sane(s) BY <1>2, <1>3, <1>4, <1>5, FreshSane DEF Sane
<1>7. fingers.down \/ s.count = 0
  <2>1. fingers.active \in Nat
    BY GesturesAssumption DEF BugsInv, GesturesInv, GesturesAssumption
  <2>2. QED BY <1>2, <2>1 DEF BugsInv, Counts
<1>8. /\ Sane(g') /\ g'.state = s.state /\ g'.count = s.count /\ g'.pending = s.pending
      /\ g'.tap = s.tap
  BY <1>1, <1>6, <1>7, ApplyDragSane DEF s
<1>9. QED BY <1>2, <1>8, SameCounts DEF Outcome, BugsInv

LEMMA SetScrollMethodSane ==
  ASSUME BugsInv, SetScrollMethod
  PROVE  Outcome /\ Counts(g', fingers.active) /\ g'.tap = g.tap
<1>1. Good(g') BY SetScrollMethodGood DEF BugsInv
<1>2. /\ g'.state = g.state /\ g'.count = g.count /\ g'.pending = g.pending /\ g'.tap = g.tap
      /\ g'.nfingers = g.nfingers /\ g'.want_nfingers = g.want_nfingers
      /\ g'.hold_timer = g.hold_timer /\ g'.drag_timer = g.drag_timer /\ g'.bugs = Fresh.bugs
  BY FreshSane DEF SetScrollMethod, StopScroll, Gesture
<1>3. Sane(g') BY <1>1, <1>2, FreshSane, KeptSane
<1>4. QED BY <1>2, <1>3, SameCounts DEF Outcome, BugsInv

LEMMA StopActionsSane ==
  ASSUME BugsInv, StopActions
  PROVE  Outcome /\ Counts(g', fingers.active) /\ g'.tap = g.tap
<1>1. Sane(g') /\ Same(g', Fresh) /\ g'.state \in {"NONE", "PINCH_START"}
  BY FreshSane, CancelSane DEF StopActions
<1>2. QED BY <1>1, FreshSane, SameCounts DEF Outcome, Same, BugsInv

LEMMA ClearStateSane ==
  ASSUME BugsInv, ClearState
  PROVE  Outcome /\ Counts(g', 0) /\ fingers' = [active |-> 0, down |-> FALSE]
<1>1. PICK tapped \in {FALSE, pad.tap} :
        LET released == IF tapped THEN Cancel(Fresh) ELSE Fresh
        IN  g' = [ApplyDrag(UpdateFingers(released, 0), FALSE) EXCEPT !.tap = NoTap]
  BY DEF ClearState
<1> DEFINE released == IF tapped THEN Cancel(Fresh) ELSE Fresh
           u == UpdateFingers(released, 0)
           d == ApplyDrag(u, FALSE)
<1>2. g' = [d EXCEPT !.tap = NoTap] BY <1>1
<1>3. Sane(released) /\ released.state # "DRAG_OR_SWIPE_START"
  BY FreshSane, CancelSane DEF BugsInv
<1> HIDE DEF released
<1>4. 0 \in 0..MaxFingers BY GesturesAssumption DEF GesturesAssumption
<1>5. Updated(u, released, 0) BY <1>3, <1>4, UpdateFingersSane
<1> HIDE DEF u
<1>6. Sane(d) /\ d.state = u.state /\ d.count = u.count /\ d.pending = u.pending
  BY <1>5, ApplyDragSane DEF Updated
<1> HIDE DEF d
<1>7. /\ g'.state = d.state /\ g'.count = d.count /\ g'.pending = d.pending /\ g'.tap = NoTap
      /\ g'.nfingers = d.nfingers /\ g'.want_nfingers = d.want_nfingers
      /\ g'.hold_timer = d.hold_timer /\ g'.drag_timer = d.drag_timer /\ g'.bugs = d.bugs
  BY <1>2, <1>6 DEF Sane, Good, Agrees, Tells, Gesture
<1>8. Good(g') BY ClearStateGood DEF BugsInv
<1>9. g'.count = 0 /\ g'.pending = 0 /\ g'.state \in Resting
  BY <1>5, <1>6, <1>7, <1>8 DEF Updated, Good, Timed
<1>10. Timely(g') BY <1>6, <1>7 DEF Sane, Timely
<1>11. Tapped(g') BY <1>6, <1>7, <1>9 DEF Sane, Tapped, NoTap, Resting, DragStates
<1>12. QED BY <1>6, <1>7, <1>8, <1>9, <1>10, <1>11 DEF Outcome, Sane, Counts, Resting, ClearState

-----------------------------------------------------------------------------
(* The invariant and its theorem.                                          *)

LEMMA InitBugs == Init => BugsInv
<1> SUFFICES ASSUME Init PROVE BugsInv OBVIOUS
<1>1. GesturesInv BY InitInv
<1>2. Timely(g) BY DEF Init, Timely
<1>3. Tapped(g) BY DEF Init, Tapped, NoTap, DragStates
<1>4. Known(g.bugs) BY DEF Init, Known
<1>5. Counts(g, fingers.active) BY DEF Init, Counts
<1>6. QED BY <1>1, <1>2, <1>3, <1>4, <1>5 DEF Init, BugsInv, Sane, GesturesInv, NoTap

LEMMA NextBugs ==
  ASSUME ~Late, BugsInv, [Next]_vars
  PROVE  BugsInv'
<1> DEFINE Kept == /\ Outcome /\ Counts(g', fingers'.active) /\ pad' = pad
                   /\ fingers'.active > 0 => fingers'.down
                   /\ g'.tap = "touch" => fingers'.active <= 3
<1>1. GesturesInv' BY NextInv DEF BugsInv
<1>2. Kept => BugsInv'
  BY <1>1 DEF BugsInv, Outcome, Counts, Sane, Good, Agrees, Tells, Timed, Timely, Tapped, Known,
              KnownBug, Quick, Enabled
<1>3. Outcome /\ Counts(g', fingers.active) /\ g'.tap \in {g.tap, "hold", "drag", "other"}
        /\ UNCHANGED world => Kept
  BY DEF BugsInv, world
<1> HIDE DEF Kept
<1>4. ASSUME Frame PROVE Kept BY <1>4, FrameSane DEF Kept, Frame
<1>5. ASSUME HoldTimeout PROVE Kept BY <1>3, <1>5, HoldTimeoutSane DEF HoldTimeout
<1>6. ASSUME TapTimeout PROVE Kept BY <1>3, <1>6, TapTimeoutSane DEF TapTimeout
<1>7. ASSUME TapDrags PROVE Kept BY <1>3, <1>7, TapDragsSane DEF TapDrags
<1>8. ASSUME TapReleases PROVE Kept BY <1>3, <1>8, TapReleasesSane DEF TapReleases
<1>9. ASSUME SwitchTimeout PROVE Kept BY <1>3, <1>9, SwitchTimeoutSane DEF SwitchTimeout
<1>10. ASSUME DragTimeout PROVE Kept BY <1>3, <1>10, DragTimeoutSane DEF DragTimeout
<1>11. ASSUME SwipeTimeout PROVE Kept BY <1>3, <1>11, SwipeTimeoutSane DEF SwipeTimeout
<1>12. ASSUME SetHoldEnabled PROVE Kept BY <1>3, <1>12, SetHoldEnabledSane DEF SetHoldEnabled
<1>13. ASSUME SetDrag PROVE Kept BY <1>3, <1>13, SetDragSane DEF SetDrag
<1>14. ASSUME SetScrollMethod PROVE Kept BY <1>3, <1>14, SetScrollMethodSane DEF SetScrollMethod
<1>15. ASSUME StopActions PROVE Kept BY <1>3, <1>15, StopActionsSane DEF StopActions
<1>16. ASSUME Suspend \/ Resume PROVE Kept
  <2>1. ClearState /\ pad' = pad BY <1>16 DEF Suspend, Resume
  <2>2. QED BY <2>1, ClearStateSane DEF Kept
<1>17. ASSUME UNCHANGED vars PROVE Kept
  BY <1>17 DEF vars, Kept, BugsInv, Outcome
<1>18. QED
  BY <1>2, <1>4, <1>5, <1>6, <1>7, <1>8, <1>9, <1>10, <1>11, <1>12, <1>13, <1>14, <1>15, <1>16,
     <1>17 DEF Next, Timeouts, Client

\* On every touchpad, with any configuration of the three-finger drag, the
\* gesture machine logs none but the known bugs: no event reaches a state that
\* does not expect it but the five of KnownBug (log_gesture_bug,
\* tp_gesture_handle_event and its callers).
THEOREM KnownBugsOnly == ASSUME ~Late PROVE Spec => []OnlyKnownBugs
<1>1. Init => BugsInv BY InitBugs
<1>2. BugsInv /\ [Next]_vars => BugsInv' BY NextBugs
<1>3. BugsInv => OnlyKnownBugs BY DEF BugsInv, Sane, Known, OnlyKnownBugs
<1>4. QED BY <1>1, <1>2, <1>3, PTL DEF Spec
=============================================================================
