-------------------------- MODULE TouchpadTapProofs --------------------------
(***************************************************************************)
(* Proofs about TouchpadTap, for any number of touches: the state machine  *)
(* is never handed an event it calls a bug, its states agree with its      *)
(* count of fingers and the count with the touches, and the client's       *)
(* buttons with the state.  What an event does is looked at state by state *)
(* (TapReaction), then what follows from it for the tap structure          *)
(* (HandleEvent), then the steps of a frame and the calls.                 *)
(***************************************************************************)
EXTENDS TouchpadTap, FiniteSetTheorems, TLAPS

TapEvents ==
  {"touch", "motion", "release", "button", "timeout", "thumb", "palm", "palm_up"}

TapStates == PlainStates \cup NumberedStates

NumberFits(state, n) == n \in IF state \in NumberedStates THEN 1..3 ELSE {0}

Taps ==
  [state : TapStates, n : 0..3, timer : BOOLEAN, fingers : Int,
   pressed : SUBSET (1..3), held : SUBSET {"left", "middle", "right"},
   map : Maps, wantMap : Maps, drag : BOOLEAN, lock : DragLocks,
   enabled : BOOLEAN, suspended : BOOLEAN, redundant : BOOLEAN, bug : BOOLEAN,
   aborted : BOOLEAN]

\* The client holds the button of tap n, of no tap if n = 0, and was told
\* nothing twice.
Holds(tp, n) ==
  /\ tp.pressed = {n} \ {0}
  /\ tp.held = {MappedButton(tp.map, k) : k \in tp.pressed}
  /\ ~tp.redundant

\* A tap structure with the button its state speaks of and none of its errors.
Sound(tp) ==
  /\ tp \in Taps /\ NumberFits(tp.state, tp.n)
  /\ ~tp.bug /\ ~tp.aborted
  /\ Holds(tp, tp.n)

\* k fingers fit the state.
Counts(state, k) == state # "DEAD" => k = FingersOf(state)

\* By how much an event changes the number of fingers a state speaks of.
Change(r, e) ==
  IF e = "touch" THEN 1
  ELSE IF e \in {"release", "palm"} \/ r.thumb THEN 0 - 1 ELSE 0

\* The events of a finger come only while one is down.
Expected(state, e) ==
  /\ e \in {"release", "palm", "motion", "thumb"} => state = "DEAD" \/ FingersOf(state) > 0
  /\ e \in {"motion", "thumb"} => state # "IDLE"

NextState(r, state) == IF r.state = "same" THEN state ELSE r.state
NextNumber(r, n) == IF r.state = "same" THEN n ELSE r.n

\* The calls of tp_tap_notify turn the button of tap n into that of tap m.
Notifies(r, n, m) ==
  \/ r.up = 0 /\ r.down = 0 /\ m = n
  \/ r.up = n /\ n # 0 /\ r.down = 0 /\ m = 0
  \/ r.up \in {0, n} /\ (r.up = 0 => n = 0) /\ r.down \in 1..3 /\ ~r.brief /\ m = r.down
  \/ r.up = 0 /\ n = 0 /\ r.down \in 1..3 /\ r.brief /\ m = 0

\* What every reaction r of a state to an event is like.
Fair(r, state, n, e, fingers) ==
  /\ ~r.bug /\ r.thumb \in BOOLEAN /\ r.brief \in BOOLEAN
  /\ NextState(r, state) \in TapStates
  /\ NumberFits(NextState(r, state), NextNumber(r, n))
  /\ Notifies(r, n, NextNumber(r, n))
  /\ r.thumb => e = "thumb" /\ NextState(r, state) = "IDLE" /\ state # "DEAD"
  /\ state # "DEAD" => Counts(NextState(r, state), FingersOf(state) + Change(r, e))
  /\ state = "DEAD" => \/ NextState(r, state) = "DEAD"
                       \/ NextState(r, state) = "IDLE" /\ fingers = 0

-----------------------------------------------------------------------------
(* Reactions, state by state                                               *)

LEMMA IdleFair ==
  ASSUME NEW e \in TapEvents, Expected("IDLE", e), NEW fingers
  PROVE  Fair(Idle(e), "IDLE", 0, e, fingers)
  BY DEF Idle, Fair, TapEvents, Stay, Expected, Go, Timed, TapBug, NextState, NextNumber, Notifies,
     NumberFits, Counts, Change, FingersOf, TapStates, PlainStates, NumberedStates

LEMMA TouchFair ==
  ASSUME NEW e \in TapEvents, NEW drag \in BOOLEAN, NEW fingers
  PROVE  Fair(Touch(e, drag), "TOUCH", 0, e, fingers)
  BY DEF Touch, Fair, TapEvents, Stay, Go, Timed, Off, Tap, Drag, Click, ThumbFound, NextState, NextNumber, Notifies,
     NumberFits, Counts, Change, FingersOf, TapStates, PlainStates, NumberedStates

LEMMA HoldFair ==
  ASSUME NEW e \in TapEvents, NEW fingers
  PROVE  Fair(Hold(e), "HOLD", 0, e, fingers)
  BY DEF Hold, Fair, TapEvents, Stay, Go, Timed, ThumbFound, NextState, NextNumber, Notifies,
     NumberFits, Counts, Change, FingersOf, TapStates, PlainStates, NumberedStates

LEMMA Touch2Fair ==
  ASSUME NEW e \in TapEvents, NEW fingers
  PROVE  Fair(Touch2(e), "TOUCH_2", 0, e, fingers)
  BY DEF Touch2, Fair, TapEvents, Stay, Go, Timed, NextState, NextNumber, Notifies,
     NumberFits, Counts, Change, FingersOf, TapStates, PlainStates, NumberedStates

LEMMA Touch2HoldFair ==
  ASSUME NEW e \in TapEvents, NEW fingers
  PROVE  Fair(Touch2Hold(e), "TOUCH_2_HOLD", 0, e, fingers)
  BY DEF Touch2Hold, Fair, TapEvents, Stay, Go, Timed, NextState, NextNumber, Notifies,
     NumberFits, Counts, Change, FingersOf, TapStates, PlainStates, NumberedStates

LEMMA Touch2ReleaseFair ==
  ASSUME NEW e \in TapEvents, NEW drag \in BOOLEAN, NEW fingers
  PROVE  Fair(Touch2Release(e, drag), "TOUCH_2_RELEASE", 0, e, fingers)
  BY DEF Touch2Release, Fair, TapEvents, Stay, Go, Timed, Off, Tap, Drag, Click, NextState, NextNumber, Notifies,
     NumberFits, Counts, Change, FingersOf, TapStates, PlainStates, NumberedStates

LEMMA Touch3Fair ==
  ASSUME NEW e \in TapEvents, NEW fingers
  PROVE  Fair(Touch3(e), "TOUCH_3", 0, e, fingers)
  BY DEF Touch3, Fair, TapEvents, Stay, Go, Timed, Off, NextState, NextNumber, Notifies,
     NumberFits, Counts, Change, FingersOf, TapStates, PlainStates, NumberedStates

LEMMA Touch3HoldFair ==
  ASSUME NEW e \in TapEvents, NEW fingers
  PROVE  Fair(Touch3Hold(e), "TOUCH_3_HOLD", 0, e, fingers)
  BY DEF Touch3Hold, Fair, TapEvents, Stay, Go, NextState, NextNumber, Notifies,
     NumberFits, Counts, Change, FingersOf, TapStates, PlainStates, NumberedStates

LEMMA Touch3ReleaseFair ==
  ASSUME NEW e \in TapEvents, NEW fingers
  PROVE  Fair(Touch3Release(e), "TOUCH_3_RELEASE", 0, e, fingers)
  BY DEF Touch3Release, Fair, TapEvents, Stay, Go, Timed, Click, NextState, NextNumber, Notifies,
     NumberFits, Counts, Change, FingersOf, TapStates, PlainStates, NumberedStates

LEMMA Touch3Release2Fair ==
  ASSUME NEW e \in TapEvents, NEW drag \in BOOLEAN, NEW fingers
  PROVE  Fair(Touch3Release2(e, drag), "TOUCH_3_RELEASE_2", 0, e, fingers)
  BY DEF Touch3Release2, Fair, TapEvents, Stay, Go, Timed, Tap, Drag, Click, NextState, NextNumber, Notifies,
     NumberFits, Counts, Change, FingersOf, TapStates, PlainStates, NumberedStates

LEMMA TappedFair ==
  ASSUME NEW e \in TapEvents, NEW n \in 1..3, Expected("TAPPED", e), NEW fingers
  PROVE  Fair(Tapped(n, e), "TAPPED", n, e, fingers)
  BY DEF Tapped, Fair, TapEvents, Stay, Expected, Go, Timed, Let, Drag, TapBug, NextState, NextNumber, Notifies,
     NumberFits, Counts, Change, FingersOf, TapStates, PlainStates, NumberedStates

LEMMA DraggingOrDoubletapFair ==
  ASSUME NEW e \in TapEvents, NEW n \in 1..3, NEW fingers
  PROVE  Fair(DraggingOrDoubletap(n, e), "DRAGGING_OR_DOUBLETAP", n, e, fingers)
  BY DEF DraggingOrDoubletap, Fair, TapEvents, Stay, Go, Timed, Let, Drag, NextState, NextNumber, Notifies,
     NumberFits, Counts, Change, FingersOf, TapStates, PlainStates, NumberedStates

LEMMA DraggingFair ==
  ASSUME NEW e \in TapEvents, NEW n \in 1..3, NEW lock, NEW edge, NEW fingers
  PROVE  Fair(Dragging(n, e, lock, edge), "DRAGGING", n, e, fingers)
  BY DEF Dragging, Fair, TapEvents, Stay, Go, Timed, Let, Drag, NextState, NextNumber, Notifies,
     NumberFits, Counts, Change, FingersOf, TapStates, PlainStates, NumberedStates

LEMMA DraggingWaitFair ==
  ASSUME NEW e \in TapEvents, NEW n \in 1..3, Expected("DRAGGING_WAIT", e), NEW fingers
  PROVE  Fair(DraggingWait(n, e), "DRAGGING_WAIT", n, e, fingers)
  BY DEF DraggingWait, Fair, TapEvents, Stay, Expected, Go, Timed, Let, Drag, TapBug, NextState, NextNumber, Notifies,
     NumberFits, Counts, Change, FingersOf, TapStates, PlainStates, NumberedStates

LEMMA DraggingOrTapFair ==
  ASSUME NEW e \in TapEvents, NEW n \in 1..3, NEW fingers
  PROVE  Fair(DraggingOrTap(n, e), "DRAGGING_OR_TAP", n, e, fingers)
  BY DEF DraggingOrTap, Fair, TapEvents, Stay, Go, Let, Drag, NextState, NextNumber, Notifies,
     NumberFits, Counts, Change, FingersOf, TapStates, PlainStates, NumberedStates

LEMMA Dragging2Fair ==
  ASSUME NEW e \in TapEvents, NEW n \in 1..3, NEW fingers
  PROVE  Fair(Dragging2(n, e), "DRAGGING_2", n, e, fingers)
  BY DEF Dragging2, Fair, TapEvents, Stay, Go, Let, Drag, NextState, NextNumber, Notifies,
     NumberFits, Counts, Change, FingersOf, TapStates, PlainStates, NumberedStates

LEMMA DeadFair ==
  ASSUME NEW e \in TapEvents, NEW fingers \in Int
  PROVE  Fair(Dead(e, fingers), "DEAD", 0, e, fingers)
  BY DEF Dead, Fair, TapEvents, Stay, Go, NextState, NextNumber, Notifies,
     NumberFits, Counts, Change, FingersOf, TapStates, PlainStates, NumberedStates

\* Any state, any event a finger can cause in it.
LEMMA ReactionFair ==
  ASSUME NEW tp \in Taps, NumberFits(tp.state, tp.n),
         NEW e \in TapEvents, Expected(tp.state, e), NEW edge
  PROVE  Fair(TapReaction(tp, e, edge), tp.state, tp.n, e, tp.fingers)
<1> DEFINE Goal == Fair(TapReaction(tp, e, edge), tp.state, tp.n, e, tp.fingers)
<1>1. tp.drag \in BOOLEAN /\ tp.state \in TapStates /\ tp.fingers \in Int
  BY DEF Taps
<1>2. tp.n \in 1..3 \/ tp.state \notin NumberedStates
  BY DEF NumberFits
<1>3. tp.n = 0 \/ tp.state \notin PlainStates
  BY DEF NumberFits, PlainStates, NumberedStates
<1>4. CASE tp.state = "IDLE"
  BY <1>1, <1>3, <1>4, IdleFair DEF TapReaction, PlainStates
<1>5. CASE tp.state = "TOUCH"
  BY <1>1, <1>3, <1>5, TouchFair DEF TapReaction, PlainStates
<1>6. CASE tp.state = "HOLD"
  BY <1>1, <1>3, <1>6, HoldFair DEF TapReaction, PlainStates
<1>7. CASE tp.state = "TOUCH_2"
  BY <1>1, <1>3, <1>7, Touch2Fair DEF TapReaction, PlainStates
<1>8. CASE tp.state = "TOUCH_2_HOLD"
  BY <1>1, <1>3, <1>8, Touch2HoldFair DEF TapReaction, PlainStates
<1>9. CASE tp.state = "TOUCH_2_RELEASE"
  BY <1>1, <1>3, <1>9, Touch2ReleaseFair DEF TapReaction, PlainStates
<1>10. CASE tp.state = "TOUCH_3"
  BY <1>1, <1>3, <1>10, Touch3Fair DEF TapReaction, PlainStates
<1>11. CASE tp.state = "TOUCH_3_HOLD"
  BY <1>1, <1>3, <1>11, Touch3HoldFair DEF TapReaction, PlainStates
<1>12. CASE tp.state = "TOUCH_3_RELEASE"
  BY <1>1, <1>3, <1>12, Touch3ReleaseFair DEF TapReaction, PlainStates
<1>13. CASE tp.state = "TOUCH_3_RELEASE_2"
  BY <1>1, <1>3, <1>13, Touch3Release2Fair DEF TapReaction, PlainStates
<1>14. CASE tp.state = "DEAD"
  BY <1>1, <1>3, <1>14, DeadFair DEF TapReaction, PlainStates
<1>15. CASE tp.state = "TAPPED"
  BY <1>1, <1>2, <1>15, TappedFair DEF TapReaction, NumberedStates
<1>16. CASE tp.state = "DRAGGING_OR_DOUBLETAP"
  BY <1>1, <1>2, <1>16, DraggingOrDoubletapFair DEF TapReaction, NumberedStates
<1>17. CASE tp.state = "DRAGGING"
  BY <1>1, <1>2, <1>17, DraggingFair DEF TapReaction, NumberedStates
<1>18. CASE tp.state = "DRAGGING_WAIT"
  BY <1>1, <1>2, <1>18, DraggingWaitFair DEF TapReaction, NumberedStates
<1>19. CASE tp.state = "DRAGGING_OR_TAP"
  BY <1>1, <1>2, <1>19, DraggingOrTapFair DEF TapReaction, NumberedStates
<1>20. CASE tp.state = "DRAGGING_2"
  BY <1>1, <1>2, <1>20, Dragging2Fair DEF TapReaction, NumberedStates
<1> QED
  BY <1>1, <1>4, <1>5, <1>6, <1>7, <1>8, <1>9, <1>10, <1>11, <1>12, <1>13, <1>14, <1>15, <1>16, <1>17, <1>18, <1>19, <1>20
     DEF TapStates, PlainStates, NumberedStates

-----------------------------------------------------------------------------
(* Buttons                                                                 *)

\* What a call of tp_tap_notify leaves alone.
SameButButtons(tp, new) ==
  /\ new.state = tp.state /\ new.n = tp.n /\ new.timer = tp.timer
  /\ new.fingers = tp.fingers /\ new.map = tp.map /\ new.wantMap = tp.wantMap
  /\ new.enabled = tp.enabled /\ new.suspended = tp.suspended
  /\ new.bug = tp.bug /\ new.aborted = tp.aborted

LEMMA PressHolds ==
  ASSUME NEW tp \in Taps, Holds(tp, 0), NEW n \in 1..3
  PROVE  /\ NotifyPress(tp, n) \in Taps
         /\ Holds(NotifyPress(tp, n), n)
         /\ SameButButtons(tp, NotifyPress(tp, n))
<1> DEFINE b == MappedButton(tp.map, n)
           new == [tp EXCEPT !.pressed = @ \cup {n}, !.held = @ \cup {b},
                             !.redundant = @ \/ b \in tp.held]
<1>1. NotifyPress(tp, n) = new
  BY DEF NotifyPress
<1>2. b \in {"left", "middle", "right"}
  BY DEF MappedButton
<1>3. new \in Taps
  BY <1>2, Zenon DEF Taps
<1>4. /\ new.pressed = tp.pressed \cup {n} /\ new.held = tp.held \cup {b}
      /\ new.redundant = (tp.redundant \/ b \in tp.held) /\ new.map = tp.map
  BY DEF Taps
<1>5. Holds(new, n)
  <2>1. tp.pressed = {} /\ tp.held = {} /\ ~tp.redundant
    BY DEF Holds
  <2>2. new.pressed = {n} /\ ~new.redundant /\ new.held = {b}
    BY <1>4, <2>1, Zenon
  <2>3. {n} \ {0} = {n}
    OBVIOUS
  <2> QED
    BY <1>4, <2>2, <2>3 DEF Holds
<1>6. SameButButtons(tp, new)
  BY DEF SameButButtons, Taps
<1> QED
  BY <1>1, <1>3, <1>5, <1>6

LEMMA ReleaseHolds ==
  ASSUME NEW tp \in Taps, NEW n \in 1..3, Holds(tp, n)
  PROVE  /\ NotifyRelease(tp, n) \in Taps
         /\ Holds(NotifyRelease(tp, n), 0)
         /\ SameButButtons(tp, NotifyRelease(tp, n))
<1> DEFINE b == MappedButton(tp.map, n)
           new == [tp EXCEPT !.pressed = @ \ {n}, !.held = @ \ {b},
                             !.redundant = @ \/ b \notin tp.held]
<1>1. NotifyRelease(tp, n) = new
  BY DEF NotifyRelease
<1>3. new \in Taps
  BY Zenon DEF Taps
<1>4. /\ new.pressed = tp.pressed \ {n} /\ new.held = tp.held \ {b}
      /\ new.redundant = (tp.redundant \/ b \notin tp.held) /\ new.map = tp.map
  BY DEF Taps
<1>5. Holds(new, 0)
  <2>1. tp.pressed = {n} /\ tp.held = {b} /\ ~tp.redundant
    BY DEF Holds
  <2>2. new.pressed = {} /\ ~new.redundant /\ new.held = {}
    BY <1>4, <2>1
  <2> QED
    BY <1>4, <2>2 DEF Holds
<1>6. SameButButtons(tp, new)
  BY DEF SameButButtons, Taps
<1> QED
  BY <1>1, <1>3, <1>5, <1>6

\* A number 0 stands for no call.
LEMMA NoCall ==
  ASSUME NEW tp
  PROVE  NotifyPress(tp, 0) = tp /\ NotifyRelease(tp, 0) = tp /\ SameButButtons(tp, tp)
  BY DEF NotifyPress, NotifyRelease, SameButButtons

\* The calls of an event turn the button of one tap into that of another.
LEMMA NotifyHolds ==
  ASSUME NEW tp \in Taps, NEW r, r.brief \in BOOLEAN, NEW n \in 0..3, NEW m,
         Holds(tp, n), Notifies(r, n, m)
  PROVE  /\ Notify(tp, r) \in Taps
         /\ Holds(Notify(tp, r), m)
         /\ SameButButtons(tp, Notify(tp, r))
<1> DEFINE lifted == NotifyRelease(tp, r.up)
           clicked == NotifyPress(lifted, r.down)
           last == IF r.brief THEN NotifyRelease(clicked, r.down) ELSE clicked
<1>1. Notify(tp, r) = last
  BY DEF Notify
<1>2. CASE r.up = 0 /\ r.down = 0 /\ m = n
  BY <1>1, <1>2, NoCall
<1>3. CASE r.up = n /\ n # 0 /\ r.down = 0 /\ m = 0
  <2>1. n \in 1..3
    BY <1>3
  <2>2. lifted \in Taps /\ Holds(lifted, 0) /\ SameButButtons(tp, lifted)
    BY <1>3, <2>1, ReleaseHolds
  <2>3. last = lifted
    BY <1>3, NoCall
  <2> QED
    BY <1>1, <1>3, <2>2, <2>3
<1>4. CASE r.up \in {0, n} /\ (r.up = 0 => n = 0) /\ r.down \in 1..3 /\ ~r.brief /\ m = r.down
  <2>1. lifted \in Taps /\ Holds(lifted, 0) /\ SameButButtons(tp, lifted)
    <3>1. CASE n = 0
      BY <1>4, <3>1, NoCall
    <3>2. CASE n # 0
      <4>1. n \in 1..3 /\ r.up = n
        BY <1>4, <3>2
      <4> QED
        BY <4>1, ReleaseHolds
    <3> QED
      BY <3>1, <3>2
  <2>2. clicked \in Taps /\ Holds(clicked, m) /\ SameButButtons(lifted, clicked)
    BY <1>4, <2>1, PressHolds
  <2>3. last = clicked
    BY <1>4
  <2>4. SameButButtons(tp, clicked)
    BY <2>1, <2>2, Zenon DEF SameButButtons
  <2> QED
    BY <1>1, <2>2, <2>3, <2>4
<1>5. CASE r.up = 0 /\ n = 0 /\ r.down \in 1..3 /\ r.brief /\ m = 0
  <2>1. lifted = tp
    BY <1>5, NoCall
  <2>2. clicked \in Taps /\ Holds(clicked, r.down) /\ SameButButtons(tp, clicked)
    BY <1>5, <2>1, PressHolds
  <2>3. last = NotifyRelease(clicked, r.down)
    BY <1>5
  <2>4. last \in Taps /\ Holds(last, 0) /\ SameButButtons(clicked, last)
    BY <1>5, <2>2, <2>3, ReleaseHolds
  <2>5. SameButButtons(tp, last)
    BY <2>2, <2>4, Zenon DEF SameButButtons
  <2> QED
    BY <1>1, <1>5, <2>4, <2>5
<1> QED
  BY <1>2, <1>3, <1>4, <1>5 DEF Notifies

-----------------------------------------------------------------------------
(* An event                                                                *)

\* A sound structure stays sound, its state follows the number of fingers and
\* only a finger that is now a thumb leaves the count.
LEMMA EventHandled ==
  ASSUME NEW tp, Sound(tp), NEW e \in TapEvents, Expected(tp.state, e), NEW edge
  PROVE  LET r == TapReaction(tp, e, edge)
             new == HandleEvent(tp, e, edge)
         IN  /\ Sound(new)
             /\ new.enabled = tp.enabled /\ new.suspended = tp.suspended
             /\ new.fingers = IF r.thumb THEN tp.fingers - 1 ELSE tp.fingers
             /\ r.thumb \in BOOLEAN /\ (r.thumb => e = "thumb" /\ tp.state # "DEAD")
             /\ tp.state # "DEAD" => Counts(new.state, FingersOf(tp.state) + Change(r, e))
             /\ tp.state = "DEAD" => \/ new.state = "DEAD"
                                     \/ new.state = "IDLE" /\ tp.fingers = 0
<1> DEFINE r == TapReaction(tp, e, edge)
           to == NextState(r, tp.state)
           n == NextNumber(r, tp.n)
           told == Notify(tp, r)
           timer == IF to \in {"IDLE", "DEAD"} \/ r.timer = "clear" THEN FALSE
                    ELSE r.timer = "set" \/ told.timer
           new == [told EXCEPT
                     !.state = to, !.n = n,
                     !.timer = timer,
                     !.fingers = IF r.thumb THEN @ - 1 ELSE @,
                     !.bug = @ \/ r.bug]
<1>1. HandleEvent(tp, e, edge) = new
  BY DEF HandleEvent, NextState, NextNumber
<1>2. Fair(r, tp.state, tp.n, e, tp.fingers)
  BY ReactionFair DEF Sound
<1>3. tp \in Taps /\ tp.n \in 0..3 /\ tp.fingers \in Int /\ ~tp.bug /\ ~tp.aborted
  BY DEF Sound, Taps
<1>4. told \in Taps /\ Holds(told, n) /\ SameButButtons(tp, told)
  <2>1. r.brief \in BOOLEAN /\ Notifies(r, tp.n, n)
    BY <1>2 DEF Fair
  <2>2. Holds(tp, tp.n)
    BY DEF Sound
  <2> HIDE DEF r, n
  <2> QED
    BY <1>3, <2>1, <2>2, NotifyHolds
<1> HIDE DEF r, told
<1>5. to \in TapStates /\ n \in 0..3 /\ NumberFits(to, n) /\ ~r.bug /\ r.thumb \in BOOLEAN
  BY <1>2 DEF Fair, NumberFits
<1>6. told.fingers = tp.fingers /\ ~told.bug /\ ~told.aborted
  BY <1>3, <1>4 DEF SameButButtons
<1>7. timer \in BOOLEAN
  BY <1>4 DEF Taps
<1> HIDE DEF timer, to, n
<1>9. new \in Taps
  <2> DEFINE count == IF r.thumb THEN told.fingers - 1 ELSE told.fingers
             bug == told.bug \/ r.bug
  <2>1. count \in Int
    BY <1>3, <1>6
  <2>2. bug \in BOOLEAN
    BY <1>5, <1>6
  <2>3. new = [told EXCEPT !.state = to, !.n = n, !.timer = timer,
                           !.fingers = count, !.bug = bug]
    OBVIOUS
  <2> HIDE DEF count, bug
  <2> QED
    BY <1>4, <1>5, <1>7, <2>1, <2>2, <2>3, ZenonT(60) DEF Taps
<1>10. /\ new.state = to /\ new.n = n /\ new.bug = (told.bug \/ r.bug)
       /\ new.fingers = (IF r.thumb THEN told.fingers - 1 ELSE told.fingers)
       /\ new.pressed = told.pressed /\ new.held = told.held /\ new.map = told.map
       /\ new.redundant = told.redundant /\ new.aborted = told.aborted
       /\ new.enabled = told.enabled /\ new.suspended = told.suspended
  BY <1>4 DEF Taps
<1> HIDE DEF new
<1>11. Holds(new, new.n)
  BY <1>4, <1>10 DEF Holds
<1>12. Sound(new)
  BY <1>5, <1>6, <1>9, <1>10, <1>11 DEF Sound
<1>13. new.enabled = tp.enabled /\ new.suspended = tp.suspended
  BY <1>4, <1>10 DEF SameButButtons
<1>14. new.fingers = IF r.thumb THEN tp.fingers - 1 ELSE tp.fingers
  BY <1>6, <1>10
<1>15. /\ r.thumb => e = "thumb" /\ tp.state # "DEAD"
       /\ tp.state # "DEAD" => Counts(to, FingersOf(tp.state) + Change(r, e))
       /\ tp.state = "DEAD" => to = "DEAD" \/ (to = "IDLE" /\ tp.fingers = 0)
  BY <1>2 DEF Fair, to
<1>16. /\ Sound(new)
       /\ new.enabled = tp.enabled /\ new.suspended = tp.suspended
       /\ new.fingers = IF r.thumb THEN tp.fingers - 1 ELSE tp.fingers
       /\ r.thumb \in BOOLEAN /\ (r.thumb => e = "thumb" /\ tp.state # "DEAD")
       /\ tp.state # "DEAD" => Counts(new.state, FingersOf(tp.state) + Change(r, e))
       /\ tp.state = "DEAD" => new.state = "DEAD" \/ (new.state = "IDLE" /\ tp.fingers = 0)
  BY <1>5, <1>10, <1>12, <1>13, <1>14, <1>15, Zenon
<1> QED
  BY <1>1, <1>16 DEF r

-----------------------------------------------------------------------------
(* The touches that count                                                  *)

Fingers(rl) == {t \in Touches : rl[t] = "finger"}

LEMMA TouchesFinite == IsFiniteSet(Touches) /\ Cardinality(Touches) = NumTouches
  BY TapAssumption, FS_Interval DEF Touches

LEMMA FingersCount ==
  ASSUME NEW rl
  PROVE  IsFiniteSet(Fingers(rl)) /\ Cardinality(Fingers(rl)) \in 0..NumTouches
<1>1. Fingers(rl) \subseteq Touches
  BY DEF Fingers
<1>2. Cardinality(Fingers(rl)) <= NumTouches /\ IsFiniteSet(Fingers(rl))
  BY <1>1, TouchesFinite, FS_Subset
<1>3. Cardinality(Fingers(rl)) \in Nat
  BY <1>2, FS_CardinalityType
<1> QED
  BY <1>2, <1>3, TapAssumption

\* A touch that becomes a finger, stays one or is one no more.
LEMMA FingersChange ==
  ASSUME NEW rl \in [Touches -> Roles], NEW t \in Touches, NEW to \in Roles
  PROVE  LET new == [rl EXCEPT ![t] = to]
             k == Cardinality(Fingers(rl))
         IN  /\ new \in [Touches -> Roles]
             /\ rl[t] = "finger" => k > 0
             /\ Cardinality(Fingers(new)) =
                  k - (IF rl[t] = "finger" THEN 1 ELSE 0)
                    + (IF to = "finger" THEN 1 ELSE 0)
<1> DEFINE new == [rl EXCEPT ![t] = to]
           others == {s \in Touches : s # t /\ rl[s] = "finger"}
<1>1. new \in [Touches -> Roles]
  OBVIOUS
<1>2. IsFiniteSet(others) /\ Cardinality(others) \in Nat /\ t \notin others
  <2>1. others \subseteq Touches /\ t \notin others
    OBVIOUS
  <2> QED
    BY <2>1, TouchesFinite, FS_Subset, FS_CardinalityType
<1>3. Cardinality(others \cup {t}) = Cardinality(others) + 1
  BY <1>2, FS_AddElement
<1>4. Fingers(rl) = IF rl[t] = "finger" THEN others \cup {t} ELSE others
  BY DEF Fingers
<1>5. Fingers(new) = IF to = "finger" THEN others \cup {t} ELSE others
  BY DEF Fingers
<1> HIDE DEF others, new
<1>6. rl[t] = "finger" => Cardinality(Fingers(rl)) = Cardinality(others) + 1
  BY <1>3, <1>4
<1>7. rl[t] # "finger" => Cardinality(Fingers(rl)) = Cardinality(others)
  BY <1>4
<1>8. to = "finger" => Cardinality(Fingers(new)) = Cardinality(others) + 1
  BY <1>3, <1>5
<1>9. to # "finger" => Cardinality(Fingers(new)) = Cardinality(others)
  BY <1>5
<1>10. rl[t] = "finger" => Cardinality(Fingers(rl)) > 0
  BY <1>2, <1>6
<1>11. Cardinality(Fingers(new)) =
         Cardinality(Fingers(rl)) - (IF rl[t] = "finger" THEN 1 ELSE 0)
                                  + (IF to = "finger" THEN 1 ELSE 0)
  BY <1>2, <1>6, <1>7, <1>8, <1>9
<1> QED
  BY <1>1, <1>10, <1>11 DEF new

-----------------------------------------------------------------------------
(* The invariant                                                           *)

\* While tapping is off nothing is going on: the state machine is in IDLE.
Inv ==
  /\ role \in [Touches -> Roles]
  /\ walk \in 0..NumTouches + 1
  /\ Sound(tap)
  /\ Counts(tap.state, tap.fingers)
  /\ Active(tap) => tap.fingers = Cardinality(Fingers(role))
  /\ ~Active(tap) => tap.state = "IDLE"

LEMMA FingersBounded ==
  ASSUME Inv
  PROVE  tap.fingers \in 0..NumTouches
<1>1. CASE Active(tap)
  BY <1>1, FingersCount DEF Inv
<1>2. CASE ~Active(tap)
  BY <1>2, TapAssumption DEF Inv, Counts, FingersOf
<1> QED
  BY <1>1, <1>2

\* What is said of the tap structure does not look at its other fields.
LEMMA CountSet ==
  ASSUME NEW tp, Sound(tp), NEW k \in Int
  PROVE  LET new == [tp EXCEPT !.fingers = k]
         IN  /\ Sound(new) /\ new.fingers = k /\ new.state = tp.state
             /\ new.enabled = tp.enabled /\ new.suspended = tp.suspended
<1> DEFINE new == [tp EXCEPT !.fingers = k]
<1>1. new \in Taps
  BY Zenon DEF Sound, Taps
<1>2. /\ new.fingers = k /\ new.state = tp.state /\ new.n = tp.n /\ new.bug = tp.bug
      /\ new.aborted = tp.aborted /\ new.redundant = tp.redundant /\ new.map = tp.map
      /\ new.pressed = tp.pressed /\ new.held = tp.held
      /\ new.enabled = tp.enabled /\ new.suspended = tp.suspended
  BY DEF Sound, Taps
<1> HIDE DEF new
<1>3. Sound(new)
  BY <1>1, <1>2 DEF Sound, Holds
<1> QED
  BY <1>2, <1>3 DEF new

LEMMA InitInv == Init => Inv
<1> SUFFICES ASSUME Init PROVE Inv
  OBVIOUS
<1>1. PICK enabled \in BOOLEAN, lock \in DragLocks : tap = NewTap(enabled, lock)
  BY DEF Init
<1>2. tap \in Taps
  BY <1>1 DEF NewTap, Taps, TapStates, PlainStates, Maps
<1>3. Sound(tap) /\ Counts(tap.state, tap.fingers) /\ tap.state = "IDLE" /\ tap.fingers = 0
  BY <1>1, <1>2 DEF NewTap, Sound, Holds, NumberFits, NumberedStates, Counts, FingersOf
<1>4. Cardinality(Fingers(role)) = 0
  <2>1. Fingers(role) = {}
    BY DEF Init, Fingers
  <2> QED
    BY <2>1, FS_EmptySet
<1>5. role \in [Touches -> Roles] /\ walk \in 0..NumTouches + 1
  BY TapAssumption DEF Init, Roles
<1> QED
  BY <1>3, <1>4, <1>5 DEF Inv

-----------------------------------------------------------------------------
(* The steps of a frame                                                    *)

LEMMA Recount ==
  ASSUME role \in [Touches -> Roles], NEW t \in Touches, NEW to \in Roles, Visit(t, to)
  PROVE  /\ Cardinality(Fingers(role)) \in Int
         /\ Cardinality(Fingers(role')) =
              Cardinality(Fingers(role)) - (IF role[t] = "finger" THEN 1 ELSE 0)
                                         + (IF to = "finger" THEN 1 ELSE 0)
<1>1. role' = [role EXCEPT ![t] = to]
  BY DEF Visit
<1>2. Cardinality(Fingers(role)) \in Int
  BY FingersCount
<1>3. Cardinality(Fingers([role EXCEPT ![t] = to])) =
        Cardinality(Fingers(role)) - (IF role[t] = "finger" THEN 1 ELSE 0)
                                   + (IF to = "finger" THEN 1 ELSE 0)
  BY FingersChange
<1> QED
  BY <1>1, <1>2, <1>3

\* A frame's step that leaves the structure alone and no finger changes.
LEMMA QuietVisit ==
  ASSUME Inv, NEW t \in Touches, NEW to \in Roles, Visit(t, to), tap' = tap,
         ~Active(tap) \/ (role[t] = "finger" <=> to = "finger")
  PROVE  Inv'
<1>1. role' \in [Touches -> Roles] /\ walk' \in 0..NumTouches + 1
  BY TapAssumption DEF Inv, Visit, Touches
<1>2. Active(tap) => Cardinality(Fingers(role')) = Cardinality(Fingers(role))
  BY Recount DEF Inv
<1> QED
  BY <1>1, <1>2 DEF Inv

\* A step that hands one event to the state machine while tapping is on.
LEMMA EventVisit ==
  ASSUME Inv, Active(tap), NEW t \in Touches, NEW to \in Roles, Visit(t, to),
         Sound(tap'), Active(tap'), Counts(tap'.state, tap'.fingers),
         tap'.fingers = tap.fingers - (IF role[t] = "finger" THEN 1 ELSE 0)
                                    + (IF to = "finger" THEN 1 ELSE 0)
  PROVE  Inv'
<1>1. role' \in [Touches -> Roles] /\ walk' \in 0..NumTouches + 1
  BY TapAssumption DEF Inv, Visit, Touches
<1>2. tap'.fingers = Cardinality(Fingers(role'))
  BY Recount DEF Inv
<1> QED
  BY <1>1, <1>2 DEF Inv

LEMMA FrameBeginInv ==
  ASSUME Inv, NEW press \in BOOLEAN, FrameBegin(press)
  PROVE  Inv'
<1>1. walk' \in 0..NumTouches + 1
  BY TapAssumption DEF FrameBegin
<1>2. CASE press /\ Clickpad /\ Active(tap)
  <2> DEFINE r == TapReaction(tap, "button", FALSE)
  <2>1. tap' = HandleEvent(tap, "button", FALSE)
    BY <1>2 DEF FrameBegin
  <2>2. Expected(tap.state, "button") /\ "button" \in TapEvents
    BY DEF Expected, TapEvents
  <2>3. /\ Sound(tap') /\ tap'.enabled = tap.enabled /\ tap'.suspended = tap.suspended
        /\ ~r.thumb /\ tap'.fingers = tap.fingers
        /\ tap.state # "DEAD" => Counts(tap'.state, FingersOf(tap.state) + Change(r, "button"))
        /\ tap.state = "DEAD" => tap'.state = "DEAD" \/ (tap'.state = "IDLE" /\ tap.fingers = 0)
    BY <2>1, <2>2, EventHandled DEF Inv
  <2>4. Counts(tap'.state, tap'.fingers)
    <3>1. FingersOf("IDLE") = 0 /\ Change(r, "button") = 0
      BY <2>3 DEF FingersOf, Change
    <3>2. tap.state # "DEAD" => tap.fingers = FingersOf(tap.state)
      BY DEF Inv, Counts
    <3>3. tap.fingers \in Nat
      BY FingersBounded
    <3>4. CASE tap.state = "DEAD"
      BY <2>3, <3>1, <3>4 DEF Counts
    <3>5. CASE tap.state # "DEAD"
      <4> HIDE DEF r
      <4>1. FingersOf(tap.state) + Change(r, "button") = tap.fingers
        BY <3>1, <3>2, <3>3, <3>5
      <4> QED
        BY <2>3, <3>5, <4>1 DEF Counts
    <3> QED
      BY <3>4, <3>5
  <2>5. Active(tap')
    BY <1>2, <2>3 DEF Active
  <2> QED
    BY <1>1, <1>2, <2>3, <2>4, <2>5 DEF Inv, FrameBegin
<1>3. CASE ~(press /\ Clickpad /\ Active(tap))
  <2>1. tap' = tap /\ role' = role
    BY <1>3 DEF FrameBegin
  <2> QED
    BY <1>1, <2>1 DEF Inv
<1> QED
  BY <1>2, <1>3

LEMMA UnchangedInv ==
  ASSUME Inv, NEW t \in Touches, Unchanged(t)
  PROVE  Inv'
<1>1. role[t] \in Roles
  BY DEF Inv
<1> QED
  BY <1>1, QuietVisit DEF Unchanged

LEMMA BeginInv ==
  ASSUME Inv, NEW t \in Touches, NEW as \in Roles \ {"up"}, Begin(t, as)
  PROVE  Inv'
<1>1. role[t] = "up" /\ "finger" \in Roles
  BY DEF Begin, Roles
<1>2. CASE ~Active(tap)
  BY <1>1, <1>2, QuietVisit DEF Begin
<1>3. CASE Active(tap) /\ as # "finger"
  BY <1>1, <1>3, QuietVisit DEF Begin
<1>4. CASE Active(tap) /\ as = "finger"
  <2> DEFINE tp == [tap EXCEPT !.fingers = tap.fingers + 1]
             r == TapReaction(tp, "touch", FALSE)
  <2>1. tap' = HandleEvent(tp, "touch", FALSE)
    BY <1>4 DEF Begin
  <2>2. tap.fingers \in Nat
    BY FingersBounded
  <2>3. /\ Sound(tp) /\ tp.fingers = tap.fingers + 1 /\ tp.state = tap.state
        /\ tp.enabled = tap.enabled /\ tp.suspended = tap.suspended
    <3>1. tap.fingers + 1 \in Int /\ Sound(tap)
      BY <2>2 DEF Inv
    <3> QED
      BY <3>1, CountSet
  <2> HIDE DEF tp
  <2>4. Expected(tp.state, "touch") /\ "touch" \in TapEvents
    BY DEF Expected, TapEvents
  <2>5. /\ Sound(tap') /\ tap'.enabled = tap.enabled /\ tap'.suspended = tap.suspended
        /\ ~r.thumb /\ tap'.fingers = tp.fingers
        /\ tp.state # "DEAD" => Counts(tap'.state, FingersOf(tp.state) + Change(r, "touch"))
        /\ tp.state = "DEAD" => tap'.state = "DEAD" \/ (tap'.state = "IDLE" /\ tp.fingers = 0)
    <3> HIDE DEF r
    <3> DEFINE new == HandleEvent(tp, "touch", FALSE)
    <3>1. /\ Sound(new) /\ new.enabled = tp.enabled /\ new.suspended = tp.suspended
          /\ ~r.thumb /\ new.fingers = tp.fingers
          /\ tp.state # "DEAD" => Counts(new.state, FingersOf(tp.state) + Change(r, "touch"))
          /\ tp.state = "DEAD" => new.state = "DEAD" \/ (new.state = "IDLE" /\ tp.fingers = 0)
      BY <2>3, <2>4, EventHandled DEF r
    <3> HIDE DEF new
    <3> QED
      BY <2>1, <2>3, <3>1 DEF new
  <2>6. Counts(tap'.state, tap'.fingers)
    BY <2>2, <2>3, <2>5 DEF Inv, Counts, Change
  <2>7. Active(tap')
    BY <1>4, <2>5 DEF Active
  <2>8. tap'.fingers = tap.fingers - (IF role[t] = "finger" THEN 1 ELSE 0)
                                   + (IF as = "finger" THEN 1 ELSE 0)
    BY <1>1, <1>4, <2>2, <2>3, <2>5
  <2>9. Visit(t, as)
    BY <1>4 DEF Begin
  <2> QED
    BY <1>4, <2>5, <2>6, <2>7, <2>8, <2>9, EventVisit
<1> QED
  BY <1>2, <1>3, <1>4

\* While a finger is down its state is DEAD or speaks of fingers.
LEMMA FingerDown ==
  ASSUME Inv, Active(tap), NEW t \in Touches, role[t] = "finger"
  PROVE  /\ tap.fingers \in Nat /\ tap.fingers > 0
         /\ tap.state = "DEAD" \/ FingersOf(tap.state) > 0
         /\ Sound(tap)
<1>1. tap.fingers \in Nat /\ tap.fingers > 0
  <2>1. role = [role EXCEPT ![t] = "finger"] /\ "finger" \in Roles
    BY DEF Inv, Roles
  <2> QED
    BY <2>1, FingersBounded, FingersChange DEF Inv
<1>2. tap.state # "DEAD" => FingersOf(tap.state) > 0
  BY <1>1 DEF Inv, Counts
<1> QED
  BY <1>1, <1>2 DEF Inv

\* The count of a finger that leaves is not yet zero.
LEMMA Uncounted ==
  ASSUME NEW tp, Sound(tp), tp.fingers > 0
  PROVE  /\ Sound(Uncount(tp)) /\ Uncount(tp).fingers = tp.fingers - 1
         /\ Uncount(tp).state = tp.state
         /\ Uncount(tp).enabled = tp.enabled /\ Uncount(tp).suspended = tp.suspended
<1>1. Uncount(tp) = [tp EXCEPT !.fingers = tp.fingers - 1]
  BY DEF Uncount
<1>2. tp.fingers - 1 \in Int
  BY DEF Sound, Taps
<1> QED
  BY <1>1, <1>2, CountSet

LEMMA EndInv ==
  ASSUME Inv, NEW t \in Touches, NEW edge \in BOOLEAN, End(t, edge)
  PROVE  Inv'
<1>1. Visit(t, "up") /\ "up" \in Roles /\ role[t] \in Roles
  BY DEF End, Roles, Inv
<1>2. CASE ~Active(tap) \/ role[t] = "thumb"
  <2>1. tap' = tap
    BY <1>2 DEF End
  <2> QED
    BY <1>1, <1>2, <2>1, QuietVisit
<1>3. CASE Active(tap) /\ role[t] = "finger"
  <2> DEFINE tp == Uncount(tap)
             r == TapReaction(tp, "release", edge)
             new == HandleEvent(tp, "release", edge)
  <2>1. tap' = new
    BY <1>3 DEF End
  <2>2. /\ tap.fingers \in Nat /\ tap.fingers > 0 /\ Sound(tap)
        /\ tap.state = "DEAD" \/ FingersOf(tap.state) > 0
    BY <1>3, FingerDown
  <2>3. /\ Sound(tp) /\ tp.fingers = tap.fingers - 1 /\ tp.state = tap.state
        /\ tp.enabled = tap.enabled /\ tp.suspended = tap.suspended
    BY <2>2, Uncounted
  <2> HIDE DEF tp
  <2>4. Expected(tp.state, "release") /\ "release" \in TapEvents
    BY <2>2, <2>3 DEF Expected, TapEvents
  <2>5. /\ Sound(new) /\ new.enabled = tp.enabled /\ new.suspended = tp.suspended
        /\ ~r.thumb /\ new.fingers = tp.fingers
        /\ tp.state # "DEAD" => Counts(new.state, FingersOf(tp.state) + Change(r, "release"))
        /\ tp.state = "DEAD" => new.state = "DEAD" \/ (new.state = "IDLE" /\ tp.fingers = 0)
    BY <2>3, <2>4, EventHandled
  <2>6. Change(r, "release") = 0 - 1 /\ FingersOf("IDLE") = 0
    BY DEF Change, FingersOf
  <2> HIDE DEF r, new
  <2>7. Counts(new.state, new.fingers)
    <3>1. CASE tap.state = "DEAD"
      BY <2>3, <2>5, <2>6, <3>1 DEF Counts
    <3>2. CASE tap.state # "DEAD"
      <4>1. FingersOf(tap.state) + Change(r, "release") = tap.fingers - 1
        BY <2>2, <2>6, <3>2 DEF Inv, Counts
      <4> QED
        BY <2>3, <2>5, <3>2, <4>1
    <3> QED
      BY <3>1, <3>2
  <2>8. Active(new)
    BY <1>3, <2>3, <2>5 DEF Active
  <2>9. new.fingers = tap.fingers - (IF role[t] = "finger" THEN 1 ELSE 0)
                                  + (IF "up" = "finger" THEN 1 ELSE 0)
    BY <1>3, <2>2, <2>3, <2>5
  <2> QED
    BY <1>1, <1>3, <2>1, <2>5, <2>7, <2>8, <2>9, EventVisit
<1>4. CASE Active(tap) /\ role[t] = "palm"
  <2> DEFINE r == TapReaction(tap, "palm_up", FALSE)
             new == HandleEvent(tap, "palm_up", FALSE)
  <2>1. tap' = new
    BY <1>4 DEF End
  <2>2. Expected(tap.state, "palm_up") /\ "palm_up" \in TapEvents
    BY DEF Expected, TapEvents
  <2>3. /\ Sound(new) /\ new.enabled = tap.enabled /\ new.suspended = tap.suspended
        /\ ~r.thumb /\ new.fingers = tap.fingers
        /\ tap.state # "DEAD" => Counts(new.state, FingersOf(tap.state) + Change(r, "palm_up"))
        /\ tap.state = "DEAD" => new.state = "DEAD" \/ (new.state = "IDLE" /\ tap.fingers = 0)
    BY <2>2, EventHandled DEF Inv
  <2> HIDE DEF r, new
  <2>4. Change(r, "palm_up") = 0 /\ FingersOf("IDLE") = 0 /\ tap.fingers \in Nat
    <3>1. Change(r, "palm_up") = 0
      BY <2>3 DEF Change
    <3>2. FingersOf("IDLE") = 0
      BY DEF FingersOf
    <3> QED
      BY <3>1, <3>2, FingersBounded
  <2>5. Counts(new.state, new.fingers)
    <3>1. CASE tap.state = "DEAD"
      BY <2>3, <2>4, <3>1 DEF Counts
    <3>2. CASE tap.state # "DEAD"
      <4>1. FingersOf(tap.state) + Change(r, "palm_up") = tap.fingers
        BY <2>4, <3>2 DEF Inv, Counts
      <4> QED
        BY <2>3, <3>2, <4>1
    <3> QED
      BY <3>1, <3>2
  <2>6. Active(new)
    BY <1>4, <2>3 DEF Active
  <2>7. new.fingers = tap.fingers - (IF role[t] = "finger" THEN 1 ELSE 0)
                                  + (IF "up" = "finger" THEN 1 ELSE 0)
    BY <1>4, <2>3, <2>4
  <2> QED
    BY <1>1, <1>4, <2>1, <2>3, <2>5, <2>6, <2>7, EventVisit
<1> QED
  BY <1>1, <1>2, <1>3, <1>4 DEF End, Roles

LEMMA PalmFoundInv ==
  ASSUME Inv, NEW t \in Touches, NEW to \in {"palm", "up"}, PalmFound(t, to)
  PROVE  Inv'
<1> DEFINE r == TapReaction(tap, "palm", FALSE)
           tp == HandleEvent(tap, "palm", FALSE)
           new == Uncount(tp)
<1>1. Active(tap) /\ role[t] = "finger" /\ Visit(t, to) /\ to \in Roles /\ tap' = new
  BY DEF PalmFound, Roles
<1>2. /\ tap.fingers \in Nat /\ tap.fingers > 0 /\ Sound(tap)
      /\ tap.state = "DEAD" \/ FingersOf(tap.state) > 0
  BY <1>1, FingerDown
<1>3. Expected(tap.state, "palm") /\ "palm" \in TapEvents
  BY <1>2 DEF Expected, TapEvents
<1>4. /\ Sound(tp) /\ tp.enabled = tap.enabled /\ tp.suspended = tap.suspended
      /\ ~r.thumb /\ tp.fingers = tap.fingers
      /\ tap.state # "DEAD" => Counts(tp.state, FingersOf(tap.state) + Change(r, "palm"))
      /\ tap.state = "DEAD" => tp.state = "DEAD" \/ (tp.state = "IDLE" /\ tap.fingers = 0)
  BY <1>2, <1>3, EventHandled
<1>5. Change(r, "palm") = 0 - 1
  BY DEF Change
<1> HIDE DEF r, tp
<1>6. /\ Sound(new) /\ new.fingers = tap.fingers - 1 /\ new.state = tp.state
      /\ new.enabled = tap.enabled /\ new.suspended = tap.suspended
  BY <1>2, <1>4, Uncounted
<1> HIDE DEF new
<1>7. Counts(new.state, new.fingers)
  <2>1. CASE tap.state = "DEAD"
    BY <1>2, <1>4, <1>6, <2>1 DEF Counts
  <2>2. CASE tap.state # "DEAD"
    <3>1. FingersOf(tap.state) + Change(r, "palm") = tap.fingers - 1
      BY <1>2, <1>5, <2>2 DEF Inv, Counts
    <3> QED
      BY <1>4, <1>6, <2>2, <3>1
  <2> QED
    BY <2>1, <2>2
<1>8. Active(new)
  BY <1>1, <1>6 DEF Active
<1>9. new.fingers = tap.fingers - (IF role[t] = "finger" THEN 1 ELSE 0)
                                + (IF to = "finger" THEN 1 ELSE 0)
  BY <1>1, <1>2, <1>6
<1> QED
  BY <1>1, <1>6, <1>7, <1>8, <1>9, EventVisit

LEMMA ThumbIgnoredInv ==
  ASSUME Inv, NEW t \in Touches, ThumbIgnored(t)
  PROVE  Inv'
<1> DEFINE r == TapReaction(tap, "thumb", FALSE)
           new == HandleEvent(tap, "thumb", FALSE)
           to == IF r.thumb THEN "thumb" ELSE "finger"
<1>1. /\ Active(tap) /\ role[t] = "finger" /\ tap.state # "IDLE"
      /\ Visit(t, to) /\ to \in Roles /\ tap' = new
  BY DEF ThumbIgnored, Roles
<1>2. /\ tap.fingers \in Nat /\ tap.fingers > 0 /\ Sound(tap)
      /\ tap.state = "DEAD" \/ FingersOf(tap.state) > 0
  BY <1>1, FingerDown
<1>3. Expected(tap.state, "thumb") /\ "thumb" \in TapEvents
  BY <1>1, <1>2 DEF Expected, TapEvents
<1>4. /\ Sound(new) /\ new.enabled = tap.enabled /\ new.suspended = tap.suspended
      /\ new.fingers = IF r.thumb THEN tap.fingers - 1 ELSE tap.fingers
      /\ r.thumb \in BOOLEAN /\ (r.thumb => tap.state # "DEAD")
      /\ tap.state # "DEAD" => Counts(new.state, FingersOf(tap.state) + Change(r, "thumb"))
      /\ tap.state = "DEAD" => new.state = "DEAD" \/ (new.state = "IDLE" /\ tap.fingers = 0)
  BY <1>2, <1>3, EventHandled
<1>5. Change(r, "thumb") = IF r.thumb THEN 0 - 1 ELSE 0
  BY DEF Change
<1> HIDE DEF r, new
<1>6. Counts(new.state, new.fingers)
  <2>1. CASE tap.state = "DEAD"
    BY <1>2, <1>4, <2>1 DEF Counts
  <2>2. CASE tap.state # "DEAD"
    <3>1. FingersOf(tap.state) + Change(r, "thumb") = new.fingers
      BY <1>2, <1>4, <1>5, <2>2 DEF Inv, Counts
    <3> QED
      BY <1>4, <2>2, <3>1
  <2> QED
    BY <2>1, <2>2
<1>7. Active(new)
  BY <1>1, <1>4 DEF Active
<1>8. new.fingers = tap.fingers - (IF role[t] = "finger" THEN 1 ELSE 0)
                                + (IF to = "finger" THEN 1 ELSE 0)
  BY <1>1, <1>2, <1>4
<1> QED
  BY <1>1, <1>4, <1>6, <1>7, <1>8, EventVisit

LEMMA MotionInv ==
  ASSUME Inv, NEW t \in Touches, Motion(t)
  PROVE  Inv'
<1> DEFINE r == TapReaction(tap, "motion", FALSE)
           new == HandleEvent(tap, "motion", FALSE)
<1>1. /\ Active(tap) /\ role[t] = "finger" /\ tap.state # "IDLE"
      /\ Visit(t, "finger") /\ "finger" \in Roles /\ tap' = new
  BY DEF Motion, Roles
<1>2. /\ tap.fingers \in Nat /\ tap.fingers > 0 /\ Sound(tap)
      /\ tap.state = "DEAD" \/ FingersOf(tap.state) > 0
  BY <1>1, FingerDown
<1>3. Expected(tap.state, "motion") /\ "motion" \in TapEvents
  BY <1>1, <1>2 DEF Expected, TapEvents
<1>4. /\ Sound(new) /\ new.enabled = tap.enabled /\ new.suspended = tap.suspended
      /\ ~r.thumb /\ new.fingers = tap.fingers
      /\ tap.state # "DEAD" => Counts(new.state, FingersOf(tap.state) + Change(r, "motion"))
      /\ tap.state = "DEAD" => new.state = "DEAD" \/ (new.state = "IDLE" /\ tap.fingers = 0)
  BY <1>2, <1>3, EventHandled
<1>5. Change(r, "motion") = 0
  BY <1>4 DEF Change
<1> HIDE DEF r, new
<1>6. Counts(new.state, new.fingers)
  <2>1. CASE tap.state = "DEAD"
    BY <1>2, <1>4, <2>1 DEF Counts
  <2>2. CASE tap.state # "DEAD"
    <3>1. FingersOf(tap.state) + Change(r, "motion") = tap.fingers
      BY <1>2, <1>5, <2>2 DEF Inv, Counts
    <3> QED
      BY <1>4, <2>2, <3>1
  <2> QED
    BY <2>1, <2>2
<1>7. Active(new)
  BY <1>1, <1>4 DEF Active
<1>8. new.fingers = tap.fingers - (IF role[t] = "finger" THEN 1 ELSE 0)
                                + (IF "finger" = "finger" THEN 1 ELSE 0)
  BY <1>1, <1>2, <1>4
<1> QED
  BY <1>1, <1>4, <1>6, <1>7, <1>8, EventVisit

-----------------------------------------------------------------------------
(* The end of a frame, the timer and the configuration                     *)

\* A structure that differs in what the invariant does not speak of.
SameButSettings(tp, new) ==
  /\ new \in Taps
  /\ new.state = tp.state /\ new.n = tp.n /\ new.fingers = tp.fingers
  /\ new.pressed = tp.pressed /\ new.held = tp.held /\ new.map = tp.map
  /\ new.redundant = tp.redundant /\ new.bug = tp.bug /\ new.aborted = tp.aborted

LEMMA SettingsSound ==
  ASSUME NEW tp, NEW new, Sound(tp), SameButSettings(tp, new)
  PROVE  Sound(new)
  BY DEF Sound, Holds, SameButSettings

\* The map changes only while no button is held.
LEMMA MapUpdated ==
  ASSUME NEW tp, Sound(tp)
  PROVE  /\ Sound(UpdateMap(tp)) /\ UpdateMap(tp).state = tp.state
         /\ UpdateMap(tp).fingers = tp.fingers
         /\ UpdateMap(tp).enabled = tp.enabled /\ UpdateMap(tp).suspended = tp.suspended
<1>1. CASE tp.state # "IDLE"
  BY <1>1 DEF UpdateMap
<1>2. CASE tp.state = "IDLE"
  <2> DEFINE new == [tp EXCEPT !.map = tp.wantMap]
  <2>1. UpdateMap(tp) = new
    BY <1>2 DEF UpdateMap
  <2>2. new \in Taps
    BY Zenon DEF Sound, Taps
  <2>3. /\ new.state = tp.state /\ new.n = tp.n /\ new.fingers = tp.fingers
        /\ new.pressed = tp.pressed /\ new.held = tp.held
        /\ new.redundant = tp.redundant /\ new.bug = tp.bug /\ new.aborted = tp.aborted
        /\ new.enabled = tp.enabled /\ new.suspended = tp.suspended
    BY DEF Sound, Taps
  <2>4. tp.n = 0 /\ tp.pressed = {} /\ tp.held = {}
    BY <1>2 DEF Sound, Holds, NumberFits, NumberedStates
  <2> HIDE DEF new
  <2>5. Holds(new, new.n)
    BY <2>3, <2>4 DEF Sound, Holds
  <2>6. Sound(new)
    BY <2>2, <2>3, <2>5 DEF Sound
  <2> QED
    BY <2>1, <2>3, <2>6
<1> QED
  BY <1>1, <1>2

LEMMA FrameEndInv ==
  ASSUME Inv, FrameEnd
  PROVE  Inv'
<1>1. Active(tap) => ~(tap.fingers > Cardinality(Down))
  <2>1. Fingers(role) \subseteq Down /\ Down \subseteq Touches
    BY DEF Fingers, Down
  <2>2. IsFiniteSet(Down)
    BY <2>1, TouchesFinite, FS_Subset
  <2>3. Cardinality(Fingers(role)) <= Cardinality(Down) /\ Cardinality(Down) \in Nat
    BY <2>1, <2>2, FS_Subset, FS_CardinalityType
  <2> QED
    BY <2>3, FingersCount DEF Inv
<1>2. tap' = UpdateMap(tap) /\ role' = role /\ walk' = 0
  BY <1>1 DEF FrameEnd
<1>3. /\ Sound(tap') /\ tap'.state = tap.state /\ tap'.fingers = tap.fingers
      /\ tap'.enabled = tap.enabled /\ tap'.suspended = tap.suspended
  BY <1>2, MapUpdated DEF Inv
<1>4. walk' \in 0..NumTouches + 1
  BY <1>2, TapAssumption
<1> QED
  BY <1>2, <1>3, <1>4 DEF Inv, Active

LEMMA TimeoutInv ==
  ASSUME Inv, Timeout
  PROVE  Inv'
<1> DEFINE tp == [tap EXCEPT !.timer = FALSE]
           r == TapReaction(tp, "timeout", FALSE)
           new == HandleEvent(tp, "timeout", FALSE)
<1>1. tap' = new /\ role' = role /\ walk' = walk
  BY DEF Timeout
<1>2. /\ Sound(tp) /\ tp.state = tap.state /\ tp.fingers = tap.fingers
      /\ tp.enabled = tap.enabled /\ tp.suspended = tap.suspended
  <2>1. tp \in Taps
    BY Zenon DEF Inv, Sound, Taps
  <2>2. /\ SameButSettings(tap, tp)
        /\ tp.enabled = tap.enabled /\ tp.suspended = tap.suspended
    BY <2>1 DEF Inv, Sound, SameButSettings, Taps
  <2> HIDE DEF tp
  <2> QED
    BY <2>2, SettingsSound DEF Inv, SameButSettings
<1> HIDE DEF tp
<1>3. Expected(tp.state, "timeout") /\ "timeout" \in TapEvents
  BY DEF Expected, TapEvents
<1>4. /\ Sound(new) /\ new.enabled = tp.enabled /\ new.suspended = tp.suspended
      /\ ~r.thumb /\ new.fingers = tp.fingers
      /\ tp.state # "DEAD" => Counts(new.state, FingersOf(tp.state) + Change(r, "timeout"))
      /\ tp.state = "DEAD" => new.state = "DEAD" \/ (new.state = "IDLE" /\ tp.fingers = 0)
  BY <1>2, <1>3, EventHandled
<1>5. Change(r, "timeout") = 0
  BY <1>4 DEF Change
<1> HIDE DEF r, new
<1>6. Counts(new.state, new.fingers)
  <2>1. CASE tap.state = "DEAD"
    <3>1. FingersOf("IDLE") = 0
      BY DEF FingersOf
    <3> QED
      BY <1>2, <1>4, <2>1, <3>1 DEF Counts
  <2>2. CASE tap.state # "DEAD"
    <3>1. FingersOf(tap.state) + Change(r, "timeout") = tap.fingers
      BY <1>5, <2>2, FingersBounded DEF Inv, Counts
    <3> QED
      BY <1>2, <1>4, <2>2, <3>1
  <2> QED
    BY <2>1, <2>2
<1>7. CASE Active(tap)
  BY <1>1, <1>2, <1>4, <1>6, <1>7 DEF Inv, Active
<1>8. CASE ~Active(tap)
  <2>1. new.state = "IDLE"
    <3>1. tp.state = "IDLE"
      BY <1>2, <1>8 DEF Inv
    <3>2. HandleEvent(tp, "timeout", FALSE).state = "IDLE"
      <4> DEFINE told == Notify(tp, r)
      <4>1. r = Stay
        BY <3>1 DEF r, TapReaction, Idle
      <4>2. Notify(tp, Stay) = tp
        BY DEF Notify, NotifyPress, NotifyRelease, Stay
      <4>3. Stay.state = "same"
        BY DEF Stay
      <4> QED
        BY <1>2, <3>1, <4>1, <4>2, <4>3 DEF HandleEvent, r, Sound, Taps
    <3> QED
      BY <3>2 DEF new
  <2> QED
    BY <1>1, <1>2, <1>4, <1>6, <1>8, <2>1 DEF Inv, Active
<1> QED
  BY <1>7, <1>8

LEMMA AllReleased ==
  ASSUME NEW tp, Sound(tp)
  PROVE  /\ Released(tp) \in Taps /\ Holds(Released(tp), 0)
         /\ SameButButtons(tp, Released(tp))
<1>1. tp \in Taps /\ Holds(tp, tp.n) /\ tp.n \in 0..3 /\ tp.pressed = {tp.n} \ {0}
  BY DEF Sound, Taps, Holds
<1>2. CASE tp.n = 0
  <2>1. 1 \notin tp.pressed /\ 2 \notin tp.pressed /\ 3 \notin tp.pressed
    BY <1>1, <1>2
  <2>2. Released(tp) = tp
    BY <2>1, NoCall DEF Released
  <2> QED
    BY <1>1, <1>2, <2>2, NoCall
<1>3. CASE tp.n \in 1..3
  <2> DEFINE new == NotifyRelease(tp, tp.n)
  <2>1. new \in Taps /\ Holds(new, 0) /\ SameButButtons(tp, new)
    BY <1>1, <1>3, ReleaseHolds
  <2>2. Released(tp) = new
    <3>1. CASE tp.n = 1
      <4>1. 1 \in tp.pressed /\ 2 \notin tp.pressed /\ 3 \notin tp.pressed
        BY <1>1, <3>1
      <4> QED
        BY <3>1, <4>1, NoCall DEF Released
    <3>2. CASE tp.n = 2
      <4>1. 1 \notin tp.pressed /\ 2 \in tp.pressed /\ 3 \notin tp.pressed
        BY <1>1, <3>2
      <4> QED
        BY <3>2, <4>1, NoCall DEF Released
    <3>3. CASE tp.n = 3
      <4>1. 1 \notin tp.pressed /\ 2 \notin tp.pressed /\ 3 \in tp.pressed
        BY <1>1, <3>3
      <4> QED
        BY <3>3, <4>1, NoCall DEF Released
    <3> QED
      BY <1>3, <3>1, <3>2, <3>3
  <2> HIDE DEF new
  <2> QED
    BY <2>1, <2>2
<1> QED
  BY <1>1, <1>2, <1>3

LEMMA NeutralSound ==
  ASSUME NEW tp \in Taps, Holds(tp, 0), ~tp.bug, ~tp.aborted
  PROVE  /\ Sound(Neutral(tp)) /\ Neutral(tp).state = "IDLE" /\ Neutral(tp).fingers = 0
         /\ Neutral(tp).enabled = tp.enabled /\ Neutral(tp).suspended = tp.suspended
<1> DEFINE new == [tp EXCEPT !.state = "IDLE", !.n = 0, !.fingers = 0]
<1>1. Neutral(tp) = new
  BY DEF Neutral
<1>2. new \in Taps
  <2>1. "IDLE" \in TapStates /\ 0 \in 0..3 /\ 0 \in Int
    BY DEF TapStates, PlainStates
  <2> QED
    BY <2>1, Zenon DEF Taps
<1>3. /\ new.state = "IDLE" /\ new.n = 0 /\ new.fingers = 0
      /\ new.pressed = tp.pressed /\ new.held = tp.held /\ new.map = tp.map
      /\ new.redundant = tp.redundant /\ new.bug = tp.bug /\ new.aborted = tp.aborted
      /\ new.enabled = tp.enabled /\ new.suspended = tp.suspended
  BY DEF Taps
<1> HIDE DEF new
<1>4. NumberFits(new.state, new.n)
  BY <1>3 DEF NumberFits, NumberedStates
<1>5. Sound(new)
  BY <1>2, <1>3, <1>4 DEF Sound, Holds
<1> QED
  BY <1>1, <1>3, <1>5

\* A structure at rest, with no touch that counts, satisfies the invariant.
LEMMA AtRestInv ==
  ASSUME role' \in [Touches -> Roles], walk' \in 0..NumTouches + 1,
         Sound(tap'), tap'.state = "IDLE", tap'.fingers = 0,
         \A t \in Touches : role'[t] # "finger"
  PROVE  Inv'
<1>1. Fingers(role') = {}
  BY DEF Fingers
<1>2. Cardinality(Fingers(role')) = 0
  BY <1>1, FS_EmptySet
<1>3. Counts(tap'.state, tap'.fingers)
  BY DEF Counts, FingersOf
<1> QED
  BY <1>2, <1>3 DEF Inv

LEMMA EnabledUpdateInv ==
  ASSUME Inv, NEW enabled \in BOOLEAN, NEW suspended \in BOOLEAN,
         EnabledUpdate(enabled, suspended)
  PROVE  Inv'
<1> DEFINE set == [tap EXCEPT !.enabled = enabled, !.suspended = suspended]
<1>1. walk' \in 0..NumTouches + 1
  BY DEF EnabledUpdate, Inv
<1>2. /\ Sound(set) /\ set.state = tap.state /\ set.fingers = tap.fingers
      /\ set.enabled = enabled /\ set.suspended = suspended
  <2>1. set \in Taps
    BY Zenon DEF Inv, Sound, Taps
  <2>2. SameButSettings(tap, set) /\ set.enabled = enabled /\ set.suspended = suspended
    BY <2>1 DEF Inv, Sound, SameButSettings, Taps
  <2> HIDE DEF set
  <2> QED
    BY <2>2, SettingsSound DEF Inv, SameButSettings
<1>3. CASE Active(set) = Active(tap)
  <2>1. tap' = set /\ role' = role
    BY <1>3 DEF EnabledUpdate
  <2> HIDE DEF set
  <2>2. Active(tap') <=> Active(tap)
    BY <1>3, <2>1
  <2> QED
    BY <1>1, <1>2, <2>1, <2>2 DEF Inv
<1>4. CASE Active(set) # Active(tap)
  <2> DEFINE q == IF Active(set) THEN set ELSE Released(set)
  <2>1. tap' = Neutral(q) /\ role' = AllPalms
    BY <1>4 DEF EnabledUpdate
  <2> HIDE DEF set
  <2>2. q \in Taps /\ Holds(q, 0) /\ ~q.bug /\ ~q.aborted
    <3>1. CASE Active(set)
      <4>1. ~Active(tap)
        BY <1>4, <3>1 DEF Active
      <4>2. set.n = 0
        BY <1>2, <4>1 DEF Inv, Sound, NumberFits, NumberedStates
      <4> QED
        BY <1>2, <3>1, <4>2 DEF Sound
    <3>2. CASE ~Active(set)
      <4>1. Released(set) \in Taps /\ Holds(Released(set), 0) /\ SameButButtons(set, Released(set))
        BY <1>2, AllReleased
      <4> QED
        BY <1>2, <3>2, <4>1 DEF Sound, SameButButtons
    <3> QED
      BY <3>1, <3>2
  <2> HIDE DEF q
  <2>3. Sound(tap') /\ tap'.state = "IDLE" /\ tap'.fingers = 0
    BY <2>1, <2>2, NeutralSound
  <2>4. role' \in [Touches -> Roles] /\ \A t \in Touches : role'[t] # "finger"
    BY <2>1 DEF AllPalms, Inv, Roles
  <2> QED
    BY <1>1, <2>3, <2>4, AtRestInv
<1> QED
  BY <1>3, <1>4

LEMMA SetMapInv ==
  ASSUME Inv, SetMap
  PROVE  Inv'
<1>1. PICK map \in Maps : tap' = UpdateMap([tap EXCEPT !.wantMap = map])
  BY DEF SetMap
<1> DEFINE tp == [tap EXCEPT !.wantMap = map]
<1>2. tp \in Taps
  BY Zenon DEF Inv, Sound, Taps
<1>3. /\ SameButSettings(tap, tp)
      /\ tp.enabled = tap.enabled /\ tp.suspended = tap.suspended
  BY <1>2 DEF Inv, Sound, SameButSettings, Taps
<1>4. tap' = UpdateMap(tp)
  BY <1>1
<1> HIDE DEF tp
<1>5. /\ Sound(tap') /\ tap'.state = tap.state /\ tap'.fingers = tap.fingers
      /\ tap'.enabled = tap.enabled /\ tap'.suspended = tap.suspended
  BY <1>3, <1>4, SettingsSound, MapUpdated DEF Inv, SameButSettings
<1> QED
  BY <1>5 DEF Inv, Active, SetMap

LEMMA SetDragInv ==
  ASSUME Inv, SetDrag \/ SetDragLock
  PROVE  Inv'
<1>1. /\ SameButSettings(tap, tap')
      /\ tap'.enabled = tap.enabled /\ tap'.suspended = tap.suspended
  <2>1. CASE SetDrag
    <3> DEFINE tp == [tap EXCEPT !.drag = ~tap.drag]
    <3>1. tp \in Taps
      BY Zenon DEF Inv, Sound, Taps
    <3>2. tap' = tp
      BY <2>1 DEF SetDrag
    <3>3. SameButSettings(tap, tp) /\ tp.enabled = tap.enabled /\ tp.suspended = tap.suspended
      BY <3>1 DEF Inv, Sound, SameButSettings, Taps
    <3> HIDE DEF tp
    <3> QED
      BY <3>2, <3>3
  <2>2. CASE SetDragLock
    <3>1. PICK lock \in DragLocks : tap' = [tap EXCEPT !.lock = lock]
      BY <2>2 DEF SetDragLock
    <3> DEFINE tp == [tap EXCEPT !.lock = lock]
    <3>2. tp \in Taps
      BY Zenon DEF Inv, Sound, Taps
    <3>3. SameButSettings(tap, tp) /\ tp.enabled = tap.enabled /\ tp.suspended = tap.suspended
      BY <3>2 DEF Inv, Sound, SameButSettings, Taps
    <3>4. tap' = tp
      BY <3>1
    <3> HIDE DEF tp
    <3> QED
      BY <3>3, <3>4
  <2> QED
    BY <2>1, <2>2
<1>2. role' = role /\ walk' = walk
  BY DEF SetDrag, SetDragLock
<1>3. Sound(tap')
  BY <1>1, SettingsSound DEF Inv
<1> QED
  BY <1>1, <1>2, <1>3 DEF Inv, Active, SameButSettings

LEMMA ClearStateInv ==
  ASSUME Inv, ClearState
  PROVE  Inv'
<1> DEFINE q == Released(tap)
<1>1. tap' = UpdateMap(Neutral(q)) /\ walk' \in 0..NumTouches + 1
  BY DEF ClearState, Inv
<1>2. role' \in [Touches -> Roles] /\ \A t \in Touches : role'[t] # "finger"
  BY DEF ClearState, Roles
<1>3. q \in Taps /\ Holds(q, 0) /\ ~q.bug /\ ~q.aborted
  BY AllReleased DEF Inv, Sound, SameButButtons
<1> HIDE DEF q
<1>4. Sound(Neutral(q)) /\ Neutral(q).state = "IDLE" /\ Neutral(q).fingers = 0
  BY <1>3, NeutralSound
<1>5. Sound(tap') /\ tap'.state = "IDLE" /\ tap'.fingers = 0
  BY <1>1, <1>4, MapUpdated
<1> QED
  BY <1>1, <1>2, <1>5, AtRestInv

-----------------------------------------------------------------------------
(* The theorems                                                            *)

LEMMA StepInv == Inv /\ [Next]_vars => Inv'
<1> SUFFICES ASSUME Inv, [Next]_vars PROVE Inv'
  OBVIOUS
<1>1. CASE \E press \in BOOLEAN : FrameBegin(press)
  BY <1>1, FrameBeginInv
<1>2. CASE \E t \in Touches : TouchStep(t)
  <2>1. PICK t \in Touches : TouchStep(t)
    BY <1>2
  <2>2. CASE Unchanged(t)
    BY <2>2, UnchangedInv
  <2>3. CASE \E as \in Roles \ {"up"} : Begin(t, as)
    BY <2>3, BeginInv
  <2>4. CASE \E edge \in BOOLEAN : End(t, edge)
    BY <2>4, EndInv
  <2>5. CASE \E to \in {"palm", "up"} : PalmFound(t, to)
    BY <2>5, PalmFoundInv
  <2>6. CASE ThumbIgnored(t)
    BY <2>6, ThumbIgnoredInv
  <2>7. CASE Motion(t)
    BY <2>7, MotionInv
  <2> QED
    BY <2>1, <2>2, <2>3, <2>4, <2>5, <2>6, <2>7 DEF TouchStep
<1>3. CASE FrameEnd
  BY <1>3, FrameEndInv
<1>4. CASE Timeout
  BY <1>4, TimeoutInv
<1>5. CASE SetEnabled \/ Suspend
  <2>1. tap.enabled \in BOOLEAN /\ tap.suspended \in BOOLEAN
    BY DEF Inv, Sound, Taps
  <2> QED
    BY <1>5, <2>1, EnabledUpdateInv DEF SetEnabled, Suspend
<1>6. CASE SetMap
  BY <1>6, SetMapInv
<1>7. CASE SetDrag \/ SetDragLock
  BY <1>7, SetDragInv
<1>8. CASE ClearState
  BY <1>8, ClearStateInv
<1>9. CASE UNCHANGED vars
  BY <1>9 DEF Inv, vars
<1> QED
  BY <1>1, <1>2, <1>3, <1>4, <1>5, <1>6, <1>7, <1>8, <1>9 DEF Next

(* However the frames, the timer and the configuration calls of            *)
(* evdev-mt-touchpad-tap.c follow each other, a tap structure without      *)
(* errors stays one whose state, count and buttons agree.                  *)
THEOREM Invariance == Spec => []Inv
<1>1. Init => Inv
  BY InitInv
<1>2. Inv /\ [Next]_vars => Inv'
  BY StepInv
<1> QED
  BY <1>1, <1>2, PTL DEF Spec

(* Every variable keeps its type: tap.n is a button number exactly in the  *)
(* states that carry one, and the count of fingers stays within the number *)
(* of touches.                                                             *)
THEOREM TypeCorrect == Spec => []TypeOK
<1>1. Inv => TypeOK
  <2> SUFFICES ASSUME Inv PROVE TypeOK
    OBVIOUS
  <2>1. tap.fingers \in 0..NumTouches
    BY FingersBounded
  <2>2. tap \in Taps /\ NumberFits(tap.state, tap.n)
    BY DEF Inv, Sound
  <2>3. /\ {tap.map, tap.wantMap} \subseteq Maps
        /\ {tap.timer, tap.drag, tap.enabled, tap.suspended, tap.redundant,
            tap.bug, tap.aborted} \subseteq BOOLEAN
    BY <2>2 DEF Taps
  <2> QED
    BY <2>1, <2>2, <2>3 DEF Inv, TypeOK, Taps, TapStates, NumberFits
<1> QED
  BY <1>1, Invariance, PTL

(* No order of touches that land, lift, turn into palms or thumbs, of      *)
(* timeouts and of configuration calls reaches log_tap_bug or fails an     *)
(* assertion on the count of fingers.                                      *)
THEOREM NeverATapBug == Spec => []NoTapBug
<1>1. Inv => NoTapBug
  BY DEF Inv, Sound, NoTapBug
<1> QED
  BY <1>1, Invariance, PTL

(* The state of the machine always speaks of as many fingers as it counts, *)
(* and it counts the touches that are neither palm nor thumb.              *)
THEOREM StateCountsFingers == Spec => []FingersMatchState
<1>1. Inv /\ TypeOK => FingersMatchState
  BY DEF Inv, Counts, Fingers, FingersMatchState
<1> QED
  BY <1>1, Invariance, TypeCorrect, PTL

(* The client holds the button of the tap the state carries and no other:  *)
(* no sequence of taps, drags, locks and calls leaves a button stuck down  *)
(* or reports one twice.                                                   *)
THEOREM NoButtonStuck == Spec => []ButtonsMatchState
<1>1. Inv => ButtonsMatchState
  BY DEF Inv, Sound, Holds, ButtonsMatchState
<1> QED
  BY <1>1, Invariance, PTL

=============================================================================
