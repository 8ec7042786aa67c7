--------------------------- MODULE TouchpadScroll ---------------------------
(* Which touch of a touchpad moves the pointer, which one scrolls and      *)
(* which one does nothing: thumbs (evdev-mt-touchpad-thumb.c), palms       *)
(* (tp_palm_detect), edge scrolling (evdev-mt-touchpad-edge-scroll.c) and  *)
(* circular scrolling (evdev-mt-touchpad-circular-scroll.c), in the order  *)
(* in which tp_handle_state asks them about each frame.                    *)
(*                                                                         *)
(* A touch is at one of a few points, in mm; whether it moved enough to    *)
(* scroll and how long it has been fast are inputs of the frame.  Left     *)
(* out: hovering and fake touches (TouchpadTouches), palms of typing and   *)
(* of the trackpoint (TouchpadTyping), the palm zone at the top, thumbs    *)
(* told by pressure and size.                                              *)
EXTENDS Integers, FiniteSets, FiniteSetsExt

CONSTANTS
  Pads,    \* the touchpads: touches, points, scroll methods and what they have
  Points   \* where fingers may be, in mm on a touchpad of Width by Height

Width  == 100
Height == 60
Methods == {"none", "2fg", "edge", "circular"}

ASSUME ScrollAssumption ==
  /\ Points \subseteq [x : 0..Width, y : 0..Height]
  /\ Pads \subseteq [touches : 1..3, points : SUBSET Points, methods : SUBSET Methods,
                     thumbs : BOOLEAN, palms : BOOLEAN, areas : BOOLEAN, open : BOOLEAN, pen : BOOLEAN]

VARIABLES
  pad,        \* the touchpad
  suspended,  \* is it suspended, though open for the sake of its top buttons
  pen,        \* is a pen in proximity of the tablet it is paired with
  s           \* the rest of struct tp_dispatch, and the axes that the client
              \* believes to be scrolling

vars == <<pad, suspended, pen, s>>

Edges    == {"right", "bottom"}
Axes     == {"vertical", "horizontal"}
Thumbs   == {"finger", "jailed", "pinch", "suppressed", "revived", "revived_jailed", "dead"}
Palms    == {"none", "edge", "hard", "arbitration"}
Nobody   == 0
Touches  == 1..pad.touches

NoTouch == [state |-> "none", dirty |-> FALSE, at |-> [x |-> 0, y |-> 0], age |-> 0, fast |-> 0,
            palm |-> "none", edge_state |-> "none", edge |-> {}, direction |-> "none",
            timer |-> FALSE, ring |-> "none", angle |-> FALSE]

Down(r)   == {i \in Touches : r.touch[i].state \in {"begin", "update"}}
There(r)  == {i \in Touches : r.touch[i].state # "none"}

-----------------------------------------------------------------------------
(* Thumbs                                                                  *)

UpperThumbLine == 51
LowerThumbLine == 55
Far(p, q)  == p - q > 25 \/ q - p > 25
Wide(p, q) == p - q > 35 \/ q - p > 35

ResetThumb(r)     == [r EXCEPT !.thumb = [state |-> "finger", index |-> Nobody, eligible |-> TRUE]]
LiftThumb(r)      == [r EXCEPT !.thumb.state = "finger", !.thumb.index = Nobody]
SetThumb(r, i, v) == [r EXCEPT !.thumb.state = v, !.thumb.index = i]

IsThumb(r, i, states) == pad.thumbs /\ r.thumb.index = i /\ r.thumb.state \in states
ThumbIgnored(r, i) == IsThumb(r, i, {"jailed", "pinch", "suppressed", "revived_jailed", "dead"})
ThumbIgnoredForGesture(r, i) == IsThumb(r, i, {"jailed", "suppressed", "revived_jailed", "dead"})

NeedsJail(r, i) ==
  /\ r.touch[i].at.y >= UpperThumbLine
  /\ r.method # "edge"
  /\ r.touch[i].fast < 2

Suppress(r, i) ==
  IF r.thumb.state \in {"finger", "jailed", "pinch"} \/ r.thumb.index # i
  THEN SetThumb(r, i, "suppressed") ELSE SetThumb(r, i, "dead")

Pinch(r, i) ==
  IF r.thumb.state \in {"finger", "jailed"} \/ r.thumb.index # i THEN SetThumb(r, i, "pinch")
  ELSE IF r.thumb.state # "pinch" THEN Suppress(r, i) ELSE r

\* Slip: a thumb that turned out to be a pinching finger stays out.
ReviveSuppressed(r, i) ==
  IF r.thumb.state # "suppressed" \/ r.thumb.index # i THEN r
  ELSE SetThumb(r, i, IF NeedsJail(r, i) THEN "revived_jailed" ELSE "revived")

Revive(r, i) ==
  IF r.thumb.state \notin {"suppressed", "pinch"} \/ r.thumb.index # i THEN r
  ELSE SetThumb(r, i, IF NeedsJail(r, i) THEN "revived_jailed" ELSE "revived")

\* tp_thumb_update_touch.  calm: no gesture is going on.
TooFast(r, i, calm) ==
  IF r.touch[i].fast = 2 /\ r.thumb.eligible /\ calm
  THEN [r EXCEPT !.thumb.eligible = FALSE,
                 !.thumb.state = IF @ = "pinch" /\ r.thumb.index \in Touches THEN "suppressed" ELSE @]
  ELSE r

Escape(r, i) ==
  IF NeedsJail(r, i) THEN r
  ELSE IF r.thumb.state = "jailed" THEN SetThumb(r, i, "finger")
  ELSE IF r.thumb.state = "revived_jailed" THEN SetThumb(r, i, "revived") ELSE r

UpdateThumb(r, i, calm) ==
  LET checked == TooFast(r, i, calm)
      back    == Revive(checked, i)
  IN IF ~pad.thumbs THEN r
     ELSE IF r.touch[i].state = "end" /\ i = r.thumb.index THEN LiftThumb(checked)
     ELSE IF Cardinality(Down(r)) > 1 THEN checked
     ELSE IF r.touch[i].state = "begin" /\ NeedsJail(r, i) THEN SetThumb(back, i, "jailed")
     ELSE Escape(back, i)

\* tp_thumb_update_multifinger.  Of several at one height the first counts.
Lowest(r, these) ==
  CHOOSE i \in these : \A j \in these :
    \/ r.touch[i].at.y > r.touch[j].at.y
    \/ r.touch[i].at.y = r.touch[j].at.y /\ i <= j

UpdateMultifinger(r) ==
  LET first  == Lowest(r, There(r))
      second == Lowest(r, There(r) \ {first})
      far_x  == Wide(r.touch[first].at.x, r.touch[second].at.x)
      far_y  == Far(r.touch[first].at.y, r.touch[second].at.y)
      newest == Max({i \in Touches : r.touch[i].state = "begin"})
  IN IF /\ r.thumb.state = "finger"
        /\ \E i \in There(r) : r.touch[i].fast > 0
        /\ r.method # "2fg" \/ far_x \/ far_y
     THEN Suppress(r, newest)
     ELSE IF ~far_x /\ ~far_y THEN LiftThumb(r)
     ELSE IF /\ \A i \in There(r) : r.touch[i].age = 0
             /\ r.touch[first].at.y < LowerThumbLine
     THEN LiftThumb(r)
     ELSE IF ~far_y THEN LiftThumb(r)
     ELSE IF r.thumb.eligible THEN Pinch(r, first) ELSE Suppress(r, first)

-----------------------------------------------------------------------------
(* Edge scrolling                                                          *)

EdgesAt(r, p) ==
  IF r.method # "edge" THEN {}
  ELSE {e \in Edges : IF e = "right" THEN p.x > Width - 7 ELSE p.y > Height - 7}

\* Slip: the timer is not cancelled when the finger has decided.
LateTimer(r, t, state) ==
  [t EXCEPT !.edge_state = state,
            !.timer = @ \/ (state = "edge_new" /\ ~pad.areas),
            !.edge = IF state = "edge_new" THEN EdgesAt(r, t.at)
                     ELSE IF state = "edge" THEN @ ELSE {}]

\* tp_edge_scroll_set_state.  With software buttons there is no timer.
EdgeState(r, t, state) ==
  [t EXCEPT !.edge_state = state,
            !.timer = state = "edge_new" /\ ~pad.areas,
            !.edge = IF state = "edge_new" THEN EdgesAt(r, t.at)
                     ELSE IF state = "edge" THEN @ ELSE {}]

\* tp_edge_scroll_handle_event; Unexpected are the events that it logs.
Unexpected(t, e) ==
  \/ t.edge_state = "none" /\ e # "touch"
  \/ t.edge_state # "none" /\ e = "touch"
  \/ t.edge_state = "edge" /\ e = "timeout"
  \/ t.edge_state = "area" /\ e \in {"timeout", "posted"}

\* A finger that leaves the edge it began in has no edge any more; one that
\* began in the corner and is already scrolling has to choose.
Narrowed(r, t) ==
  LET kept == t.edge \cap EdgesAt(r, t.at)
  IN IF kept = {} THEN EdgeState(r, t, "area") ELSE [t EXCEPT !.edge = kept]

EdgeEvent(r, t, e) ==
  IF Unexpected(t, e) THEN t
  ELSE CASE e = "touch"   -> EdgeState(r, t, IF EdgesAt(r, t.at) # {} THEN "edge_new" ELSE "area")
         [] e = "release" -> EdgeState(r, t, "none")
         [] e = "motion"  -> IF t.edge_state = "edge_new" \/ (t.edge_state = "edge" /\ t.edge = Edges)
                             THEN Narrowed(r, t) ELSE t
         [] e \in {"timeout", "posted"} ->
              IF t.edge_state = "edge_new" THEN EdgeState(r, t, "edge") ELSE t

Bug(r, i, e) == IF Unexpected(r.touch[i], e) THEN {<<r.touch[i].edge_state, e>>} ELSE {}

\* tp_edge_scroll_handle_state
EventOf == [begin |-> "touch", update |-> "motion", end |-> "release"]
Concerned(t) == t.dirty /\ t.state # "none"

HandleEdges(r) ==
  IF r.method # "edge" THEN
    [r EXCEPT !.touch = [i \in Touches |->
       [r.touch[i] EXCEPT !.edge_state = CASE r.touch[i].state = "begin" -> "area"
                                           [] r.touch[i].state = "end" -> "none"
                                           [] OTHER -> @]]]
  ELSE
    [r EXCEPT
       !.touch = [i \in Touches |->
         IF Concerned(r.touch[i]) THEN EdgeEvent(r, r.touch[i], EventOf[r.touch[i].state])
         ELSE r.touch[i]],
       !.bugs = @ \cup UNION {Bug(r, i, EventOf[r.touch[i].state]) :
                                i \in {j \in Touches : Concerned(r.touch[j])}}]

\* tp_edge_scroll_stop_events
StopEdges(r) ==
  [r EXCEPT
     !.touch = [i \in Touches |->
       IF r.touch[i].direction = "none" THEN r.touch[i]
       ELSE [r.touch[i] EXCEPT !.direction = "none", !.edge = {}, !.edge_state = "area"]],
     !.scrolling = @ \ {r.touch[i].direction : i \in Touches}]

\* What tp_edge_scroll_post_events does about touch i.  far: it moved along its
\* edge, and far enough if that is new.
AxisOf == [right |-> "vertical", bottom |-> "horizontal"]
Axis(t) == AxisOf[CHOOSE e \in t.edge : TRUE]

\* Slip: a touch that ends is skipped, it moves nothing any more.
SkippedAtEnd(r, i) ==
  LET t == r.touch[i]
  IN \/ ~t.dirty \/ t.state = "end" \/ t.palm # "none" \/ ThumbIgnored(r, i)
     \/ t.edge # {} /\ t.edge \cap EdgesAt(r, t.at) = {}
     \/ t.edge = Edges

Skipped(r, i) ==
  LET t == r.touch[i]
  IN \/ ~t.dirty \/ t.palm # "none" \/ ThumbIgnored(r, i)
     \/ t.edge # {} /\ t.edge \cap EdgesAt(r, t.at) = {}
     \/ t.edge = Edges
Ends(r, i)         == ~Skipped(r, i) /\ r.touch[i].edge = {}
Scrolls(r, i, far) == ~Skipped(r, i) /\ r.touch[i].edge # {} /\ i \in far

\* "unexpected scroll state": a touch that is in no edge has an edge nevertheless
Leftover(r, i)     == ~Skipped(r, i) /\ r.touch[i].edge # {}
                      /\ r.touch[i].edge_state \in {"none", "area"}

PostedEdge(r, i, far) ==
  LET t == r.touch[i]
  IN IF Ends(r, i) THEN [t EXCEPT !.direction = "none"]
     ELSE IF Scrolls(r, i, far) THEN [EdgeEvent(r, t, "posted") EXCEPT !.direction = Axis(t)]
     ELSE t

\* Of several touches the last one has the last word on its axis.
LastWord(r, axis, far) ==
  LET said == {i \in Touches : \/ Ends(r, i) /\ r.touch[i].direction = axis
                               \/ Scrolls(r, i, far) /\ Axis(r.touch[i]) = axis}
  IN IF said = {} THEN axis \in r.scrolling ELSE Scrolls(r, Max(said), far)

PostEdges(r, far) ==
  [r EXCEPT !.touch = [i \in Touches |-> PostedEdge(r, i, far)],
            !.scrolling = {a \in Axes : LastWord(r, a, far)},
            !.bugs = @ \cup (UNION {Bug(r, i, "posted") : i \in {j \in Touches : Scrolls(r, j, far)}})
                       \cup {<<r.touch[i].edge_state, "edge">> : i \in {j \in Touches : Leftover(r, j)}}]

-----------------------------------------------------------------------------
(* Circular scrolling.  The ring is 8 mm wide, the middle a circle of      *)
(* 1.5 mm in which no angle is taken.                                      *)

SquareTo(p) == (p.x - Width \div 2) * (p.x - Width \div 2)
               + (p.y - Height \div 2) * (p.y - Height \div 2)
OnRing(p)   == SquareTo(p) >= (Height \div 2 - 8) * (Height \div 2 - 8)
InMiddle(p) == SquareTo(p) <= 2

ResetRing(t) == [t EXCEPT !.ring = "none", !.angle = FALSE]

\* tp_circular_scroll_handle_state
HandleRing(t) ==
  CASE t.dirty /\ t.state = "begin" ->
         [t EXCEPT !.ring = IF OnRing(t.at) THEN "ring" ELSE "inner", !.angle = @ \/ OnRing(t.at)]
    [] t.dirty /\ t.state = "end" -> ResetRing(t)
    [] OTHER -> t

HandleRings(r) ==
  IF r.method # "circular" THEN r
  ELSE [r EXCEPT !.touch = [i \in Touches |-> HandleRing(r.touch[i])]]

\* tp_circular_scroll_stop_events
StopRings(r) ==
  IF r.method # "circular" THEN r
  ELSE [r EXCEPT
          !.scrolling = @ \ IF \E i \in Touches : r.touch[i].ring = "ring" THEN {"vertical"} ELSE {},
          !.touch = [i \in Touches |-> ResetRing(r.touch[i])]]

\* tp_circular_scroll_post_events
Turns(r, i) ==
  LET t == r.touch[i]
  IN t.dirty /\ t.ring = "ring" /\ t.palm = "none" /\ ~ThumbIgnored(r, i)

PostRings(r, far) ==
  IF r.method # "circular" THEN r
  ELSE [r EXCEPT
          !.touch = [i \in Touches |->
            IF Turns(r, i) THEN [r.touch[i] EXCEPT !.angle = ~InMiddle(r.touch[i].at)] ELSE r.touch[i]],
          !.scrolling = @ \cup IF \E i \in far : Turns(r, i) /\ r.touch[i].angle /\ ~InMiddle(r.touch[i].at)
                               THEN {"vertical"} ELSE {}]

Stop(r) == StopRings(StopEdges(r))

-----------------------------------------------------------------------------
(* Palms                                                                   *)

InPalmEdge(p) == p.x < 8 \/ p.x > Width - 8

EdgeActive(t)    == t.edge_state = "area"
RingActive(r, t) == r.method # "circular" \/ t.ring # "ring"

\* tp_touch_active and tp_touch_active_for_gesture, without button areas and
\* pinned fingers
Active(r, i) ==
  LET t == r.touch[i]
  IN /\ t.state \in {"begin", "update"} /\ t.palm = "none" /\ ~ThumbIgnored(r, i)
     /\ EdgeActive(t) /\ RingActive(r, t)
ActiveForGesture(r, i) ==
  LET t == r.touch[i]
  IN /\ t.state \in {"begin", "update"} /\ t.palm = "none" /\ ~ThumbIgnoredForGesture(r, i)
     /\ EdgeActive(t) /\ RingActive(r, t)

AmongFingers(r, i) ==
  /\ Cardinality(Down(r)) >= 2
  /\ \E j \in Touches \ {i} : Active(r, j)

\* tp_palm_detect of one touch.  hard: pressure, size or the tool type say that
\* it is a palm.  out: it moved out of the zone at the edge in time and straight.
PalmOf(r, i, hard, out) ==
  LET t == r.touch[i]
      p == IF t.palm = "hard" /\ ~hard THEN "none" ELSE t.palm
  IN IF r.arbitration # "off" THEN "arbitration"
     ELSE
     CASE p \in {"none", "hard"} /\ hard -> "hard"
       [] p = "edge" -> IF AmongFingers(r, i) \/ (out /\ ~InPalmEdge(t.at)) THEN "none" ELSE "edge"
       [] p = "none" /\ ~hard /\ t.state = "begin" /\ InPalmEdge(t.at)
            /\ "right" \notin EdgesAt(r, t.at) /\ ~AmongFingers(r, i) -> "edge"
       [] OTHER -> p

-----------------------------------------------------------------------------
(* A frame.  Each step takes a state to the set of states it may end in.   *)

Keep == [x |-> Width + 1, y |-> 0]
Lift == [x |-> Width + 2, y |-> 0]

\* What the kernel reports of a touch: it stays, lifts, lands or moves to a
\* point, with or without more than 100 ms gone by.
Reported(t, c, passed) ==
  LET older == [t EXCEPT !.age = IF t.state = "none" THEN 0 ELSE Min({1, @ + passed})]
  IN CASE c = Keep -> older
       [] c = Lift -> [older EXCEPT !.state = "end", !.dirty = TRUE, !.palm = "none", !.fast = 0]
       [] OTHER -> IF t.state = "none"
                   THEN [t EXCEPT !.state = "begin", !.dirty = TRUE, !.at = c, !.palm = "none",
                                  !.age = 0, !.fast = 0]
                   ELSE [older EXCEPT !.dirty = TRUE, !.at = c]

\* A touch counts the frames in which it is fast: 1 stands for six to nine, 2 for
\* ten or more.
Speeds(t) ==
  IF ~pad.thumbs \/ t.state # "update" THEN {0}
  ELSE {v \in 0..2 : v - t.fast \in IF t.dirty THEN {-1, 0, 1} ELSE {-1, 0}}

PalmInput == IF pad.palms THEN BOOLEAN ELSE {FALSE}

SetTouch(r, i, t) == [r EXCEPT !.touch = [j \in Touches |-> IF j = i THEN t ELSE r.touch[j]]]

Judge(r, i, hard, out, v) ==
  SetTouch(r, i, [r.touch[i] EXCEPT !.palm = PalmOf(r, i, hard, out), !.fast = v])

ProcessTouch(r, i, calm) ==
  IF r.touch[i].state = "none" THEN {r}
  ELSE IF ~r.touch[i].dirty THEN {SetTouch(r, i, [r.touch[i] EXCEPT !.fast = v]) : v \in Speeds(r.touch[i])}
  ELSE {Judge(u, i, hard, out, v) : u \in {UpdateThumb(r, i, calm)},
          hard \in PalmInput, out \in PalmInput, v \in Speeds(r.touch[i])}

\* tp_process_state.  calm: there is no gesture.
ProcessTouches(r, calm) ==
  LET one   == ProcessTouch(r, 1, calm)
      two   == IF pad.touches < 2 THEN one ELSE UNION {ProcessTouch(u, 2, calm) : u \in one}
      three == IF pad.touches < 3 THEN two ELSE UNION {ProcessTouch(u, 3, calm) : u \in two}
  IN three

Landed(r) == \E i \in Touches : r.touch[i].state = "begin"
NewThumb(r) ==
  IF pad.thumbs /\ Landed(r) /\ Cardinality(Down(r)) >= 2 THEN UpdateMultifinger(r) ELSE r

ProcessState(r, calm) ==
  LET found == {NewThumb(u) : u \in ProcessTouches(r, calm)}
  IN {HandleRings(u) : u \in {HandleEdges(u) : u \in found}}

\* The gestures may find that the lower of two fingers rests while the other one
\* moves (tp_gesture_detect_motion_gestures), or that the thumb has moved.
Hints(r) ==
  LET active == {i \in Touches : ActiveForGesture(r, i)}
      first  == Min(active)
      second == Min(active \ {first})
      lower  == IF r.touch[first].at.y > r.touch[second].at.y THEN first ELSE second
  IN IF ~pad.thumbs THEN {r}
     ELSE {r} \cup (IF Cardinality(active) >= 2 THEN {Suppress(r, lower)} ELSE {})
              \cup (IF r.thumb.index \in active THEN {ResetThumb(r)} ELSE {})

\* tp_edge_scroll_post_events, tp_circular_scroll_post_events
Moving(r) == {i \in Touches : r.touch[i].dirty /\ r.touch[i].state = "update"}
Post(r) ==
  UNION {{PostRings(u, far) : u \in {PostEdges(r, far)}} : far \in {Moving(r), {}}}

\* tp_post_events.  A click stops scrolling, and ignores motion unless it sends
\* no button; a tap ignores motion; typing and the trackpoint block everything.
PostEvents(r) ==
  IF suspended THEN {r}
  ELSE LET stopped == Stop(r)
           posted  == Post(r)
       IN posted \cup (UNION {Post(u) : u \in {stopped} \ {r}})
          \cup (UNION {Hints(u) : u \in {stopped} \cup posted})

\* tp_post_process_state.  Where a touch was and how old it is only matters to
\* thumbs.
Forget(t) == [t EXCEPT !.at = NoTouch.at, !.age = 0]

Settled(t) ==
  LET clean == [(IF pad.thumbs THEN t ELSE Forget(t)) EXCEPT !.dirty = FALSE]
  IN CASE t.state = "end"   -> [Forget(clean) EXCEPT !.state = "none", !.palm = "none"]
       [] t.state = "begin" -> [clean EXCEPT !.state = "update"]
       [] OTHER             -> clean

PostProcess(r) ==
  LET settled == [r EXCEPT !.touch = [i \in Touches |-> Settled(r.touch[i])]]
  IN IF Down(r) = {} THEN ResetThumb(settled) ELSE settled

HandleState(r, calm) ==
  {PostProcess(v) : v \in UNION {PostEvents(u) : u \in ProcessState(r, calm)}}

-----------------------------------------------------------------------------
(* What happens to the touchpad                                            *)

\* Where the time that passed matters, and where a gesture.
Young == \E i \in There(s) : s.touch[i].age = 0
Fast  == s.thumb.eligible /\ \E i \in Touches : s.touch[i].fast = 2

Frame ==
  /\ suspended => pad.open
  /\ \E c \in [Touches -> pad.points \cup {Keep, Lift}] :
       /\ \A i \in Touches : c[i] = Lift => s.touch[i].state # "none"
       /\ \E r \in {[s EXCEPT !.touch = [i \in Touches |-> Reported(s.touch[i], c[i], passed)]] :
                     passed \in IF pad.thumbs /\ Young THEN 0..1 ELSE {0}},
             calm \in IF Fast THEN BOOLEAN ELSE {TRUE} :
            s' \in HandleState(r, calm)
  /\ UNCHANGED <<pad, suspended, pen>>

\* tp_clear_state, which makes a frame of its own
Cleared(r) ==
  LET lifted == [r EXCEPT !.touch = [i \in Touches |->
                   IF r.touch[i].state = "none" THEN r.touch[i] ELSE Reported(r.touch[i], Lift, 0)]]
  IN HandleState(ResetThumb(lifted), TRUE)

\* tp_suspend, tp_resume.  A touchpad with top buttons stays open.
Suspend ==
  /\ ~suspended
  /\ s' \in Cleared(s)
  /\ suspended' = TRUE
  /\ UNCHANGED <<pad, pen>>

Resume ==
  /\ suspended
  /\ s' \in IF pad.open THEN Cleared(s) ELSE {s}
  /\ suspended' = FALSE
  /\ UNCHANGED <<pad, pen>>

\* tp_interface_toggle_touch and its timer.  The tablet calls it for each of its
\* frames.
PenIn ==
  /\ pad.pen
  /\ pen' = TRUE
  /\ s' \in IF s.arbitration # "off" THEN {s}
             ELSE {[u EXCEPT !.arbitration = "on"] : u \in Cleared(s)}
  /\ UNCHANGED <<pad, suspended>>

PenOut ==
  /\ pen
  /\ pen' = FALSE
  /\ s' = [s EXCEPT !.arbitration = IF @ = "off" THEN "off" ELSE "ending"]
  /\ UNCHANGED <<pad, suspended>>

ArbitrationTimeout ==
  /\ s.arbitration = "ending"
  /\ s' = [s EXCEPT !.arbitration = "off"]
  /\ UNCHANGED <<pad, suspended, pen>>

EdgeTimeout(i) ==
  /\ s.touch[i].timer
  /\ LET fired == [s.touch[i] EXCEPT !.timer = FALSE]
     IN s' = [s EXCEPT !.touch = [@ EXCEPT ![i] = EdgeEvent(s, fired, "timeout")],
                       !.bugs = @ \cup Bug(s, i, "timeout")]
  /\ UNCHANGED <<pad, suspended, pen>>

\* tp_scroll_config_scroll_method_set_method
SetMethod ==
  /\ \E m \in pad.methods \ {s.method} : s' = [Stop(s) EXCEPT !.method = m]
  /\ UNCHANGED <<pad, suspended, pen>>

\* tp_stop_actions: typing or the trackpoint begins
StopActions ==
  /\ s' = Stop(s)
  /\ UNCHANGED <<pad, suspended, pen>>

Init ==
  /\ pad \in Pads
  /\ suspended = FALSE /\ pen = FALSE
  /\ \E m \in pad.methods :
       s = [touch |-> [i \in Touches |-> NoTouch],
            thumb |-> [state |-> "finger", index |-> Nobody, eligible |-> TRUE],
            method |-> m, arbitration |-> "off", scrolling |-> {}, bugs |-> {}]

Next ==
  \/ Frame \/ Suspend \/ Resume \/ PenIn \/ PenOut \/ ArbitrationTimeout
  \/ SetMethod \/ StopActions
  \/ \E i \in Touches : EdgeTimeout(i)

Spec == Init /\ [][Next]_vars

-----------------------------------------------------------------------------
TypeOK ==
  /\ suspended \in BOOLEAN /\ pen \in BOOLEAN
  /\ s.touch \in [Touches -> [state : {"none", "update"}, dirty : {FALSE},
                              at : [x : 0..Width, y : 0..Height], age : 0..1, fast : 0..2, palm : Palms,
                              edge_state : {"none", "edge_new", "edge", "area"}, edge : SUBSET Edges,
                              direction : Axes \cup {"none"}, timer : BOOLEAN,
                              ring : {"none", "inner", "ring"}, angle : BOOLEAN]]
  /\ s.thumb \in [state : Thumbs, index : Touches \cup {Nobody}, eligible : BOOLEAN]
  /\ s.method \in pad.methods /\ s.arbitration \in {"off", "on", "ending"}
  /\ s.scrolling \subseteq Axes

\* A scroll sequence ends with a scroll value of 0 (libinput.h:1615): when no
\* finger is left on the touchpad the client believes no axis to be scrolling.
\* A finger lifted from the ring of a circular touchpad sends no such event.
ScrollsEnd == Down(s) = {} => s.scrolling = {}

\* Whatever ends a finger's scroll (its lift, a click, typing, a pen, another
\* method, the suspension) tells the client so: an axis that the client believes
\* to be scrolling has a finger on the touchpad that scrolls it.  Excluded are
\* touchpads where a finger that scrolls may be skipped as it lifts, which leaves
\* the scroll open: those that find palms, and those that find thumbs among three
\* fingers, one of which may land as the other lifts and make it a pinching
\* thumb; and circular ones, see ScrollsEnd.
EdgeScrollsHaveTouch ==
  ~pad.palms /\ "circular" \notin pad.methods /\ (pad.thumbs => pad.touches < 3) =>
    s.scrolling \subseteq {s.touch[i].direction : i \in Down(s)}

\* The machines of the edges meet no event in a state that does not expect it,
\* but for these, all after a click or a change of the method in mid-touch: a
\* finger that a click stopped, or that landed under another method, is in the
\* area when it lands again, still has its timer, or still has its edge.
KnownEdgeBugs == {<<"area", "touch">>, <<"none", "timeout">>, <<"area", "timeout">>, <<"area", "posted">>,
                  <<"area", "edge">>}
OnlyKnownEdgeBugs == TypeOK /\ s.bugs \subseteq KnownEdgeBugs

\* A thumb put aside because other fingers worked is a finger again as soon as
\* it is the only one and moves: nobody is left with a touchpad that ignores
\* his one finger.
ThumbRevives ==
  [][\A i \in Touches : Down(s') = {i} /\ i \in Down(s) /\ s'.touch[i].at # s.touch[i].at
       => ~(s'.thumb.index = i /\ s'.thumb.state \in {"pinch", "suppressed"})]_vars
=============================================================================
