---------------------------- MODULE TouchpadClicks ----------------------------
(***************************************************************************)
(* The clicks of a clickpad (src/evdev-mt-touchpad-buttons.c): one button  *)
(* under the whole surface, whose meaning is where the touches are.  Each  *)
(* touch has a state machine and a timer that follow it through the button *)
(* areas; a click takes its button from all of them, or from the number of *)
(* fingers, and may have to wait for the first touch.  Clicks in the top   *)
(* areas are the buttons of the trackpoint, which may come and go.         *)
(*                                                                         *)
(* This module composes the machine with the touches of TouchpadTouches.   *)
(* Thumbs, palms, left-handedness, the clickfinger map, the motion within  *)
(* an area (has_moved) and touchpads with separate buttons are left out.   *)
(***************************************************************************)
EXTENDS TouchpadTouches

CONSTANTS
  Features,  \* of each of Models: what matters to clicks
  Rare       \* what the world may do that the code does not expect

\* Spots are places on the surface.  Those of "upper" are in a top area only
\* while that is enlarged, and left of the middle of the bottom there is a
\* middle button unless middle button emulation takes its place.
TopSpots == {"top_l", "top_m", "top_r"}
BottomSpots == {"bottom_l", "bottom_m", "bottom_r"}
AllSpots == TopSpots \cup BottomSpots \cup {"upper_l", "main"}
Methods == {"areas", "clickfinger", "none"}
Buttons == {"left", "middle", "right"}
\* trackpoint: a trackpoint comes while a suspended touchpad is clicked, or
\* goes while it has swallowed a click.
RareMoves == {"trackpoint"}

\* methods: those the client may choose, the one to begin with among them.
AllFeatures == [spots : SUBSET AllSpots, methods : SUBSET Methods, start : Methods,
                emulation : BOOLEAN, phantom : BOOLEAN]

ASSUME ClicksAssumption ==
  /\ Features \in [Models -> AllFeatures]
  /\ Rare \subseteq RareMoves

VARIABLES
  spot,    \* where each touch is
  btn,     \* the button state machine of each touch
  clicks,  \* tp->buttons
  client   \* the buttons the client holds down, of the touchpad and the trackpoint

vars == <<touchVars, spot, btn, clicks, client>>

None == "none"
ButtonStates == {"NONE", "AREA", "BOTTOM", "TOP", "TOP_NEW", "TOP_TO_IGNORE", "IGNORE"}
Zones == TopSpots \cup BottomSpots \cup {"area"}
Btn == [state : ButtonStates, current : Zones \cup {None}, timer : BOOLEAN]

\* clicked is the kernel's BTN_LEFT, state and old_state the driver's.
\* middle_area: the bottom has one for the middle button.
Clicks == [clicked : BOOLEAN, state : BOOLEAN, old_state : BOOLEAN,
           queued : SUBSET {"press", "release"}, pending : BOOLEAN,
           active : Buttons \cup {None}, is_top : BOOLEAN, method : Methods,
           emulation : BOOLEAN, want_emulation : BOOLEAN, middle_area : BOOLEAN,
           trackpoint : BOOLEAN]

\* wrong: a button was pressed or released twice.
Client == [pad : SUBSET Buttons, trackpoint : SUBSET Buttons, wrong : BOOLEAN]

features == Features[model]
Calm == Between /\ clicks.queued = {}

-----------------------------------------------------------------------------
(* The state machine of a touch.                                           *)

\* tp_button_handle_state: the area a spot is in.
Zone(s) ==
  CASE s \in BottomSpots /\ clicks.method = "areas" ->
         IF s = "bottom_m" /\ ~clicks.middle_area THEN "bottom_l" ELSE s
    [] s \in TopSpots /\ model.topbuttons -> s
    [] s = "upper_l" /\ model.topbuttons /\ pad.suspended -> "top_l"
    [] OTHER -> "area"

\* Slip: the timer of a touch that has left the top area goes on.
SetStateKeepTimer(b, state, event) ==
  [state |-> state,
   current |-> CASE state \in {"NONE", "IGNORE"} -> None
                 [] state = "AREA" -> "area"
                 [] state \in {"BOTTOM", "TOP_NEW"} -> event
                 [] OTHER -> b.current,
   timer |-> b.timer \/ state \in {"TOP_NEW", "TOP_TO_IGNORE"}]

\* tp_button_set_state.  The timer is that for entering, or leaving, the top.
SetState(b, state, event) ==
  [state |-> state,
   current |-> CASE state \in {"NONE", "IGNORE"} -> None
                 [] state = "AREA" -> "area"
                 [] state \in {"BOTTOM", "TOP_NEW"} -> event
                 [] OTHER -> b.current,
   timer |-> state \in {"TOP_NEW", "TOP_TO_IGNORE"}]

\* The moves of tp_button_*_handle_event: <<from, on, to>>.
Moved == {
  <<"NONE", "top", "TOP_NEW">>, <<"NONE", "bottom", "BOTTOM">>, <<"NONE", "area", "AREA">>,
  <<"BOTTOM", "other bottom", "BOTTOM">>,
  <<"BOTTOM", "top", "AREA">>, <<"BOTTOM", "area", "AREA">>,
  <<"TOP", "other top", "TOP_NEW">>,
  <<"TOP", "bottom", "TOP_TO_IGNORE">>, <<"TOP", "area", "TOP_TO_IGNORE">>,
  <<"TOP_NEW", "other top", "TOP_NEW">>,
  <<"TOP_NEW", "bottom", "AREA">>, <<"TOP_NEW", "area", "AREA">>,
  <<"TOP_NEW", "press", "TOP">>, <<"TOP_NEW", "timeout", "TOP">>,
  <<"TOP_TO_IGNORE", "same top", "TOP">>, <<"TOP_TO_IGNORE", "other top", "TOP_NEW">>,
  <<"TOP_TO_IGNORE", "timeout", "IGNORE">> }

Kinds(b, event) ==
  CASE event \in TopSpots ->
         {"top", IF event = b.current THEN "same top" ELSE "other top"}
    [] event \in BottomSpots ->
         {"bottom", IF event = b.current THEN "same bottom" ELSE "other bottom"}
    [] OTHER -> {event}

\* tp_button_handle_event
Handled(b, event) ==
  LET to == {m \in Moved : m[1] = b.state /\ m[2] \in Kinds(b, event)}
  IN  CASE event = "up" -> SetState(b, "NONE", event)
        [] event = "press" /\ b.state = "IGNORE" -> [b EXCEPT !.current = "area"]
        [] OTHER -> IF to = {} THEN b
                    ELSE SetState(b, (CHOOSE m \in to : TRUE)[3], event)

\* tp_button_handle_state; a release changes nothing in any state.
ButtonsHandled(p, at, queued) ==
  [i \in Index |->
     LET t == p.touch[i]
         b == IF t.state = "END" THEN Handled(btn[i], "up")
              ELSE IF t.dirty THEN Handled(btn[i], Zone(at[i])) ELSE btn[i]
     IN  CASE t.state \in {"NONE", "HOVERING"} -> btn[i]
           [] t.state \notin {"NONE", "HOVERING"} /\ "press" \in queued ->
                Handled(b, "press")
           [] OTHER -> b]

-----------------------------------------------------------------------------
(* Where the touches are.                                                  *)

Row(s) == CASE s \in TopSpots -> 1 [] s = "upper_l" -> 2
            [] s = "main" -> 3 [] OTHER -> 4

\* tp_position_fake_touches: while there are touches without a slot they are
\* where the topmost of the others is, and change with it.
RealTouches(p) == {i \in Index : i < p.num_slots /\ p.touch[i].state \notin {"END", "NONE"}}
Topmost(p, at) ==
  LET real == RealTouches(p)
  IN  {i \in real : \A j \in real : Row(at[i]) <= Row(at[j])}

HasFakes(p) == (IsOverflow(p) \/ FingerCount(p) > p.num_slots) /\ p.nfingers > 0
Fakes(p) == {i \in Index : /\ i >= (IF model.has_mt THEN p.num_slots ELSE 1)
                           /\ p.touch[i].state # "NONE"}

PositionedTouches(p, top) ==
  [p EXCEPT !.touch = [i \in Index |->
     LET t == p.touch[i]
     IN  IF i \in Fakes(p) THEN [t EXCEPT !.dirty = @ \/ p.touch[top].dirty] ELSE t]]
PositionedSpots(p, at, top) ==
  [i \in Index |-> IF i \in Fakes(p) THEN at[top] ELSE at[i]]

\* A slot without a touch has no place: the next touch there brings its own.
Placeless(i, state) == state = "NONE" /\ (model.has_mt \/ i > 0)
SpotsAfter(r, at) ==
  [i \in Index |-> IF Placeless(i, r.touch[i].state) THEN "main" ELSE at[i]]

-----------------------------------------------------------------------------
(* Telling the client.  k is the client.                                   *)

Press(k, b) == [k EXCEPT !.pad = @ \cup {b}, !.wrong = @ \/ b \in k.pad]
Release(k, b) == [k EXCEPT !.pad = @ \ {b}, !.wrong = @ \/ b \notin k.pad]
ViaTrackpoint(k, b, pressed) ==
  [k EXCEPT !.trackpoint = IF pressed THEN @ \cup {b} ELSE @ \ {b}]

\* tp_clickfinger_set_button; near: two fingers are close to each other.
FingerButton(p, near) ==
  LET n == Cardinality(Down(p))
  IN  CASE n <= 1 \/ (n = 2 /\ ~near) -> "left"
        [] n = 2 /\ near -> "right"
        [] n = 3 -> "middle"
        [] OTHER -> None

\* tp_notify_clickpadbutton, on r = [c, k].  While the touchpad is suspended
\* and there is a trackpoint only the top buttons work.
Notify(r, button, is_top, pressed, fingers) ==
  LET b == IF r.c.method = "clickfinger" /\ pressed THEN fingers ELSE button
      q == IF r.c.method = "clickfinger" /\ pressed
           THEN [r EXCEPT !.c.active = fingers] ELSE r
  IN  CASE r.c.trackpoint /\ is_top ->
             [r EXCEPT !.k = ViaTrackpoint(r.k, button, pressed)]
        [] r.c.trackpoint /\ ~is_top /\ pad.suspended -> r
        [] OTHER -> IF b = None THEN q
                    ELSE [q EXCEPT !.k = IF pressed THEN Press(r.k, b)
                                         ELSE Release(r.k, b)]

InLeft(zones) == zones \cap {"top_l", "bottom_l"} # {}
InRight(zones) == zones \cap {"top_r", "bottom_r"} # {}
InMiddle(zones) == zones \cap {"top_m", "bottom_m"} # {}

AreaButton(zones, is_top) ==
  CASE InMiddle(zones) \/ ((clicks.emulation \/ is_top) /\ InLeft(zones) /\ InRight(zones))
         -> "middle"
    [] ~InMiddle(zones) /\ InRight(zones) /\ ~((clicks.emulation \/ is_top) /\ InLeft(zones))
         -> "right"
    [] OTHER -> "left"

Decided(c, is_top, button) ==
  [c EXCEPT !.pending = FALSE, !.is_top = is_top, !.active = button]

\* Slip: a click that waits is not looked at again.
PostAtOnce(r, p, b, near) ==
  LET zones == {b[i].current : i \in Index} \ {None}
      is_top == zones \cap TopSpots # {}
      waits == \/ features.phantom /\ p.nactive = 0
               \/ zones = {} /\ r.c.method # "clickfinger"
      pressed == [r EXCEPT !.c = Decided(r.c, is_top, AreaButton(zones, is_top))]
      released == [r EXCEPT !.c = Decided(r.c, FALSE, None)]
  IN  CASE r.c.state = r.c.old_state -> r
        [] r.c.state # r.c.old_state /\ r.c.state ->
             IF waits THEN [r EXCEPT !.c.pending = TRUE]
             ELSE Notify(pressed, pressed.c.active, is_top, TRUE, FingerButton(p, near))
        [] OTHER -> IF r.c.active = None THEN released
                    ELSE Notify(released, r.c.active, r.c.is_top, FALSE, None)

\* tp_post_clickpadbutton_buttons.  The click waits while no touch has an area
\* and, on touchpads that click when they are bent, while there is no touch.
Post(r, p, b, near) ==
  LET zones == {b[i].current : i \in Index} \ {None}
      is_top == zones \cap TopSpots # {}
      waits == \/ features.phantom /\ p.nactive = 0
               \/ zones = {} /\ r.c.method # "clickfinger"
      pressed == [r EXCEPT !.c = Decided(r.c, is_top, AreaButton(zones, is_top))]
      released == [r EXCEPT !.c = Decided(r.c, FALSE, None)]
  IN  CASE ~r.c.pending /\ r.c.state = r.c.old_state -> r
        [] (r.c.pending \/ r.c.state # r.c.old_state) /\ r.c.state ->
             IF waits THEN [r EXCEPT !.c.pending = TRUE]
             ELSE Notify(pressed, pressed.c.active, is_top, TRUE, FingerButton(p, near))
        [] OTHER -> IF r.c.active = None THEN released
                    ELSE Notify(released, r.c.active, r.c.is_top, FALSE, None)

\* tp_clickpad_middlebutton_apply_config
ApplyEmulation(c) ==
  IF c.state \/ c.want_emulation = c.emulation THEN c
  ELSE [c EXCEPT !.emulation = c.want_emulation,
                 !.middle_area = IF c.method = "areas" THEN ~c.want_emulation ELSE @]

\* The buttons' share of tp_handle_state on the touches p at the spots at.
HandleButtons(c, p, at) ==
  LET b == ButtonsHandled(p, at, c.queued)
  IN  \E near \in BOOLEAN :
        LET r == Post([c |-> c, k |-> client], p, b, near)
        IN  /\ btn' = b
            /\ client' = r.k
            /\ clicks' = ApplyEmulation([r.c EXCEPT !.old_state = r.c.state,
                                                    !.queued = {}])

HandleClicks(c, r) ==
  LET p == PreProcess(r)
  IN  /\ IF HasFakes(p) /\ RealTouches(p) # {}
         THEN \E top \in Topmost(p, spot) :
                LET q == PositionedTouches(p, top)
                    at == PositionedSpots(p, spot, top)
                IN  HandleButtons(c, q, at) /\ spot' = SpotsAfter(PostProcess(q), at)
         ELSE HandleButtons(c, p, spot) /\ spot' = SpotsAfter(PostProcess(p), spot)

-----------------------------------------------------------------------------

\* The events of a frame, with the place of the touch.
Placed(s, at) == spot' = IF pad.open THEN [spot EXCEPT ![s] = at] ELSE spot

TouchBegins(s, contact, at) ==
  SlotBegins(s, contact) /\ Placed(s, at) /\ UNCHANGED <<btn, clicks, client>>

TouchMoves(s, contact, at) ==
  /\ Moves(s, contact)
  /\ Placed(s, IF Placeless(s, pad.touch[s].state) THEN "main" ELSE at)
  /\ UNCHANGED <<btn, clicks, client>>

TouchEnds(s) == SlotEnds(s) /\ UNCHANGED <<spot, btn, clicks, client>>
FingersChange(keys) == Keys(keys) /\ UNCHANGED <<spot, btn, clicks, client>>

\* tp_process_button
Click ==
  /\ clicks.queued = {}
  /\ LET down == ~clicks.clicked
     IN  clicks' = IF ~pad.open THEN [clicks EXCEPT !.clicked = down]
                   ELSE [clicks EXCEPT !.clicked = down, !.state = down,
                           !.queued = {IF down THEN "press" ELSE "release"}]
  /\ UNCHANGED <<touchVars, spot, btn, client>>

ReportClicks ==
  /\ Report
  /\ IF pad.open THEN HandleClicks(clicks, pad)
     ELSE UNCHANGED <<spot, btn, clicks, client>>

\* tp_button_handle_timeout
ButtonTimeout(i) ==
  /\ Calm /\ btn[i].timer
  /\ btn' = [btn EXCEPT ![i] = Handled([@ EXCEPT !.timer = FALSE], "timeout")]
  /\ UNCHANGED <<touchVars, spot, clicks, client>>

\* tp_button_config_click_set_method
SetClickMethod(m) ==
  /\ Calm /\ m # clicks.method
  /\ clicks' = [clicks EXCEPT !.method = m,
                  !.middle_area = IF m = "areas" THEN ~clicks.want_emulation ELSE @]
  /\ UNCHANGED <<touchVars, spot, btn, client>>

\* tp_clickpad_middlebutton_set
SetEmulation ==
  /\ Calm /\ features.emulation
  /\ clicks' = ApplyEmulation([clicks EXCEPT !.want_emulation = ~@])
  /\ UNCHANGED <<touchVars, spot, btn, client>>

\* Slip: a click goes on while the touchpad is cleared.
KeepButtons(c) == c

\* tp_release_all_buttons
ReleaseAllButtons(c) ==
  IF c.state THEN [c EXCEPT !.state = FALSE, !.queued = {"release"}] ELSE c

SuspendClicks ==
  /\ Suspend /\ clicks.queued = {}
  /\ HandleClicks(ReleaseAllButtons(clicks), Unrolled(pad))

\* The top area has its own size again after the touches are gone.
ResumeClicks ==
  /\ Resume /\ clicks.queued = {}
  /\ IF model.topbuttons THEN HandleClicks(ReleaseAllButtons(clicks), Unrolled(pad))
     ELSE UNCHANGED <<spot, btn, clicks, client>>

\* tp_pair_trackpoint: a click that is down is not the new trackpoint's.
AddTrackpoint ==
  /\ Calm /\ ~clicks.trackpoint
  /\ "trackpoint" \in Rare \/ ~(pad.suspended /\ clicks.active # None)
  /\ clicks' = [clicks EXCEPT !.trackpoint = TRUE, !.is_top = FALSE]
  /\ UNCHANGED <<touchVars, spot, btn, client>>

\* tp_interface_device_removed; the trackpoint releases its own buttons.
RemoveTrackpoint ==
  /\ Calm /\ clicks.trackpoint
  /\ "trackpoint" \in Rare \/ clicks.is_top \/ ~(pad.suspended /\ clicks.active # None)
  /\ clicks' = [clicks EXCEPT !.trackpoint = FALSE,
                              !.active = IF clicks.is_top THEN None ELSE @,
                              !.is_top = @ /\ clicks.active = None]
  /\ client' = [client EXCEPT !.trackpoint = {}]
  /\ UNCHANGED <<touchVars, spot, btn>>

-----------------------------------------------------------------------------

NoBtn == [state |-> "NONE", current |-> None, timer |-> FALSE]

Init ==
  /\ TouchesInit
  /\ spot = [i \in Index |-> "main"]
  /\ btn = [i \in Index |-> NoBtn]
  /\ clicks \in [clicked : BOOLEAN, state : {FALSE}, old_state : {FALSE}, queued : {{}},
                 pending : {FALSE}, active : {None}, is_top : {FALSE},
                 method : {features.start}, emulation : {FALSE},
                 want_emulation : {FALSE}, middle_area : {features.start = "areas"},
                 trackpoint : {FALSE, model.topbuttons}]
  /\ client = [pad |-> {}, trackpoint |-> {}, wrong |-> FALSE]

Next ==
  \/ \E s \in Slots, contact \in ContactValues, at \in features.spots :
       TouchBegins(s, contact, at)
  \/ \E s \in Slots, contact \in ContactValues, at \in features.spots :
       TouchMoves(s, contact, at)
  \/ \E s \in Slots : TouchEnds(s)
  \/ \E keys \in KeySets : FingersChange(keys)
  \/ Click
  \/ ReportClicks
  \/ \E i \in Index : ButtonTimeout(i)
  \/ \E m \in features.methods : SetClickMethod(m)
  \/ SetEmulation
  \/ SuspendClicks
  \/ ResumeClicks
  \/ model.topbuttons /\ AddTrackpoint
  \/ RemoveTrackpoint

Spec == Init /\ [][Next]_vars

-----------------------------------------------------------------------------

TypeOK ==
  /\ TouchesTypeOK
  /\ spot \in [Index -> AllSpots]
  /\ btn \in [Index -> Btn]
  /\ clicks \in Clicks
  /\ client \in Client

\* The client's buttons go down and up in turn, of one device at a time, and
\* none stays down when the click is over, whatever happened to the touches,
\* the trackpoint, the click method or the device while it was held
\* (tp_post_clickpadbutton_buttons, tp_notify_clickpadbutton, tp_clear_state).
ClicksInSync ==
  /\ TypeOK
  /\ ~client.wrong
  /\ Cardinality(client.pad) + Cardinality(client.trackpoint) <= 1
  /\ Calm /\ ~clicks.state => client.pad = {} /\ client.trackpoint = {}
  /\ client.pad \cup client.trackpoint \subseteq {clicks.active}

\* A click that is held is one button of the client's, or waits for a touch
\* that could say which and no longer than that.  A suspended touchpad with a
\* trackpoint swallows it; and with more than three fingers, or on a touchpad
\* with top buttons, whose click ends when the trackpoint goes, it may be left
\* without a button, which the last disjunct allows there at any time
\* (tp_post_clickpadbutton_buttons, tp_notify_clickpadbutton).
ClickDecided ==
  Calm /\ clicks.state =>
    \/ /\ clicks.pending
       /\ \/ \A i \in Index : btn[i].current = None
          \/ features.phantom /\ pad.nactive = 0
    \/ /\ ~clicks.pending /\ clicks.active # None
       /\ \/ client.pad \cup client.trackpoint = {clicks.active}
          \/ clicks.trackpoint /\ pad.suspended /\ ~clicks.is_top
    \/ /\ ~clicks.pending /\ clicks.active = None
       /\ model.topbuttons \/ ntouches > 3

\* The state machines follow the touches: a touch is in one exactly while it is
\* down, and its timer runs exactly while the machine has not decided
\* (tp_button_handle_state, tp_button_set_state).
ButtonsFollowTouches ==
  /\ Calm => \A i \in Index : pad.touch[i].state = "UPDATE" <=> btn[i].state # "NONE"
  /\ \A i \in Index : btn[i].timer <=> btn[i].state \in {"TOP_NEW", "TOP_TO_IGNORE"}
=============================================================================
