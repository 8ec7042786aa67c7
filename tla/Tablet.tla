------------------------------- MODULE Tablet -------------------------------
(***************************************************************************)
(* A graphics tablet from the kernel's frames to the client's events: the  *)
(* plugins of TabletPlugins in front of the tablet dispatch                *)
(* (src/evdev-tablet.c), the queue that takes frames through them          *)
(* (src/libinput-plugin.c), and the touch screen that must ignore the hand *)
(* that holds the pen (the arbitration of src/evdev-fallback.c).           *)
(*                                                                         *)
(* One plugin, or the dispatch, handles one frame per step; nothing else   *)
(* runs until the queue is empty.  Contact comes from pressure when the    *)
(* tablet has it (0 below the lower threshold, 2 from the upper one on)    *)
(* and from BTN_TOUCH otherwise.  The client is a monitor of the events it *)
(* gets.  Tool identity, serial numbers, axis values and their history,    *)
(* rotation and the pressure offset heuristics are left out.               *)
(***************************************************************************)
EXTENDS TabletPlugins

CONSTANTS
  Models,   \* the tablets to consider, a set of records
  Rare      \* what the world may do that the code does not expect

\* proper: sends what happens.  sticky: never sends BTN_TOOL_PEN 0.
\* toolless: never sends BTN_TOOL_PEN.  doubled: pen and rubber overlap.
\* pen_bit is the build's, of TabletPlugins.
Kinds == {"proper", "sticky", "toolless", "doubled"}
\* suspend: the device is suspended with a tool around.  far_mouse: a mouse
\* leaves without ever having come below its threshold.
RareMoves == {"suspend", "far_mouse"}
AllModels == [kind : Kinds, tools : SUBSET Tools, pressure : BOOLEAN,
              tilt : BOOLEAN, area : BOOLEAN, pen_bit : BOOLEAN]

ASSUME TabletAssumption ==
  /\ Models \subseteq AllModels
  /\ Rare \subseteq RareMoves

Statuses == {"AXES_UPDATED", "BUTTONS_PRESSED", "BUTTONS_RELEASED", "IN_CONTACT",
             "LEAVING_PROXIMITY", "OUT_OF_PROXIMITY", "ENTERING_PROXIMITY",
             "ENTERING_CONTACT", "LEAVING_CONTACT", "OUT_OF_RANGE", "OUTSIDE_AREA"}
Arbitrations == {"not_active", "ignore_all", "ignore_rect"}
Stages == {"forced", "double", "timer", "eraser", "dispatch"}

VARIABLES
  model,    \* the tablet this behaviour is about
  kernel,   \* what the kernel knows of tool, keys, contact and position
  forced,   \* the four plugins' state for the tablet
  double,
  prox,
  eraser,
  queue,    \* the frames in flight: those the current plugin has still to
            \* see and those it has already passed on
  tablet,   \* struct tablet_dispatch
  touch,    \* the arbitration of the touch screen's fallback_dispatch
  client    \* the tool, tip and buttons the client was told of

plugins == <<forced, double, prox, eraser>>
vars == <<model, kernel, plugins, queue, tablet, touch, client>>

NoTool == "none"
\* tool is the tool in the tablet's range, down what the kernel has of it;
\* distance is 0 when the kernel has none and 2 beyond the mouse's threshold.
Kernel == [tool : Tools \cup {NoTool}, down : SUBSET Keys, pressure : 0..2,
           distance : 0..2, inside : BOOLEAN, tilted : BOOLEAN]
Queue == [stage : Stages, todo : Seq(Frames), done : Seq(Frames)]
TabletStates == [status : SUBSET Statuses, tool_state : SUBSET Tools,
                 prev_tool_state : SUBSET Tools, tool : Tools \cup {NoTool},
                 button_state : SUBSET Buttons, prev_button_state : SUBSET Buttons,
                 tilted : BOOLEAN, arbitration : Arbitrations, suspended : BOOLEAN,
                 tool_list : SUBSET Tools, want_mode : EraserModes]
TouchStates == [state : Arbitrations, in_arbitration : BOOLEAN, timer : BOOLEAN]
Client == [tool : Tools \cup {NoTool}, tip : BOOLEAN, held : SUBSET Buttons,
           wrong : BOOLEAN]

Idle == queue.todo = <<>>

-----------------------------------------------------------------------------
(* The dispatch, a function of r = [t, c, a, mode]: the tablet, client and *)
(* touch variables and the eraser plugin's mode.                           *)

Has(r, status) == status \in r.t.status
SetStatus(r, statuses) == [r EXCEPT !.t.status = @ \cup statuses]
UnsetStatus(r, statuses) == [r EXCEPT !.t.status = @ \ statuses]

\* Events as the client sees them: each must fit what it was told before.
Tell(r, fits, tool, tip, held) ==
  [r EXCEPT !.c = [tool |-> tool, tip |-> tip, held |-> held,
                   wrong |-> @.wrong \/ ~fits]]

\* tablet_process_event: EV_KEY and EV_ABS
ProcessEvents(r, f) ==
  LET tools == Toggled(f) \cap Tools
      pressed == f.on \cap Buttons
      released == f.off \cap Buttons
      contact == IF model.pressure THEN {}
                 ELSE (IF "touch" \in f.on THEN {"ENTERING_CONTACT"} ELSE {})
                      \cup (IF "touch" \in f.off THEN {"LEAVING_CONTACT"} ELSE {})
  IN  [r EXCEPT !.t.tool_state = (@ \cup (f.on \cap Tools)) \ f.off,
                !.t.button_state = (@ \cup pressed) \ released,
                !.t.status = @ \cup contact
                     \cup (IF pressed # {} THEN {"BUTTONS_PRESSED"} ELSE {})
                     \cup (IF released # {} THEN {"BUTTONS_RELEASED"} ELSE {})
                     \cup (IF f.axis THEN {"AXES_UPDATED"} ELSE {})]

\* The tool of the lowest bit that changed; the others are dropped.
LowestTool(tools) ==
  IF "pen" \in tools THEN "pen" ELSE IF "rubber" \in tools THEN "rubber" ELSE "mouse"

UpdateToolState(r) ==
  LET changed == (r.t.tool_state \ r.t.prev_tool_state)
                   \cup (r.t.prev_tool_state \ r.t.tool_state)
      tool == LowestTool(changed)
      q == [r EXCEPT !.t.prev_tool_state = r.t.tool_state]
  IN  CASE changed = {} -> r
        [] changed # {} /\ tool \in r.t.tool_state ->
             [SetStatus(UnsetStatus(q, {"OUT_OF_PROXIMITY"}), {"ENTERING_PROXIMITY"})
                EXCEPT !.t.tool = tool]
        [] OTHER -> IF Has(r, "OUT_OF_PROXIMITY") THEN q
                    ELSE SetStatus(q, {"LEAVING_PROXIMITY"})

\* tablet_update_proximity_state, for the mouse
UpdateProximity(r) ==
  LET out == Has(r, "OUT_OF_RANGE") \/ Has(r, "OUT_OF_PROXIMITY")
  IN  CASE kernel.distance = 1 /\ out ->
             [SetStatus(UnsetStatus(r, {"OUT_OF_RANGE", "OUT_OF_PROXIMITY"}),
                        {"ENTERING_PROXIMITY", "BUTTONS_PRESSED"})
                EXCEPT !.t.button_state = @ \cup r.t.prev_button_state,
                       !.t.prev_button_state = {}]
        [] kernel.distance = 2 /\ ~out ->
             IF Has(r, "ENTERING_PROXIMITY")
             THEN SetStatus(UnsetStatus(r, {"ENTERING_PROXIMITY"}), {"OUT_OF_RANGE"})
             ELSE SetStatus(r, {"LEAVING_PROXIMITY"})
        [] OTHER -> r

\* detect_tool_contact
DetectContact(r) ==
  CASE model.pressure /\ kernel.pressure = 0 /\ Has(r, "IN_CONTACT") ->
         SetStatus(r, {"LEAVING_CONTACT"})
    [] model.pressure /\ kernel.pressure = 2 /\ ~Has(r, "IN_CONTACT") ->
         SetStatus(r, {"ENTERING_CONTACT"})
    [] OTHER -> r

\* Events of the current tool fit when the client has that tool.
Current(r) == r.c.tool = r.t.tool

SendProximityIn(r) ==
  IF Has(r, "ENTERING_PROXIMITY")
  THEN UnsetStatus(Tell(r, r.c.tool = NoTool, r.t.tool, r.c.tip, r.c.held),
                   {"ENTERING_PROXIMITY", "AXES_UPDATED"})
  ELSE r

\* tablet_send_tip, else tablet_send_axes
SendTipOrAxes(r) ==
  CASE Has(r, "ENTERING_CONTACT") ->
         SetStatus(UnsetStatus(Tell(r, Current(r) /\ ~r.c.tip, r.c.tool, TRUE, r.c.held),
                               {"ENTERING_CONTACT", "AXES_UPDATED"}), {"IN_CONTACT"})
    [] ~Has(r, "ENTERING_CONTACT") /\ Has(r, "LEAVING_CONTACT") ->
         UnsetStatus(Tell(r, Current(r) /\ r.c.tip, r.c.tool, FALSE, r.c.held),
                     {"LEAVING_CONTACT", "IN_CONTACT", "AXES_UPDATED"})
    [] OTHER ->
         IF Has(r, "AXES_UPDATED")
         THEN UnsetStatus(Tell(r, Current(r), r.c.tool, r.c.tip, r.c.held), {"AXES_UPDATED"})
         ELSE r

\* tablet_send_buttons: the released ones first
SendButtons(r) ==
  LET cur == r.t.button_state
      prev == r.t.prev_button_state
      released == IF Has(r, "BUTTONS_RELEASED") THEN prev \ cur ELSE {}
      pressed == IF Has(r, "BUTTONS_PRESSED") THEN cur \ prev ELSE {}
      fits == /\ released \subseteq r.c.held
              /\ pressed \cap r.c.held = {}
              /\ released \cup pressed # {} => Current(r)
  IN  UnsetStatus(Tell(r, fits, r.c.tool, r.c.tip, (r.c.held \ released) \cup pressed),
                  {"BUTTONS_RELEASED", "BUTTONS_PRESSED"})

SendProximityOut(r) ==
  IF Has(r, "LEAVING_PROXIMITY")
  THEN Tell(r, Current(r) /\ ~r.c.tip /\ r.c.held = {}, NoTool, r.c.tip, r.c.held)
  ELSE r

\* The axes of a tool that leaves are not trusted; a mouse turns its tilt
\* into a rotation and has none.
SendEvents(r) ==
  LET axes == Has(r, "AXES_UPDATED") \/ Has(r, "ENTERING_PROXIMITY")
      q == CASE Has(r, "LEAVING_PROXIMITY") -> UnsetStatus(r, {"AXES_UPDATED"})
             [] ~Has(r, "LEAVING_PROXIMITY") /\ axes ->
                  [r EXCEPT !.t.tilted = kernel.tilted /\ r.t.tool # "mouse"]
             [] OTHER -> r
  IN  SendProximityOut(SendButtons(SendTipOrAxes(SendProximityIn(q))))

\* The tool leaves: its buttons and its tip are released first.
Leave(r) ==
  SetStatus([r EXCEPT !.t.button_state = {}],
            {"BUTTONS_RELEASED"} \cup (IF Has(r, "IN_CONTACT") THEN {"LEAVING_CONTACT"} ELSE {}))

\* A tool that enters outside the area is ignored until it has left.
Enter(r) ==
  IF kernel.inside THEN DetectContact(r)
  ELSE UnsetStatus(SetStatus(r, {"OUTSIDE_AREA"}), {"ENTERING_PROXIMITY"})

\* Once the tool is out, the eraser mode the client asked for takes effect
\* (tablet_tool_apply_eraser_button, the plugin's tool_configured): it is
\* the pen's configuration.
Left(r) ==
  [UnsetStatus(SetStatus(r, {"OUT_OF_PROXIMITY"}), {"LEAVING_PROXIMITY", "OUTSIDE_AREA"})
     EXCEPT !.mode = IF r.t.tool = "pen" THEN r.t.want_mode ELSE @]

FlushTool(r) ==
  LET q == CASE Has(r, "LEAVING_PROXIMITY") -> Leave(r)
             [] ~Has(r, "LEAVING_PROXIMITY") /\ ~Has(r, "OUTSIDE_AREA") ->
                  CASE Has(r, "ENTERING_PROXIMITY") -> Enter(r)
                    [] ~Has(r, "ENTERING_PROXIMITY") /\ Has(r, "AXES_UPDATED") ->
                         DetectContact(r)
                    [] OTHER -> r
             [] OTHER -> r
      sent == IF Has(q, "OUTSIDE_AREA") THEN q ELSE SendEvents(q)
  IN  IF Has(sent, "LEAVING_PROXIMITY") THEN Left(sent) ELSE sent

Flush(r) ==
  LET u == UpdateToolState(r)
      q == [u EXCEPT !.t.tool_list = @ \cup {u.t.tool}]
      m == IF q.t.tool = "mouse" THEN UpdateProximity(q) ELSE q
  IN  CASE u.t.tool = NoTool -> u
        [] u.t.tool # NoTool /\ (Has(m, "OUT_OF_PROXIMITY") \/ Has(m, "OUT_OF_RANGE")) -> m
        [] OTHER -> FlushTool(m)

\* fallback_interface_toggle_touch.  Touches come back a little after the
\* tool left, when the timer expires.
ToggleTouch(a, which) ==
  CASE which = a.state -> a
    [] which # a.state /\ which = "not_active" ->
         [a EXCEPT !.state = which, !.timer = TRUE]
    [] which # a.state /\ which = "ignore_rect" -> [a EXCEPT !.state = which]
    [] OTHER -> [state |-> which, in_arbitration |-> TRUE, timer |-> FALSE]

SetTouchDevice(r, which) ==
  [r EXCEPT !.t.arbitration = which, !.a = ToggleTouch(@, which)]

\* tablet_toggle_touch_device
\* Slip: a tool out of range still counts as present.
ToggleTouchDeviceLate(r) ==
  CASE Has(r, "LEAVING_PROXIMITY") -> SetTouchDevice(r, "not_active")
    [] ~Has(r, "LEAVING_PROXIMITY") /\ ~r.t.tilted -> SetTouchDevice(r, "ignore_all")
    [] OTHER -> SetTouchDevice(r, "ignore_rect")
ToggleTouchDevice(r) ==
  LET away == r.t.status \cap {"OUT_OF_RANGE", "LEAVING_PROXIMITY", "OUT_OF_PROXIMITY"} # {}
  IN  CASE away -> SetTouchDevice(r, "not_active")
        [] ~away /\ ~r.t.tilted -> SetTouchDevice(r, "ignore_all")
        [] OTHER -> SetTouchDevice(r, "ignore_rect")

\* tablet_reset_state
\* Slip: the buttons of this frame are not remembered.
KeepState(r) == r
ResetState(r) == [r EXCEPT !.t.prev_button_state = r.t.button_state]

\* tablet_process of one frame
State == [t |-> tablet, c |-> client, a |-> touch, mode |-> eraser.mode]
Process(f) == ResetState(ToggleTouchDevice(Flush(ProcessEvents(State, f))))
Becomes(r) ==
  /\ tablet' = r.t
  /\ client' = r.c
  /\ touch' = r.a

-----------------------------------------------------------------------------
(* The queue: breadth first, each plugin sees every frame before the next  *)
(* plugin sees any.                                                        *)

After(stage) ==
  CASE stage = "forced" -> "double"
    [] stage = "double" -> "timer"
    [] stage = "timer" -> "eraser"
    [] stage = "eraser" -> "dispatch"
    [] stage = "dispatch" -> "forced"

Empty == [stage |-> "forced", todo |-> <<>>, done |-> <<>>]
Enqueue(stage, frames) ==
  IF frames = <<>> THEN Empty ELSE [stage |-> stage, todo |-> frames, done |-> <<>>]

\* The head of the queue was handled and left frames to the next plugin.
PassOn(frames) ==
  LET done == queue.done \o frames
  IN  IF Len(queue.todo) > 1
      THEN [queue EXCEPT !.todo = Tail(@), !.done = done]
      ELSE Enqueue(After(queue.stage), done)

At(stage) == ~Idle /\ queue.stage = stage
frame == Head(queue.todo)
still == <<model, kernel>>
dispatch == <<tablet, touch, client>>

RunForced ==
  /\ At("forced")
  /\ LET r == ForcedFrame(forced, frame)
     IN  forced' = r.state /\ queue' = PassOn(r.frames)
  /\ UNCHANGED <<still, dispatch, double, prox, eraser>>

RunDouble ==
  /\ At("double")
  /\ LET r == DoubleFrame(double, frame)
     IN  double' = r.state /\ queue' = PassOn(r.frames)
  /\ UNCHANGED <<still, dispatch, forced, prox, eraser>>

RunProx ==
  /\ At("timer")
  /\ LET r == ProxFrame(prox, frame)
     IN  prox' = r.state /\ queue' = PassOn(r.frames)
  /\ UNCHANGED <<still, dispatch, forced, double, eraser>>

RunEraser ==
  /\ At("eraser")
  /\ LET r == EraserFrame(eraser, frame)
     IN  eraser' = r.state /\ queue' = PassOn(r.frames)
  /\ UNCHANGED <<still, dispatch, forced, double, prox>>

RunDispatch ==
  /\ At("dispatch")
  /\ Becomes(Process(frame))
  /\ eraser' = [eraser EXCEPT !.mode = Process(frame).mode]
  /\ queue' = PassOn(<<>>)
  /\ UNCHANGED <<still, forced, double, prox>>

\* Pens with an eraser never lie so still that they are taken for gone.
MayRest == model.kind \in {"sticky", "toolless"} \/ "rubber" \notin model.tools

\* A plugin's timer: its frames start at the plugin after it.
ProxExpires ==
  /\ Idle /\ prox.timer
  /\ prox.recent \/ prox.button_state # {} \/ MayRest
  /\ LET r == ProxTimeout(prox)
     IN  prox' = r.state /\ queue' = Enqueue("eraser", r.frames)
  /\ UNCHANGED <<still, dispatch, forced, double, eraser>>

EraserExpires ==
  /\ Idle /\ eraser.timer
  /\ LET r == EraserTimeout(eraser)
     IN  eraser' = r.state /\ queue' = Enqueue("dispatch", r.frames)
  /\ UNCHANGED <<still, dispatch, forced, double, prox>>

\* fallback_arbitration_timeout
TouchExpires ==
  /\ Idle /\ touch.timer
  /\ touch' = [touch EXCEPT !.timer = FALSE, !.in_arbitration = FALSE]
  /\ UNCHANGED <<still, plugins, queue, tablet, client>>

-----------------------------------------------------------------------------
(* The kernel: a frame says how its state changed.                         *)

\* The tool keys a tablet shows for the tool in its range.  A sticky tablet
\* keeps the pen's.  While a doubled tablet's plugin is loaded both keys may
\* be down; once it saw the tablet behave it trusts it, and so does this.
ToolKeys(tool) ==
  CASE model.kind = "proper" -> {{tool} \ {NoTool}}
    [] model.kind = "sticky" ->
         {IF tool = NoTool THEN kernel.down \cap Tools ELSE {tool}}
    [] model.kind = "toolless" -> {{}}
    [] model.kind = "doubled" ->
         CASE tool = NoTool ->
                {{}} \cup (IF PenAndRubber \subseteq kernel.down
                           THEN {{"pen"}, {"rubber"}} ELSE {})
           [] tool = "pen" -> {{"pen"}}
           [] tool = "rubber" ->
                {{"rubber"}}
                  \cup (IF double.loaded THEN {PenAndRubber} ELSE {})
                  \cup (IF double.loaded /\ "rubber" \notin kernel.down
                        THEN {{"pen"}} ELSE {})

\* A tool and its keys leave before another comes, and a mouse has no tip.
\* A tablet that never reports a tool says nothing when it leaves, and shows
\* a pen's position before its buttons.  A doubled tablet does not swap the
\* pen for the rubber in one frame nor presses a button in one that changes
\* them.  After an eraser left its pen comes back first.
Follows(tool, down, axis) ==
  /\ tool # kernel.tool =>
       \/ tool = NoTool
       \/ kernel.tool = NoTool /\ (kernel.down = {} \/ model.kind = "sticky")
  /\ tool = NoTool => down \subseteq Tools /\ (axis => kernel.tool # NoTool)
  /\ tool = "mouse" => "touch" \notin down
  /\ model.kind \in {"sticky", "toolless"} =>
       /\ tool # NoTool
       /\ axis \/ prox.started
  /\ ~(down \cap PenAndRubber = {"rubber"} /\ kernel.down \cap PenAndRubber = {"pen"})
  /\ model.kind = "doubled" /\ down \cap Tools # kernel.down \cap Tools =>
       down \cap Buttons \subseteq kernel.down
  /\ eraser.state = "released" => "rubber" \notin down \ kernel.down
  /\ tool # kernel.tool /\ "OUT_OF_RANGE" \in tablet.status => "far_mouse" \in Rare

\* Values that only an axis event changes.
AxisValues(k, axis) ==
  /\ k.pressure # 0 <=> model.pressure /\ "touch" \in k.down
  /\ k.tool = "mouse" <=> k.distance # 0
  /\ ~model.area => k.inside
  /\ ~model.tilt => ~k.tilted
  /\ ~axis => /\ k.pressure = kernel.pressure
              /\ k.distance = kernel.distance
              /\ k.inside = kernel.inside
              /\ k.tilted = kernel.tilted

KernelFrame ==
  /\ Idle /\ ~tablet.suspended
  /\ \E tool \in model.tools \cup {NoTool}, held \in SUBSET {"stylus", "touch"},
        pressure, distance \in 0..2, inside, tilted, axis \in BOOLEAN :
       \E tools \in ToolKeys(tool) :
         LET k == [tool |-> tool, down |-> tools \cup held, pressure |-> pressure,
                   distance |-> distance, inside |-> inside, tilted |-> tilted]
             f == [on |-> k.down \ kernel.down, off |-> kernel.down \ k.down,
                   axis |-> axis]
         IN  /\ Follows(tool, k.down, axis)
             /\ AxisValues(k, axis)
             /\ ~IsEmpty(f)
             /\ kernel' = k
             /\ queue' = Enqueue("forced", <<f>>)
  /\ UNCHANGED <<model, plugins, dispatch>>

\* The pen leaves the range of a tablet that does not say so.
Lift ==
  /\ Idle /\ ~tablet.suspended
  /\ model.kind \in {"sticky", "toolless"}
  /\ kernel.tool # NoTool /\ kernel.down \subseteq Tools
  /\ kernel' = [kernel EXCEPT !.tool = NoTool]
  /\ UNCHANGED <<model, plugins, queue, dispatch>>

-----------------------------------------------------------------------------
(* The client and the context.                                             *)

\* Between the two frames of a doubled tablet's tool that leaves.
HalfOut == model.kind = "doubled" /\ kernel.tool = NoTool /\ kernel.down # {}
ToolAround == kernel.tool # NoTool \/ client.tool # NoTool \/ HalfOut

\* libinput_tablet_tool_config_eraser_button_set_mode: takes effect at once
\* when no tool is in proximity.  The plugin's machine takes no notice, so
\* the mode is not changed while it waits, nor on a doubled tablet at all.
SetMode ==
  /\ Idle /\ ~eraser.timer
  /\ model.kind # "doubled" /\ model.tools = PenAndRubber
  /\ "pen" \in tablet.tool_list
  /\ \E mode \in EraserModes \ {tablet.want_mode} :
       /\ tablet' = [tablet EXCEPT !.want_mode = mode]
       /\ eraser' = [eraser EXCEPT !.mode =
            IF "OUT_OF_PROXIMITY" \in tablet.status THEN mode ELSE @]
  /\ UNCHANGED <<still, forced, double, prox, queue, touch, client>>

\* tablet_suspend: the tool leaves, without tablet_reset_state.
Suspend ==
  /\ Idle /\ ~tablet.suspended
  /\ ToolAround => "suspend" \in Rare
  /\ LET r == SetTouchDevice(State, "not_active")
         q == IF Has(r, "OUT_OF_PROXIMITY") THEN r
              ELSE Flush(SetStatus(r, {"LEAVING_PROXIMITY"}))
     IN  /\ tablet' = [q.t EXCEPT !.suspended = TRUE]
         /\ client' = q.c
         /\ touch' = q.a
         /\ eraser' = [eraser EXCEPT !.mode = q.mode]
  /\ UNCHANGED <<model, kernel, forced, double, prox, queue>>

\* evdev_device_resume: what happened meanwhile is read and discarded; the
\* tool is away by then.
Resume ==
  /\ Idle /\ tablet.suspended
  /\ tablet' = [tablet EXCEPT !.suspended = FALSE]
  /\ kernel' = [kernel EXCEPT !.tool = NoTool, !.pressure = 0, !.distance = 0,
                 !.down = IF model.kind = "sticky" THEN @ \cap Tools ELSE {}]
  /\ UNCHANGED <<model, plugins, queue, touch, client>>

-----------------------------------------------------------------------------
Init ==
  /\ model \in Models
  /\ kernel = [tool |-> NoTool, down |-> {}, pressure |-> 0, distance |-> 0,
               inside |-> TRUE, tilted |-> FALSE]
  /\ forced = ForcedInit(model.pen_bit)
  /\ double = DoubleInit
  /\ prox = ProxInit
  /\ eraser = EraserInit("default")
  /\ queue = Empty
  /\ tablet = [status |-> {"OUT_OF_PROXIMITY"}, tool_state |-> {},
               prev_tool_state |-> {}, tool |-> NoTool, button_state |-> {},
               prev_button_state |-> {}, tilted |-> FALSE,
               arbitration |-> "not_active", suspended |-> FALSE,
               tool_list |-> {}, want_mode |-> "default"]
  /\ touch = [state |-> "not_active", in_arbitration |-> FALSE, timer |-> FALSE]
  /\ client = [tool |-> NoTool, tip |-> FALSE, held |-> {}, wrong |-> FALSE]

Plugins == RunForced \/ RunDouble \/ RunProx \/ RunEraser
Timers == ProxExpires \/ EraserExpires \/ TouchExpires
Next ==
  \/ Plugins \/ RunDispatch \/ Timers
  \/ KernelFrame \/ Lift \/ SetMode \/ Suspend \/ Resume

\* Frames in flight are handled before anything else, so the queue is empty
\* again and again, and the timers run in every turn of the event loop.  The
\* pen and the client owe nothing.
Fairness ==
  /\ []<>Idle
  /\ WF_vars(ProxExpires) /\ WF_vars(EraserExpires) /\ WF_vars(TouchExpires)
Spec == Init /\ [][Next]_vars /\ Fairness

-----------------------------------------------------------------------------
TypeOK ==
  /\ model \in Models
  /\ kernel \in Kernel
  /\ forced \in ForcedStates
  /\ double \in DoubleStates
  /\ prox \in ProxStates
  /\ eraser \in EraserStates
  /\ queue.stage \in Stages
  /\ {queue.todo[i] : i \in DOMAIN queue.todo} \subseteq Frames
  /\ {queue.done[i] : i \in DOMAIN queue.done} \subseteq Frames
  /\ tablet \in TabletStates
  /\ touch \in TouchStates
  /\ client \in Client

\* Every event fits the ones before it: a tool comes into proximity when no
\* other is, its tip and buttons alternate, and it leaves with the tip up
\* and every button released, whatever the plugins made of the frames.
ClientWellFormed == TypeOK /\ ~client.wrong

\* With nothing in flight and no timer deciding, the client's tool is the one
\* in range: no tool is left in proximity, none that came is missed.  Not
\* reported are a mouse beyond its threshold, a tool that came outside the
\* area, and a pen that lies still for too long.
Undecided == eraser.timer \/ prox.timer \/ HalfOut
Unreported ==
  \/ kernel.tool = "mouse" /\ kernel.distance = 2
  \/ "OUTSIDE_AREA" \in tablet.status
  \/ prox.forced_out
ExpectedTools ==
  CASE kernel.tool = "rubber" /\ "rubber" \notin kernel.down -> {"pen"}
    [] "rubber" \in kernel.down /\ eraser.mode = "button" -> PenAndRubber
    [] OTHER -> {kernel.tool}
ToolMatchesKernel ==
  Idle /\ ~tablet.suspended /\ ~Undecided =>
    client.tool \in ExpectedTools \/ (client.tool = NoTool /\ Unreported)

\* The touch screen ignores the hand that holds a tool and only that one's:
\* while the client has a tool, touches are held back, wholly or around its
\* tip; once it has none, they are on their way back, with the timer running
\* if they were held back wholly.
TouchFollowsTool ==
  Idle =>
    /\ client.tool # NoTool => touch.state # "not_active"
    /\ touch.state # "not_active" =>
         client.tool # NoTool \/ "OUTSIDE_AREA" \in tablet.status
    /\ touch.state = "ignore_all" => touch.in_arbitration /\ ~touch.timer
    /\ touch.state = "not_active" /\ touch.in_arbitration => touch.timer

\* A tool that has gone is reported gone and touches are heard again, also
\* when the tablet never says that the tool left.
GoneIsReported ==
  kernel.tool = NoTool /\ ~HalfOut
    ~> \/ kernel.tool # NoTool
       \/ client.tool = NoTool /\ ~touch.in_arbitration

=============================================================================
