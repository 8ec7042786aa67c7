---------------------------- MODULE TabletPlugins ----------------------------
(***************************************************************************)
(* The four internal plugins that repair what a tablet sends before the    *)
(* tablet dispatch sees it, in the order frames pass through them:         *)
(*   forced tool      for tablets that never send BTN_TOOL_PEN,            *)
(*   double tool      for tablets that send pen and rubber at once,        *)
(*   proximity timer  for tablets that never send BTN_TOOL_PEN 0,          *)
(*   eraser button    turns the eraser of a pen into a button.             *)
(* Each is a pure function of its state for one device (struct             *)
(* plugin_device) and a frame.  It returns the new state and the frames    *)
(* handed to the next plugin: those it prepends, then its own frame unless *)
(* that is empty.                                                          *)
(*                                                                         *)
(* A frame is the set of keys it presses, the set it releases, and whether *)
(* it holds axis events.  A key occurs at most once in a frame, the pen    *)
(* before any other tool.  Axis values, times, and the tools no plugin     *)
(* tells apart are left out.                                               *)
(***************************************************************************)
EXTENDS Integers, Sequences, FiniteSets

Tools == {"pen", "rubber", "mouse"}
Buttons == {"stylus", "stylus2"}
Keys == Tools \cup Buttons \cup {"touch"}
EraserButton == "stylus2"     \* the button the client configured

Frames == [on : SUBSET Keys, off : SUBSET Keys, axis : BOOLEAN]
EmptyFrame == [on |-> {}, off |-> {}, axis |-> FALSE]
Toggled(f) == f.on \cup f.off
IsEmpty(f) == Toggled(f) = {} /\ ~f.axis

Without(f, keys) == [f EXCEPT !.on = @ \ keys, !.off = @ \ keys]
Press(f, key) == [Without(f, {key}) EXCEPT !.on = @ \cup {key}]
Release(f, key) == [Without(f, {key}) EXCEPT !.off = @ \cup {key}]

NonEmpty(frames) == SelectSeq(frames, LAMBDA f : ~IsEmpty(f))
Result(state, frames) == [state |-> state, frames |-> NonEmpty(frames)]

-----------------------------------------------------------------------------
(* Forced tool (src/libinput-plugin-tablet-forced-tool.c).  The pen's bit  *)
(* is set as bit BTN_TOOL_PEN of a 32 bit mask, a shift that is undefined: *)
(* a build either wraps it onto bit PEN or loses it (pen_bit).             *)

ForcedStates == [loaded : BOOLEAN, pen_bit : BOOLEAN, tools : SUBSET Tools,
                 forced : BOOLEAN, outs : 0..2]
ForcedInit(pen_bit) ==
  [loaded |-> TRUE, pen_bit |-> pen_bit, tools |-> {}, forced |-> FALSE, outs |-> 0]

ForcedOnPen(p, f) ==
  CASE "pen" \in f.on -> [p EXCEPT !.tools = IF p.pen_bit THEN @ \cup {"pen"} ELSE @]
    [] "pen" \notin f.on /\ p.outs < 2 ->
         [p EXCEPT !.tools = IF p.pen_bit THEN @ \ {"pen"} ELSE @,
                   !.forced = FALSE, !.outs = @ + 1]
    [] OTHER -> [ForcedInit(p.pen_bit) EXCEPT !.loaded = FALSE]

ForcedAxis(p, f) ==
  IF f.axis /\ p.tools = {}
  THEN Result([p EXCEPT !.forced = TRUE], <<Press(f, "pen")>>)
  ELSE Result(p, <<f>>)

ForcedFrame(p, f) ==
  LET entering == f.on \cap Tools # {}
      q == [p EXCEPT !.tools = (@ \cup (f.on \cap Tools)) \ f.off,
                     !.forced = @ /\ ~entering]
  IN  CASE ~p.loaded -> Result(p, <<f>>)
        [] p.loaded /\ "pen" \in Toggled(f) -> Result(ForcedOnPen(p, f), <<f>>)
        [] p.loaded /\ "pen" \notin Toggled(f) /\ Toggled(f) \cap Tools # {} ->
             Result(q, IF entering /\ p.forced
                       THEN <<Release(EmptyFrame, "pen"), f>> ELSE <<f>>)
        [] OTHER -> ForcedAxis(p, f)

-----------------------------------------------------------------------------
(* Double tool (src/libinput-plugin-tablet-double-tool.c).  tools_seen     *)
(* keeps the toggles seen so far, TRUE for down.                           *)

PenAndRubber == {"pen", "rubber"}
DoubleStates == [loaded : BOOLEAN, ignore_pen : BOOLEAN, double : BOOLEAN,
                 seen : SUBSET (PenAndRubber \X BOOLEAN), down : SUBSET PenAndRubber]
DoubleInit == [loaded |-> TRUE, ignore_pen |-> FALSE, double |-> FALSE,
               seen |-> {}, down |-> {}]

DoubleSees(p, f) ==
  [p EXCEPT !.down = (@ \cup (f.on \cap PenAndRubber)) \ f.off,
            !.seen = IF p.double THEN @
                     ELSE @ \cup (f.on \cap PenAndRubber) \X {TRUE}
                            \cup (f.off \cap PenAndRubber) \X {FALSE}]

\* rubber after pen: q already knows the tools of the frame.
DoubleRubber(q, f) ==
  LET bare == Without(f, PenAndRubber)
  IN  IF "rubber" \in f.on
      THEN Result([q EXCEPT !.ignore_pen = TRUE, !.double = TRUE],
                  IF "pen" \in f.on THEN <<Press(bare, "rubber")>>
                  ELSE <<Release(bare, "pen"), Press(bare, "rubber")>>)
      ELSE Result([q EXCEPT !.ignore_pen = FALSE],
                  IF "pen" \in f.on
                  THEN <<Release(bare, "rubber"), Press(bare, "pen")>>
                  ELSE <<Release(bare, "rubber")>>)

\* pen after rubber
DoublePen(q, f) ==
  LET bare == Without(f, PenAndRubber)
  IN  IF q.ignore_pen \/ ("pen" \in Toggled(f) /\ "rubber" \in q.down)
      THEN Result([q EXCEPT !.ignore_pen = TRUE, !.double = TRUE], <<bare>>)
      ELSE Result(q, <<IF "pen" \in q.down THEN Press(bare, "pen") ELSE f>>)

\* The plugin's mask holds only the pen and the rubber: a frame without
\* either is not shown to it.
DoubleFrame(p, f) ==
  LET q == DoubleSees(p, f)
  IN  CASE ~p.loaded \/ Toggled(f) \cap PenAndRubber = {} -> Result(p, <<f>>)
        [] p.loaded /\ ~p.double /\ q.seen = PenAndRubber \X BOOLEAN ->
             Result([DoubleInit EXCEPT !.loaded = FALSE], <<f>>)
        [] "rubber" \in f.off \/ ("rubber" \in f.on /\ "pen" \in q.down) ->
             DoubleRubber(q, f)
        [] OTHER -> DoublePen(q, f)

-----------------------------------------------------------------------------
(* Proximity timer (src/libinput-plugin-tablet-proximity-timer.c).  recent *)
(* tells whether a frame came after the one the timer was last set from,   *)
(* so that it expires less than its timeout after the last frame.          *)

TimedKeys == Buttons \cup {"touch"}
ProxStates == [loaded : BOOLEAN, timer : BOOLEAN, recent : BOOLEAN, started : BOOLEAN,
               forced_out : BOOLEAN, button_state : SUBSET TimedKeys]
ProxInit == [loaded |-> TRUE, timer |-> FALSE, recent |-> FALSE, started |-> FALSE,
             forced_out |-> FALSE, button_state |-> {}]

SetProxTimer(p) == [p EXCEPT !.timer = TRUE, !.recent = FALSE]
UnloadProx(p) == [ProxInit EXCEPT !.loaded = FALSE]

ProxSees(p, f) ==
  LET q == [p EXCEPT !.started = TRUE, !.recent = TRUE,
                     !.button_state = (@ \cup (f.on \cap TimedKeys)) \ f.off]
  IN  IF p.started THEN q ELSE SetProxTimer(q)

ProxFrame(p, f) ==
  LET q == ProxSees(p, f)
  IN  CASE ~p.loaded -> Result(p, <<f>>)
        [] p.loaded /\ (Toggled(f) \cap (Tools \ {"pen"}) # {} \/ "pen" \in f.off) ->
             Result(UnloadProx(q), <<f>>)
        [] p.loaded /\ Toggled(f) \cap Tools = {"pen"} /\ "pen" \in f.on ->
             Result(SetProxTimer(q), <<f>>)
        [] OTHER ->
             IF p.forced_out
             THEN Result(SetProxTimer([q EXCEPT !.forced_out = FALSE]), <<Press(f, "pen")>>)
             ELSE Result(q, <<f>>)

\* tablet_proximity_out_quirk_timer_func
\* Slip: the timer is not set again after a frame that came since.
ProxTimeoutOnce(p) ==
  IF p.button_state # {} \/ p.recent THEN Result([p EXCEPT !.timer = FALSE], <<>>)
  ELSE Result([p EXCEPT !.timer = FALSE, !.forced_out = TRUE],
              <<Release(EmptyFrame, "pen")>>)
ProxTimeout(p) ==
  IF p.button_state # {} \/ p.recent THEN Result(SetProxTimer(p), <<>>)
  ELSE Result([p EXCEPT !.timer = FALSE, !.forced_out = TRUE],
              <<Release(EmptyFrame, "pen")>>)

-----------------------------------------------------------------------------
(* Eraser button (src/libinput-plugin-tablet-eraser-button.c).  Of         *)
(* last_frame only what is ever replayed is kept: it has no pen and no     *)
(* rubber.                                                                 *)

EraserModes == {"default", "button"}
EraserMachine == {"neutral", "pending_eraser", "held_down", "released"}
EraserStates == [mode : EraserModes, state : EraserMachine, timer : BOOLEAN,
                 pen : BOOLEAN, rubber : BOOLEAN, last : Frames]
EraserInit(mode) == [mode |-> mode, state |-> "neutral", timer |-> FALSE,
                     pen |-> FALSE, rubber |-> FALSE, last |-> EmptyFrame]

\* A step of the machine also decides whether the frame is kept (PROCESS).
Bare(f) == Without(f, PenAndRubber)
EStep(p, state, timer, frames, keep) ==
  [p |-> [p EXCEPT !.state = state, !.timer = timer], frames |-> frames, keep |-> keep]
EKeep(p) == EStep(p, p.state, p.timer, <<>>, TRUE)

EraserNeutral(p, f, event) ==
  CASE event = "pen_out" -> EStep(p, "pending_eraser", TRUE, <<>>, FALSE)
    [] event = "rubber_in" ->
         EStep(p, "held_down", p.timer,
               <<Press(Press(Bare(f), EraserButton), "pen")>>, FALSE)
    [] OTHER -> EKeep(p)
\* Slip: the pen stays in proximity when no eraser follows it.
EraserPendingNoOut(p, f, event) ==
  CASE event = "pen_in" -> EStep(p, "neutral", FALSE, <<>>, TRUE)
    [] event = "rubber_in" ->
         EStep(p, "held_down", FALSE, <<Press(Bare(f), EraserButton)>>, FALSE)
    [] event = "timeout" -> EStep(p, "neutral", FALSE, <<Bare(f)>>, TRUE)
    [] OTHER -> EKeep(p)
EraserPending(p, f, event) ==
  CASE event = "pen_in" -> EStep(p, "neutral", FALSE, <<>>, TRUE)
    [] event = "rubber_in" ->
         EStep(p, "held_down", FALSE, <<Press(Bare(f), EraserButton)>>, FALSE)
    [] event = "timeout" ->
         EStep(p, "neutral", FALSE, <<Release(Bare(f), "pen")>>, TRUE)
    [] OTHER -> EKeep(p)
EraserHeld(p, f, event) ==
  IF event = "rubber_out"
  THEN EStep(p, "released", TRUE, <<Release(p.last, EraserButton)>>, FALSE)
  ELSE EKeep(p)
EraserReleased(p, f, event) ==
  CASE event = "pen_in" -> EStep(p, "neutral", FALSE, <<Bare(f)>>, FALSE)
    [] event = "timeout" ->
         EStep(p, "neutral", FALSE,
               <<Release(Bare(f), EraserButton), Release(Bare(f), "pen")>>, TRUE)
    [] OTHER -> EKeep(p)

\* eraser_button_handle_state
EraserEvent(p, f, event) ==
  CASE p.state = "neutral" -> EraserNeutral(p, f, event)
    [] p.state = "pending_eraser" -> EraserPending(p, f, event)
    [] p.state = "held_down" -> EraserHeld(p, f, event)
    [] p.state = "released" -> EraserReleased(p, f, event)

\* Whatever leaves is handled first.
EraserEvents(p, f) ==
  LET pen == IF "pen" \in f.on THEN "pen_in" ELSE "pen_out"
      rubber == IF "rubber" \in f.on THEN "rubber_in" ELSE "rubber_out"
      both(first, second) ==
        LET one == EraserEvent(p, f, first)
            two == EraserEvent(one.p, f, second)
        IN  [two EXCEPT !.frames = one.frames \o @]
  IN  CASE PenAndRubber \subseteq Toggled(f) ->
             IF p.pen THEN both(rubber, pen) ELSE both(pen, rubber)
        [] Toggled(f) \cap PenAndRubber = {"rubber"} -> EraserEvent(p, f, rubber)
        [] Toggled(f) \cap PenAndRubber = {"pen"} -> EraserEvent(p, f, pen)
        [] OTHER -> EKeep(p)

\* The mask holds the pen, the rubber, the tip and the stylus buttons.
EraserFrame(p, f) ==
  LET seen == [p EXCEPT !.pen = (@ \/ "pen" \in f.on) /\ "pen" \notin f.off,
                        !.rubber = (@ \/ "rubber" \in f.on) /\ "rubber" \notin f.off]
      step == EraserEvents(seen, f)
  IN  IF p.mode = "default" \/ Toggled(f) \cap (Keys \ {"mouse"}) = {}
      THEN Result(p, <<f>>)
      ELSE IF step.keep
           THEN Result([step.p EXCEPT !.last = Bare(f)], step.frames \o <<f>>)
           ELSE Result(step.p, step.frames)

\* eraser_button_timer_func
EraserTimeout(p) ==
  LET step == EraserEvent([p EXCEPT !.timer = FALSE], p.last, "timeout")
  IN  Result(step.p, step.frames)
=============================================================================
