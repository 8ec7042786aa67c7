---------------------------- MODULE ButtonDebounce ----------------------------
(***************************************************************************)
(* The button-debounce plugin of one device                                *)
(* (src/libinput-plugin-button-debounce.c).  Kernel frames enter through   *)
(* evdev_frame, the two plugin timers through debounce_timeout and         *)
(* debounce_timeout_short, and the plugin emits button events that the     *)
(* rest of libinput sees in place of the ones in the frame.                *)
(*                                                                         *)
(* A frame is the sequence of its button changes; motion and the other     *)
(* events of a frame pass through unchanged and are left out.  A frame is  *)
(* handled some time after the kernel stamped it: `age' is that delay.     *)
(***************************************************************************)
EXTENDS Naturals, Sequences, TimerList

CONSTANTS
  Buttons,          \* the evdev usages that are buttons
  NoButton,         \* button_usage before the first event (0)
  BounceTimeout,    \* DEBOUNCE_TIMEOUT_BOUNCE, 25 ms in the code
  SpuriousTimeout,  \* DEBOUNCE_TIMEOUT_SPURIOUS, 12 ms in the code
  MaxLag            \* bound: the oldest a frame can be when it is handled

ASSUME DebounceAssumption ==
  /\ NoButton \notin Buttons
  /\ MaxLag \in Nat
  /\ SpuriousTimeout \in Nat \ {0}
  /\ BounceTimeout \in Nat
  /\ SpuriousTimeout < BounceTimeout

VARIABLES
  present,   \* the plugin has a plugin_device for the device
  d,         \* struct plugin_device, and what it has sent downstream
  physical,  \* the buttons that are down in the kernel's view
  lag,       \* how long ago the last handled frame was stamped
  late       \* history: some frame was handled later than it was stamped

vars == <<present, d, physical, lag, late>>

Timers == {"bounce", "short"}

States == {"IS_UP", "IS_DOWN", "IS_DOWN_WAITING", "IS_UP_DELAYING",
           "IS_UP_DELAYING_SPURIOUS", "IS_UP_DETECTING_SPURIOUS",
           "IS_DOWN_DETECTING_SPURIOUS", "IS_UP_WAITING",
           "IS_DOWN_DELAYING", "DISABLED"}

Events == {"PRESS", "RELEASE", "TIMEOUT", "TIMEOUT_SHORT", "OTHERBUTTON"}

-----------------------------------------------------------------------------
(* What one event does in one state: the next state, the timers it sets    *)
(* and cancels, the notification, and whether it sets button_time.         *)

Stay == [to |-> "same", arm |-> {}, cancel |-> {}, notify |-> "none",
         stamp |-> FALSE, spurious |-> FALSE, bug |-> FALSE]

Go(s) == [Stay EXCEPT !.to = s]

\* log_debounce_bug: an event the state machine does not expect.
Bug == [Stay EXCEPT !.bug = TRUE]

IsUp(e) ==
  CASE e = "PRESS" -> [Go("IS_DOWN_WAITING") EXCEPT
                         !.arm = {"bounce"}, !.notify = "press", !.stamp = TRUE]
    [] e = "OTHERBUTTON" -> Stay
    [] OTHER -> Bug

IsDown(e, spurious) ==
  CASE e = "RELEASE" /\ spurious ->
         [Go("IS_UP_DELAYING_SPURIOUS") EXCEPT !.arm = Timers, !.stamp = TRUE]
    [] e = "RELEASE" /\ ~spurious ->
         [Go("IS_UP_DETECTING_SPURIOUS") EXCEPT
            !.arm = Timers, !.notify = "release", !.stamp = TRUE]
    [] e \in {"PRESS", "OTHERBUTTON"} -> Stay
    [] OTHER -> Bug

\* Slip: the release that follows a press is not debounced.
IsDownWaitingUnfiltered(e) ==
  CASE e = "RELEASE" -> [Go("IS_UP") EXCEPT
                           !.cancel = Timers, !.notify = "release", !.stamp = TRUE]
    [] e \in {"TIMEOUT", "OTHERBUTTON"} -> Go("IS_DOWN")
    [] OTHER -> Bug

IsDownWaiting(e) ==
  CASE e = "RELEASE" -> [Go("IS_UP_DELAYING") EXCEPT
                           !.arm = {"bounce"}, !.stamp = TRUE]
    [] e \in {"TIMEOUT", "OTHERBUTTON"} -> Go("IS_DOWN")
    [] OTHER -> Bug

\* Slip: the end of the delay forgets the release it held back.
IsUpDelayingForgetful(e) ==
  CASE e = "PRESS" -> [Go("IS_DOWN_WAITING") EXCEPT !.arm = {"bounce"}]
    [] e \in {"TIMEOUT", "OTHERBUTTON"} -> Go("IS_UP")
    [] OTHER -> Bug

IsUpDelaying(e) ==
  CASE e = "PRESS" -> [Go("IS_DOWN_WAITING") EXCEPT !.arm = {"bounce"}]
    [] e \in {"TIMEOUT", "OTHERBUTTON"} ->
         [Go("IS_UP") EXCEPT !.notify = "release"]
    [] OTHER -> Bug

\* Slip: a press is passed on although its release was held back.
IsUpDelayingSpuriousTwice(e) ==
  CASE e = "PRESS" -> [Go("IS_DOWN") EXCEPT !.cancel = Timers, !.notify = "press"]
    [] e = "TIMEOUT_SHORT" -> [Go("IS_UP_WAITING") EXCEPT !.notify = "release"]
    [] e = "OTHERBUTTON" -> [Go("IS_UP") EXCEPT !.notify = "release"]
    [] OTHER -> Bug

IsUpDelayingSpurious(e) ==
  CASE e = "PRESS" -> [Go("IS_DOWN") EXCEPT !.cancel = Timers]
    [] e = "TIMEOUT_SHORT" -> [Go("IS_UP_WAITING") EXCEPT !.notify = "release"]
    [] e = "OTHERBUTTON" -> [Go("IS_UP") EXCEPT !.notify = "release"]
    [] OTHER -> Bug

IsUpDetectingSpurious(e) ==
  CASE e = "PRESS" -> [Go("IS_DOWN_DETECTING_SPURIOUS") EXCEPT
                         !.arm = Timers, !.stamp = TRUE]
    [] e = "TIMEOUT_SHORT" -> Go("IS_UP_WAITING")
    [] e \in {"TIMEOUT", "OTHERBUTTON"} -> Go("IS_UP")
    [] OTHER -> Bug

IsDownDetectingSpurious(e) ==
  CASE e = "RELEASE" -> [Go("IS_UP_DETECTING_SPURIOUS") EXCEPT !.arm = Timers]
    [] e = "TIMEOUT_SHORT" ->
         [Go("IS_DOWN") EXCEPT !.cancel = {"bounce"}, !.spurious = TRUE,
                               !.notify = "press"]
    [] e \in {"TIMEOUT", "OTHERBUTTON"} ->
         [Go("IS_DOWN") EXCEPT !.notify = "press"]
    [] OTHER -> Bug

IsUpWaiting(e) ==
  CASE e = "PRESS" -> [Go("IS_DOWN_DELAYING") EXCEPT
                         !.arm = {"bounce"}, !.stamp = TRUE]
    [] e \in {"TIMEOUT", "OTHERBUTTON"} -> Go("IS_UP")
    [] OTHER -> Bug

IsDownDelaying(e) ==
  CASE e = "RELEASE" -> [Go("IS_UP_WAITING") EXCEPT !.arm = {"bounce"}]
    [] e \in {"TIMEOUT", "OTHERBUTTON"} ->
         [Go("IS_DOWN") EXCEPT !.notify = "press"]
    [] OTHER -> Bug

Disabled(e) ==
  CASE e = "PRESS" -> [Stay EXCEPT !.notify = "press", !.stamp = TRUE]
    [] e = "RELEASE" -> [Stay EXCEPT !.notify = "release", !.stamp = TRUE]
    [] e = "OTHERBUTTON" -> Stay
    [] OTHER -> Bug

Reaction(state, e, spurious) ==
  CASE state = "IS_UP" -> IsUp(e)
    [] state = "IS_DOWN" -> IsDown(e, spurious)
    [] state = "IS_DOWN_WAITING" -> IsDownWaiting(e)
    [] state = "IS_UP_DELAYING" -> IsUpDelaying(e)
    [] state = "IS_UP_DELAYING_SPURIOUS" -> IsUpDelayingSpurious(e)
    [] state = "IS_UP_DETECTING_SPURIOUS" -> IsUpDetectingSpurious(e)
    [] state = "IS_DOWN_DETECTING_SPURIOUS" -> IsDownDetectingSpurious(e)
    [] state = "IS_UP_WAITING" -> IsUpWaiting(e)
    [] state = "IS_DOWN_DELAYING" -> IsDownDelaying(e)
    [] OTHER -> Disabled(e)

-----------------------------------------------------------------------------
(* struct plugin_device after device_added, for a device opened while the  *)
(* buttons in `held' are down.  The fields after the timers are the        *)
(* plugin's output: `down' is what downstream has been told (relative to   *)
(* the key state it can read when the device is opened), `redundant' that  *)
(* it was told to press a button that is down or release one that is up,   *)
(* `bug' that log_debounce_bug or its like was reached.  `stampAge' and    *)
(* `sentAge' are the ages of button_time and of the time stamp last sent   *)
(* for the button in button_usage, `gap' is button_time minus the latter   *)
(* and `quiet' the time since it was sent (all capped at SpuriousTimeout); *)
(* `tooFast' is TRUE once two events sent for one button were nearer than  *)
(* that both by the clock and by their time stamps although neither was    *)
(* sent by a flush and no flush came between them: a flush starts all four *)
(* over, and what it sends is not compared with anything.                  *)
NewDevice(held) ==
  [state |-> "IS_UP", usage |-> NoButton, spurious |-> FALSE, want |-> FALSE,
   timers |-> EmptyList(Timers),
   down |-> held, redundant |-> FALSE, bug |-> FALSE,
   stampAge |-> SpuriousTimeout, sentAge |-> SpuriousTimeout,
   gap |-> SpuriousTimeout, quiet |-> SpuriousTimeout, tooFast |-> FALSE]

(* debounce_maybe_disable, called wherever the state becomes IS_UP. *)
Settle(state, want) == IF state = "IS_UP" /\ want THEN "DISABLED" ELSE state

(* debounce_set_timer before debounce_set_timer_short, as in every handler *)
(* that sets both; both count from the time stamp of the frame.            *)
Arm(tl, which, age) ==
  LET long == IF "bounce" \in which
                THEN SetTimer(tl, "bounce", BounceTimeout - age) ELSE tl
  IN  IF "short" \in which
        THEN SetTimer(long, "short", SpuriousTimeout - age) ELSE long

\* Slip: the short timer is left running.
CancelLongOnly(tl, which) ==
  IF "bounce" \in which THEN CancelTimer(tl, "bounce") ELSE tl

Cancel(tl, which) ==
  LET long == IF "bounce" \in which THEN CancelTimer(tl, "bounce") ELSE tl
  IN  IF "short" \in which THEN CancelTimer(long, "short") ELSE long

(* debounce_notify_button as seen downstream. *)
Notified(down, usage, notify) ==
  CASE notify = "press"   -> down \cup {usage}
    [] notify = "release" -> down \ {usage}
    [] OTHER -> down

Apart(sentAge, age) == IF sentAge > age THEN sentAge - age ELSE 0

(* debounce_handle_event: `age' is the age of the frame, 0 for a timer.    *)
React(dev, e, age) ==
  LET r       == Reaction(dev.state, e, dev.spurious)
      other   == e = "OTHERBUTTON"
      entry   == IF other THEN Cancel(dev.timers, Timers) ELSE dev.timers
      notify  == r.notify # "none"
      stamp   == IF r.stamp THEN age ELSE dev.stampAge
      gap     == IF r.stamp THEN Apart(dev.sentAge, age) ELSE dev.gap
  IN  [dev EXCEPT
        !.state = IF r.to = "same" THEN @ ELSE Settle(r.to, dev.want),
        !.timers = Arm(Cancel(entry, r.cancel), r.arm, age),
        !.spurious = @ \/ r.spurious,
        !.down = Notified(@, dev.usage, r.notify),
        !.redundant = @ \/ (r.notify = "press" /\ dev.usage \in dev.down)
                        \/ (r.notify = "release" /\ dev.usage \notin dev.down),
        !.bug = @ \/ r.bug \/ (r.spurious /\ dev.spurious),
        !.stampAge = stamp,
        !.gap = IF other THEN SpuriousTimeout ELSE gap,
        !.sentAge = IF other THEN SpuriousTimeout
                             ELSE IF notify THEN stamp ELSE @,
        !.quiet = IF other THEN SpuriousTimeout
                           ELSE IF notify THEN 0 ELSE @,
        !.tooFast = @ \/ (notify /\ ~other /\ ~r.spurious
                            /\ gap < SpuriousTimeout
                            /\ dev.quiet < SpuriousTimeout)]

Flush(dev, age) == React(dev, "OTHERBUTTON", age)

(* After a flush the state machine enters in the state that the coming     *)
(* change leaves: an entry state without timers.                           *)
Enter(dev, c) ==
  [dev EXCEPT !.state = IF @ = "DISABLED" THEN @
                        ELSE IF c.press THEN Settle("IS_UP", dev.want)
                        ELSE "IS_DOWN"]

Feed(dev, c, age) ==
  React([dev EXCEPT !.usage = c.button],
        IF c.press THEN "PRESS" ELSE "RELEASE", age)

\* Slip: another button takes over without a flush.
OneChangeUnflushed(dev, c, age) ==
  IF c.button = dev.usage
    THEN Feed(dev, c, age)
    ELSE Feed(Enter(dev, c), c, age)

(* debounce_plugin_handle_frame: a single change of the current button     *)
(* goes straight to the state machine, one of another button after a       *)
(* flush; with several changes every one is flushed before and after.      *)
OneChange(dev, c, age) ==
  IF c.button = dev.usage
    THEN Feed(dev, c, age)
    ELSE Feed(Enter(Flush(dev, age), c), c, age)

FlushedChange(dev, c, age) == Flush(Feed(Enter(dev, c), c, age), age)

TwoChanges(dev, c1, c2, age) ==
  FlushedChange(FlushedChange(Flush(dev, age), c1, age), c2, age)

-----------------------------------------------------------------------------
(* The kernel reports a change of a button as the opposite of its state.   *)
Toggle(b, down) == [button |-> b, press |-> b \notin down]

Toggled(b, down) == IF b \in down THEN down \ {b} ELSE down \cup {b}

LagCap == BounceTimeout + MaxLag

(* The frames of a device are handled in the order of their time stamps.   *)
FrameAges == {a \in 0..MaxLag : a <= lag}

Init ==
  /\ present = TRUE
  /\ physical \in SUBSET Buttons
  /\ d = NewDevice(physical)
  /\ lag = LagCap
  /\ late = FALSE

(* A frame with one button change.  A plugin that disabled itself gets no  *)
(* more frames (libinput_plugin_enable_device_event_frame), they go on to  *)
(* the next plugin as they are.  Nothing flushes the timers of the plugin  *)
(* first: libinput_timer_flush is called by the last plugin of the chain.  *)
Frame(b, age) ==
  /\ present
  /\ physical' = Toggled(b, physical)
  /\ d' = IF d.state = "DISABLED"
            THEN [d EXCEPT !.down = Toggled(b, @)]
            ELSE OneChange(d, Toggle(b, physical), age)
  /\ lag' = age
  /\ late' = (late \/ age > 0)
  /\ UNCHANGED present

(* A frame with two changes; of one button if it bounced within the frame. *)
DoubleFrame(b, c, age) ==
  /\ present
  /\ physical' = Toggled(c, Toggled(b, physical))
  /\ d' = IF d.state = "DISABLED"
            THEN [d EXCEPT !.down = Toggled(c, Toggled(b, @))]
            ELSE TwoChanges(d, Toggle(b, physical),
                            Toggle(c, Toggled(b, physical)), age)
  /\ lag' = age
  /\ late' = (late \/ age > 0)
  /\ UNCHANGED present

(* debounce_timeout and debounce_timeout_short.  The timers are fired for  *)
(* the current time, or by a flush for the older time stamp of a frame of  *)
(* any device.                                                             *)
Timeout(t, age) ==
  /\ FiresNext(d.timers, t, age)
  /\ d' = React([d EXCEPT !.timers = CancelTimer(@, t)],
                IF t = "bounce" THEN "TIMEOUT" ELSE "TIMEOUT_SHORT", 0)
  /\ UNCHANGED <<present, physical, lag, late>>

(* debounce_plugin_feature_disabled *)
FeatureDisabled ==
  /\ present
  /\ d' = [d EXCEPT !.want = TRUE]
  /\ UNCHANGED <<present, physical, lag, late>>

(* debounce_plugin_device_removed *)
DeviceRemoved ==
  /\ present
  /\ present' = FALSE
  /\ d' = [d EXCEPT !.timers = Cancel(@, Timers)]
  /\ UNCHANGED <<physical, lag, late>>

(* debounce_plugin_device_added, for the same device plugged in again with *)
(* any set of its buttons held.                                            *)
DeviceAdded ==
  /\ ~present
  /\ present' = TRUE
  /\ physical' \in SUBSET Buttons
  /\ d' = NewDevice(physical')
  /\ lag' = LagCap
  /\ UNCHANGED late

Older(x, cap) == IF x < cap THEN x + 1 ELSE x

Tick ==
  /\ d' = [d EXCEPT !.timers = Elapse(@, 0 - MaxLag),
                    !.stampAge = Older(@, SpuriousTimeout),
                    !.sentAge = Older(@, SpuriousTimeout),
                    !.quiet = Older(@, SpuriousTimeout)]
  /\ lag' = Older(lag, LagCap)
  /\ UNCHANGED <<present, physical, late>>

Next ==
  \/ \E a \in FrameAges, b \in Buttons : Frame(b, a)
  \/ \E a \in FrameAges, b, c \in Buttons : DoubleFrame(b, c, a)
  \/ \E a \in FrameAges, t \in Timers : Timeout(t, a)
  \/ FeatureDisabled
  \/ DeviceRemoved
  \/ DeviceAdded
  \/ Tick

(* The clock runs, and the event loop gets round to the timerfd.           *)
Fairness ==
  /\ WF_vars(Tick)
  /\ WF_vars(\E t \in Timers : Timeout(t, 0))

Spec == Init /\ [][Next]_vars

FairSpec == Spec /\ Fairness

-----------------------------------------------------------------------------
TimerLists ==
  [armed : SUBSET Timers, ahead : SUBSET (Timers \X Timers),
   left : [Timers -> -MaxLag..BounceTimeout]]

Device ==
  [state : States, usage : Buttons \cup {NoButton}, spurious : BOOLEAN,
   want : BOOLEAN, timers : TimerLists, down : SUBSET Buttons,
   redundant : BOOLEAN, bug : BOOLEAN, stampAge : 0..LagCap,
   sentAge : 0..LagCap, gap : 0..LagCap, quiet : 0..LagCap,
   tooFast : BOOLEAN]

(* The values the variables can have. *)
TypeOK ==
  /\ present \in BOOLEAN
  /\ d \in Device
  /\ physical \subseteq Buttons
  /\ lag \in 0..LagCap
  /\ late \in BOOLEAN

(* The state machine is never handed an event it calls a bug               *)
(* (log_debounce_bug): no late timer, no frame that overtakes a timer and  *)
(* no flush leaves it in a state that does not expect what comes next.     *)
NoStateMachineBug == ~d.bug

(* Downstream never gets a press of a button that is down or a release of  *)
(* one that is up, whatever debounce_notify_button was delayed or dropped. *)
PressesAlternate == ~d.redundant

(* Only the button in button_usage is ever withheld: every other button is *)
(* downstream what it is in the kernel.                                    *)
OtherButtonsInSync ==
  present => \A b \in Buttons \ {d.usage} : b \in d.down <=> b \in physical

(* In a state without a timer nothing is withheld: the plugin never parks  *)
(* in a state where downstream is wrong and nothing will correct it.       *)
NothingWithheldWithoutTimer ==
  present /\ d.timers.armed = {} => d.down = physical

(* In the states that wait for both timers the shorter one is nearer the   *)
(* head of the timer list, so that it fires first even when both expired.  *)
ShortFiresFirst ==
  d.timers.armed = Timers => <<"short", "bounce">> \in d.timers.ahead

(* As long as frames are handled when they are stamped, and while no flush *)
(* comes between them, two events sent for one button are SpuriousTimeout  *)
(* apart by the clock or by their time stamps, except for the one pair     *)
(* that makes the plugin enable spurious debouncing.  Only a frame with    *)
(* another button or with several changes flushes (OTHERBUTTON), and such  *)
(* a frame is not filtered: its changes, a press and a release of one      *)
(* button among them, are passed on at once, and what was withheld as well *)
(* (debounce_plugin_handle_frame).                                         *)
BounceFiltered == late \/ ~d.tooFast

(* Every state of a button reaches downstream or is taken back.            *)
ChangesDelivered ==
  \A b \in Buttons :
    /\ (b \in physical /\ present) ~> (b \in d.down \/ b \notin physical \/ ~present)
    /\ (b \notin physical /\ present) ~> (b \notin d.down \/ b \in physical \/ ~present)

=============================================================================
