--------------------------- MODULE TouchpadSuspend ---------------------------
(***************************************************************************)
(* Suspending a touchpad (src/evdev-mt-touchpad.c).  The lid, a tablet     *)
(* mode switch, an external mouse and the client's send-events mode are    *)
(* four independent reasons; tp_suspend and tp_resume add and take away    *)
(* one at a time.  The reasons follow other devices of the seat: their     *)
(* events, and their coming, going and being disabled by the client        *)
(* (src/evdev.c), each delivered by a call in the middle of what happens   *)
(* to that other device.  A touchpad with top buttons stays open while it  *)
(* is suspended, any other is closed, and reopening may fail.              *)
(*                                                                         *)
(* One finger is one slot of the kernel.  Frames with several changes,     *)
(* what a touch is used for, and the rotation of the touchpad with a       *)
(* tablet are left out; the touchpad tells its fingers apart (has_mt).     *)
(***************************************************************************)
EXTENDS Integers, FiniteSets

CONSTANTS
  Slots,         \* the slots of the touchpad, tp->num_slots of them
  Mice,          \* devices tagged EVDEV_TAG_EXTERNAL_MOUSE
  Lid,           \* the lid switch
  TabletSwitch,  \* the tablet mode switch
  Keyboard,      \* the internal keyboard
  MaxActive      \* bound on nactive_slots, for TLC

Devices == Mice \cup {Lid, TabletSwitch, Keyboard}

ASSUME SuspendAssumption ==
  /\ IsFiniteSet(Slots)
  /\ MaxActive \in Nat
  /\ Lid \notin Mice \cup {TabletSwitch, Keyboard}
  /\ TabletSwitch \notin Mice \cup {Keyboard}
  /\ Keyboard \notin Mice

Reasons == {"mouse", "sendevents", "lid", "tablet"}
Modes == {"enabled", "disabled", "on_mouse"}
MouseStates == {"unpaired", "silent", "sent"}

VARIABLES
  contacts,  \* the slots with a finger on the surface
  tp,        \* the touchpad: struct tp_dispatch and its evdev_device
  mode,      \* sendevents.current_mode of the touchpad
  plugged,   \* the other devices of the seat's devices_list
  disabled,  \* those of them with is_suspended
  mice,      \* external_mice_list, and whether the mouse has sent events
  paired,    \* the switches whose listener the touchpad holds
  lid,       \* the lid part of the lid switch's fallback_dispatch
  tablet_on  \* tablet_mode.sw.state of the tablet mode switch

others == <<plugged, disabled, mice, paired, lid, tablet_on>>
vars == <<contacts, tp, mode, others>>

\* has_topbuttons never changes.  touches are those in TOUCH_BEGIN or
\* TOUCH_UPDATE, slots the tracking ids libevdev knows of; open_failed
\* remembers that the last attempt to reopen the device failed.
Touchpad == [has_topbuttons : BOOLEAN, suspend_reason : SUBSET Reasons,
             fd_open : BOOLEAN, is_suspended : BOOLEAN, open_failed : BOOLEAN,
             nactive_slots : 0..MaxActive, touches : SUBSET Slots,
             slots : SUBSET Slots]

\* is_closed, what the client was told of it, and whether the listener for
\* keys that prove the lid open is installed.
LidState == [is_closed : BOOLEAN, client_state : BOOLEAN, listens : BOOLEAN]

TypeOK ==
  /\ contacts \in SUBSET Slots
  /\ tp \in Touchpad
  /\ mode \in Modes
  /\ plugged \in SUBSET Devices /\ disabled \in SUBSET plugged
  /\ mice \in [Mice -> MouseStates]
  /\ paired \in SUBSET {Lid, TabletSwitch}
  /\ lid \in LidState
  /\ tablet_on \in BOOLEAN

-----------------------------------------------------------------------------
(* The touchpad's own functions, from one value of tp to the next.  ok is  *)
(* whether open_restricted succeeds if it is called.                       *)

\* Slip: the touches outlive the suspension.
ClearNothing(t) == t

ClearState(t) == [t EXCEPT !.touches = {}]

DeviceSuspend(t) ==
  [ClearState(t) EXCEPT !.is_suspended = TRUE, !.fd_open = FALSE]

DeviceResume(t, ok) ==
  IF t.fd_open \/ ~ok
  THEN [t EXCEPT !.open_failed = ~t.fd_open]
  ELSE [t EXCEPT !.fd_open = TRUE, !.is_suspended = FALSE,
                 !.open_failed = FALSE, !.slots = contacts]

\* Slip: fingers already down are not counted when the device resumes.
SyncNoSlots(t) == t

SyncSlots(t) == [t EXCEPT !.nactive_slots = @ + Cardinality(t.slots)]

Suspended(t, trigger) ==
  LET s == IF t.suspend_reason # {} THEN t
           ELSE IF t.has_topbuttons
           THEN [ClearState(t) EXCEPT !.is_suspended = TRUE]
           ELSE DeviceSuspend(ClearState(t))
  IN  [s EXCEPT !.suspend_reason = @ \cup {trigger}]

\* Slip: the touchpad resumes although other reasons remain.
ResumedAtOnce(t, trigger, ok) ==
  LET r == [t EXCEPT !.suspend_reason = @ \ {trigger}]
  IN  SyncSlots(IF r.has_topbuttons
                THEN [ClearState(r) EXCEPT !.is_suspended = FALSE]
                ELSE DeviceResume(r, ok))

Resumed(t, trigger, ok) ==
  LET r == [t EXCEPT !.suspend_reason = @ \ {trigger}]
  IN  IF r.suspend_reason # {} THEN r
      ELSE SyncSlots(IF r.has_topbuttons
                     THEN [ClearState(r) EXCEPT !.is_suspended = FALSE]
                     ELSE DeviceResume(r, ok))

\* The state of the touchpad becomes t, as far as TLC is to follow.
Becomes(t) == t.nactive_slots <= MaxActive /\ tp' = t

-----------------------------------------------------------------------------
(* Fingers.  The touchpad sees them while its device is open.              *)

Land(s) ==
  /\ s \notin contacts
  /\ contacts' = contacts \cup {s}
  /\ Becomes(IF ~tp.fd_open THEN tp
             ELSE [tp EXCEPT !.slots = @ \cup {s}, !.touches = @ \cup {s},
                             !.nactive_slots = @ + 1])
  /\ UNCHANGED <<mode, others>>

\* With nactive_slots at zero the end of a touch is not looked at.
Lift(s) ==
  /\ s \in contacts
  /\ contacts' = contacts \ {s}
  /\ Becomes(IF ~tp.fd_open THEN tp
             ELSE IF tp.nactive_slots = 0
             THEN [tp EXCEPT !.slots = @ \ {s}]
             ELSE [tp EXCEPT !.slots = @ \ {s}, !.touches = @ \ {s},
                             !.nactive_slots = @ - 1])
  /\ UNCHANGED <<mode, others>>

-----------------------------------------------------------------------------
(* Events of the other devices, as the touchpad's listeners see them.      *)

LidNotified(t, closed, ok) ==
  IF Lid \notin paired THEN t
  ELSE IF closed THEN Suspended(t, "lid") ELSE Resumed(t, "lid", ok)

TabletNotified(t, on, ok) ==
  IF TabletSwitch \notin paired THEN t
  ELSE IF on THEN Suspended(t, "tablet") ELSE Resumed(t, "tablet", ok)

MouseNotified(t, m) ==
  IF mice[m] # "unpaired" /\ mode = "on_mouse" THEN Suspended(t, "mouse")
  ELSE t

Active(d) == d \in plugged /\ d \notin disabled

\* The lid's own bookkeeping; the client is told when it believes otherwise.
LidMoves(closed) == [lid EXCEPT !.is_closed = closed, !.client_state = closed]

LidNotices(t, closed, ok) ==
  IF lid.client_state = closed THEN t ELSE LidNotified(t, closed, ok)

\* An SW_LID event.  Repeating the known state only sets the key listener.
LidEvent(closed, ok) ==
  /\ Active(Lid)
  /\ IF lid.is_closed = closed
     THEN /\ lid' = [lid EXCEPT !.listens = closed /\ Active(Keyboard)]
          /\ UNCHANGED tp
     ELSE /\ lid' = [LidMoves(closed) EXCEPT
                       !.listens = closed /\ Active(Keyboard)]
          /\ Becomes(LidNotices(tp, closed, ok))
  /\ UNCHANGED <<contacts, mode, plugged, disabled, mice, paired, tablet_on>>

\* Typing on the internal keyboard means that the lid is open.
KeyOpensLid == lid.listens /\ lid.is_closed

Key(ok) ==
  /\ Active(Keyboard)
  /\ KeyOpensLid
  /\ lid' = LidMoves(FALSE)
  /\ Becomes(LidNotices(tp, FALSE, ok))
  /\ UNCHANGED <<contacts, mode, plugged, disabled, mice, paired, tablet_on>>

TabletEvent(on, ok) ==
  /\ Active(TabletSwitch)
  /\ tablet_on # on
  /\ tablet_on' = on
  /\ Becomes(TabletNotified(tp, on, ok))
  /\ UNCHANGED <<contacts, mode, plugged, disabled, mice, paired, lid>>

MouseEvent(m) ==
  /\ Active(m)
  /\ mice' = [mice EXCEPT ![m] = IF @ = "unpaired" THEN @ ELSE "sent"]
  /\ Becomes(MouseNotified(tp, m))
  /\ UNCHANGED <<contacts, mode, plugged, disabled, paired, lid, tablet_on>>

-----------------------------------------------------------------------------
(* Devices that come and go.  The touchpad treats a device that the client *)
(* disables like one that is removed, and enabled like one that is added.  *)

PairedMice(d) == IF d \in Mice THEN [mice EXCEPT ![d] = "silent"] ELSE mice

PairedSwitches(d) == paired \cup ({d} \cap {Lid, TabletSwitch})

\* tp_interface_device_added: only a tablet mode switch is looked at.
Added(t, d, on) ==
  IF d = TabletSwitch /\ d \notin paired /\ on THEN Suspended(t, "tablet")
  ELSE t

\* Slip: a switch that is gone goes on suspending the touchpad.
SwitchForgotten(t, d, ok) == t

SwitchGone(t, d, ok) ==
  IF d \notin paired THEN t
  ELSE Resumed(t, IF d = Lid THEN "lid" ELSE "tablet", ok)

\* Whatever device it was that went: no mouse is left that has sent events.
NoMouseLeft(t, d, ok) ==
  IF mode = "on_mouse" /\ \A m \in Mice \ {d} : mice[m] # "sent"
  THEN Resumed(t, "mouse", ok) ELSE t

Removed(t, d, ok) == NoMouseLeft(SwitchGone(t, d, ok), d, ok)

Unpair(d) ==
  /\ mice' = IF d \in Mice THEN [mice EXCEPT ![d] = "unpaired"] ELSE mice
  /\ paired' = paired \ {d}

\* A new lid switch that is closed is believed only if it is reliable.
NewLid(closed, reliable) ==
  [is_closed |-> closed, client_state |-> closed /\ reliable, listens |-> FALSE]

\* evdev_notify_added_device with the post_added of the new device; on is
\* the state the switch is found in.
Plug(d, on, reliable) ==
  /\ d \in Devices \ plugged
  /\ plugged' = plugged \cup {d}
  /\ mice' = PairedMice(d) /\ paired' = PairedSwitches(d)
  /\ tablet_on' = IF d = TabletSwitch THEN on ELSE tablet_on
  /\ lid' = IF d = Lid THEN NewLid(on, reliable)
            ELSE IF d = Keyboard
            THEN [lid EXCEPT !.listens = lid.is_closed /\ Lid \in plugged]
            ELSE lid
  /\ Becomes(IF d = Lid /\ on /\ reliable THEN Suspended(tp, "lid")
             ELSE Added(tp, d, on))
  /\ UNCHANGED <<contacts, mode, disabled>>

\* evdev_device_remove: removed first, then suspended like below.
Unplug(d, ok) ==
  /\ d \in plugged
  /\ plugged' = plugged \ {d} /\ disabled' = disabled \ {d}
  /\ Unpair(d)
  /\ lid' = IF d = Lid THEN NewLid(FALSE, FALSE)
            ELSE IF d = Keyboard THEN [lid EXCEPT !.listens = FALSE] ELSE lid
  /\ Becomes(IF d \in disabled THEN Removed(tp, d, ok)
             ELSE NoMouseLeft(Removed(tp, d, ok), d, ok))
  /\ tablet_on' = (tablet_on /\ d # TabletSwitch)
  /\ UNCHANGED <<contacts, mode>>

\* evdev_device_suspend of another device.  A key or button that is held is
\* released first, which the listeners take for an event.
Disable(d, held, ok) ==
  /\ Active(d)
  /\ disabled' = disabled \cup {d}
  /\ Unpair(d)
  /\ lid' = IF d # Keyboard THEN lid
            ELSE IF held /\ KeyOpensLid
            THEN [LidMoves(FALSE) EXCEPT !.listens = FALSE]
            ELSE [lid EXCEPT !.listens = FALSE]
  /\ Becomes(Removed(
       IF held /\ d \in Mice THEN MouseNotified(tp, d)
       ELSE IF held /\ d = Keyboard /\ KeyOpensLid
       THEN LidNotices(tp, FALSE, ok) ELSE tp, d, ok))
  /\ UNCHANGED <<contacts, mode, plugged, tablet_on>>

\* evdev_device_resume of another device.
Enable(d) ==
  /\ d \in disabled
  /\ disabled' = disabled \ {d}
  /\ mice' = PairedMice(d) /\ paired' = PairedSwitches(d)
  /\ lid' = IF d = Keyboard
            THEN [lid EXCEPT !.listens = lid.is_closed /\ Lid \in plugged]
            ELSE lid
  /\ Becomes(Added(tp, d, tablet_on))
  /\ UNCHANGED <<contacts, mode, plugged, tablet_on>>

\* tp_sendevents_set_mode
SetMode(m, ok) ==
  /\ m # mode
  /\ mode' = m
  /\ Becomes(
       CASE m = "enabled" ->
              Resumed(Resumed(tp, "sendevents", ok), "mouse", ok)
         [] m = "disabled" ->
              Resumed(Suspended(tp, "sendevents"), "mouse", ok)
         [] m = "on_mouse" ->
              Resumed(IF plugged \cap Mice = {} THEN tp
                      ELSE Suspended(tp, "mouse"), "sendevents", ok))
  /\ UNCHANGED <<contacts, others>>

-----------------------------------------------------------------------------

\* The touchpad has just been added to a seat with some devices on it.
NewTouchpad(top) ==
  [has_topbuttons |-> top, suspend_reason |-> {}, fd_open |-> TRUE,
   is_suspended |-> FALSE, open_failed |-> FALSE,
   nactive_slots |-> Cardinality(contacts), touches |-> {}, slots |-> contacts]

Init ==
  /\ contacts \in SUBSET Slots /\ Cardinality(contacts) <= MaxActive
  /\ plugged \in SUBSET Devices
  /\ disabled = {}
  /\ mice = [m \in Mice |-> IF m \in plugged THEN "silent" ELSE "unpaired"]
  /\ paired = plugged \cap {Lid, TabletSwitch}
  /\ \E closed, reliable \in BOOLEAN :
       lid = NewLid(closed /\ Lid \in plugged, reliable)
  /\ tablet_on \in BOOLEAN /\ (tablet_on => TabletSwitch \in plugged)
  /\ mode = "enabled"
  /\ \E top \in BOOLEAN :
       tp = IF tablet_on
            THEN Suspended(NewTouchpad(top), "tablet") ELSE NewTouchpad(top)

Next ==
  \/ \E s \in Slots : Land(s)
  \/ \E s \in Slots : Lift(s)
  \/ \E closed, ok \in BOOLEAN : LidEvent(closed, ok)
  \/ \E ok \in BOOLEAN : Key(ok)
  \/ \E on, ok \in BOOLEAN : TabletEvent(on, ok)
  \/ \E m \in Mice : MouseEvent(m)
  \/ \E d \in Devices, on, reliable \in BOOLEAN : Plug(d, on, reliable)
  \/ \E d \in Devices, ok \in BOOLEAN : Unplug(d, ok)
  \/ \E d \in Devices, held, ok \in BOOLEAN : Disable(d, held, ok)
  \/ \E d \in Devices : Enable(d)
  \/ \E m \in Modes, ok \in BOOLEAN : SetMode(m, ok)

Spec == Init /\ [][Next]_vars

-----------------------------------------------------------------------------

\* Each reason stands for something that is so, however the other devices
\* and the client's calls interleave: the mode is disabled; the lid is closed
\* as the client knows, or the tablet switch is on, and the touchpad will hear
\* when that ends; a mouse is plugged in and the mode asks for it.  Where the
\* mode asks for it a mouse that has sent events is always a reason
\* (tp_suspend and its callers).
ReasonsExplained ==
  LET R == tp.suspend_reason IN
  /\ "sendevents" \in R <=> mode = "disabled"
  /\ "tablet" \in R <=> TabletSwitch \in paired /\ tablet_on
  /\ "lid" \in R => Lid \in paired /\ lid.client_state
  /\ "mouse" \in R => mode = "on_mouse" /\ plugged \cap Mice # {}
  /\ mode = "on_mouse" /\ (\E m \in Mice : mice[m] = "sent") => "mouse" \in R

\* The touchpad is marked suspended and, without top buttons, closed exactly
\* while there is a reason, unless the device could not be opened again
\* (tp_suspend, tp_resume, evdev_device_suspend, evdev_device_resume).
SuspendedMatchesReasons ==
  /\ tp.has_topbuttons => tp.fd_open
  /\ tp.suspend_reason # {} =>
       tp.is_suspended /\ (tp.fd_open => tp.has_topbuttons)
  /\ tp.suspend_reason = {} /\ ~tp.open_failed =>
       ~tp.is_suspended /\ tp.fd_open

\* A touch that is down has a finger in its slot, and nactive_slots never
\* falls short of the fingers down, or tp_process_absolute would not look at
\* the end of a touch (evdev-mt-touchpad.c:535).
TouchEndsSeen ==
  /\ tp.touches \subseteq tp.slots
  /\ tp.fd_open => tp.slots = contacts
  /\ tp.fd_open => Cardinality(tp.slots) <= tp.nactive_slots

\* What taps, gestures and motion see of the touchpad (tp_post_events looks
\* at is_suspended) implements the promise of SilentWhileSuspended.
Silence == INSTANCE SilentWhileSuspended WITH
  reasons <- tp.suspend_reason,
  reported <- IF tp.is_suspended THEN {} ELSE tp.touches

ImplementsSilence == Silence!Spec

=============================================================================
