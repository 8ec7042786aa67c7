---------------------------- MODULE TouchpadTyping ----------------------------
(***************************************************************************)
(* Disable-while-typing and disable-while-trackpointing of a touchpad      *)
(* (src/evdev-mt-touchpad.c).  Listeners on the paired keyboards and the   *)
(* trackpoint suspend tapping and turn the touches that begin into palms;  *)
(* a timer for each ends that.  Both share one flag that suspends tapping. *)
(* Keyboards come and go, with keys held, and the client disables them and *)
(* changes the configuration at any time.                                  *)
(*                                                                         *)
(* Left out: the lengths of the timeouts (an armed timer fires at any      *)
(* moment), the buttons of the trackpoint, which are ignored, palms found  *)
(* by pressure, size, edges or arbitration, and what the suspension stops  *)
(* besides taps.  Of a time stamp only what it is compared with is kept;   *)
(* no two time stamps are taken to be equal.                               *)
(***************************************************************************)
EXTENDS Naturals

CONSTANTS
  Keyboards,   \* keyboards the touchpad pairs with
  TypingKeys,  \* keys that count as typing
  Modifiers,   \* modifiers other than shift
  OtherKeys,   \* shift and the keys of tp_key_ignore_for_dwt
  Touches      \* touches of the touchpad

Keys == TypingKeys \cup Modifiers \cup OtherKeys

ASSUME KeysAssumption ==
  /\ TypingKeys \cap (Modifiers \cup OtherKeys) = {}
  /\ Modifiers \cap OtherKeys = {}

VARIABLES
  paired,         \* the keyboards the touchpad listens to
  held,           \* the keys each keyboard has told its listeners are down
  dwt,            \* tp->dwt with its timer
  trackpoint,     \* tp->palm.trackpoint_*, dwtp_enabled and the listener
  tap_suspended,  \* tap.suspended
  palm,           \* what a touch is to the palm detection, or "up"
  after,          \* the touches that began after the last press or motion
  resting,        \* history: palms that saw typing or trackpoint go on
  orphans         \* history: keys that were down on a keyboard removed

vars == <<paired, held, dwt, trackpoint, tap_suspended, palm, after, resting,
          orphans>>

Palms == {"up", "none", "typing", "trackpoint"}

\* Three trackpoint events are as good as more.
EnoughEvents == 3

TypeOK ==
  /\ paired \in SUBSET Keyboards
  /\ held \in [Keyboards -> SUBSET Keys]
  /\ dwt \in [dwt_enabled : BOOLEAN, keyboard_active : BOOLEAN,
              key_mask : SUBSET TypingKeys, mod_mask : SUBSET Modifiers,
              timer : BOOLEAN]
  /\ trackpoint \in [listens : BOOLEAN, dwtp_enabled : BOOLEAN,
                     active : BOOLEAN, event_count : 0..EnoughEvents,
                     timer : BOOLEAN]
  /\ tap_suspended \in BOOLEAN
  /\ palm \in [Touches -> Palms]
  /\ after \in [{"press", "motion"} -> SUBSET Touches]
  /\ resting \in SUBSET Touches
  /\ orphans \in SUBSET Keys

Init ==
  /\ paired \in SUBSET Keyboards
  /\ held = [k \in Keyboards |-> {}]
  /\ dwt = [dwt_enabled |-> TRUE, keyboard_active |-> FALSE, key_mask |-> {},
            mod_mask |-> {}, timer |-> FALSE]
  /\ trackpoint \in [listens : BOOLEAN, dwtp_enabled : {TRUE},
                     active : {FALSE}, event_count : {0}, timer : {FALSE}]
  /\ tap_suspended = FALSE
  /\ palm = [t \in Touches |-> "up"]
  /\ after = [e \in {"press", "motion"} |-> {}]
  /\ resting = {}
  /\ orphans = {}

-----------------------------------------------------------------------------
(* The keyboard                                                            *)

\* keyboard_last_press_time and trackpoint_last_event_time are set to now.
GoesOn(e, kind) ==
  /\ after' = [after EXCEPT ![e] = {}]
  /\ resting' = resting \cup {t \in Touches : palm[t] = kind}

Typing(d, key) ==
  [d EXCEPT !.keyboard_active = TRUE, !.key_mask = @ \cup {key}, !.timer = TRUE]

Modified(d, key) == [d EXCEPT !.mod_mask = @ \cup {key}]

\* intentional: a gesture, scrolling, a drag, a click or a long motion is
\* under way that cannot be accidental.
KeyPress(k, key, intentional) ==
  /\ k \in paired
  /\ key \notin held[k]
  /\ held' = [held EXCEPT ![k] = @ \cup {key}]
  /\ \/ /\ key \in OtherKeys \/ ~dwt.dwt_enabled
        /\ UNCHANGED <<dwt, tap_suspended, after, resting>>
     \/ /\ key \in Modifiers /\ dwt.dwt_enabled
        /\ dwt' = Modified(dwt, key)
        /\ UNCHANGED <<tap_suspended, after, resting>>
     \/ /\ key \in TypingKeys /\ dwt.dwt_enabled
        /\ ~dwt.keyboard_active /\ (intentional \/ dwt.mod_mask # {})
        /\ UNCHANGED <<dwt, tap_suspended, after, resting>>
     \/ /\ key \in TypingKeys /\ dwt.dwt_enabled
        /\ dwt.keyboard_active \/ (~intentional /\ dwt.mod_mask = {})
        /\ dwt' = Typing(dwt, key)
        /\ tap_suspended' = (tap_suspended \/ ~dwt.keyboard_active)
        /\ GoesOn("press", "typing")
  /\ UNCHANGED <<paired, trackpoint, palm, orphans>>

\* The masks are shared by the keyboards.
Cleared(d, keys) ==
  [d EXCEPT !.key_mask = @ \ keys, !.mod_mask = @ \ keys]

KeyRelease(k, key) ==
  /\ k \in paired
  /\ key \in held[k]
  /\ held' = [held EXCEPT ![k] = @ \ {key}]
  /\ dwt' = Cleared(dwt, {key})
  /\ orphans' = orphans \ {key}
  /\ UNCHANGED <<paired, trackpoint, tap_suspended, palm, after, resting>>

\* Slip: typing goes on as long as it is active, not as long as a key is held.
KeyboardTimeoutRefreshed ==
  /\ dwt.timer
  /\ \/ /\ dwt.dwt_enabled /\ dwt.keyboard_active
        /\ GoesOn("press", "typing")
        /\ UNCHANGED <<dwt, tap_suspended>>
     \/ /\ ~dwt.dwt_enabled \/ ~dwt.keyboard_active
        /\ dwt' = [dwt EXCEPT !.timer = FALSE, !.keyboard_active = FALSE]
        /\ tap_suspended' = FALSE
        /\ UNCHANGED <<after, resting>>
  /\ UNCHANGED <<paired, held, trackpoint, palm, orphans>>

\* tp_keyboard_timeout: while a key is held, typing goes on.
KeyboardTimeout ==
  /\ dwt.timer
  /\ \/ /\ dwt.dwt_enabled /\ dwt.key_mask # {}
        /\ GoesOn("press", "typing")
        /\ UNCHANGED <<dwt, tap_suspended>>
     \/ /\ ~dwt.dwt_enabled \/ dwt.key_mask = {}
        /\ dwt' = [dwt EXCEPT !.timer = FALSE, !.keyboard_active = FALSE]
        /\ tap_suspended' = FALSE
        /\ UNCHANGED <<after, resting>>
  /\ UNCHANGED <<paired, held, trackpoint, palm, orphans>>

\* A keyboard is added, or enabled again.
Pair(k) ==
  /\ k \notin paired
  /\ paired' = paired \cup {k}
  /\ UNCHANGED <<held, dwt, trackpoint, tap_suspended, palm, after, resting,
                 orphans>>

\* Slip: the listener goes before the held keys are released.
DisableUnheard(k) ==
  /\ k \in paired
  /\ paired' = paired \ {k}
  /\ held' = [held EXCEPT ![k] = {}]
  /\ dwt' = [dwt EXCEPT !.keyboard_active = FALSE]
  /\ UNCHANGED <<trackpoint, tap_suspended, palm, after, resting, orphans>>

\* evdev_device_suspend: the held keys are released while the listener is
\* still there, and then the keyboard goes.
Disable(k) ==
  /\ k \in paired
  /\ paired' = paired \ {k}
  /\ held' = [held EXCEPT ![k] = {}]
  /\ dwt' = [Cleared(dwt, held[k]) EXCEPT !.keyboard_active = FALSE]
  /\ orphans' = orphans \ held[k]
  /\ UNCHANGED <<trackpoint, tap_suspended, palm, after, resting>>

\* evdev_device_remove: the listener is gone before the keys are released.
\* A keyboard that was disabled is not paired, its removal does nothing.
Remove(k) ==
  /\ k \in paired
  /\ paired' = paired \ {k}
  /\ held' = [held EXCEPT ![k] = {}]
  /\ dwt' = [dwt EXCEPT !.keyboard_active = FALSE]
  /\ orphans' = orphans \cup held[k]
  /\ UNCHANGED <<trackpoint, tap_suspended, palm, after, resting>>

SetEnabled(enable) ==
  /\ dwt.dwt_enabled # enable
  /\ dwt' = [dwt EXCEPT !.dwt_enabled = enable]
  /\ UNCHANGED <<paired, held, trackpoint, tap_suspended, palm, after,
                 resting, orphans>>

-----------------------------------------------------------------------------
(* The trackpoint                                                          *)

TrackpointEvent ==
  /\ trackpoint.listens
  /\ trackpoint.dwtp_enabled
  /\ LET more == trackpoint.event_count + 1 IN
     IF more < EnoughEvents
     THEN /\ trackpoint' = [trackpoint EXCEPT !.event_count = more,
                                              !.timer = TRUE]
          /\ UNCHANGED tap_suspended
     ELSE /\ trackpoint' = [trackpoint EXCEPT !.event_count = EnoughEvents,
                                              !.timer = TRUE, !.active = TRUE]
          /\ tap_suspended' = (tap_suspended \/ ~trackpoint.active)
  /\ GoesOn("motion", "trackpoint")
  /\ UNCHANGED <<paired, held, dwt, palm, orphans>>

TrackpointTimeout ==
  /\ trackpoint.timer
  /\ trackpoint' = [trackpoint EXCEPT !.timer = FALSE, !.active = FALSE,
                                      !.event_count = 0]
  /\ tap_suspended' = (tap_suspended /\ ~trackpoint.active)
  /\ UNCHANGED <<paired, held, dwt, palm, after, resting, orphans>>

\* The trackpoint is added, removed, disabled or enabled.
PairTrackpoint(listens) ==
  /\ trackpoint.listens # listens
  /\ trackpoint' = [trackpoint EXCEPT !.listens = listens]
  /\ UNCHANGED <<paired, held, dwt, tap_suspended, palm, after, resting,
                 orphans>>

SetTrackpointEnabled(enable) ==
  /\ trackpoint.dwtp_enabled # enable
  /\ trackpoint' = [trackpoint EXCEPT !.dwtp_enabled = enable]
  /\ UNCHANGED <<paired, held, dwt, tap_suspended, palm, after, resting,
                 orphans>>

-----------------------------------------------------------------------------
(* The touches, as tp_palm_detect sees them                                *)

Begin(t) ==
  /\ palm[t] = "up"
  /\ palm' = [palm EXCEPT ![t] =
       IF dwt.dwt_enabled /\ dwt.keyboard_active THEN "typing"
       ELSE IF trackpoint.active THEN "trackpoint" ELSE "none"]
  /\ after' = [e \in {"press", "motion"} |-> after[e] \cup {t}]
  /\ UNCHANGED <<paired, held, dwt, trackpoint, tap_suspended, resting,
                 orphans>>

\* Slip: every palm is released once typing or the trackpoint stops.
ReleasedAlways(t) ==
  \/ palm[t] = "typing" /\ ~dwt.keyboard_active
  \/ palm[t] = "trackpoint" /\ ~trackpoint.active

\* A touch that began after the last press or motion stops being a palm.
Released(t) ==
  \/ palm[t] = "typing" /\ ~dwt.keyboard_active /\ t \in after["press"]
  \/ palm[t] = "trackpoint" /\ ~trackpoint.active /\ t \in after["motion"]

Move(t) ==
  /\ palm[t] # "up"
  /\ palm' = [palm EXCEPT ![t] = IF Released(t) THEN "none" ELSE @]
  /\ UNCHANGED <<paired, held, dwt, trackpoint, tap_suspended, after,
                 resting, orphans>>

End(t) ==
  /\ palm[t] # "up"
  /\ palm' = [palm EXCEPT ![t] = "up"]
  /\ after' = [e \in {"press", "motion"} |-> after[e] \ {t}]
  /\ resting' = resting \ {t}
  /\ UNCHANGED <<paired, held, dwt, trackpoint, tap_suspended, orphans>>

-----------------------------------------------------------------------------

Next ==
  \/ \E k \in Keyboards, key \in Keys, intentional \in BOOLEAN :
       KeyPress(k, key, intentional)
  \/ \E k \in Keyboards, key \in Keys : KeyRelease(k, key)
  \/ KeyboardTimeout
  \/ \E k \in Keyboards : Pair(k)
  \/ \E k \in Keyboards : Disable(k)
  \/ \E k \in Keyboards : Remove(k)
  \/ \E enable \in BOOLEAN : SetEnabled(enable)
  \/ TrackpointEvent
  \/ TrackpointTimeout
  \/ \E listens \in BOOLEAN : PairTrackpoint(listens)
  \/ \E enable \in BOOLEAN : SetTrackpointEnabled(enable)
  \/ \E t \in Touches : Begin(t)
  \/ \E t \in Touches : Move(t)
  \/ \E t \in Touches : End(t)

Spec == Init /\ [][Next]_vars

\* An armed timer fires.
Fairness == WF_vars(KeyboardTimeout) /\ WF_vars(TrackpointTimeout)

FairSpec == Spec /\ Fairness

-----------------------------------------------------------------------------

\* Whoever suspended tapping, and whatever became of the keyboard or the
\* trackpoint since, a timer is armed that resumes it; the same holds for
\* the palm detection of either (tp_keyboard_timeout, tp_trackpoint_timeout).
SuspendedIsTimed ==
  /\ dwt.keyboard_active => dwt.timer
  /\ trackpoint.active => trackpoint.timer
  /\ tap_suspended => dwt.timer \/ trackpoint.active

\* A touch that began while typing, or while the trackpoint moved, and was
\* down when that went on is a palm until it is lifted, whatever is
\* released, removed or configured meanwhile (tp_palm_detect_dwt_triggered).
PalmsRest == \A t \in resting : palm[t] \in {"typing", "trackpoint"}

\* Only keys that are down on a paired keyboard keep typing alive or block
\* it, save those of a keyboard that was removed: no key is left behind by
\* a release, by disabling a keyboard or by a change of the configuration.
MasksAreHeld ==
  dwt.key_mask \cup dwt.mod_mask
    \subseteq orphans \cup UNION {held[k] : k \in Keyboards}

\* When keys and trackpoint are left alone, taps come back, unless a key of
\* a keyboard that was removed is stuck in the mask.
TapsComeBack ==
  <>[](/\ \A k \in Keyboards : held[k] = {}
       /\ trackpoint.event_count = 0
       /\ dwt.key_mask = {})
    => []<>~tap_suspended
=============================================================================
