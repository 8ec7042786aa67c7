------------------------- MODULE TouchpadTypingProofs -------------------------
(***************************************************************************)
(* Proofs about TouchpadTyping: no order of keys, motions, timeouts,       *)
(* settings and keyboards that come and go leaves tapping suspended with   *)
(* no timer to resume it, releases a palm too early, or leaves a key in    *)
(* the masks but for the removal of a keyboard.  All of it holds for any   *)
(* number of keyboards, keys and touches.                                  *)
(***************************************************************************)
EXTENDS TouchpadTyping, TLAPS

\* What keeps a resting palm a palm: it began before the last press or
\* motion of what made it one, so that Released never applies to it.
RestingIsOld ==
  \A t \in resting :
    /\ palm[t] = "typing" => t \notin after["press"]
    /\ palm[t] = "trackpoint" => t \notin after["motion"]

Inv == TypeOK /\ SuspendedIsTimed /\ PalmsRest /\ RestingIsOld /\ MasksAreHeld

-----------------------------------------------------------------------------

\* Nothing is down, suspended or timed at the start.
LEMMA InitInv == Init => Inv
<1> SUFFICES ASSUME Init PROVE Inv
  OBVIOUS
<1>1. 0 \in 0..EnoughEvents
  BY DEF EnoughEvents
<1>2. TypeOK
  BY <1>1 DEF Init, TypeOK, Palms
<1>3. SuspendedIsTimed /\ PalmsRest /\ RestingIsOld /\ MasksAreHeld
  BY DEF Init, SuspendedIsTimed, PalmsRest, RestingIsOld, MasksAreHeld
<1> QED BY <1>2, <1>3 DEF Inv

\* A press or a motion that goes on makes its palms rest, and they are old.
LEMMA GoesOnKeepsPalms ==
  ASSUME TypeOK, PalmsRest, RestingIsOld, UNCHANGED palm,
         NEW e, NEW kind,
         \/ e = "press" /\ kind = "typing"
         \/ e = "motion" /\ kind = "trackpoint",
         GoesOn(e, kind)
  PROVE  /\ after' \in [{"press", "motion"} -> SUBSET Touches]
         /\ resting' \in SUBSET Touches
         /\ PalmsRest'
         /\ RestingIsOld'
  BY DEF TypeOK, PalmsRest, RestingIsOld, GoesOn, Palms

\* Palms are left alone by whatever changes neither them nor their ages.
LEMMA PalmsKept ==
  ASSUME PalmsRest, RestingIsOld, UNCHANGED <<palm, after, resting>>
  PROVE  PalmsRest' /\ RestingIsOld'
  BY DEF PalmsRest, RestingIsOld

\* A press on a keyboard: a modifier, a key while typing, or one that counts
\* for nothing.
LEMMA KeyPressInv ==
  ASSUME Inv, NEW k \in Keyboards, NEW key \in Keys,
         NEW intentional \in BOOLEAN, KeyPress(k, key, intentional)
  PROVE  Inv'
<1>0. /\ TypeOK /\ SuspendedIsTimed /\ PalmsRest /\ RestingIsOld
      /\ MasksAreHeld
  BY DEF Inv
<1>1. /\ held' \in [Keyboards -> SUBSET Keys]
      /\ key \in held'[k]
      /\ \A j \in Keyboards : held[j] \subseteq held'[j]
  BY <1>0 DEF KeyPress, TypeOK
<1>2. CASE UNCHANGED <<dwt, tap_suspended, after, resting>>
  <2>1. TypeOK' /\ SuspendedIsTimed' /\ MasksAreHeld'
    BY <1>0, <1>1, <1>2 DEF KeyPress, TypeOK, SuspendedIsTimed, MasksAreHeld
  <2>2. PalmsRest' /\ RestingIsOld'
    BY <1>0, <1>2, PalmsKept DEF KeyPress
  <2> QED BY <2>1, <2>2 DEF Inv
<1>3. CASE /\ key \in Modifiers
           /\ dwt' = Modified(dwt, key)
           /\ UNCHANGED <<tap_suspended, after, resting>>
  <2>1. TypeOK' /\ SuspendedIsTimed' /\ MasksAreHeld'
    BY <1>0, <1>1, <1>3
    DEF KeyPress, Modified, TypeOK, SuspendedIsTimed, MasksAreHeld
  <2>2. PalmsRest' /\ RestingIsOld'
    BY <1>0, <1>3, PalmsKept DEF KeyPress
  <2> QED BY <2>1, <2>2 DEF Inv
<1>4. CASE /\ key \in TypingKeys
           /\ dwt' = Typing(dwt, key)
           /\ tap_suspended' = (tap_suspended \/ ~dwt.keyboard_active)
           /\ GoesOn("press", "typing")
  <2>1. /\ after' \in [{"press", "motion"} -> SUBSET Touches]
        /\ resting' \in SUBSET Touches
        /\ PalmsRest' /\ RestingIsOld'
    BY <1>0, <1>4, GoesOnKeepsPalms DEF KeyPress
  <2>2. TypeOK'
    BY <1>0, <1>1, <1>4, <2>1 DEF KeyPress, Typing, TypeOK
  <2>3. SuspendedIsTimed' /\ MasksAreHeld'
    BY <1>0, <1>1, <1>4
    DEF KeyPress, Typing, TypeOK, SuspendedIsTimed, MasksAreHeld
  <2> QED BY <2>1, <2>2, <2>3 DEF Inv
<1> QED BY <1>2, <1>3, <1>4 DEF KeyPress

\* Clearing keys takes exactly them out of both masks.
LEMMA ClearedIsTyped ==
  ASSUME TypeOK, NEW keys, NEW d, d = Cleared(dwt, keys)
  PROVE  /\ d \in [dwt_enabled : BOOLEAN, keyboard_active : BOOLEAN,
                   key_mask : SUBSET TypingKeys,
                   mod_mask : SUBSET Modifiers, timer : BOOLEAN]
         /\ d.key_mask = dwt.key_mask \ keys
         /\ d.mod_mask = dwt.mod_mask \ keys
         /\ d.keyboard_active = dwt.keyboard_active
         /\ d.timer = dwt.timer
  BY DEF TypeOK, Cleared

\* Disabling a keyboard clears its keys and ends typing, the timer runs on.
LEMMA DisabledMasks ==
  ASSUME TypeOK, NEW k \in Keyboards, Disable(k)
  PROVE  /\ dwt' \in [dwt_enabled : BOOLEAN, keyboard_active : BOOLEAN,
                      key_mask : SUBSET TypingKeys,
                      mod_mask : SUBSET Modifiers, timer : BOOLEAN]
         /\ dwt'.key_mask = dwt.key_mask \ held[k]
         /\ dwt'.mod_mask = dwt.mod_mask \ held[k]
         /\ dwt'.keyboard_active = FALSE
         /\ dwt'.timer = dwt.timer
<1> DEFINE d == Cleared(dwt, held[k])
<1>1. dwt' = [d EXCEPT !.keyboard_active = FALSE]
  BY DEF Disable
<1>2. /\ d \in [dwt_enabled : BOOLEAN, keyboard_active : BOOLEAN,
                key_mask : SUBSET TypingKeys,
                mod_mask : SUBSET Modifiers, timer : BOOLEAN]
      /\ d.key_mask = dwt.key_mask \ held[k]
      /\ d.mod_mask = dwt.mod_mask \ held[k]
      /\ d.timer = dwt.timer
  BY ClearedIsTyped
<1> HIDE DEF d
<1> QED BY <1>1, <1>2

\* A key that is released, a keyboard that is disabled or removed: the masks
\* lose no less than the keyboard, save what is counted as orphaned.
LEMMA KeyboardChangesInv ==
  ASSUME Inv, NEW k \in Keyboards,
         \/ \E key \in Keys : KeyRelease(k, key)
         \/ Disable(k) \/ Remove(k) \/ Pair(k)
  PROVE  Inv'
<1>0. /\ TypeOK /\ SuspendedIsTimed /\ PalmsRest /\ RestingIsOld
      /\ MasksAreHeld
  BY DEF Inv
<1>1. PalmsRest' /\ RestingIsOld'
  BY <1>0, PalmsKept DEF KeyRelease, Disable, Remove, Pair
<1>2. TypeOK' /\ SuspendedIsTimed'
  <2>1. CASE \E key \in Keys : KeyRelease(k, key)
    <3> PICK key \in Keys : KeyRelease(k, key)
      BY <2>1
    <3> QED BY <1>0, ClearedIsTyped DEF KeyRelease, TypeOK, SuspendedIsTimed
  <2>2. CASE Disable(k)
    BY <1>0, <2>2, DisabledMasks DEF Disable, TypeOK, SuspendedIsTimed
  <2>3. CASE Remove(k)
    BY <1>0, <2>3 DEF Remove, TypeOK, SuspendedIsTimed
  <2>4. CASE Pair(k)
    BY <1>0, <2>4 DEF Pair, TypeOK, SuspendedIsTimed
  <2> QED BY <2>1, <2>2, <2>3, <2>4
<1>3. ASSUME NEW key \in dwt'.key_mask \cup dwt'.mod_mask
      PROVE  key \in orphans' \cup UNION {held'[j] : j \in Keyboards}
  <2>1. key \in dwt.key_mask \cup dwt.mod_mask
    <3>1. CASE \E released \in Keys : KeyRelease(k, released)
      BY <1>0, <1>3, <3>1, ClearedIsTyped DEF KeyRelease
    <3>2. CASE Disable(k)
      BY <1>0, <1>3, <3>2, DisabledMasks
    <3>3. CASE Remove(k)
      BY <1>0, <1>3, <3>3 DEF Remove, TypeOK
    <3>4. CASE Pair(k)
      BY <1>0, <1>3, <3>4 DEF Pair
    <3> QED BY <3>1, <3>2, <3>3, <3>4
  <2>2. key \in orphans \/ \E j \in Keyboards : key \in held[j]
    BY <1>0, <2>1 DEF MasksAreHeld
  <2>3. CASE \E released \in Keys : KeyRelease(k, released)
    <3> PICK released \in Keys : KeyRelease(k, released)
      BY <2>3
    <3>1. key # released
      BY <1>0, <1>3, ClearedIsTyped DEF KeyRelease, TypeOK
    <3> QED BY <1>0, <2>2, <3>1 DEF KeyRelease, TypeOK
  <2>4. CASE Disable(k)
    <3>1. key \notin held[k]
      BY <1>0, <1>3, <2>4, DisabledMasks
    <3> QED BY <1>0, <2>2, <2>4, <3>1 DEF Disable, TypeOK
  <2>5. CASE Remove(k)
    BY <1>0, <2>2, <2>5 DEF Remove, TypeOK
  <2>6. CASE Pair(k)
    BY <1>0, <2>2, <2>6 DEF Pair
  <2> QED BY <2>3, <2>4, <2>5, <2>6
<1>4. MasksAreHeld'
  BY <1>3 DEF MasksAreHeld
<1> QED BY <1>1, <1>2, <1>4 DEF Inv

\* The timer of the keyboard fires: typing goes on while a key is held.
LEMMA KeyboardTimeoutInv ==
  ASSUME Inv, KeyboardTimeout
  PROVE  Inv'
<1>0. /\ TypeOK /\ SuspendedIsTimed /\ PalmsRest /\ RestingIsOld
      /\ MasksAreHeld
  BY DEF Inv
<1>1. CASE GoesOn("press", "typing") /\ UNCHANGED <<dwt, tap_suspended>>
  <2>1. /\ after' \in [{"press", "motion"} -> SUBSET Touches]
        /\ resting' \in SUBSET Touches
        /\ PalmsRest' /\ RestingIsOld'
    BY <1>0, <1>1, GoesOnKeepsPalms DEF KeyboardTimeout
  <2>2. TypeOK' /\ SuspendedIsTimed' /\ MasksAreHeld'
    BY <1>0, <1>1, <2>1
    DEF KeyboardTimeout, TypeOK, SuspendedIsTimed, MasksAreHeld
  <2> QED BY <2>1, <2>2 DEF Inv
<1>2. CASE /\ dwt' = [dwt EXCEPT !.timer = FALSE, !.keyboard_active = FALSE]
           /\ tap_suspended' = FALSE
           /\ UNCHANGED <<after, resting>>
  <2>1. PalmsRest' /\ RestingIsOld'
    BY <1>0, <1>2, PalmsKept DEF KeyboardTimeout
  <2>2. TypeOK'
    BY <1>0, <1>2 DEF KeyboardTimeout, TypeOK
  <2>3. SuspendedIsTimed'
    BY <1>0, <1>2 DEF KeyboardTimeout, TypeOK, SuspendedIsTimed
  <2>4. /\ dwt'.key_mask = dwt.key_mask
        /\ dwt'.mod_mask = dwt.mod_mask
    BY <1>0, <1>2 DEF TypeOK
  <2>5. MasksAreHeld'
    BY <1>0, <2>4 DEF KeyboardTimeout, MasksAreHeld
  <2> QED BY <2>1, <2>2, <2>3, <2>5 DEF Inv
<1> QED BY <1>1, <1>2 DEF KeyboardTimeout

\* The trackpoint moves, stops, comes or goes, or a setting changes.
LEMMA TrackpointInv ==
  ASSUME Inv,
         \/ TrackpointEvent \/ TrackpointTimeout
         \/ \E b \in BOOLEAN :
              PairTrackpoint(b) \/ SetTrackpointEnabled(b) \/ SetEnabled(b)
  PROVE  Inv'
<1>0. /\ TypeOK /\ SuspendedIsTimed /\ PalmsRest /\ RestingIsOld
      /\ MasksAreHeld
  BY DEF Inv
<1>1. CASE TrackpointEvent
  <2>1. /\ after' \in [{"press", "motion"} -> SUBSET Touches]
        /\ resting' \in SUBSET Touches
        /\ PalmsRest' /\ RestingIsOld'
    BY <1>0, <1>1, GoesOnKeepsPalms DEF TrackpointEvent
  <2>2. /\ trackpoint.event_count + 1 \in Nat
        /\ trackpoint.event_count + 1 < EnoughEvents =>
             trackpoint.event_count + 1 \in 0..EnoughEvents
    BY <1>0 DEF TypeOK, EnoughEvents
  <2>3. MasksAreHeld'
    BY <1>0, <1>1 DEF TrackpointEvent, MasksAreHeld
  <2>4. CASE trackpoint.event_count + 1 < EnoughEvents
    <3>1. /\ trackpoint' = [trackpoint EXCEPT
                              !.event_count = trackpoint.event_count + 1,
                              !.timer = TRUE]
          /\ tap_suspended' = tap_suspended
      BY <1>1, <2>4 DEF TrackpointEvent
    <3>2. TypeOK' /\ SuspendedIsTimed'
      BY <1>0, <1>1, <2>1, <2>2, <2>4, <3>1
      DEF TrackpointEvent, TypeOK, SuspendedIsTimed
    <3> QED BY <2>1, <2>3, <3>2 DEF Inv
  <2>5. CASE ~(trackpoint.event_count + 1 < EnoughEvents)
    <3>1. /\ trackpoint' = [trackpoint EXCEPT
                              !.event_count = EnoughEvents,
                              !.timer = TRUE, !.active = TRUE]
          /\ tap_suspended' = (tap_suspended \/ ~trackpoint.active)
      BY <1>1, <2>5 DEF TrackpointEvent
    <3>2. EnoughEvents \in 0..EnoughEvents
      BY DEF EnoughEvents
    <3>3. tap_suspended' \in BOOLEAN
      BY <3>1
    <3>4. TypeOK' /\ SuspendedIsTimed'
      BY <1>0, <1>1, <2>1, <3>1, <3>2, <3>3
      DEF TrackpointEvent, TypeOK, SuspendedIsTimed
    <3> QED BY <2>1, <2>3, <3>4 DEF Inv
  <2> QED BY <2>4, <2>5
<1>2. CASE TrackpointTimeout
  <2>1. PalmsRest' /\ RestingIsOld'
    BY <1>0, <1>2, PalmsKept DEF TrackpointTimeout
  <2>2. 0 \in 0..EnoughEvents
    BY DEF EnoughEvents
  <2>3. /\ trackpoint' \in [listens : BOOLEAN, dwtp_enabled : BOOLEAN,
                            active : BOOLEAN, event_count : 0..EnoughEvents,
                            timer : BOOLEAN]
        /\ trackpoint'.active = FALSE
    BY <1>0, <1>2, <2>2 DEF TrackpointTimeout, TypeOK
  <2>4. tap_suspended' \in BOOLEAN
    BY <1>2 DEF TrackpointTimeout
  <2>5. tap_suspended' => tap_suspended /\ ~trackpoint.active
    BY <1>2 DEF TrackpointTimeout
  <2>6. TypeOK'
    BY <1>0, <1>2, <2>3, <2>4 DEF TrackpointTimeout, TypeOK
  <2>7. SuspendedIsTimed' /\ MasksAreHeld'
    BY <1>0, <1>2, <2>3, <2>5
    DEF TrackpointTimeout, SuspendedIsTimed, MasksAreHeld
  <2> QED BY <2>1, <2>6, <2>7 DEF Inv
<1>3. ASSUME NEW b \in BOOLEAN,
             PairTrackpoint(b) \/ SetTrackpointEnabled(b) \/ SetEnabled(b)
      PROVE  Inv'
  <2>1. PalmsRest' /\ RestingIsOld'
    BY <1>0, <1>3, PalmsKept
    DEF PairTrackpoint, SetTrackpointEnabled, SetEnabled
  <2>2. TypeOK' /\ SuspendedIsTimed' /\ MasksAreHeld'
    BY <1>0, <1>3
    DEF PairTrackpoint, SetTrackpointEnabled, SetEnabled, TypeOK,
        SuspendedIsTimed, MasksAreHeld
  <2> QED BY <2>1, <2>2 DEF Inv
<1> QED BY <1>1, <1>2, <1>3

\* A touch begins, moves or ends: only one that is not old is released.
LEMMA TouchInv ==
  ASSUME Inv, NEW t \in Touches, Begin(t) \/ Move(t) \/ End(t)
  PROVE  Inv'
<1>0. /\ TypeOK /\ SuspendedIsTimed /\ PalmsRest /\ RestingIsOld
      /\ MasksAreHeld
  BY DEF Inv
<1>1. SuspendedIsTimed' /\ MasksAreHeld'
  BY <1>0 DEF Begin, Move, End, SuspendedIsTimed, MasksAreHeld
<1>2. CASE Begin(t)
  <2>1. t \notin resting
    BY <1>0, <1>2 DEF Begin, PalmsRest
  <2>2. TypeOK'
    BY <1>0, <1>2 DEF Begin, TypeOK, Palms
  <2>3. PalmsRest' /\ RestingIsOld'
    BY <1>0, <1>2, <2>1 DEF Begin, TypeOK, PalmsRest, RestingIsOld
  <2> QED BY <1>1, <2>2, <2>3 DEF Inv
<1>3. CASE Move(t)
  <2>1. t \in resting => ~Released(t)
    BY <1>0 DEF Released, PalmsRest, RestingIsOld
  <2>2. TypeOK'
    BY <1>0, <1>3 DEF Move, TypeOK, Palms
  <2>3. PalmsRest' /\ RestingIsOld'
    BY <1>0, <1>3, <2>1 DEF Move, TypeOK, PalmsRest, RestingIsOld
  <2> QED BY <1>1, <2>2, <2>3 DEF Inv
<1>4. CASE End(t)
  <2>1. TypeOK'
    BY <1>0, <1>4 DEF End, TypeOK, Palms
  <2>2. PalmsRest' /\ RestingIsOld'
    BY <1>0, <1>4 DEF End, TypeOK, PalmsRest, RestingIsOld
  <2> QED BY <1>1, <2>1, <2>2 DEF Inv
<1> QED BY <1>2, <1>3, <1>4

-----------------------------------------------------------------------------

\* Inv is an invariant, whatever the keyboards, keys and touches.
THEOREM Invariance == Spec => []Inv
<1>1. Inv /\ [Next]_vars => Inv'
  <2> SUFFICES ASSUME Inv, [Next]_vars PROVE Inv'
    OBVIOUS
  <2>1. CASE Next
    BY <2>1, KeyPressInv, KeyboardChangesInv, KeyboardTimeoutInv,
       TrackpointInv, TouchInv DEF Next
  <2>2. CASE UNCHANGED vars
    BY <2>2 DEF vars, Inv, TypeOK, SuspendedIsTimed, PalmsRest,
                RestingIsOld, MasksAreHeld
  <2> QED BY <2>1, <2>2
<1> QED BY <1>1, InitInv, PTL DEF Spec

\* Type correctness of the palm detection of tp_dispatch.
THEOREM TypeCorrect == Spec => []TypeOK
<1>1. Inv => TypeOK
  BY DEF Inv
<1> QED BY <1>1, Invariance, PTL

\* Tapping is never suspended without a timer that will resume it.
THEOREM NeverStuck == Spec => []SuspendedIsTimed
<1>1. Inv => SuspendedIsTimed
  BY DEF Inv
<1> QED BY <1>1, Invariance, PTL

\* A palm that saw typing or the trackpoint go on is a palm until lifted.
THEOREM PalmsStay == Spec => []PalmsRest
<1>1. Inv => PalmsRest
  BY DEF Inv
<1> QED BY <1>1, Invariance, PTL

\* Every key in the masks is held, or was when its keyboard was removed.
THEOREM NoKeyInvented == Spec => []MasksAreHeld
<1>1. Inv => MasksAreHeld
  BY DEF Inv
<1> QED BY <1>1, Invariance, PTL
=============================================================================
