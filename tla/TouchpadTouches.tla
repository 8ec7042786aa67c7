--------------------------- MODULE TouchpadTouches ---------------------------
(***************************************************************************)
(* The touches of a touchpad (src/evdev-mt-touchpad.c): which fingers the  *)
(* driver believes to be down, from slots that begin and end, from the     *)
(* BTN_TOOL_* keys that only count fingers, and from pressure or size.     *)
(*                                                                         *)
(* A frame is a series of events, one per step, that ends with the         *)
(* SYN_REPORT on which tp_handle_state runs.  The slots come first in      *)
(* touches, the fingers that only the count knows after them.  Motion,     *)
(* palms, thumbs, the jump detection and the tool type are left out, and   *)
(* so is the value of an axis beyond what tells contact: 0 below the lower *)
(* threshold of pressure or size, 2 from the upper one on.                 *)
(***************************************************************************)
EXTENDS Integers, FiniteSets

CONSTANTS
  Models,      \* the touchpads to consider, a set of records
  MaxActive,   \* bound on nactive_slots, for TLC
  MaxChanges   \* bound on the slots that change in one frame, for TLC

\* has_mt: it has slots, num_slots of them, of which it uses real.  fingers is
\* the largest BTN_TOOL_* count it has.  contact: what tells a finger that is
\* down from one that hovers.  A touchpad with top buttons stays open while it
\* is suspended.
Quirks == {"none", "synaptics", "alps"}
Contacts == {"touch", "pressure", "size"}
AllModels == [has_mt : BOOLEAN, num_slots : Nat, real : Nat, fingers : Nat,
              contact : Contacts, quirk : Quirks, topbuttons : BOOLEAN]

ASSUME TouchesAssumption ==
  /\ Models \subseteq AllModels
  /\ \A m \in Models : 1 <= m.real /\ m.real <= m.num_slots
  /\ \A m \in Models : 1 <= m.fingers /\ m.fingers <= 5
  /\ \A m \in Models : ~m.has_mt => m.num_slots = 1
  /\ MaxActive \in Nat /\ MaxChanges \in Nat

VARIABLES
  model,   \* the touchpad this behaviour is about
  kernel,  \* the fingers as the kernel reports them, and its open frame
  pad      \* the touches in struct tp_dispatch

touchVars == <<model, kernel, pad>>

\* tp->ntouches
ntouches == IF model.num_slots >= model.fingers THEN model.num_slots
            ELSE model.fingers
Index == 0..(ntouches - 1)
Slots == 0..(model.real - 1)

\* Bits of fake_touches: BTN_TOUCH, then BTN_TOOL_FINGER to BTN_TOOL_QUADTAP.
\* BTN_TOOL_QUINTTAP has none: it stands for FAKE_FINGER_OVERFLOW.
BTN_TOUCH == 0
Tools == 1..4
OVERFLOW == 5
AllKeys == 0..5

TouchStates == {"NONE", "HOVERING", "BEGIN", "UPDATE", "MAYBE_END", "END"}
DownStates == {"BEGIN", "UPDATE"}
Touch == [state : TouchStates, has_ended : BOOLEAN, dirty : BOOLEAN, contact : 0..2]

\* tracked: slots with a tracking id.  changed, keyed: what the open frame has
\* touched, up: its keys count more fingers than before.
\* short: the last frame ended a touch whose finger is still there.
\* heard: every finger on the surface landed while the touchpad was listening.
Kernel == [tracked : SUBSET Slots, keys : SUBSET AllKeys, changed : SUBSET Slots,
           keyed : BOOLEAN, up : BOOLEAN, short : BOOLEAN, heard : BOOLEAN]

Pad == [touch : [Index -> Touch], nfingers : Nat, nactive : Nat,
        num_slots : Nat, fake : SUBSET AllKeys, open : BOOLEAN, suspended : BOOLEAN]

Between == kernel.changed = {} /\ ~kernel.keyed
AtRest == \A i \in Index : ~pad.touch[i].dirty
                        /\ pad.touch[i].state \in {"NONE", "HOVERING", "UPDATE"}

-----------------------------------------------------------------------------
(* Operators on the touches S of the pad r.                                *)

In(r, states) == {i \in Index : r.touch[i].state \in states}
Down(r) == In(r, DownStates)
Hovering(r) == In(r, {"HOVERING"})

\* tp_new_touch.  A touch that ended in this very frame goes on.
NewTouch(t) ==
  CASE t.state \in {"NONE", "END"} ->
         [t EXCEPT !.state = "HOVERING", !.has_ended = FALSE, !.dirty = TRUE]
    [] t.state = "MAYBE_END" ->
         [t EXCEPT !.state = "UPDATE", !.has_ended = FALSE]
    [] OTHER -> t

NewTouches(r, S) ==
  [r EXCEPT !.touch = [i \in Index |-> IF i \in S THEN NewTouch(@[i]) ELSE @[i]],
            !.nfingers = @ + Cardinality(S \cap In(r, {"MAYBE_END"}))]

\* tp_begin_touch, for touches that hover.
BeginTouches(r, S) ==
  [r EXCEPT !.touch = [i \in Index |->
                         IF i \in S THEN [@[i] EXCEPT !.state = "BEGIN", !.dirty = TRUE]
                         ELSE @[i]],
            !.nfingers = @ + Cardinality(S)]

MaybeEndTouch(t) ==
  CASE t.state \in DownStates -> [t EXCEPT !.state = "MAYBE_END", !.dirty = TRUE]
    [] t.state = "HOVERING" -> [t EXCEPT !.state = "NONE", !.dirty = TRUE]
    [] OTHER -> t

\* tp_maybe_end_touch
MaybeEndTouches(r, S) ==
  [r EXCEPT !.touch = [i \in Index |-> IF i \in S THEN MaybeEndTouch(@[i]) ELSE @[i]],
            !.nfingers = @ - Cardinality(S \cap Down(r))]

\* tp_end_sequence
EndSequences(r, S) ==
  MaybeEndTouches([r EXCEPT !.touch = [i \in Index |->
                     IF i \in S THEN [@[i] EXCEPT !.has_ended = TRUE] ELSE @[i]]], S)

\* The first, or the last, k of the touches S.
First(S, k) == {i \in S : Cardinality({j \in S : j < i}) < k}
Last(S, k) == {i \in S : Cardinality({j \in S : j > i}) < k}

-----------------------------------------------------------------------------
(* tp_handle_state, as far as it is about touches.                         *)

\* tp_fake_finger_count: the lowest of the counts that are set.
IsOverflow(r) == OVERFLOW \in r.fake
FingerCount(r) ==
  IF r.fake \cap Tools = {} THEN 0
  ELSE CHOOSE n \in r.fake \cap Tools : \A k \in r.fake \cap Tools : n <= k

\* Slip: the restored touches are not counted.
RestoreUncounted(r) ==
  LET n == FingerCount(r)
      zombies == {i \in In(r, {"MAYBE_END"}) : i < r.num_slots}
  IN  IF n < 3 \/ r.nfingers >= n \/ (r.nfingers = r.num_slots /\ n = r.num_slots)
      THEN r
      ELSE [r EXCEPT !.touch = [i \in Index |->
                       IF i \in zombies
                       THEN [@[i] EXCEPT !.state = "UPDATE", !.dirty = TRUE]
                       ELSE @[i]]]

\* tp_restore_synaptics_touches: a touch that ended while the count did not
\* go down has not ended.
RestoreTouches(r) ==
  LET n == FingerCount(r)
      zombies == {i \in In(r, {"MAYBE_END"}) : i < r.num_slots}
  IN  IF n < 3 \/ r.nfingers >= n \/ (r.nfingers = r.num_slots /\ n = r.num_slots)
      THEN r
      ELSE [r EXCEPT !.touch = [i \in Index |->
                       IF i \in zombies
                       THEN [@[i] EXCEPT !.state = "UPDATE", !.dirty = TRUE]
                       ELSE @[i]],
                     !.nfingers = @ + Cardinality(zombies)]

\* Some touchpads announce more slots than they ever use.
ReduceSlots(r) ==
  IF /\ model.has_mt
     /\ FingerCount(r) > 1 /\ FingerCount(r) > r.nactive /\ r.nactive < r.num_slots
  THEN [r EXCEPT !.num_slots = r.nactive]
  ELSE r

\* tp_process_fake_touches
FakeTouches(r) ==
  LET q == CASE model.quirk = "synaptics" -> RestoreTouches(r)
             [] model.quirk = "alps" -> ReduceSlots(r)
             [] OTHER -> r
      fakes == {i \in Index : model.has_mt => i >= q.num_slots}
      counted == {i \in fakes : i < FingerCount(q)}
  IN  IF IsOverflow(r) THEN r
      ELSE EndSequences(NewTouches(q, counted), fakes \ counted)

\* Touches of slots whose contact the frame says crossed a threshold.
Firm(r) == {i \in Hovering(r) : /\ i < r.num_slots
                                /\ r.touch[i].dirty /\ r.touch[i].contact = 2}
Light(r) == {i \in Down(r) : /\ i < r.num_slots
                             /\ r.touch[i].dirty /\ r.touch[i].contact = 0}

\* Slip: one touch begins at a time.
RaiseByOne(r, n) == BeginTouches(r, First(Hovering(r), 1))

\* Begin hovering touches until there are n, at least one; end the last
\* ones until no more than n are left.
RaiseTo(r, n) ==
  BeginTouches(r, First(Hovering(r), IF r.nfingers < n THEN n - r.nfingers ELSE 1))
LowerTo(r, n) == MaybeEndTouches(r, Last(Down(r), r.nfingers - n))

\* With more fingers than slots all of them count as firm, or none does.
UnhoverPressure(r) ==
  LET n == IF IsOverflow(r) THEN 0 ELSE FingerCount(r)
      light == IF n <= r.num_slots \/ r.num_slots = 1 THEN Light(r) ELSE {}
      q == MaybeEndTouches(BeginTouches(r, Firm(r)), light)
      real == {i \in Down(q) : i < q.num_slots}
      raised == RaiseTo(q, n)
  IN  CASE n <= q.num_slots \/ q.nfingers = 0 -> q
        [] n > q.num_slots /\ q.nfingers > 0 /\ real = {} ->
             MaybeEndTouches(q, Down(q))
        [] OTHER -> IF raised.nfingers > n THEN LowerTo(raised, n) ELSE raised

UnhoverSize(r) == MaybeEndTouches(BeginTouches(r, Firm(r)), Light(r))

UnhoverFake(r) ==
  LET n == FingerCount(r)
      touching == BTN_TOUCH \in r.fake
  IN  CASE IsOverflow(r) -> r
        [] ~IsOverflow(r) /\ ~touching -> MaybeEndTouches(r, Down(r))
        [] ~IsOverflow(r) /\ touching /\ r.nfingers < n -> RaiseTo(r, n)
        [] OTHER -> IF r.nfingers > n THEN LowerTo(r, n) ELSE r

Unhover(r) ==
  CASE model.contact = "pressure" -> UnhoverPressure(r)
    [] model.contact = "size" -> UnhoverSize(r)
    [] OTHER -> UnhoverFake(r)

\* tp_end_touch
EndTouches(r) ==
  [r EXCEPT !.touch = [i \in Index |->
     IF @[i].state = "MAYBE_END" THEN [@[i] EXCEPT !.state = "END", !.dirty = TRUE]
     ELSE @[i]]]

PreProcess(r) == EndTouches(Unhover(FakeTouches(r)))

\* The axes of a slot that ended are not kept: the next touch there brings its
\* own.  Without slots the axes are there before the touch.
Unused(i, state) == state = "NONE" /\ model.has_mt /\ i \notin kernel.tracked

\* Slip: a touch whose finger is gone hovers.
SettledHovering(t) ==
  CASE t.state = "END" -> "HOVERING"
    [] t.state = "BEGIN" -> "UPDATE"
    [] OTHER -> t.state

\* Where a touch of this frame is in the next one.
Settled(t) ==
  CASE t.state = "END" /\ t.has_ended -> "NONE"
    [] t.state = "END" /\ ~t.has_ended -> "HOVERING"
    [] t.state = "BEGIN" -> "UPDATE"
    [] OTHER -> t.state

PostProcess(r) ==
  [r EXCEPT !.touch = [i \in Index |->
     LET t == r.touch[i]
     IN  IF ~t.dirty THEN t
         ELSE [t EXCEPT !.state = Settled(t), !.dirty = FALSE,
                        !.contact = IF Unused(i, Settled(t)) THEN 0 ELSE @]]]

HandleState(r) == PostProcess(PreProcess(r))

\* tp_clear_state, up to tp_handle_state
Unrolled(r) == [EndSequences(r, Index) EXCEPT !.fake = {}]
ClearState(r) == HandleState(Unrolled(r))

-----------------------------------------------------------------------------
(* What the kernel sends.                                                  *)

Frame(s) == s \in kernel.changed \/ Cardinality(kernel.changed) < MaxChanges
Changed(s) == [kernel EXCEPT !.changed = @ \cup {s}]

\* ABS_MT_TRACKING_ID with a new id, and the axes of the new touch.
SlotBegins(s, contact) ==
  /\ model.has_mt /\ s \notin kernel.tracked /\ Frame(s)
  /\ kernel' = [Changed(s) EXCEPT !.tracked = @ \cup {s}]
  /\ IF ~pad.open THEN UNCHANGED pad
     ELSE /\ pad.nactive < MaxActive
          /\ LET r == [pad EXCEPT !.nactive = @ + 1]
             IN  pad' = [NewTouches(r, {s}) EXCEPT !.touch[s].dirty = TRUE,
                                                   !.touch[s].contact = contact]
  /\ UNCHANGED model

\* ABS_MT_TRACKING_ID -1.  With nactive_slots at zero it is not looked at.
SlotEnds(s) ==
  /\ s \in kernel.tracked /\ s \notin kernel.changed /\ Frame(s)
  /\ kernel' = [Changed(s) EXCEPT !.tracked = @ \ {s}]
  /\ pad' = IF ~pad.open \/ pad.nactive = 0 THEN pad
            ELSE EndSequences([pad EXCEPT !.nactive = @ - 1], {s})
  /\ UNCHANGED model

\* Any other axis of a touch.  Without slots the axes are those of touch 0.
Moves(s, contact) ==
  /\ IF model.has_mt THEN s \in kernel.tracked ELSE s = 0
  /\ s \notin kernel.changed /\ Frame(s)
  /\ kernel' = Changed(s)
  /\ pad' = IF ~pad.open THEN pad
            ELSE [pad EXCEPT !.touch[s].dirty = TRUE, !.touch[s].contact = contact]
  /\ UNCHANGED model

\* The keys a touchpad sends: a count, and BTN_TOUCH unless all fingers hover.
KeySets == {{}, {1}} \cup {{BTN_TOUCH, n} : n \in 1..model.fingers}
KeyCount(keys) ==
  IF keys = {} THEN 0 ELSE CHOOSE n \in keys : \A k \in keys : k <= n

\* tp_fake_finger_set for the keys that changed, BTN_TOUCH first.
FakeFingers(r, pressed, released) ==
  LET overflow == \/ OVERFLOW \in pressed
                  \/ /\ OVERFLOW \in r.fake
                     /\ pressed = {} /\ BTN_TOUCH \notin released
  IN  [r EXCEPT !.fake = (((@ \ released) \cup pressed) \ {OVERFLOW})
                           \cup (IF overflow THEN {OVERFLOW} ELSE {})]

Keys(keys) ==
  /\ ~kernel.keyed /\ keys # kernel.keys
  /\ kernel' = [kernel EXCEPT !.keys = keys, !.keyed = TRUE,
                             !.up = KeyCount(keys) > KeyCount(kernel.keys)]
  /\ pad' = IF ~pad.open THEN pad
            ELSE FakeFingers(pad, keys \ kernel.keys, kernel.keys \ keys)
  /\ UNCHANGED model

\* A frame is complete when slots and keys fit.  A Synaptics touchpad may end
\* one touch that is down, for one frame, when a third finger comes.
Least(a, b) == IF a <= b THEN a ELSE b
Fits ==
  LET n == KeyCount(kernel.keys)
      used == Cardinality(kernel.tracked)
  IN  \/ ~model.has_mt
      \/ /\ BTN_TOUCH \in kernel.keys /\ used = Least(n, model.real)
         /\ kernel.short => ~kernel.keyed
      \/ /\ BTN_TOUCH \notin kernel.keys /\ ~kernel.short
         /\ used > 0 => /\ kernel.keys = {1}
                        /\ model.contact = "touch" /\ model.quirk = "none"
      \/ /\ model.quirk = "synaptics" /\ ~kernel.short
         /\ kernel.up /\ n >= 3 /\ used = Least(n, model.real) - 1
         /\ \E s \in kernel.changed \ kernel.tracked : pad.touch[s].state = "MAYBE_END"

\* The kernel after the frame.
Sent == [kernel EXCEPT
           !.changed = {}, !.keyed = FALSE, !.up = FALSE,
           !.short = /\ model.has_mt /\ BTN_TOUCH \in kernel.keys
                     /\ Cardinality(kernel.tracked)
                          < Least(KeyCount(kernel.keys), model.real),
           !.heard = \/ @ \/ (pad.open /\ kernel.keys = {})]

Report ==
  /\ Fits
  /\ kernel' = Sent
  /\ pad' = IF pad.open THEN HandleState(pad) ELSE pad
  /\ UNCHANGED model

\* tp_suspend and tp_resume, for the first and the last reason.
Suspend ==
  /\ Between /\ ~pad.suspended
  /\ pad' = [ClearState(pad) EXCEPT !.suspended = TRUE, !.open = model.topbuttons]
  /\ kernel' = [kernel EXCEPT !.heard = FALSE]
  /\ UNCHANGED model

Resume ==
  /\ Between /\ pad.suspended
  /\ LET r == IF model.topbuttons THEN ClearState(pad) ELSE pad
         n == r.nactive + Cardinality(kernel.tracked)
     IN  /\ n <= MaxActive
         /\ pad' = [r EXCEPT !.suspended = FALSE, !.open = TRUE, !.nactive = n]
  /\ kernel' = [kernel EXCEPT !.heard = (kernel.keys = {})]
  /\ UNCHANGED model

-----------------------------------------------------------------------------

NoTouch == [state |-> "NONE", has_ended |-> FALSE, dirty |-> FALSE, contact |-> 0]

\* tp_init_slots: of the keys that are down only BTN_TOOL_FINGER is known.
TouchesInit ==
  /\ model \in Models
  /\ \E tracked \in SUBSET Slots, keys \in KeySets :
       /\ kernel = [tracked |-> tracked, keys |-> keys, changed |-> {},
                    keyed |-> FALSE, up |-> FALSE, short |-> FALSE,
                    heard |-> keys = {}]
       /\ Fits /\ (~model.has_mt => tracked = {})
       /\ Cardinality(tracked) <= MaxActive
       /\ pad = [touch |-> [i \in Index |-> NoTouch], nfingers |-> 0,
                 nactive |-> Cardinality(tracked), num_slots |-> model.num_slots,
                 fake |-> keys \cap {1}, open |-> TRUE, suspended |-> FALSE]

ContactValues == IF model.contact = "touch" THEN {0} ELSE 0..2

TouchesNext ==
  \/ \E s \in Slots, contact \in ContactValues : SlotBegins(s, contact)
  \/ \E s \in Slots : SlotEnds(s)
  \/ \E s \in Slots, contact \in ContactValues : Moves(s, contact)
  \/ \E keys \in KeySets : Keys(keys)
  \/ Report
  \/ Suspend
  \/ Resume

TouchesSpec == TouchesInit /\ [][TouchesNext]_touchVars

-----------------------------------------------------------------------------

TouchesTypeOK ==
  /\ model \in Models
  /\ kernel \in Kernel
  /\ pad \in Pad
  /\ Between => AtRest

\* nfingers_down, which taps, gestures, thumbs and buttons decide by, is the
\* number of touches that are down, in the middle of a frame as well
\* (tp_begin_touch, tp_maybe_end_touch, tp_recover_ended_touch).
FingersCounted == TouchesTypeOK /\ pad.nfingers = Cardinality(Down(pad))

\* Nothing is left of the touches once the surface is empty, whatever was
\* suspended, cleared or not heard of before (tp_process_fake_touches).
NothingLeftBehind ==
  pad.open /\ Between /\ kernel.keys = {} =>
    /\ \A i \in Index : pad.touch[i].state = "NONE"
    /\ pad.nfingers = 0

\* Fingers whose touch was taken back as it ended: it keeps has_ended, and goes
\* for good when pressure or size has it end once more (tp_recover_ended_touch
\* does not clear has_ended, which tp_post_process_state goes by).
Lost ==
  {s \in kernel.tracked : /\ model.quirk = "synaptics"
                          /\ pad.touch[s].state = "NONE" /\ pad.touch[s].has_ended}

\* A finger with a slot that presses harder than the upper threshold is down,
\* however many fingers without a slot there are besides, unless its touch is
\* lost (evdev-mt-touchpad.h:343, tp_unhover_pressure, tp_unhover_size).
FirmFingersDown ==
  kernel.heard /\ Between /\ model.contact # "touch" =>
    \A s \in kernel.tracked \ Lost : pad.touch[s].contact = 2 => s \in Down(pad)

\* Between frames there are as many fingers as the keys say, where they or the
\* kernel's BTN_TOUCH decide, if they all landed while the touchpad listened:
\* all of them but the lost ones, or none, where pressure has to judge for
\* fingers without a slot.  An ALPS touchpad finds out about its slots only while
\* nactive_slots is right, which it is not after a suspension with fingers down.
FingersMatchKeys ==
  /\ kernel.heard /\ Between /\ ~IsOverflow(pad)
  /\ model.quirk = "alps" => pad.nactive = Cardinality(kernel.tracked)
  => LET n == KeyCount(kernel.keys)
     IN  /\ model.contact = "touch" =>
              pad.nfingers = IF BTN_TOUCH \in kernel.keys THEN n ELSE 0
         /\ model.contact = "pressure" /\ n > pad.num_slots =>
              pad.nfingers \in {0, n - Cardinality(Lost)}

FingersMatchSurface == FirmFingersDown /\ FingersMatchKeys
=============================================================================
