------------------------ MODULE TouchpadSuspendProofs ------------------------
(***************************************************************************)
(* Proofs about TouchpadSuspend: it implements SilentWhileSuspended, and   *)
(* the touchpad is closed exactly while there is a reason, for any number  *)
(* of slots and mice.  What happens to the touchpad in one step is a chain *)
(* of calls of tp_suspend and tp_resume, so the argument is made for one   *)
(* call, from a value of tp to the next, and carried along the chain.      *)
(***************************************************************************)
EXTENDS TouchpadSuspend, FiniteSetTheorems, TLAPS

\* Touchpad before TLC's bound on nactive_slots is applied.
Counted ==
  [has_topbuttons : BOOLEAN, suspend_reason : SUBSET Reasons,
   fd_open : BOOLEAN, is_suspended : BOOLEAN, open_failed : BOOLEAN,
   nactive_slots : Nat, touches : SUBSET Slots, slots : SUBSET Slots]

\* SuspendedMatchesReasons of a value of tp, and what it takes to be kept:
\* a closed touchpad has no touches, an open one without top buttons is not
\* suspended.
Matched(t) ==
  /\ t.has_topbuttons => t.fd_open
  /\ t.suspend_reason # {} =>
       t.is_suspended /\ (t.fd_open => t.has_topbuttons)
  /\ t.suspend_reason = {} /\ ~t.open_failed => ~t.is_suspended /\ t.fd_open
  /\ ~t.fd_open => t.touches = {}
  /\ t.fd_open /\ ~t.has_topbuttons => ~t.is_suspended

Reported(t) == IF t.is_suspended THEN {} ELSE t.touches

\* From t to u nothing is seen to happen, or every touch is lifted.
Silent(t, u) ==
  \/ u.suspend_reason = t.suspend_reason /\ Reported(u) = Reported(t)
  \/ Reported(u) = {}

\* TouchEndsSeen of a value of tp, with fingers in the slots of down: a touch
\* has its slot, an open touchpad knows its fingers and counts them all.
Seated(t, down) == t.touches \subseteq t.slots /\ (t.fd_open => t.slots = down)
Seen(t, down) ==
  Seated(t, down) /\ (t.fd_open => Cardinality(t.slots) <= t.nactive_slots)

\* u is a touchpad as it should be, and reached from t in silence.
Reaches(t, u) ==
  /\ u \in Counted /\ Matched(u) /\ Silent(t, u)
  /\ Seen(t, contacts) => Seen(u, contacts)

-----------------------------------------------------------------------------
(* One call                                                                *)

\* Nothing happens.
LEMMA ReachesItself ==
  ASSUME NEW t \in Counted, Matched(t)
  PROVE  Reaches(t, t)
  BY DEF Reaches, Silent

\* What each of two calls does in silence, both do.
LEMMA ReachesOn ==
  ASSUME NEW t, NEW u, NEW v, Reaches(t, u), Reaches(u, v)
  PROVE  Reaches(t, v)
  BY DEF Reaches, Silent

\* tp_suspend, one more reason.
LEMMA SuspendedReaches ==
  ASSUME NEW t \in Counted, Matched(t), NEW trigger \in Reasons
  PROVE  /\ Reaches(t, Suspended(t, trigger))
         /\ Suspended(t, trigger).suspend_reason =
              t.suspend_reason \cup {trigger}
         /\ Suspended(t, trigger).nactive_slots = t.nactive_slots
<1> DEFINE u == Suspended(t, trigger)
<1>1. CASE t.suspend_reason # {}
  <2>1. u = [t EXCEPT !.suspend_reason = @ \cup {trigger}]
    BY <1>1 DEF Suspended
  <2>2. /\ u \in Counted
        /\ u.suspend_reason = t.suspend_reason \cup {trigger}
        /\ u.nactive_slots = t.nactive_slots
        /\ u.fd_open = t.fd_open /\ u.touches = t.touches /\ u.slots = t.slots
    BY <2>1 DEF Counted
  <2>3. Matched(u) /\ Reported(u) = {}
    BY <1>1, <2>1, <2>2 DEF Counted, Matched, Reported
  <2>4. Seen(t, contacts) => Seen(u, contacts)
    BY <2>2 DEF Seen, Seated
  <2> QED BY <2>2, <2>3, <2>4 DEF Reaches, Silent
<1>2. CASE t.suspend_reason = {} /\ t.has_topbuttons
  <2> DEFINE c == [ClearState(t) EXCEPT !.is_suspended = TRUE]
  <2>1. /\ c \in Counted
        /\ c.suspend_reason = t.suspend_reason
        /\ c.is_suspended /\ c.touches = {}
        /\ c.nactive_slots = t.nactive_slots
        /\ c.has_topbuttons /\ c.fd_open = t.fd_open /\ c.slots = t.slots
    BY <1>2 DEF ClearState, Counted
  <2>2. u = [c EXCEPT !.suspend_reason = @ \cup {trigger}]
    BY <1>2 DEF Suspended
  <2> HIDE DEF c
  <2>3. /\ u \in Counted
        /\ u.suspend_reason = t.suspend_reason \cup {trigger}
        /\ u.is_suspended /\ u.touches = {}
        /\ u.nactive_slots = t.nactive_slots
        /\ u.has_topbuttons /\ u.fd_open = t.fd_open /\ u.slots = t.slots
    BY <1>2, <2>1, <2>2 DEF Counted
  <2>4. Matched(u) /\ Reported(u) = {}
    BY <1>2, <2>3 DEF Matched, Reported
  <2>5. Seen(t, contacts) => Seen(u, contacts)
    BY <2>3 DEF Seen, Seated
  <2> QED BY <2>3, <2>4, <2>5 DEF Reaches, Silent
<1>3. CASE t.suspend_reason = {} /\ ~t.has_topbuttons
  <2> DEFINE b == ClearState(t)
             c == DeviceSuspend(b)
  <2>1. /\ b \in Counted
        /\ b.suspend_reason = t.suspend_reason
        /\ ~b.has_topbuttons
        /\ b.nactive_slots = t.nactive_slots
    BY <1>3 DEF ClearState, Counted
  <2> HIDE DEF b
  <2>2. ClearState(b) \in Counted
    BY <2>1 DEF ClearState, Counted
  <2>3. /\ c \in Counted
        /\ c.suspend_reason = t.suspend_reason
        /\ c.is_suspended /\ c.touches = {}
        /\ c.nactive_slots = t.nactive_slots
        /\ ~c.has_topbuttons /\ ~c.fd_open
    BY <2>1, <2>2 DEF DeviceSuspend, ClearState, Counted
  <2>4. u = [c EXCEPT !.suspend_reason = @ \cup {trigger}]
    BY <1>3 DEF Suspended, b
  <2> HIDE DEF c
  <2>5. /\ u \in Counted
        /\ u.suspend_reason = t.suspend_reason \cup {trigger}
        /\ u.is_suspended /\ u.touches = {}
        /\ u.nactive_slots = t.nactive_slots
        /\ ~u.has_topbuttons /\ ~u.fd_open
    BY <1>3, <2>3, <2>4 DEF Counted
  <2>6. Matched(u) /\ Reported(u) = {} /\ Seen(u, contacts)
    BY <2>5 DEF Matched, Reported, Seen, Seated
  <2> QED BY <2>5, <2>6 DEF Reaches, Silent
<1> QED BY <1>1, <1>2, <1>3

\* tp_sync_slots only counts.
LEMMA SyncSlotsCounts ==
  ASSUME NEW t \in Counted
  PROVE  LET n == t.nactive_slots + Cardinality(t.slots)
         IN  /\ SyncSlots(t) \in Counted
             /\ SyncSlots(t) = [t EXCEPT !.nactive_slots = n]
             /\ n \in Nat /\ Cardinality(t.slots) <= n
<1> DEFINE n == t.nactive_slots + Cardinality(t.slots)
<1>1. IsFiniteSet(t.slots)
  BY FS_Subset, SuspendAssumption DEF Counted
<1>2. Cardinality(t.slots) \in Nat
  BY <1>1, FS_CardinalityType
<1>3. n \in Nat /\ Cardinality(t.slots) <= n
  BY <1>2 DEF Counted
<1>4. SyncSlots(t) = [t EXCEPT !.nactive_slots = n]
  BY DEF SyncSlots
<1> HIDE DEF n
<1>5. SyncSlots(t) \in Counted
  BY <1>3, <1>4 DEF Counted
<1> QED BY <1>3, <1>4, <1>5 DEF n

\* u is t once tp_sync_slots has counted the slots: what it is about is the
\* same, and the fingers of an open touchpad are counted now.
LEMMA SyncSlotsReaches ==
  ASSUME NEW t, NEW v \in Counted, Matched(v), Silent(t, v),
         Seen(t, contacts) => Seated(v, contacts)
  PROVE  /\ Reaches(t, SyncSlots(v))
         /\ SyncSlots(v).suspend_reason = v.suspend_reason
<1> DEFINE u == SyncSlots(v)
           n == v.nactive_slots + Cardinality(v.slots)
<1>1. /\ u \in Counted /\ u = [v EXCEPT !.nactive_slots = n]
      /\ n \in Nat /\ Cardinality(v.slots) <= n
  BY SyncSlotsCounts
<1> HIDE DEF u, n
<1>2. /\ u.has_topbuttons = v.has_topbuttons
      /\ u.suspend_reason = v.suspend_reason
      /\ u.fd_open = v.fd_open
      /\ u.is_suspended = v.is_suspended
      /\ u.open_failed = v.open_failed
      /\ u.touches = v.touches /\ u.slots = v.slots
      /\ u.nactive_slots = n
  BY <1>1 DEF Counted
<1>3. Matched(u) /\ Silent(t, u)
  BY <1>2 DEF Matched, Silent, Reported
<1>4. Seated(v, contacts) => Seen(u, contacts)
  BY <1>1, <1>2 DEF Seen, Seated
<1> QED BY <1>1, <1>2, <1>3, <1>4 DEF Reaches, u

\* tp_resume, one reason less.
LEMMA ResumedReaches ==
  ASSUME NEW t \in Counted, Matched(t), NEW trigger, NEW ok \in BOOLEAN,
         contacts \in SUBSET Slots
  PROVE  /\ Reaches(t, Resumed(t, trigger, ok))
         /\ Resumed(t, trigger, ok).suspend_reason =
              t.suspend_reason \ {trigger}
<1> DEFINE r == [t EXCEPT !.suspend_reason = @ \ {trigger}]
           u == Resumed(t, trigger, ok)
<1>1. /\ r \in Counted
      /\ r.suspend_reason = t.suspend_reason \ {trigger}
      /\ r.has_topbuttons = t.has_topbuttons
      /\ r.fd_open = t.fd_open
      /\ r.is_suspended = t.is_suspended
      /\ r.open_failed = t.open_failed
      /\ r.touches = t.touches /\ r.slots = t.slots
      /\ r.nactive_slots = t.nactive_slots
  BY DEF Counted
<1> HIDE DEF r
<1>2. CASE r.suspend_reason # {}
  <2>1. u = r
    BY <1>2 DEF Resumed, r
  <2>2. Matched(r) /\ Reported(r) = {}
    BY <1>1, <1>2 DEF Matched, Reported
  <2>3. Seen(t, contacts) => Seen(r, contacts)
    BY <1>1 DEF Seen, Seated
  <2> QED BY <1>1, <2>1, <2>2, <2>3 DEF Reaches, Silent
<1>3. CASE r.suspend_reason = {} /\ r.has_topbuttons
  <2> DEFINE v == [ClearState(r) EXCEPT !.is_suspended = FALSE]
  <2>1. u = SyncSlots(v)
    BY <1>3 DEF Resumed, r
  <2>2. /\ v \in Counted
        /\ v.suspend_reason = r.suspend_reason
        /\ v.touches = {} /\ ~v.is_suspended
        /\ v.has_topbuttons /\ v.fd_open = r.fd_open /\ v.slots = r.slots
    BY <1>1, <1>3 DEF Counted, ClearState
  <2> HIDE DEF v
  <2>3. Matched(v) /\ Reported(v) = {}
    BY <1>1, <1>3, <2>2 DEF Matched, Reported
  <2>4. Silent(t, v)
    BY <2>3 DEF Silent
  <2>5. Seen(t, contacts) => Seated(v, contacts)
    BY <1>1, <2>2 DEF Seen, Seated
  <2> HIDE DEF u
  <2>6. Reaches(t, u) /\ u.suspend_reason = t.suspend_reason \ {trigger}
    BY <1>1, <2>1, <2>2, <2>3, <2>4, <2>5, SyncSlotsReaches
  <2> QED BY <2>6 DEF u
<1>4. CASE r.suspend_reason = {} /\ ~r.has_topbuttons
  <2> DEFINE v == DeviceResume(r, ok)
  <2>1. u = SyncSlots(v)
    BY <1>4 DEF Resumed, r
  <2>2. /\ v \in Counted /\ Matched(v) /\ Silent(t, v)
        /\ v.suspend_reason = r.suspend_reason
        /\ Seen(t, contacts) => Seated(v, contacts)
    <3>1. CASE r.fd_open \/ ~ok
      <4>1. v = [r EXCEPT !.open_failed = ~r.fd_open]
        BY <3>1 DEF DeviceResume
      <4>2. /\ v \in Counted
            /\ v.open_failed = ~r.fd_open
            /\ v.suspend_reason = r.suspend_reason
            /\ v.has_topbuttons = r.has_topbuttons
            /\ v.fd_open = r.fd_open
            /\ v.is_suspended = r.is_suspended
            /\ v.touches = r.touches /\ v.slots = r.slots
        BY <1>1, <4>1 DEF Counted
      <4> HIDE DEF v
      <4>3. Matched(v)
        BY <1>1, <1>4, <4>2 DEF Matched
      <4>4. Silent(t, v)
        BY <1>1, <1>4, <4>2 DEF Matched, Silent, Reported
      <4>5. Seen(t, contacts) => Seated(v, contacts)
        BY <1>1, <4>2 DEF Seen, Seated
      <4> QED BY <4>2, <4>3, <4>4, <4>5
    <3>2. CASE ~r.fd_open /\ ok
      <4>1. v = [r EXCEPT !.fd_open = TRUE, !.is_suspended = FALSE,
                          !.open_failed = FALSE, !.slots = contacts]
        BY <3>2 DEF DeviceResume
      <4>2. /\ v \in Counted
            /\ v.suspend_reason = r.suspend_reason
            /\ v.has_topbuttons = r.has_topbuttons
            /\ v.fd_open /\ ~v.is_suspended /\ ~v.open_failed
            /\ v.touches = r.touches /\ v.slots = contacts
        BY <1>1, <4>1 DEF Counted
      <4> HIDE DEF v
      <4>3. r.touches = {}
        BY <1>1, <3>2 DEF Matched
      <4>4. Matched(v) /\ Reported(v) = {}
        BY <1>4, <4>2, <4>3 DEF Matched, Reported
      <4>5. Seated(v, contacts)
        BY <4>2, <4>3 DEF Seated
      <4> QED BY <4>2, <4>4, <4>5 DEF Silent
    <3> QED BY <3>1, <3>2, <1>1 DEF Counted
  <2> HIDE DEF u, v
  <2>3. Reaches(t, u) /\ u.suspend_reason = t.suspend_reason \ {trigger}
    BY <1>1, <2>1, <2>2, SyncSlotsReaches
  <2> QED BY <2>3 DEF u
<1> QED BY <1>1, <1>2, <1>3, <1>4 DEF Counted

-----------------------------------------------------------------------------
(* What the calls that reach the touchpad do: each is silent, and each     *)
(* adds or takes away the reason it stands for.                            *)

Good(t) == t \in Counted /\ Matched(t) /\ contacts \in SUBSET Slots

\* The reason that a switch stands for.
ReasonOf(d) == IF d = Lid THEN "lid" ELSE "tablet"

\* The reasons that end when device d goes.
EndsWith(d) ==
  (IF d \in paired THEN {ReasonOf(d)} ELSE {})
    \cup (IF mode = "on_mouse" /\ \A m \in Mice \ {d} : mice[m] # "sent"
          THEN {"mouse"} ELSE {})

\* The listeners of the lid and of the tablet mode switch.
LEMMA SwitchesNotify ==
  ASSUME NEW t, Good(t), NEW on \in BOOLEAN, NEW ok \in BOOLEAN
  PROVE  /\ Reaches(t, LidNotified(t, on, ok))
         /\ LidNotified(t, on, ok).suspend_reason =
              IF Lid \notin paired THEN t.suspend_reason
              ELSE IF on THEN t.suspend_reason \cup {"lid"}
              ELSE t.suspend_reason \ {"lid"}
         /\ Reaches(t, TabletNotified(t, on, ok))
         /\ TabletNotified(t, on, ok).suspend_reason =
              IF TabletSwitch \notin paired THEN t.suspend_reason
              ELSE IF on THEN t.suspend_reason \cup {"tablet"}
              ELSE t.suspend_reason \ {"tablet"}
<1>1. "lid" \in Reasons /\ "tablet" \in Reasons
  BY DEF Reasons
<1> QED
  BY <1>1, ReachesItself, SuspendedReaches, ResumedReaches
  DEF Good, LidNotified, TabletNotified

\* The lid as the client knows it.
LEMMA LidNoticesDoes ==
  ASSUME NEW t, Good(t), NEW closed \in BOOLEAN, NEW ok \in BOOLEAN
  PROVE  /\ Reaches(t, LidNotices(t, closed, ok))
         /\ LidNotices(t, closed, ok).suspend_reason =
              IF lid.client_state = closed \/ Lid \notin paired
              THEN t.suspend_reason
              ELSE IF closed THEN t.suspend_reason \cup {"lid"}
              ELSE t.suspend_reason \ {"lid"}
  BY SwitchesNotify, ReachesItself DEF Good, LidNotices

\* The listener of an external mouse.
LEMMA MouseNotifies ==
  ASSUME NEW t, Good(t), NEW m \in Mice
  PROVE  /\ Reaches(t, MouseNotified(t, m))
         /\ MouseNotified(t, m).suspend_reason =
              t.suspend_reason \cup
                (IF mice[m] # "unpaired" /\ mode = "on_mouse"
                 THEN {"mouse"} ELSE {})
<1>1. "mouse" \in Reasons
  BY DEF Reasons
<1> QED
  BY <1>1, ReachesItself, SuspendedReaches DEF Good, MouseNotified

\* A device is added to the touchpad's.
LEMMA AddedDoes ==
  ASSUME NEW t, Good(t), NEW d, NEW on \in BOOLEAN
  PROVE  /\ Reaches(t, Added(t, d, on))
         /\ Added(t, d, on).suspend_reason =
              t.suspend_reason \cup
                (IF d = TabletSwitch /\ d \notin paired /\ on
                 THEN {"tablet"} ELSE {})
<1>1. "tablet" \in Reasons
  BY DEF Reasons
<1> QED
  BY <1>1, ReachesItself, SuspendedReaches DEF Good, Added

\* A device is no longer one of them.
LEMMA RemovedDoes ==
  ASSUME NEW t, Good(t), NEW d, NEW ok \in BOOLEAN
  PROVE  /\ Reaches(t, Removed(t, d, ok))
         /\ Removed(t, d, ok).suspend_reason = t.suspend_reason \ EndsWith(d)
         /\ Reaches(t, NoMouseLeft(Removed(t, d, ok), d, ok))
         /\ NoMouseLeft(Removed(t, d, ok), d, ok).suspend_reason =
              t.suspend_reason \ EndsWith(d)
<1> DEFINE u == SwitchGone(t, d, ok)
           v == NoMouseLeft(u, d, ok)
           w == NoMouseLeft(v, d, ok)
<1>1. /\ Reaches(t, u)
      /\ u.suspend_reason =
           t.suspend_reason \ (IF d \in paired THEN {ReasonOf(d)} ELSE {})
  BY ReachesItself, ResumedReaches DEF Good, SwitchGone, ReasonOf
<1> HIDE DEF u
<1>2. /\ Reaches(u, v)
      /\ v.suspend_reason = t.suspend_reason \ EndsWith(d)
  BY <1>1, ReachesItself, ResumedReaches
  DEF Good, Reaches, NoMouseLeft, EndsWith
<1> HIDE DEF v
<1>3. Reaches(t, v)
  BY <1>1, <1>2, ReachesOn
<1>4. /\ Reaches(v, w)
      /\ w.suspend_reason = t.suspend_reason \ EndsWith(d)
  BY <1>2, ReachesItself, ResumedReaches
  DEF Good, Reaches, NoMouseLeft, EndsWith
<1>5. Reaches(t, w)
  BY <1>3, <1>4, ReachesOn
<1>6. v = Removed(t, d, ok)
  BY DEF u, v, Removed
<1> QED BY <1>2, <1>3, <1>4, <1>5, <1>6

-----------------------------------------------------------------------------
(* The steps                                                               *)

\* Only a device of the seat is one of the touchpad's.
PairedIsPlugged ==
  /\ paired \subseteq plugged
  /\ \A m \in Mice : mice[m] # "unpaired" => m \in plugged

Inv == /\ TypeOK /\ Matched(tp) /\ ReasonsExplained /\ PairedIsPlugged
       /\ Seen(tp, contacts)

\* What Inv says of everything but the touchpad.
OthersOK ==
  /\ plugged \in SUBSET Devices /\ disabled \in SUBSET plugged
  /\ mice \in [Mice -> MouseStates]
  /\ paired \in SUBSET {Lid, TabletSwitch}
  /\ lid \in LidState
  /\ tablet_on \in BOOLEAN

\* The touchpad after a silent step.
Quiet ==
  /\ tp' \in Touchpad /\ Matched(tp)' /\ Silent(tp, tp')
  /\ Seen(tp, contacts) => Seen(tp', contacts)

LEMMA InvIsGood ==
  ASSUME Inv
  PROVE  Good(tp) /\ OthersOK /\ mode \in Modes /\ PairedIsPlugged
         /\ ReasonsExplained /\ contacts \in SUBSET Slots
<1>1. tp \in Counted
  BY SuspendAssumption DEF Inv, TypeOK, Touchpad, Counted
<1> QED BY <1>1 DEF Inv, TypeOK, Good, OthersOK

LEMMA BecomesIsQuiet ==
  ASSUME NEW u, Reaches(tp, u), Becomes(u)
  PROVE  Quiet /\ tp' = u
<1>1. tp' = u /\ u.nactive_slots <= MaxActive
  BY DEF Becomes
<1>2. /\ u \in Counted /\ Matched(u) /\ Silent(tp, u)
      /\ Seen(tp, contacts) => Seen(u, contacts)
  BY DEF Reaches
<1>3. u.nactive_slots \in 0..MaxActive
  BY <1>1, <1>2, SuspendAssumption DEF Counted
<1>4. u \in Touchpad
  BY <1>2, <1>3 DEF Counted, Touchpad
<1>5. Matched(tp)'
  BY <1>1, <1>2 DEF Matched
<1> QED BY <1>1, <1>2, <1>4, <1>5 DEF Quiet

LEMMA UnchangedIsQuiet ==
  ASSUME Inv, UNCHANGED tp
  PROVE  Quiet
  BY DEF Inv, TypeOK, Quiet, Matched, Silent, Reported

LEMMA InvFromParts ==
  ASSUME Inv, Quiet, UNCHANGED contacts, mode' \in Modes, OthersOK',
         ReasonsExplained', PairedIsPlugged'
  PROVE  Inv'
<1>1. Seen(tp', contacts')
  BY DEF Quiet, Inv
<1>2. Seen(tp, contacts)'
  BY <1>1 DEF Seen, Seated
<1> QED BY <1>2 DEF Quiet, Inv, TypeOK, OthersOK

\* A finger that lands is counted where it is seen, one that is lifted leaves
\* no touch behind.
LEMMA FingersSeen ==
  ASSUME Inv, NEW s \in Slots, Land(s) \/ Lift(s)
  PROVE  Seen(tp', contacts')
<1>0. tp \in Counted /\ contacts \in SUBSET Slots /\ Seen(tp, contacts)
  BY InvIsGood DEF Good, Inv
<1>1. CASE ~tp.fd_open
  <2>1. tp' = tp
    BY <1>1 DEF Land, Lift, Becomes
  <2> QED BY <1>0, <1>1, <2>1 DEF Seen, Seated
<1>2. tp.fd_open => /\ tp.slots = contacts /\ IsFiniteSet(contacts)
                    /\ Cardinality(contacts) \in Nat
                    /\ Cardinality(contacts) <= tp.nactive_slots
  <2>1. IsFiniteSet(contacts)
    BY <1>0, FS_Subset, SuspendAssumption
  <2>2. Cardinality(contacts) \in Nat
    BY <2>1, FS_CardinalityType
  <2> QED BY <1>0, <2>1, <2>2 DEF Seen, Seated
<1>3. CASE tp.fd_open /\ Land(s)
  <2>1. tp' = [tp EXCEPT !.slots = @ \cup {s}, !.touches = @ \cup {s},
                         !.nactive_slots = @ + 1]
    BY <1>3 DEF Land, Becomes
  <2>2. /\ tp'.slots = tp.slots \cup {s} /\ tp'.touches = tp.touches \cup {s}
        /\ tp'.nactive_slots = tp.nactive_slots + 1
    BY <1>0, <2>1 DEF Counted
  <2>3. contacts' = contacts \cup {s} /\ s \notin contacts
    BY <1>3 DEF Land
  <2>4. Cardinality(contacts \cup {s}) = Cardinality(contacts) + 1
    BY <1>2, <1>3, <2>3, FS_AddElement
  <2>5. Cardinality(tp'.slots) <= tp'.nactive_slots
    <3>1. tp.nactive_slots \in Nat
      BY <1>0 DEF Counted
    <3>2. Cardinality(tp'.slots) = Cardinality(contacts) + 1
      BY <1>2, <1>3, <2>2, <2>4
    <3>3. Cardinality(contacts) \in Nat /\ Cardinality(contacts) <= tp.nactive_slots
      BY <1>2, <1>3
    <3>4. tp'.nactive_slots = tp.nactive_slots + 1
      BY <2>2
    <3> QED BY <3>1, <3>2, <3>3, <3>4
  <2> QED BY <1>0, <1>2, <1>3, <2>2, <2>3, <2>5 DEF Seen, Seated
<1>4. CASE tp.fd_open /\ Lift(s)
  <2>1. contacts' = contacts \ {s} /\ s \in contacts
    BY <1>4 DEF Lift
  <2>2. Cardinality(contacts \ {s}) = Cardinality(contacts) - 1
    BY <1>2, <1>4, <2>1, FS_RemoveElement
  <2>3. tp.nactive_slots \in Nat /\ tp.nactive_slots # 0
    <3>1. Cardinality(contacts) # 0
      BY <1>2, <1>4, <2>1, FS_EmptySet
    <3>2. tp.nactive_slots \in Nat
      BY <1>0 DEF Counted
    <3> QED BY <1>2, <1>4, <3>1, <3>2
  <2>4. tp' = [tp EXCEPT !.slots = @ \ {s}, !.touches = @ \ {s},
                         !.nactive_slots = @ - 1]
    BY <1>4, <2>3 DEF Lift, Becomes
  <2>5. /\ tp'.slots = tp.slots \ {s} /\ tp'.touches = tp.touches \ {s}
        /\ tp'.nactive_slots = tp.nactive_slots - 1
    BY <1>0, <2>4 DEF Counted
  <2>6. Cardinality(tp'.slots) <= tp'.nactive_slots
    BY <1>2, <1>4, <2>2, <2>3, <2>5
  <2> QED BY <1>0, <1>2, <1>4, <2>1, <2>5, <2>6 DEF Seen, Seated
<1> QED BY <1>1, <1>3, <1>4

\* A finger lands or is lifted: no reason changes, and no touch is reported
\* while there is one.
LEMMA FingersInv ==
  ASSUME Inv, NEW s \in Slots, Land(s) \/ Lift(s)
  PROVE  /\ Inv'
         /\ tp'.suspend_reason = tp.suspend_reason
         /\ \/ Reported(tp') = Reported(tp)
            \/ tp.suspend_reason = {} /\ Reported(tp') \in SUBSET Slots
<1>0. /\ Good(tp) /\ OthersOK /\ mode \in Modes /\ PairedIsPlugged
      /\ ReasonsExplained /\ contacts \in SUBSET Slots
  BY InvIsGood
<1>1. PICK u : /\ Becomes(u)
               /\ u \in Counted
               /\ \/ u = tp
                  \/ /\ tp.fd_open
                     /\ \E n \in Nat, x \in SUBSET Slots, y \in SUBSET Slots :
                          u = [tp EXCEPT !.slots = x, !.touches = y,
                                         !.nactive_slots = n]
  <2>1. CASE Land(s)
    <3> DEFINE u == [tp EXCEPT !.slots = @ \cup {s},
                               !.touches = @ \cup {s},
                               !.nactive_slots = @ + 1]
    <3>1. CASE ~tp.fd_open
      BY <1>0, <2>1, <3>1 DEF Land, Good
    <3>2. CASE tp.fd_open
      <4>1. /\ tp.nactive_slots + 1 \in Nat
            /\ tp.slots \cup {s} \in SUBSET Slots
            /\ tp.touches \cup {s} \in SUBSET Slots
        BY <1>0 DEF Good, Counted
      <4>2. u \in Counted
        BY <1>0, <4>1 DEF Good, Counted
      <4>3. Becomes(u)
        BY <2>1, <3>2 DEF Land
      <4>4. u = [tp EXCEPT !.slots = tp.slots \cup {s},
                           !.touches = tp.touches \cup {s},
                           !.nactive_slots = tp.nactive_slots + 1]
        OBVIOUS
      <4> HIDE DEF u
      <4> QED BY <3>2, <4>1, <4>2, <4>3, <4>4
    <3> QED BY <3>1, <3>2
  <2>2. CASE Lift(s)
    <3>1. CASE ~tp.fd_open
      BY <1>0, <2>2, <3>1 DEF Lift, Good
    <3>2. CASE tp.fd_open /\ tp.nactive_slots = 0
      <4> DEFINE u == [tp EXCEPT !.slots = @ \ {s}]
      <4>1. /\ tp.nactive_slots \in Nat
            /\ tp.slots \ {s} \in SUBSET Slots
            /\ tp.touches \in SUBSET Slots
        BY <1>0 DEF Good, Counted
      <4>2. u \in Counted
        BY <1>0, <4>1 DEF Good, Counted
      <4>3. Becomes(u)
        BY <2>2, <3>2 DEF Lift
      <4>4. u = [tp EXCEPT !.slots = tp.slots \ {s},
                           !.touches = tp.touches,
                           !.nactive_slots = tp.nactive_slots]
        BY <1>0 DEF Good, Counted
      <4> HIDE DEF u
      <4> QED BY <3>2, <4>1, <4>2, <4>3, <4>4
    <3>3. CASE tp.fd_open /\ tp.nactive_slots # 0
      <4> DEFINE u == [tp EXCEPT !.slots = @ \ {s}, !.touches = @ \ {s},
                                 !.nactive_slots = @ - 1]
      <4>1. /\ tp.nactive_slots - 1 \in Nat
            /\ tp.slots \ {s} \in SUBSET Slots
            /\ tp.touches \ {s} \in SUBSET Slots
        BY <1>0, <3>3 DEF Good, Counted
      <4>2. u \in Counted
        BY <1>0, <4>1 DEF Good, Counted
      <4>3. Becomes(u)
        BY <2>2, <3>3 DEF Lift
      <4>4. u = [tp EXCEPT !.slots = tp.slots \ {s},
                           !.touches = tp.touches \ {s},
                           !.nactive_slots = tp.nactive_slots - 1]
        OBVIOUS
      <4> HIDE DEF u
      <4> QED BY <3>3, <4>1, <4>2, <4>3, <4>4
    <3> QED BY <3>1, <3>2, <3>3
  <2> QED BY <2>1, <2>2
<1>2. /\ tp' = u /\ u.nactive_slots <= MaxActive
      /\ UNCHANGED <<mode, others>> /\ contacts' \in SUBSET Slots
  BY <1>0, <1>1 DEF Becomes, Land, Lift
<1>3. /\ u.has_topbuttons = tp.has_topbuttons
      /\ u.suspend_reason = tp.suspend_reason
      /\ u.fd_open = tp.fd_open
      /\ u.is_suspended = tp.is_suspended
      /\ u.open_failed = tp.open_failed
      /\ u.touches = tp.touches \/ tp.fd_open
      /\ u.touches \in SUBSET Slots
  BY <1>0, <1>1 DEF Good, Counted
<1>4. u.nactive_slots \in 0..MaxActive
  <2>1. u.nactive_slots \in Nat
    BY <1>1 DEF Counted
  <2> QED BY <1>2, <2>1, SuspendAssumption
<1>5. u \in Touchpad
  BY <1>1, <1>4 DEF Counted, Touchpad
<1>6. Matched(tp)'
  BY <1>0, <1>2, <1>3 DEF Good, Matched
<1>7. OthersOK' /\ mode' \in Modes
  BY <1>0, <1>2 DEF OthersOK, others
<1>8. ReasonsExplained' /\ PairedIsPlugged'
  BY <1>0, <1>2, <1>3 DEF ReasonsExplained, PairedIsPlugged, others
<1>9. Inv'
  <2>1. Seen(tp, contacts)'
    BY FingersSeen DEF Seen, Seated
  <2> QED BY <1>2, <1>5, <1>6, <1>7, <1>8, <2>1 DEF Inv, TypeOK, OthersOK
<1>10. \/ Reported(tp') = Reported(tp)
       \/ tp.suspend_reason = {} /\ Reported(tp') \in SUBSET Slots
  BY <1>0, <1>2, <1>3 DEF Good, Matched, Reported
<1> QED BY <1>2, <1>3, <1>9, <1>10

\* The lid: an SW_LID event, or a key on the keyboard below it.
LEMMA LidInv ==
  ASSUME Inv,
         \/ \E closed, ok \in BOOLEAN : LidEvent(closed, ok)
         \/ \E ok \in BOOLEAN : Key(ok)
  PROVE  Inv' /\ Quiet
<1>0. /\ Good(tp) /\ OthersOK /\ mode \in Modes /\ PairedIsPlugged
      /\ ReasonsExplained /\ contacts \in SUBSET Slots
  BY InvIsGood
<1>1. ASSUME NEW closed \in BOOLEAN, NEW ok \in BOOLEAN, NEW l \in BOOLEAN,
             lid' = [LidMoves(closed) EXCEPT !.listens = l],
             Becomes(LidNotices(tp, closed, ok)),
             UNCHANGED <<contacts, mode, plugged, disabled, mice, paired,
                         tablet_on>>
      PROVE  Inv' /\ Quiet
  <2>1. /\ Quiet
        /\ tp'.suspend_reason =
             IF lid.client_state = closed \/ Lid \notin paired
             THEN tp.suspend_reason
             ELSE IF closed THEN tp.suspend_reason \cup {"lid"}
             ELSE tp.suspend_reason \ {"lid"}
    <3> DEFINE u == LidNotices(tp, closed, ok)
    <3>1. /\ Reaches(tp, u)
          /\ u.suspend_reason =
               IF lid.client_state = closed \/ Lid \notin paired
               THEN tp.suspend_reason
               ELSE IF closed THEN tp.suspend_reason \cup {"lid"}
               ELSE tp.suspend_reason \ {"lid"}
      BY <1>0, LidNoticesDoes
    <3>2. Becomes(u)
      BY <1>1
    <3> HIDE DEF u
    <3> QED BY <3>1, <3>2, BecomesIsQuiet
  <2>2. lid' \in LidState /\ lid'.client_state = closed
    BY <1>0, <1>1 DEF OthersOK, LidState, LidMoves
  <2>3. OthersOK' /\ PairedIsPlugged'
    BY <1>0, <1>1, <2>2 DEF OthersOK, PairedIsPlugged
  <2>4. ReasonsExplained'
    BY <1>0, <1>1, <2>1, <2>2 DEF ReasonsExplained, OthersOK, LidState
  <2> QED BY <1>0, <1>1, <2>1, <2>3, <2>4, InvFromParts
<1>2. ASSUME NEW closed \in BOOLEAN, NEW ok \in BOOLEAN, LidEvent(closed, ok)
      PROVE  Inv' /\ Quiet
  <2> DEFINE l == closed /\ Active(Keyboard)
  <2>0. l \in BOOLEAN
    OBVIOUS
  <2>1. CASE lid.is_closed = closed
    <3>1. /\ lid' = [lid EXCEPT !.listens = l]
          /\ UNCHANGED <<tp, contacts, mode, plugged, disabled, mice, paired,
                         tablet_on>>
      BY <1>2, <2>1 DEF LidEvent
    <3> HIDE DEF l
    <3>2. lid' \in LidState /\ lid'.client_state = lid.client_state
      BY <1>0, <2>0, <3>1 DEF OthersOK, LidState
    <3>3. OthersOK' /\ PairedIsPlugged' /\ ReasonsExplained'
      BY <1>0, <3>1, <3>2 DEF OthersOK, PairedIsPlugged, ReasonsExplained
    <3> QED BY <1>0, <3>1, <3>3, UnchangedIsQuiet, InvFromParts
  <2>2. CASE lid.is_closed # closed
    <3>1. /\ lid' = [LidMoves(closed) EXCEPT !.listens = l]
          /\ Becomes(LidNotices(tp, closed, ok))
          /\ UNCHANGED <<contacts, mode, plugged, disabled, mice, paired,
                         tablet_on>>
      BY <1>2, <2>2 DEF LidEvent
    <3> HIDE DEF l
    <3> QED BY <1>1, <2>0, <3>1
  <2> QED BY <2>1, <2>2
<1>3. ASSUME NEW ok \in BOOLEAN, Key(ok)
      PROVE  Inv' /\ Quiet
  <2>1. lid' = [LidMoves(FALSE) EXCEPT !.listens = lid.listens]
    BY <1>0, <1>3 DEF Key, LidMoves, OthersOK, LidState
  <2>2. lid.listens \in BOOLEAN
    BY <1>0 DEF OthersOK, LidState
  <2> QED BY <1>1, <1>3, <2>1, <2>2 DEF Key
<1> QED BY <1>2, <1>3

\* The tablet mode switch and the mice.
LEMMA TabletAndMouseInv ==
  ASSUME Inv,
         \/ \E on, ok \in BOOLEAN : TabletEvent(on, ok)
         \/ \E m \in Mice : MouseEvent(m)
  PROVE  Inv' /\ Quiet
<1>0. /\ Good(tp) /\ OthersOK /\ mode \in Modes /\ PairedIsPlugged
      /\ ReasonsExplained /\ contacts \in SUBSET Slots
  BY InvIsGood
<1>1. ASSUME NEW on \in BOOLEAN, NEW ok \in BOOLEAN, TabletEvent(on, ok)
      PROVE  Inv' /\ Quiet
  <2>1. /\ Quiet
        /\ tp'.suspend_reason =
             IF TabletSwitch \notin paired THEN tp.suspend_reason
             ELSE IF on THEN tp.suspend_reason \cup {"tablet"}
             ELSE tp.suspend_reason \ {"tablet"}
    <3> DEFINE u == TabletNotified(tp, on, ok)
    <3>1. /\ Reaches(tp, u)
          /\ u.suspend_reason =
               IF TabletSwitch \notin paired THEN tp.suspend_reason
               ELSE IF on THEN tp.suspend_reason \cup {"tablet"}
               ELSE tp.suspend_reason \ {"tablet"}
      BY <1>0, SwitchesNotify
    <3>2. Becomes(u)
      BY <1>1 DEF TabletEvent
    <3> HIDE DEF u
    <3> QED BY <3>1, <3>2, BecomesIsQuiet
  <2>2. OthersOK' /\ PairedIsPlugged'
    BY <1>0, <1>1 DEF TabletEvent, OthersOK, PairedIsPlugged
  <2>3. ReasonsExplained'
    BY <1>0, <1>1, <2>1 DEF TabletEvent, ReasonsExplained
  <2> QED BY <1>0, <1>1, <2>1, <2>2, <2>3, InvFromParts DEF TabletEvent
<1>2. ASSUME NEW m \in Mice, MouseEvent(m)
      PROVE  Inv' /\ Quiet
  <2>1. /\ Quiet
        /\ tp'.suspend_reason =
             tp.suspend_reason \cup
               (IF mice[m] # "unpaired" /\ mode = "on_mouse"
                THEN {"mouse"} ELSE {})
    BY <1>0, <1>2, MouseNotifies, BecomesIsQuiet DEF MouseEvent
  <2>2. m \in plugged
    BY <1>2 DEF MouseEvent, Active
  <2>3. /\ \A j \in Mice : j # m => mice'[j] = mice[j]
        /\ mice'[m] = IF mice[m] = "unpaired" THEN "unpaired" ELSE "sent"
        /\ mice' \in [Mice -> MouseStates]
    BY <1>0, <1>2 DEF MouseEvent, OthersOK, MouseStates
  <2>4. OthersOK' /\ PairedIsPlugged'
    BY <1>0, <1>2, <2>2, <2>3 DEF MouseEvent, OthersOK, PairedIsPlugged
  <2>5. ReasonsExplained'
    BY <1>0, <1>2, <2>1, <2>2, <2>3 DEF MouseEvent, ReasonsExplained
  <2> QED BY <1>0, <1>2, <2>1, <2>4, <2>5, InvFromParts DEF MouseEvent
<1> QED BY <1>1, <1>2

-----------------------------------------------------------------------------
(* Devices that come and go                                                *)

\* What pairing and unpairing leave behind.
LEMMA Pairing ==
  ASSUME OthersOK, NEW d \in Devices
  PROVE  /\ PairedMice(d) \in [Mice -> MouseStates]
         /\ \A m \in Mice : PairedMice(d)[m] = IF m = d THEN "silent" ELSE mice[m]
         /\ PairedSwitches(d) \in SUBSET {Lid, TabletSwitch}
         /\ Unpair(d) =>
              /\ mice' \in [Mice -> MouseStates]
              /\ \A m \in Mice :
                   mice'[m] = IF m = d THEN "unpaired" ELSE mice[m]
              /\ paired' = paired \ {d}
  BY DEF OthersOK, PairedMice, PairedSwitches, Unpair, MouseStates

\* A device goes, or is disabled: the reasons it stands for end, after what
\* the release of a held key or button has added.
LEMMA GoneExplained ==
  ASSUME Inv, NEW d \in Devices, Unpair(d), UNCHANGED mode,
         \/ plugged' = plugged
         \/ plugged' = plugged \ {d},
         NEW R, tp'.suspend_reason = R \ EndsWith(d),
         R = tp.suspend_reason
           \/ /\ d \in Mice /\ d \in plugged /\ plugged' = plugged
              /\ R = tp.suspend_reason \cup
                       (IF mice[d] # "unpaired" /\ mode = "on_mouse"
                        THEN {"mouse"} ELSE {})
           \/ R = tp.suspend_reason \ {"lid"},
         d # TabletSwitch => tablet_on' = tablet_on,
         "lid" \in R => d = Lid \/ lid'.client_state = lid.client_state
  PROVE  ReasonsExplained' /\ PairedIsPlugged'
<1>0. OthersOK /\ PairedIsPlugged /\ ReasonsExplained
  BY InvIsGood
<1>1. /\ \A m \in Mice : mice'[m] = IF m = d THEN "unpaired" ELSE mice[m]
      /\ paired' = paired \ {d}
  BY <1>0, Pairing
<1>2. d \in Mice => d \notin paired
  BY <1>0, SuspendAssumption DEF OthersOK
<1>3. PairedIsPlugged'
  BY <1>0, <1>1 DEF PairedIsPlugged, OthersOK
<1>4. "sendevents" \notin EndsWith(d)
  BY DEF EndsWith, ReasonOf
<1>5. "sendevents" \in tp'.suspend_reason <=> mode' = "disabled"
  BY <1>0, <1>4 DEF ReasonsExplained
<1>6. "tablet" \in EndsWith(d) <=> d = TabletSwitch /\ d \in paired
  BY <1>0, SuspendAssumption DEF EndsWith, ReasonOf, OthersOK
<1>7. "tablet" \in tp'.suspend_reason <=> TabletSwitch \in paired' /\ tablet_on'
  BY <1>0, <1>1, <1>6 DEF ReasonsExplained
<1>8. "lid" \in EndsWith(d) <=> d = Lid /\ d \in paired
  BY <1>0, SuspendAssumption DEF EndsWith, ReasonOf, OthersOK
<1>9. "lid" \in tp'.suspend_reason => Lid \in paired' /\ lid'.client_state
  BY <1>0, <1>1, <1>8 DEF ReasonsExplained
<1>10. "mouse" \in EndsWith(d) <=>
         mode = "on_mouse" /\ \A m \in Mice \ {d} : mice[m] # "sent"
  BY DEF EndsWith, ReasonOf
<1>11. "mouse" \in tp'.suspend_reason =>
         mode' = "on_mouse" /\ plugged' \cap Mice # {}
  <2> SUFFICES ASSUME "mouse" \in tp'.suspend_reason
               PROVE  mode' = "on_mouse" /\ plugged' \cap Mice # {}
    OBVIOUS
  <2>1. mode = "on_mouse"
    BY <1>0 DEF ReasonsExplained
  <2>2. PICK m \in Mice \ {d} : mice[m] = "sent"
    BY <2>1, <1>10
  <2>3. m \in plugged'
    BY <1>0, <2>2 DEF PairedIsPlugged
  <2> QED BY <2>1, <2>3
<1>12. mode' = "on_mouse" /\ (\E m \in Mice : mice'[m] = "sent") =>
         "mouse" \in tp'.suspend_reason
  <2> SUFFICES ASSUME mode = "on_mouse", NEW m \in Mice, mice'[m] = "sent"
               PROVE  "mouse" \in tp'.suspend_reason
    OBVIOUS
  <2>1. m # d /\ mice[m] = "sent"
    BY <1>1
  <2>2. "mouse" \in tp.suspend_reason
    BY <1>0, <2>1 DEF ReasonsExplained
  <2>3. "mouse" \notin EndsWith(d)
    BY <1>10, <2>1
  <2> QED BY <2>2, <2>3
<1> QED BY <1>3, <1>5, <1>7, <1>9, <1>11, <1>12 DEF ReasonsExplained

\* A device comes, or is enabled: a switch that is on is a new reason.
LEMMA ComeExplained ==
  ASSUME Inv, NEW d \in Devices, d \in plugged', plugged \subseteq plugged',
         mice' = PairedMice(d), paired' = PairedSwitches(d), UNCHANGED mode,
         NEW A, tp'.suspend_reason = tp.suspend_reason \cup A,
         "mouse" \notin A, "sendevents" \notin A,
         "lid" \in A => d = Lid /\ lid'.client_state,
         "tablet" \in A <=> d = TabletSwitch /\ d \notin paired /\ tablet_on',
         d # TabletSwitch \/ d \in paired => tablet_on' = tablet_on,
         d # Lid \/ d \in paired => lid'.client_state = lid.client_state
  PROVE  ReasonsExplained' /\ PairedIsPlugged'
<1>0. OthersOK /\ PairedIsPlugged /\ ReasonsExplained
  BY InvIsGood
<1>1. /\ \A m \in Mice : mice'[m] = IF m = d THEN "silent" ELSE mice[m]
      /\ paired' = paired \cup ({d} \cap {Lid, TabletSwitch})
  BY <1>0, Pairing DEF PairedSwitches
<1>2. PairedIsPlugged'
  BY <1>0, <1>1 DEF PairedIsPlugged
<1>3. Lid # TabletSwitch
  BY SuspendAssumption
<1>4. "tablet" \in tp'.suspend_reason <=> TabletSwitch \in paired' /\ tablet_on'
  <2>1. "tablet" \in tp.suspend_reason <=> TabletSwitch \in paired /\ tablet_on
    BY <1>0 DEF ReasonsExplained
  <2>2. CASE d = TabletSwitch /\ d \notin paired
    BY <1>1, <2>1, <2>2
  <2>3. CASE d # TabletSwitch \/ d \in paired
    <3>1. tablet_on' = tablet_on
      BY <2>3
    <3>2. TabletSwitch \in paired' <=> TabletSwitch \in paired
      BY <1>1, <2>3
    <3>3. "tablet" \notin A
      BY <2>3
    <3> QED BY <2>1, <3>1, <3>2, <3>3
  <2> QED BY <2>2, <2>3
<1>5. "lid" \in tp'.suspend_reason => Lid \in paired' /\ lid'.client_state
  BY <1>0, <1>1 DEF ReasonsExplained
<1>6. \A m \in Mice : mice'[m] = "sent" => mice[m] = "sent"
  BY <1>1
<1> QED BY <1>0, <1>2, <1>4, <1>5, <1>6 DEF ReasonsExplained

LEMMA LidStates ==
  ASSUME OthersOK
  PROVE  /\ \A closed, reliable \in BOOLEAN :
              /\ NewLid(closed, reliable) \in LidState
              /\ NewLid(closed, reliable).client_state =
                   (closed /\ reliable)
         /\ \A l \in BOOLEAN :
              /\ [lid EXCEPT !.listens = l] \in LidState
              /\ [lid EXCEPT !.listens = l].client_state = lid.client_state
              /\ [LidMoves(FALSE) EXCEPT !.listens = l] \in LidState
              /\ [LidMoves(FALSE) EXCEPT !.listens = l].client_state = FALSE
  BY DEF OthersOK, LidState, NewLid, LidMoves

\* A device is added to the seat.
LEMMA PlugInv ==
  ASSUME Inv, NEW d \in Devices, NEW on \in BOOLEAN, NEW reliable \in BOOLEAN,
         Plug(d, on, reliable)
  PROVE  Inv' /\ Quiet
<1>0. /\ Good(tp) /\ OthersOK /\ mode \in Modes /\ PairedIsPlugged
      /\ ReasonsExplained /\ contacts \in SUBSET Slots
  BY InvIsGood
<1>1. d \notin plugged /\ d \notin paired
  BY <1>0 DEF Plug, PairedIsPlugged
<1> DEFINE u == IF d = Lid /\ on /\ reliable THEN Suspended(tp, "lid")
                ELSE Added(tp, d, on)
           A == (IF d = Lid /\ on /\ reliable THEN {"lid"} ELSE {})
                  \cup (IF d = TabletSwitch /\ on THEN {"tablet"} ELSE {})
<1>2. Reaches(tp, u) /\ u.suspend_reason = tp.suspend_reason \cup A
  <2>1. "lid" \in Reasons /\ Lid # TabletSwitch
    BY SuspendAssumption DEF Reasons
  <2>2. CASE d = Lid /\ on /\ reliable
    <3>1. u = Suspended(tp, "lid") /\ A = {"lid"}
      BY <2>1, <2>2
    <3> HIDE DEF u, A
    <3> QED BY <1>0, <2>1, <3>1, SuspendedReaches DEF Good
  <2>3. CASE ~(d = Lid /\ on /\ reliable)
    <3>1. /\ u = Added(tp, d, on)
          /\ A = IF d = TabletSwitch /\ d \notin paired /\ on
                 THEN {"tablet"} ELSE {}
      BY <1>1, <2>3
    <3> HIDE DEF u, A
    <3> QED BY <1>0, <3>1, AddedDoes
  <2> QED BY <2>2, <2>3
<1>3. Becomes(u)
  BY DEF Plug
<1> HIDE DEF u
<1>4. Quiet /\ tp'.suspend_reason = tp.suspend_reason \cup A
  BY <1>2, <1>3, BecomesIsQuiet
<1>5. /\ lid' \in LidState
      /\ lid'.client_state = IF d = Lid THEN on /\ reliable ELSE lid.client_state
  <2>2. CASE d = Lid
    BY <1>0, <2>2, LidStates DEF Plug
  <2>3. CASE d # Lid /\ d = Keyboard
    <3> DEFINE l == lid.is_closed /\ Lid \in plugged
    <3>1. l \in BOOLEAN
      BY <1>0 DEF OthersOK, LidState
    <3>2. lid' = [lid EXCEPT !.listens = l]
      BY <2>3 DEF Plug
    <3> HIDE DEF l
    <3> QED BY <1>0, <2>3, <3>1, <3>2, LidStates
  <2>4. CASE d # Lid /\ d # Keyboard
    BY <1>0, <2>4 DEF Plug, OthersOK
  <2> QED BY <2>2, <2>3, <2>4
<1>6. /\ d \in plugged' /\ plugged \subseteq plugged'
      /\ mice' = PairedMice(d) /\ paired' = PairedSwitches(d)
      /\ UNCHANGED <<contacts, mode, disabled>>
      /\ tablet_on' = IF d = TabletSwitch THEN on ELSE tablet_on
      /\ plugged' \in SUBSET Devices
  BY <1>0 DEF Plug, OthersOK
<1>7. OthersOK'
  BY <1>0, <1>5, <1>6, Pairing DEF OthersOK
<1>8. ReasonsExplained' /\ PairedIsPlugged'
  <2>1. Lid # TabletSwitch
    BY SuspendAssumption
  <2>2. /\ "mouse" \notin A /\ "sendevents" \notin A
        /\ "lid" \in A => d = Lid /\ on /\ reliable
        /\ "tablet" \in A <=> d = TabletSwitch /\ on
    OBVIOUS
  <2> HIDE DEF A
  <2>3. /\ "lid" \in A => d = Lid /\ lid'.client_state
        /\ "tablet" \in A <=>
             d = TabletSwitch /\ d \notin paired /\ tablet_on'
        /\ d # TabletSwitch \/ d \in paired => tablet_on' = tablet_on
        /\ d # Lid \/ d \in paired => lid'.client_state = lid.client_state
    BY <1>1, <1>5, <1>6, <2>2
  <2> QED BY <1>4, <1>6, <2>2, <2>3, ComeExplained
<1> QED BY <1>0, <1>4, <1>6, <1>7, <1>8, InvFromParts

\* A disabled device is enabled again.
LEMMA EnableInv ==
  ASSUME Inv, NEW d \in Devices, Enable(d)
  PROVE  Inv' /\ Quiet
<1>0. /\ Good(tp) /\ OthersOK /\ mode \in Modes /\ PairedIsPlugged
      /\ ReasonsExplained /\ contacts \in SUBSET Slots
  BY InvIsGood
<1> DEFINE u == Added(tp, d, tablet_on)
           A == IF d = TabletSwitch /\ d \notin paired /\ tablet_on
                THEN {"tablet"} ELSE {}
<1>1. Reaches(tp, u) /\ u.suspend_reason = tp.suspend_reason \cup A
  BY <1>0, AddedDoes DEF OthersOK
<1>2. Becomes(u)
  BY DEF Enable
<1> HIDE DEF u
<1>3. Quiet /\ tp'.suspend_reason = tp.suspend_reason \cup A
  BY <1>1, <1>2, BecomesIsQuiet
<1>4. lid' \in LidState /\ lid'.client_state = lid.client_state
  <2> DEFINE l == lid.is_closed /\ Lid \in plugged
  <2>1. l \in BOOLEAN
    BY <1>0 DEF OthersOK, LidState
  <2>2. lid' = lid \/ lid' = [lid EXCEPT !.listens = l]
    BY DEF Enable
  <2> HIDE DEF l
  <2> QED BY <1>0, <2>1, <2>2, LidStates DEF OthersOK
<1>5. /\ d \in plugged'
      /\ mice' = PairedMice(d) /\ paired' = PairedSwitches(d)
      /\ UNCHANGED <<contacts, mode, plugged, tablet_on>>
      /\ disabled' = disabled \ {d}
  BY <1>0 DEF Enable, OthersOK
<1>6. OthersOK'
  BY <1>0, <1>4, <1>5, Pairing DEF OthersOK
<1>7. ReasonsExplained' /\ PairedIsPlugged'
  <2>1. /\ "mouse" \notin A /\ "sendevents" \notin A /\ "lid" \notin A
        /\ "tablet" \in A <=>
             d = TabletSwitch /\ d \notin paired /\ tablet_on
    OBVIOUS
  <2> HIDE DEF A
  <2> QED BY <1>3, <1>4, <1>5, <2>1, ComeExplained
<1> QED BY <1>0, <1>3, <1>5, <1>6, <1>7, InvFromParts

\* A device is removed from the seat.
LEMMA UnplugInv ==
  ASSUME Inv, NEW d \in Devices, NEW ok \in BOOLEAN, Unplug(d, ok)
  PROVE  Inv' /\ Quiet
<1>0. /\ Good(tp) /\ OthersOK /\ mode \in Modes /\ PairedIsPlugged
      /\ ReasonsExplained /\ contacts \in SUBSET Slots
  BY InvIsGood
<1> DEFINE u == IF d \in disabled THEN Removed(tp, d, ok)
                ELSE NoMouseLeft(Removed(tp, d, ok), d, ok)
<1>1. Reaches(tp, u) /\ u.suspend_reason = tp.suspend_reason \ EndsWith(d)
  BY <1>0, RemovedDoes
<1>2. Becomes(u)
  BY DEF Unplug
<1> HIDE DEF u
<1>3. Quiet /\ tp'.suspend_reason = tp.suspend_reason \ EndsWith(d)
  BY <1>1, <1>2, BecomesIsQuiet
<1>4. /\ lid' \in LidState
      /\ d # Lid => lid'.client_state = lid.client_state
  BY <1>0, LidStates DEF Unplug, OthersOK
<1>5. /\ Unpair(d)
      /\ UNCHANGED <<contacts, mode>>
      /\ plugged' = plugged \ {d} /\ disabled' = disabled \ {d}
      /\ tablet_on' \in BOOLEAN
      /\ d # TabletSwitch => tablet_on' = tablet_on
  BY <1>0 DEF Unplug, OthersOK
<1>6. OthersOK'
  <2>1. mice' \in [Mice -> MouseStates] /\ paired' = paired \ {d}
    BY <1>0, <1>5, Pairing
  <2> QED BY <1>0, <1>4, <1>5, <2>1 DEF OthersOK
<1>7. ReasonsExplained' /\ PairedIsPlugged'
  <2>1. "lid" \in tp.suspend_reason =>
          d = Lid \/ lid'.client_state = lid.client_state
    BY <1>4
  <2> QED BY <1>3, <1>5, <2>1, GoneExplained
<1> QED BY <1>0, <1>3, <1>5, <1>6, <1>7, InvFromParts

\* The client disables a device, whose held keys or buttons come up first.
LEMMA DisableInv ==
  ASSUME Inv, NEW d \in Devices, NEW held \in BOOLEAN, NEW ok \in BOOLEAN,
         Disable(d, held, ok)
  PROVE  Inv' /\ Quiet
<1>0. /\ Good(tp) /\ OthersOK /\ mode \in Modes /\ PairedIsPlugged
      /\ ReasonsExplained /\ contacts \in SUBSET Slots
  BY InvIsGood
<1> DEFINE v == IF held /\ d \in Mice THEN MouseNotified(tp, d)
                ELSE IF held /\ d = Keyboard /\ KeyOpensLid
                THEN LidNotices(tp, FALSE, ok) ELSE tp
           u == Removed(v, d, ok)
           opens == held /\ d = Keyboard /\ KeyOpensLid
<1>1. /\ Unpair(d) /\ d \in plugged
      /\ UNCHANGED <<contacts, mode, plugged, tablet_on>>
      /\ disabled' = disabled \cup {d}
      /\ Becomes(u)
  BY DEF Disable, Active
<1>2. Reaches(tp, v)
  BY <1>0, MouseNotifies, LidNoticesDoes, ReachesItself DEF Good
<1>3. /\ lid' \in LidState
      /\ lid'.client_state = IF opens THEN FALSE ELSE lid.client_state
  <2>1. CASE d # Keyboard
    BY <1>0, <2>1 DEF Disable, OthersOK
  <2>2. CASE d = Keyboard
    BY <1>0, <2>2, LidStates DEF Disable, LidState
  <2> QED BY <2>1, <2>2
<1>4. /\ v.suspend_reason = tp.suspend_reason /\ (opens => lid.client_state = FALSE)
      \/ /\ d \in Mice
         /\ v.suspend_reason = tp.suspend_reason \cup
              (IF mice[d] # "unpaired" /\ mode = "on_mouse"
               THEN {"mouse"} ELSE {})
      \/ /\ opens
         /\ v.suspend_reason = tp.suspend_reason \ {"lid"}
  <2>1. CASE held /\ d \in Mice
    BY <1>0, <2>1, MouseNotifies
  <2>2. CASE d \notin Mice /\ opens
    <3>1. v = LidNotices(tp, FALSE, ok)
      BY <2>2
    <3>2. v.suspend_reason =
            IF lid.client_state = FALSE \/ Lid \notin paired
            THEN tp.suspend_reason ELSE tp.suspend_reason \ {"lid"}
      BY <1>0, <3>1, LidNoticesDoes
    <3>3. Lid \notin paired => tp.suspend_reason \ {"lid"} = tp.suspend_reason
      BY <1>0 DEF ReasonsExplained
    <3> QED BY <2>2, <3>2, <3>3
  <2>3. CASE ~(held /\ d \in Mice) /\ ~opens
    BY <2>3
  <2>4. opens => d \notin Mice
    BY SuspendAssumption
  <2> QED BY <2>1, <2>2, <2>3, <2>4
<1>5. Good(v)
  BY <1>0, <1>2 DEF Good, Reaches
<1> HIDE DEF v, opens
<1>6. Reaches(v, u) /\ u.suspend_reason = v.suspend_reason \ EndsWith(d)
  BY <1>5, RemovedDoes
<1>7. Reaches(tp, u)
  BY <1>2, <1>6, ReachesOn
<1> HIDE DEF u
<1>8. Quiet /\ tp'.suspend_reason = v.suspend_reason \ EndsWith(d)
  BY <1>1, <1>6, <1>7, BecomesIsQuiet
<1>9. OthersOK'
  <2>1. mice' \in [Mice -> MouseStates] /\ paired' = paired \ {d}
    BY <1>0, <1>1, Pairing
  <2> QED BY <1>0, <1>1, <1>3, <2>1 DEF OthersOK
<1>10. "lid" \in v.suspend_reason =>
         d = Lid \/ lid'.client_state = lid.client_state
  <2>1. opens => d # Lid /\ d \notin Mice
    BY SuspendAssumption DEF opens
  <2> QED BY <1>3, <1>4, <2>1
<1>11. ReasonsExplained' /\ PairedIsPlugged'
  BY <1>1, <1>4, <1>8, <1>10, GoneExplained
<1> QED BY <1>0, <1>1, <1>8, <1>9, <1>11, InvFromParts

\* The client changes the send-events mode: two calls, one after the other.
LEMMA SetModeInv ==
  ASSUME Inv, NEW m \in Modes, NEW ok \in BOOLEAN, SetMode(m, ok)
  PROVE  Inv' /\ Quiet
<1>0. /\ Good(tp) /\ OthersOK /\ mode \in Modes /\ PairedIsPlugged
      /\ ReasonsExplained /\ contacts \in SUBSET Slots
  BY InvIsGood
<1>1. "mouse" \in Reasons /\ "sendevents" \in Reasons
  BY DEF Reasons
<1>2. /\ mode' = m /\ contacts' = contacts
      /\ plugged' = plugged /\ disabled' = disabled /\ mice' = mice
      /\ paired' = paired /\ lid' = lid /\ tablet_on' = tablet_on
  BY DEF SetMode, others
<1>3. OthersOK' /\ PairedIsPlugged'
  BY <1>0, <1>2 DEF OthersOK, PairedIsPlugged
<1>4. ASSUME NEW u, Reaches(tp, u), Becomes(u),
             "sendevents" \in u.suspend_reason <=> m = "disabled",
             "tablet" \in u.suspend_reason <=> "tablet" \in tp.suspend_reason,
             "lid" \in u.suspend_reason <=> "lid" \in tp.suspend_reason,
             "mouse" \in u.suspend_reason =>
               m = "on_mouse" /\ plugged \cap Mice # {},
             m = "on_mouse" /\ plugged \cap Mice # {} =>
               "mouse" \in u.suspend_reason
      PROVE  Inv' /\ Quiet
  <2>1. Quiet /\ tp' = u
    BY <1>4, BecomesIsQuiet
  <2>2. (\E j \in Mice : mice[j] = "sent") => plugged \cap Mice # {}
    BY <1>0 DEF PairedIsPlugged
  <2>3. ReasonsExplained'
    BY <1>0, <1>2, <1>4, <2>1, <2>2 DEF ReasonsExplained
  <2> QED BY <1>0, <1>2, <1>3, <2>1, <2>3, InvFromParts
<1>5. ASSUME NEW v, Reaches(tp, v), NEW trigger \in Reasons
      PROVE  /\ Reaches(tp, Resumed(v, trigger, ok))
             /\ Resumed(v, trigger, ok).suspend_reason =
                  v.suspend_reason \ {trigger}
  <2>1. v \in Counted /\ Matched(v)
    BY <1>5 DEF Reaches
  <2>2. Reaches(v, Resumed(v, trigger, ok))
        /\ Resumed(v, trigger, ok).suspend_reason = v.suspend_reason \ {trigger}
    BY <1>0, <2>1, ResumedReaches
  <2> QED BY <1>5, <2>2, ReachesOn
<1>6. Reaches(tp, tp)
  BY <1>0, ReachesItself DEF Good
<1>7. CASE m = "enabled"
  <2> DEFINE v == Resumed(tp, "sendevents", ok)
             u == Resumed(v, "mouse", ok)
  <2>1. Becomes(u)
    BY <1>7 DEF SetMode
  <2>2. Reaches(tp, v) /\ v.suspend_reason = tp.suspend_reason \ {"sendevents"}
    BY <1>1, <1>5, <1>6
  <2> HIDE DEF v
  <2>3. Reaches(tp, u) /\ u.suspend_reason = v.suspend_reason \ {"mouse"}
    BY <1>1, <1>5, <2>2
  <2> HIDE DEF u
  <2> QED BY <1>4, <1>7, <2>1, <2>2, <2>3
<1>8. CASE m = "disabled"
  <2> DEFINE v == Suspended(tp, "sendevents")
             u == Resumed(v, "mouse", ok)
  <2>1. Becomes(u)
    BY <1>8 DEF SetMode
  <2>2. Reaches(tp, v)
        /\ v.suspend_reason = tp.suspend_reason \cup {"sendevents"}
    BY <1>0, <1>1, SuspendedReaches DEF Good
  <2> HIDE DEF v
  <2>3. Reaches(tp, u) /\ u.suspend_reason = v.suspend_reason \ {"mouse"}
    BY <1>1, <1>5, <2>2
  <2> HIDE DEF u
  <2> QED BY <1>4, <1>8, <2>1, <2>2, <2>3
<1>9. CASE m = "on_mouse"
  <2> DEFINE v == IF plugged \cap Mice = {} THEN tp ELSE Suspended(tp, "mouse")
             u == Resumed(v, "sendevents", ok)
  <2>1. Becomes(u)
    BY <1>9 DEF SetMode
  <2>2. Reaches(tp, v)
        /\ v.suspend_reason = tp.suspend_reason \cup
             (IF plugged \cap Mice = {} THEN {} ELSE {"mouse"})
    BY <1>0, <1>1, <1>6, SuspendedReaches DEF Good
  <2> HIDE DEF v
  <2>3. Reaches(tp, u) /\ u.suspend_reason = v.suspend_reason \ {"sendevents"}
    BY <1>1, <1>5, <2>2
  <2>4. "mouse" \in tp.suspend_reason => plugged \cap Mice # {}
    BY <1>0 DEF ReasonsExplained
  <2> HIDE DEF u
  <2> QED BY <1>4, <1>9, <2>1, <2>2, <2>3, <2>4
<1> QED BY <1>7, <1>8, <1>9 DEF Modes

-----------------------------------------------------------------------------

\* A touchpad that is added to a seat on which the tablet switch may be on.
LEMMA InitInv == Init => Inv
<1> SUFFICES ASSUME Init PROVE Inv
  OBVIOUS
<1>1. /\ contacts \in SUBSET Slots /\ Cardinality(contacts) <= MaxActive
      /\ plugged \in SUBSET Devices /\ disabled = {}
      /\ mice = [m \in Mice |-> IF m \in plugged THEN "silent" ELSE "unpaired"]
      /\ paired = plugged \cap {Lid, TabletSwitch}
      /\ tablet_on \in BOOLEAN /\ (tablet_on => TabletSwitch \in plugged)
      /\ mode = "enabled"
  BY DEF Init
<1>2. Cardinality(contacts) \in 0..MaxActive
  <2>1. IsFiniteSet(contacts)
    BY <1>1, FS_Subset, SuspendAssumption
  <2>2. Cardinality(contacts) \in Nat
    BY <2>1, FS_CardinalityType
  <2> QED BY <1>1, <2>2, SuspendAssumption
<1>3. lid \in LidState
  <2>1. PICK closed \in BOOLEAN, reliable \in BOOLEAN :
          lid = NewLid(closed /\ Lid \in plugged, reliable)
    BY DEF Init
  <2> DEFINE c == closed /\ Lid \in plugged
  <2>2. c \in BOOLEAN
    OBVIOUS
  <2>3. lid = NewLid(c, reliable)
    BY <2>1
  <2> HIDE DEF c
  <2> QED BY <2>2, <2>3 DEF NewLid, LidState
<1>4. OthersOK /\ PairedIsPlugged
  BY <1>1, <1>3 DEF OthersOK, PairedIsPlugged, MouseStates
<1>5. PICK top \in BOOLEAN :
        tp = IF tablet_on THEN Suspended(NewTouchpad(top), "tablet")
             ELSE NewTouchpad(top)
  BY DEF Init
<1> DEFINE t == NewTouchpad(top)
<1>6. /\ t \in Counted /\ Matched(t)
      /\ t.suspend_reason = {}
      /\ t.nactive_slots \in 0..MaxActive
      /\ Seen(t, contacts)
  <2>1. Cardinality(contacts) \in Nat
    BY <1>2
  <2>2. t = [has_topbuttons |-> top, suspend_reason |-> {}, fd_open |-> TRUE,
             is_suspended |-> FALSE, open_failed |-> FALSE,
             nactive_slots |-> Cardinality(contacts), touches |-> {},
             slots |-> contacts]
    BY DEF NewTouchpad
  <2> HIDE DEF t
  <2> QED BY <1>1, <1>2, <2>1, <2>2 DEF Counted, Matched, Seen, Seated
<1>7. tp = IF tablet_on THEN Suspended(t, "tablet") ELSE t
  BY <1>5
<1> HIDE DEF t
<1>8. /\ tp \in Counted /\ Matched(tp)
      /\ tp.suspend_reason = IF tablet_on THEN {"tablet"} ELSE {}
      /\ tp.nactive_slots \in 0..MaxActive
      /\ Seen(tp, contacts)
  <2>1. "tablet" \in Reasons
    BY DEF Reasons
  <2>2. CASE tablet_on
    <3>1. /\ Reaches(t, tp)
          /\ tp.suspend_reason = t.suspend_reason \cup {"tablet"}
          /\ tp.nactive_slots = t.nactive_slots
      BY <1>6, <1>7, <2>1, <2>2, SuspendedReaches
    <3> QED BY <1>6, <2>2, <3>1 DEF Reaches
  <2>3. CASE ~tablet_on
    BY <1>6, <1>7, <2>3
  <2> QED BY <2>2, <2>3
<1>9. tp \in Touchpad
  BY <1>8 DEF Counted, Touchpad
<1>10. mode \in Modes
  BY <1>1 DEF Modes
<1>11. \A m \in Mice : mice[m] # "sent"
  BY <1>1
<1>12. ReasonsExplained
  BY <1>1, <1>8, <1>11 DEF ReasonsExplained
<1> QED BY <1>1, <1>4, <1>8, <1>9, <1>10, <1>12 DEF Inv, TypeOK, OthersOK

\* Every step keeps the invariant and is one of SilentWhileSuspended.
LEMMA NextInv ==
  ASSUME Inv, [Next]_vars
  PROVE  /\ Inv'
         /\ \/ Quiet
            \/ /\ tp'.suspend_reason = tp.suspend_reason
               /\ \/ Reported(tp') = Reported(tp)
                  \/ tp.suspend_reason = {} /\ Reported(tp') \in SUBSET Slots
<1>1. CASE \E s \in Slots : Land(s) \/ Lift(s)
  BY <1>1, FingersInv
<1>2. CASE \/ \E closed, ok \in BOOLEAN : LidEvent(closed, ok)
           \/ \E ok \in BOOLEAN : Key(ok)
  BY <1>2, LidInv
<1>3. CASE \/ \E on, ok \in BOOLEAN : TabletEvent(on, ok)
           \/ \E m \in Mice : MouseEvent(m)
  BY <1>3, TabletAndMouseInv
<1>4. CASE \E d \in Devices, on, reliable \in BOOLEAN : Plug(d, on, reliable)
  BY <1>4, PlugInv
<1>5. CASE \E d \in Devices, ok \in BOOLEAN : Unplug(d, ok)
  BY <1>5, UnplugInv
<1>6. CASE \E d \in Devices, held, ok \in BOOLEAN : Disable(d, held, ok)
  BY <1>6, DisableInv
<1>7. CASE \E d \in Devices : Enable(d)
  BY <1>7, EnableInv
<1>8. CASE \E m \in Modes, ok \in BOOLEAN : SetMode(m, ok)
  BY <1>8, SetModeInv
<1>9. CASE UNCHANGED vars
  <2>1. Quiet
    BY <1>9, UnchangedIsQuiet DEF vars
  <2>2. /\ Good(tp) /\ OthersOK /\ mode \in Modes /\ PairedIsPlugged
        /\ ReasonsExplained /\ contacts \in SUBSET Slots
    BY InvIsGood
  <2>3. OthersOK' /\ PairedIsPlugged' /\ ReasonsExplained'
    BY <1>9, <2>2
    DEF vars, others, OthersOK, PairedIsPlugged, ReasonsExplained
  <2> QED BY <1>9, <2>1, <2>2, <2>3, InvFromParts DEF vars
<1> QED
  BY <1>1, <1>2, <1>3, <1>4, <1>5, <1>6, <1>7, <1>8, <1>9 DEF Next

\* Inv is an invariant, for any slots and mice.
THEOREM Invariance == Spec => []Inv
<1>1. Inv /\ [Next]_vars => Inv'
  BY NextInv
<1> QED BY <1>1, InitInv, PTL DEF Spec

\* Type correctness, with nactive_slots within TLC's bound.
THEOREM TypeCorrect == Spec => []TypeOK
<1>1. Inv => TypeOK
  BY DEF Inv
<1> QED BY <1>1, Invariance, PTL

\* Every reason to suspend the touchpad stands for something that is so.
THEOREM ReasonsAreReal == Spec => []ReasonsExplained
<1>1. Inv => ReasonsExplained
  BY DEF Inv
<1> QED BY <1>1, Invariance, PTL

\* The touchpad is suspended and closed exactly while there is a reason,
\* unless it could not be reopened.
THEOREM SuspensionMatches == Spec => []SuspendedMatchesReasons
<1>1. Inv => SuspendedMatchesReasons
  BY DEF Inv, Matched, SuspendedMatchesReasons
<1> QED BY <1>1, Invariance, PTL

\* Every touch has a finger in its slot, and nactive_slots never falls short
\* of the fingers on an open touchpad, so no end of a touch goes unseen.
THEOREM NoTouchEndMissed == Spec => []TouchEndsSeen
<1>1. Inv => TouchEndsSeen
  BY DEF Inv, Seen, Seated, TouchEndsSeen
<1> QED BY <1>1, Invariance, PTL

\* The touchpad implements SilentWhileSuspended: nothing is reported while
\* there is a reason, and no touch outlives a change of the reasons.
THEOREM SuspensionIsSilent == Spec => ImplementsSilence
<1>1. Init => Silence!Init
  <2> SUFFICES ASSUME Init PROVE Silence!Init
    OBVIOUS
  <2>1. Inv
    BY InitInv
  <2>2. tp.suspend_reason \in SUBSET Reasons
    BY <2>1 DEF Inv, TypeOK, Touchpad
  <2>3. PICK top \in BOOLEAN :
          tp = IF tablet_on THEN Suspended(NewTouchpad(top), "tablet")
               ELSE NewTouchpad(top)
    BY DEF Init
  <2>4. CASE tablet_on
    <3>1. tp.suspend_reason # {}
      BY <2>1, <2>4 DEF Init, Inv, ReasonsExplained
    <3>2. tp.is_suspended
      BY <2>1, <3>1 DEF Inv, Matched
    <3> QED BY <2>2, <3>2 DEF Silence!Init
  <2>5. CASE ~tablet_on
    <3>1. tp.touches = {}
      BY <2>3, <2>5 DEF NewTouchpad
    <3> QED BY <2>2, <3>1 DEF Silence!Init
  <2> QED BY <2>4, <2>5
<1>2. Inv /\ [Next]_vars => [Silence!Next]_Silence!vars
  <2> SUFFICES ASSUME Inv, [Next]_vars
               PROVE  [Silence!Next]_Silence!vars
    OBVIOUS
  <2>1. Inv' /\ tp'.suspend_reason \in SUBSET Reasons
    BY NextInv DEF Inv, TypeOK, Touchpad
  <2>2. CASE Silent(tp, tp')
    BY <2>1, <2>2
    DEF Silent, Reported, Silence!Next, Silence!Change, Silence!vars
  <2>3. CASE /\ tp'.suspend_reason = tp.suspend_reason
             /\ \/ Reported(tp') = Reported(tp)
                \/ tp.suspend_reason = {} /\ Reported(tp') \in SUBSET Slots
    BY <2>3
    DEF Reported, Silence!Next, Silence!Report, Silence!vars
  <2> QED BY <2>2, <2>3, NextInv DEF Quiet
<1> QED
  BY <1>1, <1>2, Invariance, PTL DEF Spec, ImplementsSilence, Silence!Spec
=============================================================================
