--------------------------- MODULE MouseButtonProofs ---------------------------
(***************************************************************************)
(* Proofs about the buttons of a mouse: about ButtonDebounce, for any set  *)
(* of buttons, any timeouts with the short one below the long one, and any *)
(* delay of the frames, then about PointerButtons, for any buttons and any *)
(* scroll settings.                                                        *)
(***************************************************************************)
EXTENDS ButtonDebounce, PointerButtons, TLAPS, FiniteSetTheorems,
        NaturalsInduction, WellFoundedInduction

USE DEF Timers, States

(* What the state says of the current button: whether downstream has it    *)
(* down, whether the kernel has it down, and which timers are armed.       *)
Agrees(dev, phys) ==
  LET b == dev.usage
  IN  /\ dev.state \in {"IS_UP", "IS_UP_DETECTING_SPURIOUS", "IS_UP_WAITING"}
           => b \notin dev.down /\ b \notin phys
      /\ dev.state \in {"IS_DOWN", "IS_DOWN_WAITING"}
           => b \in dev.down /\ b \in phys
      /\ dev.state \in {"IS_UP_DELAYING", "IS_UP_DELAYING_SPURIOUS"}
           => b \in dev.down /\ b \notin phys
      /\ dev.state \in {"IS_DOWN_DETECTING_SPURIOUS", "IS_DOWN_DELAYING"}
           => b \notin dev.down /\ b \in phys
      /\ dev.state = "DISABLED" => (b \in dev.down <=> b \in phys)

Needs(state) ==
  CASE state \in {"IS_UP", "IS_DOWN", "DISABLED"} -> {}
    [] state \in {"IS_UP_DELAYING_SPURIOUS", "IS_UP_DETECTING_SPURIOUS",
                  "IS_DOWN_DETECTING_SPURIOUS"} -> Timers
    [] OTHER -> {"bounce"}

Ordered(tl) ==
  tl.armed = Timers => /\ <<"short", "bounce">> \in tl.ahead
                       /\ tl.left["short"] <= tl.left["bounce"]

Healthy(dev) ==
  /\ ~dev.bug
  /\ ~dev.redundant
  /\ dev.spurious => dev.state \notin {"IS_UP_DETECTING_SPURIOUS",
                                       "IS_DOWN_DETECTING_SPURIOUS"}

(* The inductive invariant, of a plugin_device and the kernel's key state. *)
Consistent(dev, phys) ==
  /\ Agrees(dev, phys)
  /\ \A b \in Buttons \ {dev.usage} : b \in dev.down <=> b \in phys
  /\ dev.timers.armed = Needs(dev.state)
  /\ Ordered(dev.timers)
  /\ Healthy(dev)

-----------------------------------------------------------------------------
(* With no timer armed nothing is withheld: Inv implies the property.      *)
LEMMA ConsistentSync ==
  ASSUME NEW dev \in Device, NEW phys \in SUBSET Buttons,
         Consistent(dev, phys), dev.timers.armed = {}
  PROVE  dev.down = phys
<1>1. dev.state \in {"IS_UP", "IS_DOWN", "DISABLED"}
  BY DEF Consistent, Needs, Device
<1>2. dev.usage \in Buttons => (dev.usage \in dev.down <=> dev.usage \in phys)
  BY <1>1 DEF Consistent, Agrees
<1>3. \A b \in Buttons : b \in dev.down <=> b \in phys
  BY <1>2 DEF Consistent
<1> QED BY <1>3 DEF Device

(* An OTHERBUTTON event leaves no timer armed.                             *)
LEMMA FlushTimers ==
  ASSUME NEW tl \in TimerLists
  PROVE  /\ Cancel(tl, Timers) \in TimerLists
         /\ Cancel(tl, Timers).armed = {}
BY DebounceAssumption DEF Cancel, CancelTimer, TimerLists

Reactions ==
  [to : States \cup {"same"}, arm : SUBSET Timers, cancel : SUBSET Timers,
   notify : {"none", "press", "release"}, stamp : BOOLEAN,
   spurious : BOOLEAN, bug : BOOLEAN]

(* The fields of the device after one event. *)
LEMMA ReactFields ==
  ASSUME NEW dev \in Device, NEW e \in Events, NEW age \in 0..MaxLag
  PROVE  LET r == Reaction(dev.state, e, dev.spurious)
             n == React(dev, e, age)
         IN  /\ n.state = IF r.to = "same" THEN dev.state
                                           ELSE Settle(r.to, dev.want)
             /\ n.timers = Arm(Cancel(IF e = "OTHERBUTTON"
                                        THEN Cancel(dev.timers, Timers)
                                        ELSE dev.timers, r.cancel), r.arm, age)
             /\ n.spurious = (dev.spurious \/ r.spurious)
             /\ n.down = Notified(dev.down, dev.usage, r.notify)
             /\ n.redundant = (dev.redundant
                               \/ (r.notify = "press" /\ dev.usage \in dev.down)
                               \/ (r.notify = "release" /\ dev.usage \notin dev.down))
             /\ n.bug = (dev.bug \/ r.bug \/ (r.spurious /\ dev.spurious))
             /\ n.usage = dev.usage
             /\ n.want = dev.want
BY DEF React, Device

(* Every state answers every event with a well-formed reaction.            *)
LEMMA ReactionType ==
  ASSUME NEW s \in States, NEW e \in Events, NEW sp \in BOOLEAN
  PROVE  Reaction(s, e, sp) \in Reactions
<1>1. Stay \in Reactions /\ Bug \in Reactions
  BY DEF Stay, Bug, Reactions
<1>2. \A t \in States : Go(t) \in Reactions
  BY DEF Stay, Go, Reactions
<1>3. /\ IsUp(e) \in Reactions /\ IsDown(e, sp) \in Reactions
      /\ IsDownWaiting(e) \in Reactions /\ IsUpDelaying(e) \in Reactions
  BY DEF Events, Go, Stay, Bug, IsUp, IsDown, IsDownWaiting, IsUpDelaying, Reactions
<1>4. /\ IsUpDelayingSpurious(e) \in Reactions
      /\ IsUpDetectingSpurious(e) \in Reactions
      /\ IsDownDetectingSpurious(e) \in Reactions
  BY DEF Events, Go, Stay, Bug, IsUpDelayingSpurious, IsUpDetectingSpurious,
                    IsDownDetectingSpurious, Reactions
<1>5. /\ IsUpWaiting(e) \in Reactions /\ IsDownDelaying(e) \in Reactions
      /\ Disabled(e) \in Reactions
  BY DEF Events, Go, Stay, Bug, IsUpWaiting, IsDownDelaying, Disabled, Reactions
<1> QED
  BY <1>3, <1>4, <1>5 DEF Reaction

(* What cancelling timers does to the list, and that it keeps its order.   *)
LEMMA CancelType ==
  ASSUME NEW tl \in TimerLists, NEW cancel \in SUBSET Timers
  PROVE  /\ Cancel(tl, cancel) \in TimerLists
         /\ Cancel(tl, cancel).armed = tl.armed \ cancel
         /\ Ordered(tl) => Ordered(Cancel(tl, cancel))
<1>1. ASSUME NEW u \in TimerLists, NEW t \in Timers
      PROVE  /\ CancelTimer(u, t) \in TimerLists
             /\ CancelTimer(u, t).armed = u.armed \ {t}
  BY DebounceAssumption DEF CancelTimer, TimerLists
<1>2. /\ Cancel(tl, cancel) \in TimerLists
      /\ Cancel(tl, cancel).armed = tl.armed \ cancel
  <2> DEFINE long == IF "bounce" \in cancel THEN CancelTimer(tl, "bounce") ELSE tl
  <2>1. long \in TimerLists /\ long.armed = tl.armed \ (cancel \cap {"bounce"})
    <3>1. CASE "bounce" \in cancel
      BY <3>1, <1>1
    <3>2. CASE "bounce" \notin cancel
      BY <3>2
    <3> QED BY <3>1, <3>2
  <2>2. Cancel(tl, cancel) = IF "short" \in cancel
          THEN CancelTimer(long, "short") ELSE long
    BY DEF Cancel
  <2> HIDE DEF long
  <2>3. CASE "short" \in cancel
    <3>1. /\ CancelTimer(long, "short") \in TimerLists
          /\ CancelTimer(long, "short").armed = long.armed \ {"short"}
      BY <2>1, <1>1
    <3> QED BY <2>1, <2>2, <2>3, <3>1
  <2>4. CASE "short" \notin cancel
    BY <2>1, <2>2, <2>4
  <2> QED BY <2>3, <2>4
<1>3. Ordered(tl) => Ordered(Cancel(tl, cancel))
  <2>1. CASE cancel = {}
    BY <2>1 DEF Cancel
  <2>2. CASE cancel # {}
    BY <2>2, <1>2 DEF Ordered
  <2> QED BY <2>1, <2>2
<1> QED BY <1>2, <1>3

(* What setting timers does to the list.                                   *)
LEMMA ArmType ==
  ASSUME NEW tl \in TimerLists, NEW arm \in SUBSET Timers, NEW age \in 0..MaxLag
  PROVE  /\ Arm(tl, arm, age) \in TimerLists
         /\ Arm(tl, arm, age).armed = tl.armed \cup arm
<1>1. ASSUME NEW u \in TimerLists, NEW t \in Timers,
             NEW x \in -MaxLag..BounceTimeout
      PROVE  /\ SetTimer(u, t, x) \in TimerLists
             /\ SetTimer(u, t, x).armed = u.armed \cup {t}
  BY DebounceAssumption DEF SetTimer, TimerLists
<1>2. /\ BounceTimeout - age \in -MaxLag..BounceTimeout
      /\ SpuriousTimeout - age \in -MaxLag..BounceTimeout
  BY DebounceAssumption
<1> DEFINE long == IF "bounce" \in arm
                     THEN SetTimer(tl, "bounce", BounceTimeout - age) ELSE tl
<1>3. long \in TimerLists /\ long.armed = tl.armed \cup (arm \cap {"bounce"})
  <2>1. CASE "bounce" \in arm
    BY <2>1, <1>1, <1>2
  <2>2. CASE "bounce" \notin arm
    BY <2>2
  <2> QED BY <2>1, <2>2
<1>4. Arm(tl, arm, age) = IF "short" \in arm
        THEN SetTimer(long, "short", SpuriousTimeout - age) ELSE long
  BY DEF Arm
<1> HIDE DEF long
<1>5. CASE "short" \in arm
  <2>1. SetTimer(long, "short", SpuriousTimeout - age) \in TimerLists
    BY <1>3, <1>1, <1>2
  <2>2. SetTimer(long, "short", SpuriousTimeout - age).armed
          = long.armed \cup {"short"}
    BY <1>3, <1>1, <1>2
  <2> QED BY <1>3, <1>4, <1>5, <2>1, <2>2
<1>6. CASE "short" \notin arm
  BY <1>3, <1>4, <1>6
<1> QED BY <1>5, <1>6

(* The fields of the device that only measure time are typed too. *)
LEMMA ReactType ==
  ASSUME NEW dev \in Device, NEW e \in Events, NEW age \in 0..MaxLag,
         dev.usage \in Buttons
         \/ Reaction(dev.state, e, dev.spurious).notify = "none"
  PROVE  React(dev, e, age) \in Device
<1> DEFINE r == Reaction(dev.state, e, dev.spurious)
           n == React(dev, e, age)
<1>1. r \in Reactions
  BY ReactionType DEF Device
<1>2. n.state \in States
  BY <1>1, ReactFields DEF Reactions, Settle, Device
<1>3. n.timers \in TimerLists
  <2> DEFINE entry == IF e = "OTHERBUTTON" THEN Cancel(dev.timers, Timers)
                                           ELSE dev.timers
  <2>1. entry \in TimerLists
    BY FlushTimers DEF Device
  <2>2. r.cancel \in SUBSET Timers /\ r.arm \in SUBSET Timers
    BY <1>1 DEF Reactions
  <2>3. n.timers = Arm(Cancel(entry, r.cancel), r.arm, age)
    BY ReactFields
  <2> HIDE DEF entry
  <2>4. Cancel(entry, r.cancel) \in TimerLists
    BY <2>1, <2>2, CancelType
  <2>5. Arm(Cancel(entry, r.cancel), r.arm, age) \in TimerLists
    BY <2>2, <2>4, ArmType
  <2> QED BY <2>3, <2>5
<1>4. n.down \in SUBSET Buttons
  <2>1. n.down = Notified(dev.down, dev.usage, r.notify)
    BY ReactFields
  <2>2. dev.down \in SUBSET Buttons
    BY DEF Device
  <2> QED BY <2>1, <2>2 DEF Notified
<1>5. /\ n.stampAge \in 0..LagCap /\ n.sentAge \in 0..LagCap
      /\ n.gap \in 0..LagCap /\ n.quiet \in 0..LagCap
  BY DebounceAssumption DEF React, Device, LagCap, Apart
<1>6. /\ n.spurious \in BOOLEAN /\ n.redundant \in BOOLEAN
      /\ n.bug \in BOOLEAN /\ n.tooFast \in BOOLEAN
      /\ n.want \in BOOLEAN
      /\ n.usage \in Buttons \cup {NoButton}
  BY <1>1 DEF React, Device, Reactions
<1> QED
  BY <1>2, <1>3, <1>4, <1>5, <1>6 DEF React, Device

(* The long timer is set before the short one, which therefore comes to    *)
(* stand nearer the head of the list.                                      *)
LEMMA ArmBoth ==
  ASSUME NEW tl \in TimerLists, NEW age \in 0..MaxLag, Ordered(tl),
         tl.armed = {} \/ tl.armed = Timers
  PROVE  Ordered(Arm(tl, Timers, age))
<1>1. BounceTimeout - age \in Int /\ SpuriousTimeout - age \in Int
      /\ SpuriousTimeout - age <= BounceTimeout - age
  BY DebounceAssumption
<1>2. CASE tl.armed = {}
  BY <1>1, <1>2 DEF Arm, SetTimer, Ordered, TimerLists
<1>3. CASE tl.armed = Timers
  BY <1>1, <1>3 DEF Arm, SetTimer, Ordered, TimerLists
<1> QED BY <1>2, <1>3

-----------------------------------------------------------------------------
(* The rows of the state machine for OTHERBUTTON, and what a flush does.   *)
LEMMA FlushRows ==
  ASSUME NEW s \in States, NEW sp \in BOOLEAN
  PROVE  LET r == Reaction(s, "OTHERBUTTON", sp)
         IN  /\ r.arm = {} /\ r.cancel = {} /\ ~r.bug /\ ~r.spurious
             /\ s \in {"IS_UP", "IS_DOWN", "DISABLED"}
                  => r.to = "same" /\ r.notify = "none"
             /\ s = "IS_DOWN_WAITING" => r.to = "IS_DOWN" /\ r.notify = "none"
             /\ s \in {"IS_DOWN_DETECTING_SPURIOUS", "IS_DOWN_DELAYING"}
                  => r.to = "IS_DOWN" /\ r.notify = "press"
             /\ s \in {"IS_UP_DELAYING", "IS_UP_DELAYING_SPURIOUS"}
                  => r.to = "IS_UP" /\ r.notify = "release"
             /\ s \in {"IS_UP_DETECTING_SPURIOUS", "IS_UP_WAITING"}
                  => r.to = "IS_UP" /\ r.notify = "none"
BY DEF Reaction, IsUp, IsDown, IsDownWaiting, IsUpDelaying,
       IsUpDelayingSpurious, IsUpDetectingSpurious, IsDownDetectingSpurious,
       IsUpWaiting, IsDownDelaying, Disabled, Go, Stay, Bug

(* A flush delivers what is withheld and rests in an entry state.          *)
LEMMA FlushConsistent ==
  ASSUME NEW dev \in Device, NEW phys \in SUBSET Buttons, NEW age \in 0..MaxLag,
         Consistent(dev, phys), dev.usage \in Buttons \/ dev.state \in {"IS_UP", "DISABLED"}
  PROVE  /\ Flush(dev, age) \in Device
         /\ Consistent(Flush(dev, age), phys)
         /\ Flush(dev, age).timers.armed = {}
         /\ Flush(dev, age).usage = dev.usage
<1> DEFINE r == Reaction(dev.state, "OTHERBUTTON", dev.spurious)
           f == Flush(dev, age)
<1>0. f = React(dev, "OTHERBUTTON", age) /\ "OTHERBUTTON" \in Events
  BY DEF Flush, Events
<1>1. /\ dev.state \in States /\ dev.spurious \in BOOLEAN
      /\ dev.want \in BOOLEAN /\ dev.timers \in TimerLists
      /\ dev.down \in SUBSET Buttons /\ dev.bug = FALSE /\ dev.redundant = FALSE
  BY DEF Device, Consistent, Healthy
<1>2. f \in Device
  BY <1>0, <1>1, FlushRows, ReactType
<1>3. f.timers.armed = {} /\ Ordered(f.timers)
  <2>0. r.cancel = {} /\ r.arm = {}
    BY <1>1, FlushRows
  <2>1. f.timers = Arm(Cancel(Cancel(dev.timers, Timers), r.cancel), r.arm, age)
    BY <1>0, ReactFields
  <2>2. f.timers = Cancel(dev.timers, Timers)
    BY <2>0, <2>1 DEF Arm, Cancel
  <2> QED BY <2>2, <1>1, FlushTimers DEF Ordered
<1>4. /\ f.state = IF r.to = "same" THEN dev.state ELSE Settle(r.to, dev.want)
      /\ f.down = Notified(dev.down, dev.usage, r.notify)
      /\ f.usage = dev.usage
      /\ f.spurious = (dev.spurious \/ r.spurious)
      /\ f.bug = (dev.bug \/ r.bug \/ (r.spurious /\ dev.spurious))
      /\ f.redundant = (dev.redundant
                         \/ (r.notify = "press" /\ dev.usage \in dev.down)
                         \/ (r.notify = "release" /\ dev.usage \notin dev.down))
  BY <1>0, <1>1, ReactFields
<1>5. f.state \in {"IS_UP", "IS_DOWN", "DISABLED"}
  BY <1>1, <1>4, FlushRows DEF Settle
<1>6. f.bug = FALSE /\ f.redundant = FALSE
  <2>0. r.bug = FALSE /\ r.spurious = FALSE
    <3>1. ~r.bug /\ ~r.spurious
      BY <1>1, FlushRows
    <3>2. r.bug \in BOOLEAN /\ r.spurious \in BOOLEAN
      BY <1>0, <1>1, ReactionType DEF Reactions
    <3> QED BY <3>1, <3>2
  <2>1. f.bug = FALSE
    BY <1>1, <1>4, <2>0
  <2>2. r.notify = "press" => dev.usage \notin dev.down
    BY <1>1, FlushRows DEF Consistent, Agrees
  <2>3. r.notify = "release" => dev.usage \in dev.down
    BY <1>1, FlushRows DEF Consistent, Agrees
  <2> QED BY <1>1, <1>4, <2>1, <2>2, <2>3
<1>7. Agrees(f, phys)
  BY <1>1, <1>4, FlushRows DEF Consistent, Agrees, Settle, Notified
<1>8. \A b \in Buttons \ {f.usage} : b \in f.down <=> b \in phys
  BY <1>1, <1>4, FlushRows DEF Consistent, Notified
<1>9. f.timers.armed = Needs(f.state) /\ Healthy(f)
  BY <1>3, <1>5, <1>6 DEF Needs, Healthy
<1> QED BY <1>2, <1>3, <1>4, <1>7, <1>8, <1>9 DEF Consistent

-----------------------------------------------------------------------------
(* The entry state after a flush agrees with the change about to be fed.   *)
LEMMA EnterConsistent ==
  ASSUME NEW dev \in Device, NEW phys \in SUBSET Buttons, NEW b \in Buttons,
         Consistent(dev, phys), dev.timers.armed = {}
  PROVE  LET c == Toggle(b, phys)
             n == [Enter(dev, c) EXCEPT !.usage = b]
         IN  n \in Device /\ Consistent(n, phys)
<1> DEFINE c == Toggle(b, phys)
           n == [Enter(dev, c) EXCEPT !.usage = b]
<1>1. dev.down = phys
  BY ConsistentSync
<1>2. c.press = (b \notin phys) /\ c.press \in BOOLEAN
  BY DEF Toggle
<1> HIDE DEF c
<1>3. /\ n \in Device /\ n.usage = b /\ n.down = dev.down
      /\ n.timers = dev.timers /\ n.bug = dev.bug
      /\ n.redundant = dev.redundant /\ n.spurious = dev.spurious
  BY DEF Enter, Device, Settle
<1>4. /\ n.state \in {"IS_UP", "IS_DOWN", "DISABLED"}
      /\ n.state = "IS_UP" => c.press
      /\ n.state = "IS_DOWN" => ~c.press
  BY <1>2, ConsistentSync DEF Enter, Device, Settle, Consistent, Needs
<1>5. Agrees(n, phys)
  BY <1>1, <1>2, <1>3, <1>4 DEF Agrees
<1>6. n.timers.armed = Needs(n.state) /\ Ordered(n.timers) /\ Healthy(n)
  BY <1>3, <1>4 DEF Needs, Healthy, Consistent
<1>7. Consistent(n, phys)
  BY <1>1, <1>3, <1>5, <1>6 DEF Consistent
<1> QED BY <1>3, <1>7 DEF c

(* The rows of the state machine for a press and for a release.            *)
LEMMA PressRows ==
  ASSUME NEW s \in States, NEW sp \in BOOLEAN
  PROVE  LET r == Reaction(s, "PRESS", sp)
         IN  /\ ~r.spurious
             /\ s \in {"IS_UP", "IS_UP_DELAYING", "IS_UP_DELAYING_SPURIOUS",
                        "IS_UP_DETECTING_SPURIOUS", "IS_UP_WAITING", "DISABLED"}
                  => ~r.bug
             /\ s = "IS_UP" => /\ r.to = "IS_DOWN_WAITING" /\ r.notify = "press"
                               /\ r.arm = {"bounce"} /\ r.cancel = {}
             /\ s = "IS_UP_DELAYING" => /\ r.to = "IS_DOWN_WAITING"
                    /\ r.notify = "none" /\ r.arm = {"bounce"} /\ r.cancel = {}
             /\ s = "IS_UP_DELAYING_SPURIOUS" => /\ r.to = "IS_DOWN"
                    /\ r.notify = "none" /\ r.arm = {} /\ r.cancel = Timers
             /\ s = "IS_UP_DETECTING_SPURIOUS" =>
                    /\ r.to = "IS_DOWN_DETECTING_SPURIOUS"
                    /\ r.notify = "none" /\ r.arm = Timers /\ r.cancel = {}
             /\ s = "IS_UP_WAITING" => /\ r.to = "IS_DOWN_DELAYING"
                    /\ r.notify = "none" /\ r.arm = {"bounce"} /\ r.cancel = {}
             /\ s = "DISABLED" => /\ r.to = "same" /\ r.notify = "press"
                                  /\ r.arm = {} /\ r.cancel = {}
BY DEF Reaction, IsUp, IsDown, IsDownWaiting, IsUpDelaying,
       IsUpDelayingSpurious, IsUpDetectingSpurious, IsDownDetectingSpurious,
       IsUpWaiting, IsDownDelaying, Disabled, Go, Stay, Bug

LEMMA ReleaseRows ==
  ASSUME NEW s \in States, NEW sp \in BOOLEAN
  PROVE  LET r == Reaction(s, "RELEASE", sp)
         IN  /\ ~r.spurious
             /\ s \in {"IS_DOWN", "IS_DOWN_WAITING", "IS_DOWN_DETECTING_SPURIOUS",
                        "IS_DOWN_DELAYING", "DISABLED"} => ~r.bug
             /\ s = "IS_DOWN" /\ sp =>
                    /\ r.to = "IS_UP_DELAYING_SPURIOUS" /\ r.notify = "none"
                    /\ r.arm = Timers /\ r.cancel = {}
             /\ s = "IS_DOWN" /\ ~sp =>
                    /\ r.to = "IS_UP_DETECTING_SPURIOUS" /\ r.notify = "release"
                    /\ r.arm = Timers /\ r.cancel = {}
             /\ s = "IS_DOWN_WAITING" => /\ r.to = "IS_UP_DELAYING"
                    /\ r.notify = "none" /\ r.arm = {"bounce"} /\ r.cancel = {}
             /\ s = "IS_DOWN_DETECTING_SPURIOUS" =>
                    /\ r.to = "IS_UP_DETECTING_SPURIOUS" /\ r.notify = "none"
                    /\ r.arm = Timers /\ r.cancel = {}
             /\ s = "IS_DOWN_DELAYING" => /\ r.to = "IS_UP_WAITING"
                    /\ r.notify = "none" /\ r.arm = {"bounce"} /\ r.cancel = {}
             /\ s = "DISABLED" => /\ r.to = "same" /\ r.notify = "release"
                                  /\ r.arm = {} /\ r.cancel = {}
BY ZenonT(60) DEF Reaction, IsUp, IsDown, IsDownWaiting, IsUpDelaying,
       IsUpDelayingSpurious, IsUpDetectingSpurious, IsDownDetectingSpurious,
       IsUpWaiting, IsDownDelaying, Disabled, Go, Stay, Bug

(* Feeding a change of the current button to a consistent device.          *)
LEMMA FeedConsistent ==
  ASSUME NEW dev \in Device, NEW phys \in SUBSET Buttons, NEW b \in Buttons,
         NEW age \in 0..MaxLag,
         Consistent([dev EXCEPT !.usage = b], phys)
  PROVE  LET n == Feed(dev, Toggle(b, phys), age)
         IN  /\ n \in Device
             /\ Consistent(n, Toggled(b, phys))
             /\ n.usage = b
<1> DEFINE m == [dev EXCEPT !.usage = b]
           e == IF b \notin phys THEN "PRESS" ELSE "RELEASE"
           r == Reaction(m.state, e, m.spurious)
           n == Feed(dev, Toggle(b, phys), age)
<1>1. /\ m \in Device /\ m.usage = b /\ m.state \in States
      /\ m.spurious \in BOOLEAN /\ m.want \in BOOLEAN
      /\ m.timers \in TimerLists /\ m.down \in SUBSET Buttons
  BY DEF Device
<1>2. n = React(m, e, age) /\ e \in Events
  BY DEF Feed, Toggle, Events
<1>3. Consistent(m, phys)
  OBVIOUS
<1> HIDE DEF m, n
<1>4. n \in Device
  BY <1>1, <1>2, ReactType
<1>5. /\ n.state = IF r.to = "same" THEN m.state ELSE Settle(r.to, m.want)
      /\ n.timers = Arm(Cancel(m.timers, r.cancel), r.arm, age)
      /\ n.spurious = (m.spurious \/ r.spurious)
      /\ n.down = Notified(m.down, b, r.notify)
      /\ n.redundant = (m.redundant \/ (r.notify = "press" /\ b \in m.down)
                                    \/ (r.notify = "release" /\ b \notin m.down))
      /\ n.bug = (m.bug \/ r.bug \/ (r.spurious /\ m.spurious))
      /\ n.usage = b
  BY <1>1, <1>2, ReactFields
<1>6. r \in Reactions
  BY <1>1, <1>2, ReactionType
<1>7. CASE b \notin phys
  <2>1. e = "PRESS" /\ Toggled(b, phys) = phys \cup {b}
    BY <1>7 DEF Toggled
  <2>2. m.state \in {"IS_UP", "IS_UP_DELAYING", "IS_UP_DELAYING_SPURIOUS",
                     "IS_UP_DETECTING_SPURIOUS", "IS_UP_WAITING", "DISABLED"}
    BY <1>1, <1>3, <1>7 DEF Consistent, Agrees
  <2>3. ~r.bug /\ ~r.spurious
    BY <1>1, <2>1, <2>2, PressRows
  <2>4. Agrees(n, Toggled(b, phys))
    BY <1>1, <1>3, <1>5, <2>1, <2>2, PressRows
       DEF Consistent, Agrees, Settle, Notified
  <2>5. \A x \in Buttons \ {b} : x \in n.down <=> x \in Toggled(b, phys)
    BY <1>1, <1>3, <1>5, <2>1, <1>6 DEF Consistent, Notified, Reactions
  <2>6. n.timers.armed = Needs(n.state)
    <3>1. n.timers.armed = (m.timers.armed \ r.cancel) \cup r.arm
      <4>1. r.cancel \in SUBSET Timers /\ r.arm \in SUBSET Timers
        BY <1>6 DEF Reactions
      <4>2. /\ Cancel(m.timers, r.cancel) \in TimerLists
            /\ Cancel(m.timers, r.cancel).armed = m.timers.armed \ r.cancel
        BY <1>1, <4>1, CancelType
      <4>3. Arm(Cancel(m.timers, r.cancel), r.arm, age).armed
              = Cancel(m.timers, r.cancel).armed \cup r.arm
        BY <4>1, <4>2, ArmType
      <4> QED BY <1>5, <4>2, <4>3
    <3>2. m.timers.armed = Needs(m.state)
      BY <1>3 DEF Consistent
    <3>3. \/ r.to \in {"IS_DOWN_WAITING", "IS_DOWN_DELAYING"}
             /\ r.arm = {"bounce"} /\ m.timers.armed \subseteq {"bounce"}
             /\ r.cancel = {}
          \/ r.to = "IS_DOWN" /\ r.arm = {} /\ r.cancel = Timers
          \/ r.to = "IS_DOWN_DETECTING_SPURIOUS" /\ r.arm = Timers /\ r.cancel = {}
             /\ m.timers.armed = Timers
          \/ r.to = "same" /\ m.state = "DISABLED" /\ r.arm = {} /\ r.cancel = {}
             /\ m.timers.armed = {}
      BY <1>1, <2>1, <2>2, <3>2, PressRows DEF Needs
    <3>4. m.timers.armed \subseteq Timers
      BY <1>1 DEF TimerLists
    <3> QED BY <1>5, <3>1, <3>3, <3>4 DEF Needs, Settle
  <2>7. Ordered(n.timers)
    <3>1. Cancel(m.timers, r.cancel) \in TimerLists
          /\ Ordered(Cancel(m.timers, r.cancel))
      BY <1>1, <1>3, <1>6, CancelType DEF Consistent, Reactions
    <3>2. CASE m.state = "IS_UP_DETECTING_SPURIOUS"
      <4>1. r.arm = Timers /\ r.cancel = {} /\ m.timers.armed = Timers
        BY <1>1, <1>3, <2>1, <3>2, PressRows DEF Consistent, Needs
      <4>2. Cancel(m.timers, r.cancel).armed = Timers
        <5>1. Cancel(m.timers, r.cancel).armed = m.timers.armed \ r.cancel
          BY <1>1, <4>1, CancelType
        <5> QED BY <4>1, <5>1
      <4> QED BY <1>5, <3>1, <4>1, <4>2, ArmBoth
    <3>3. CASE m.state # "IS_UP_DETECTING_SPURIOUS"
      <4>1. /\ m.state # "DISABLED" =>
                 r.to \in {"IS_DOWN_WAITING", "IS_DOWN_DELAYING", "IS_DOWN"}
            /\ m.state = "DISABLED" => r.to = "same"
        BY <1>1, <2>1, <2>2, <3>3, PressRows
      <4>2. n.state \in {"IS_DOWN_WAITING", "IS_DOWN_DELAYING", "IS_DOWN", "DISABLED"}
        BY <1>5, <4>1 DEF Settle
      <4>3. n.timers.armed # Timers
        BY <2>6, <4>2 DEF Needs
      <4> QED BY <4>3 DEF Ordered
    <3> QED BY <3>2, <3>3
  <2>8. Healthy(n)
    <3>1. r.notify = "press" => b \notin m.down
      BY <1>1, <1>3, <2>1, <2>2, <1>7, PressRows DEF Consistent, Agrees
    <3>2. r.notify # "release"
      BY <1>1, <2>1, <2>2, PressRows
    <3>3. ~n.bug /\ ~n.redundant /\ (n.spurious => m.spurious)
      BY <1>3, <1>5, <2>3, <3>1, <3>2 DEF Consistent, Healthy
    <3> QED
      BY <1>1, <1>3, <1>5, <2>1, <2>2, <3>3, PressRows
         DEF Consistent, Healthy, Settle
  <2>9. Consistent(n, Toggled(b, phys))
    BY <1>5, <2>4, <2>5, <2>6, <2>7, <2>8 DEF Consistent
  <2> QED BY <1>4, <1>5, <2>9 DEF n
<1>8. CASE b \in phys
  <2>1. e = "RELEASE" /\ Toggled(b, phys) = phys \ {b}
    BY <1>8 DEF Toggled
  <2>2. m.state \in {"IS_DOWN", "IS_DOWN_WAITING", "IS_DOWN_DETECTING_SPURIOUS",
                     "IS_DOWN_DELAYING", "DISABLED"}
    BY <1>1, <1>3, <1>8 DEF Consistent, Agrees
  <2>3. ~r.bug /\ ~r.spurious
    BY <1>1, <2>1, <2>2, ReleaseRows
  <2>4. Agrees(n, Toggled(b, phys))
    BY <1>1, <1>3, <1>5, <2>1, <2>2, ReleaseRows
       DEF Consistent, Agrees, Settle, Notified
  <2>5. \A x \in Buttons \ {b} : x \in n.down <=> x \in Toggled(b, phys)
    BY <1>1, <1>3, <1>5, <2>1, <1>6 DEF Consistent, Notified, Reactions
  <2>6. n.timers.armed = Needs(n.state)
    <3>1. n.timers.armed = (m.timers.armed \ r.cancel) \cup r.arm
      <4>1. r.cancel \in SUBSET Timers /\ r.arm \in SUBSET Timers
        BY <1>6 DEF Reactions
      <4>2. /\ Cancel(m.timers, r.cancel) \in TimerLists
            /\ Cancel(m.timers, r.cancel).armed = m.timers.armed \ r.cancel
        BY <1>1, <4>1, CancelType
      <4>3. Arm(Cancel(m.timers, r.cancel), r.arm, age).armed
              = Cancel(m.timers, r.cancel).armed \cup r.arm
        BY <4>1, <4>2, ArmType
      <4> QED BY <1>5, <4>2, <4>3
    <3>2. m.timers.armed = Needs(m.state)
      BY <1>3 DEF Consistent
    <3>3. \/ r.to \in {"IS_UP_DELAYING", "IS_UP_WAITING"}
             /\ r.arm = {"bounce"} /\ m.timers.armed \subseteq {"bounce"}
             /\ r.cancel = {}
          \/ r.to \in {"IS_UP_DELAYING_SPURIOUS", "IS_UP_DETECTING_SPURIOUS"}
             /\ r.arm = Timers /\ r.cancel = {}
          \/ r.to = "same" /\ m.state = "DISABLED" /\ r.arm = {} /\ r.cancel = {}
             /\ m.timers.armed = {}
      BY <1>1, <2>1, <2>2, <3>2, ReleaseRows DEF Needs
    <3>4. m.timers.armed \subseteq Timers
      BY <1>1 DEF TimerLists
    <3> QED BY <1>5, <3>1, <3>3, <3>4 DEF Needs, Settle
  <2>7. Ordered(n.timers)
    <3>1. Cancel(m.timers, r.cancel) \in TimerLists
          /\ Ordered(Cancel(m.timers, r.cancel))
      BY <1>1, <1>3, <1>6, CancelType DEF Consistent, Reactions
    <3>2. CASE m.state \in {"IS_DOWN", "IS_DOWN_DETECTING_SPURIOUS"}
      <4>1. r.arm = Timers /\ r.cancel = {}
            /\ m.timers.armed \in {{}, Timers}
        BY <1>1, <1>3, <2>1, <3>2, ReleaseRows DEF Consistent, Needs
      <4>2. Cancel(m.timers, r.cancel).armed \in {{}, Timers}
        <5>1. Cancel(m.timers, r.cancel).armed = m.timers.armed \ r.cancel
          BY <1>1, <4>1, CancelType
        <5> QED BY <4>1, <5>1
      <4> QED BY <1>5, <3>1, <4>1, <4>2, ArmBoth, ZenonT(60)
    <3>3. CASE m.state \notin {"IS_DOWN", "IS_DOWN_DETECTING_SPURIOUS"}
      <4>1. /\ m.state # "DISABLED" => r.to \in {"IS_UP_DELAYING", "IS_UP_WAITING"}
            /\ m.state = "DISABLED" => r.to = "same"
        BY <1>1, <2>1, <2>2, <3>3, ReleaseRows
      <4>2. n.state \in {"IS_UP_DELAYING", "IS_UP_WAITING", "DISABLED"}
        BY <1>5, <4>1 DEF Settle
      <4>3. n.timers.armed # Timers
        BY <2>6, <4>2 DEF Needs
      <4> QED BY <4>3 DEF Ordered
    <3> QED BY <3>2, <3>3
  <2>8. Healthy(n)
    <3>1. r.notify = "release" => b \in m.down
      BY <1>1, <1>3, <2>1, <2>2, <1>8, ReleaseRows DEF Consistent, Agrees
    <3>2. r.notify # "press"
      BY <1>1, <2>1, <2>2, ReleaseRows
    <3>3. ~n.bug /\ ~n.redundant /\ (n.spurious => m.spurious)
      BY <1>3, <1>5, <2>3, <3>1, <3>2 DEF Consistent, Healthy
    <3> QED
      BY <1>1, <1>3, <1>5, <2>1, <2>2, <3>3, ReleaseRows
         DEF Consistent, Healthy, Settle
  <2>9. Consistent(n, Toggled(b, phys))
    BY <1>5, <2>4, <2>5, <2>6, <2>7, <2>8 DEF Consistent
  <2> QED BY <1>4, <1>5, <2>9 DEF n
<1> QED BY <1>7, <1>8

-----------------------------------------------------------------------------
(* The rows for the two timeouts, in the states that arm the timer.        *)
LEMMA TimeoutRows ==
  ASSUME NEW s \in States, NEW sp \in BOOLEAN
  PROVE  LET r == Reaction(s, "TIMEOUT", sp)
         IN  /\ ~r.spurious
             /\ r.arm = {} /\ r.cancel = {}
             /\ s \in {"IS_DOWN_WAITING", "IS_UP_DELAYING", "IS_UP_WAITING",
                       "IS_DOWN_DELAYING"} => ~r.bug
             /\ s = "IS_DOWN_WAITING" => r.to = "IS_DOWN" /\ r.notify = "none"
             /\ s = "IS_UP_DELAYING" => r.to = "IS_UP" /\ r.notify = "release"
             /\ s = "IS_UP_WAITING" => r.to = "IS_UP" /\ r.notify = "none"
             /\ s = "IS_DOWN_DELAYING" => r.to = "IS_DOWN" /\ r.notify = "press"
BY DEF Reaction, IsUp, IsDown, IsDownWaiting, IsUpDelaying,
       IsUpDelayingSpurious, IsUpDetectingSpurious, IsDownDetectingSpurious,
       IsUpWaiting, IsDownDelaying, Disabled, Go, Stay, Bug

LEMMA ShortRows ==
  ASSUME NEW s \in States, NEW sp \in BOOLEAN, Needs(s) = Timers
  PROVE  LET r == Reaction(s, "TIMEOUT_SHORT", sp)
         IN  /\ r.arm = {} /\ ~r.bug
             /\ r.spurious => s = "IS_DOWN_DETECTING_SPURIOUS"
             /\ s = "IS_UP_DELAYING_SPURIOUS" => r.to = "IS_UP_WAITING"
                   /\ r.notify = "release" /\ r.cancel = {}
             /\ s = "IS_UP_DETECTING_SPURIOUS" => r.to = "IS_UP_WAITING"
                   /\ r.notify = "none" /\ r.cancel = {}
             /\ s = "IS_DOWN_DETECTING_SPURIOUS" => r.to = "IS_DOWN"
                   /\ r.notify = "press" /\ r.cancel = {"bounce"}
             /\ s \in {"IS_UP_DELAYING_SPURIOUS", "IS_UP_DETECTING_SPURIOUS",
                       "IS_DOWN_DETECTING_SPURIOUS"}
BY DEF Reaction, IsUp, IsDown, IsDownWaiting, IsUpDelaying, Needs,
       IsUpDelayingSpurious, IsUpDetectingSpurious, IsDownDetectingSpurious,
       IsUpWaiting, IsDownDelaying, Disabled, Go, Stay, Bug

(* Of two armed timers the short one fires first.                          *)
LEMMA LongFiresAlone ==
  ASSUME NEW dev \in Device, NEW age \in 0..MaxLag, Ordered(dev.timers),
         FiresNext(dev.timers, "bounce", age)
  PROVE  dev.timers.armed = {"bounce"}
<1>1. dev.timers.armed \subseteq Timers /\ "bounce" \in dev.timers.armed
  BY DEF Device, TimerLists, FiresNext, ExpiredAt
<1>2. SUFFICES ASSUME dev.timers.armed = Timers PROVE FALSE
  BY <1>1
<1>3. /\ <<"short", "bounce">> \in dev.timers.ahead
      /\ dev.timers.left["short"] <= dev.timers.left["bounce"]
  BY <1>2 DEF Ordered
<1>4. "bounce" \in ExpiredAt(dev.timers, age)
  BY DEF FiresNext
<1>5. /\ dev.timers.left["short"] \in Int
      /\ dev.timers.left["bounce"] \in Int
  BY DebounceAssumption DEF Device, TimerLists
<1>6. "short" \in ExpiredAt(dev.timers, age)
  BY <1>2, <1>3, <1>4, <1>5 DEF ExpiredAt
<1> QED BY <1>3, <1>6 DEF FiresNext

(* A timer that fires finds the state that armed it: of two armed timers   *)
(* the short one always fires first.                                       *)
LEMMA TimeoutConsistent ==
  ASSUME NEW dev \in Device, NEW phys \in SUBSET Buttons, NEW t \in Timers,
         NEW age \in 0..MaxLag, Consistent(dev, phys),
         dev.usage \in Buttons \/ dev.state \in {"IS_UP", "DISABLED"},
         FiresNext(dev.timers, t, age)
  PROVE  LET n == React([dev EXCEPT !.timers = CancelTimer(@, t)],
                        IF t = "bounce" THEN "TIMEOUT" ELSE "TIMEOUT_SHORT", 0)
         IN  n \in Device /\ Consistent(n, phys) /\ n.usage = dev.usage
<1> DEFINE m == [dev EXCEPT !.timers = CancelTimer(@, t)]
           e == IF t = "bounce" THEN "TIMEOUT" ELSE "TIMEOUT_SHORT"
           r == Reaction(m.state, e, m.spurious)
           n == React(m, e, 0)
<1>1. CancelTimer(dev.timers, t) \in TimerLists
      /\ CancelTimer(dev.timers, t).armed = dev.timers.armed \ {t}
  BY DebounceAssumption DEF CancelTimer, TimerLists, Device
<1>2. /\ m \in Device /\ m.usage = dev.usage /\ m.state = dev.state
      /\ m.spurious = dev.spurious /\ m.want = dev.want /\ m.down = dev.down
      /\ m.bug = dev.bug /\ m.redundant = dev.redundant
      /\ m.timers = CancelTimer(dev.timers, t)
      /\ m.timers.armed = dev.timers.armed \ {t}
  BY <1>1 DEF Device
<1>3. m.state \in States /\ m.spurious \in BOOLEAN /\ m.timers \in TimerLists
      /\ e \in Events /\ 0 \in 0..MaxLag /\ m.want \in BOOLEAN
      /\ m.down \in SUBSET Buttons
  BY <1>2, DebounceAssumption DEF Device, Events
<1> HIDE DEF m, n
<1>4. r \in Reactions
  BY <1>3, ReactionType
<1>5. dev.timers.armed = Needs(m.state) /\ t \in dev.timers.armed
  BY <1>2 DEF Consistent, FiresNext, ExpiredAt
<1>6. m.usage \in Buttons
  BY <1>2, <1>5 DEF Needs
<1>7. n \in Device
  BY <1>2, <1>3, <1>6, ReactType DEF n
<1>8. /\ n.state = IF r.to = "same" THEN m.state ELSE Settle(r.to, m.want)
      /\ n.timers = Arm(Cancel(m.timers, r.cancel), r.arm, 0)
      /\ n.spurious = (m.spurious \/ r.spurious)
      /\ n.down = Notified(m.down, m.usage, r.notify)
      /\ n.redundant = (m.redundant \/ (r.notify = "press" /\ m.usage \in m.down)
                            \/ (r.notify = "release" /\ m.usage \notin m.down))
      /\ n.bug = (m.bug \/ r.bug \/ (r.spurious /\ m.spurious))
      /\ n.usage = m.usage
  BY <1>2, <1>3, ReactFields DEF n
<1>9. n.timers.armed = (m.timers.armed \ r.cancel) \cup r.arm
  <2>1. r.cancel \in SUBSET Timers /\ r.arm \in SUBSET Timers
    BY <1>4 DEF Reactions
  <2>2. /\ Cancel(m.timers, r.cancel) \in TimerLists
        /\ Cancel(m.timers, r.cancel).armed = m.timers.armed \ r.cancel
    BY <1>3, <2>1, CancelType
  <2>3. Arm(Cancel(m.timers, r.cancel), r.arm, 0).armed
          = Cancel(m.timers, r.cancel).armed \cup r.arm
    BY <1>3, <2>1, <2>2, ArmType
  <2> QED BY <1>8, <2>2, <2>3
<1>10. t = "bounce" => dev.timers.armed = {"bounce"}
  BY LongFiresAlone DEF Consistent
<1>11. CASE t = "bounce"
  <2>1. e = "TIMEOUT" /\ m.timers.armed = {} /\ Needs(m.state) = {"bounce"}
    BY <1>2, <1>5, <1>10, <1>11
  <2>2. m.state \in {"IS_DOWN_WAITING", "IS_UP_DELAYING", "IS_UP_WAITING",
                     "IS_DOWN_DELAYING"}
    BY <1>3, <2>1 DEF Needs
  <2>3. ~r.bug /\ ~r.spurious /\ r.arm = {} /\ r.cancel = {}
    BY <1>3, <2>1, <2>2, TimeoutRows
  <2>4. Agrees(n, phys)
    BY <1>2, <1>3, <1>8, <2>1, <2>2, TimeoutRows
       DEF Consistent, Agrees, Settle, Notified
  <2>5. \A x \in Buttons \ {n.usage} : x \in n.down <=> x \in phys
    BY <1>2, <1>3, <1>8, <1>4 DEF Consistent, Notified, Reactions
  <2>6. n.timers.armed = {} /\ n.state \in {"IS_UP", "IS_DOWN", "DISABLED"}
    BY <1>3, <1>8, <1>9, <2>1, <2>2, <2>3, TimeoutRows DEF Settle
  <2>7. n.timers.armed = Needs(n.state) /\ Ordered(n.timers)
    BY <2>6 DEF Needs, Ordered
  <2>8. Healthy(n)
    <3>1. r.notify = "press" => m.usage \notin m.down
      BY <1>2, <1>3, <2>1, <2>2, TimeoutRows DEF Consistent, Agrees
    <3>2. r.notify = "release" => m.usage \in m.down
      BY <1>2, <1>3, <2>1, <2>2, TimeoutRows DEF Consistent, Agrees
    <3>3. ~m.bug /\ ~m.redundant
      BY <1>2 DEF Consistent, Healthy
    <3> QED BY <1>8, <2>3, <2>6, <3>1, <3>2, <3>3 DEF Healthy
  <2>9. Consistent(n, phys)
    BY <2>4, <2>5, <2>7, <2>8 DEF Consistent
  <2> QED BY <1>2, <1>7, <1>8, <2>9 DEF n, m
<1>12. CASE t = "short"
  <2>1. e = "TIMEOUT_SHORT" /\ Needs(m.state) = Timers /\ m.timers.armed = {"bounce"}
    BY <1>2, <1>5, <1>12 DEF Needs
  <2>2. m.state \in {"IS_UP_DELAYING_SPURIOUS", "IS_UP_DETECTING_SPURIOUS",
                     "IS_DOWN_DETECTING_SPURIOUS"}
    BY <1>3, <2>1, ShortRows
  <2>3. ~r.bug /\ r.arm = {} /\ (r.spurious => ~m.spurious)
    BY <1>2, <1>3, <2>1, ShortRows DEF Consistent, Healthy
  <2>4. Agrees(n, phys)
    BY <1>2, <1>3, <1>8, <2>1, <2>2, ShortRows
       DEF Consistent, Agrees, Settle, Notified
  <2>5. \A x \in Buttons \ {n.usage} : x \in n.down <=> x \in phys
    BY <1>2, <1>3, <1>8, <1>4 DEF Consistent, Notified, Reactions
  <2>6. \/ n.state = "IS_UP_WAITING" /\ r.cancel = {}
        \/ n.state = "IS_DOWN" /\ r.cancel = {"bounce"}
    BY <1>3, <1>8, <2>1, <2>2, ShortRows DEF Settle
  <2>7. n.timers.armed = Needs(n.state) /\ Ordered(n.timers)
    BY <1>9, <2>1, <2>3, <2>6 DEF Needs, Ordered
  <2>8. Healthy(n)
    <3>1. r.notify = "press" => m.usage \notin m.down
      BY <1>2, <1>3, <2>1, <2>2, ShortRows DEF Consistent, Agrees
    <3>2. r.notify = "release" => m.usage \in m.down
      BY <1>2, <1>3, <2>1, <2>2, ShortRows DEF Consistent, Agrees
    <3>3. ~m.bug /\ ~m.redundant
      BY <1>2 DEF Consistent, Healthy
    <3> QED BY <1>8, <2>3, <2>6, <3>1, <3>2, <3>3 DEF Healthy
  <2>9. Consistent(n, phys)
    BY <2>4, <2>5, <2>7, <2>8 DEF Consistent
  <2> QED BY <1>2, <1>7, <1>8, <2>9 DEF n, m
<1> QED BY <1>11, <1>12

-----------------------------------------------------------------------------
(* The times of the current button, while no frame is handled late.        *)

(* Old enough by the time a timer that is armed fires. *)
Aged(dev, x, t, timeout) ==
  x >= SpuriousTimeout \/ x + dev.timers.left[t] >= timeout

(* What the state says of the times of the current button while no frame   *)
(* is late: in a state that can send something next, the last event sent   *)
(* is old enough, or will be when the timer fires that sends.              *)
Paced(dev) ==
  /\ dev.state \in {"IS_UP", "IS_DOWN", "IS_UP_WAITING", "IS_DOWN_DELAYING",
                    "IS_UP_DELAYING_SPURIOUS"} => dev.sentAge >= SpuriousTimeout
  /\ dev.state = "IS_DOWN_DELAYING" =>
       /\ dev.gap >= SpuriousTimeout
       /\ Aged(dev, dev.stampAge, "bounce", BounceTimeout)
  /\ dev.state = "IS_UP_DELAYING_SPURIOUS" =>
       /\ dev.gap >= SpuriousTimeout
       /\ Aged(dev, dev.stampAge, "short", SpuriousTimeout)
  /\ dev.state = "IS_UP_DETECTING_SPURIOUS" =>
       Aged(dev, dev.sentAge, "short", SpuriousTimeout)
  /\ dev.state = "IS_DOWN_DETECTING_SPURIOUS" =>
       Aged(dev, dev.stampAge, "short", SpuriousTimeout)
  /\ dev.state = "IS_DOWN_WAITING" =>
       /\ Aged(dev, dev.sentAge, "bounce", BounceTimeout)
       /\ Aged(dev, dev.quiet, "bounce", BounceTimeout)
  /\ dev.state = "IS_UP_DELAYING" =>
       /\ Aged(dev, dev.stampAge, "bounce", BounceTimeout)
       /\ Aged(dev, dev.quiet, "bounce", BounceTimeout)

(* Where the two timers stand after a reaction to an event of age 0.       *)
LEMMA TimersLeft ==
  ASSUME NEW tl \in TimerLists, NEW cancel \in SUBSET Timers, NEW arm \in SUBSET Timers
  PROVE  LET left == Arm(Cancel(tl, cancel), arm, 0).left
         IN  /\ "bounce" \in arm => left["bounce"] = BounceTimeout
             /\ "bounce" \notin arm \cup cancel => left["bounce"] = tl.left["bounce"]
             /\ "short" \in arm => left["short"] = SpuriousTimeout
             /\ "short" \notin arm \cup cancel => left["short"] = tl.left["short"]
<1> DEFINE c == Cancel(tl, cancel)
<1>1. /\ c.left \in [Timers -> Int]
      /\ "bounce" \notin cancel => c.left["bounce"] = tl.left["bounce"]
      /\ "short" \notin cancel => c.left["short"] = tl.left["short"]
  BY DebounceAssumption DEF Cancel, CancelTimer, TimerLists
<1> HIDE DEF c
<1>2. /\ BounceTimeout - 0 = BounceTimeout /\ BounceTimeout \in Int
      /\ SpuriousTimeout - 0 = SpuriousTimeout /\ SpuriousTimeout \in Int
  BY DebounceAssumption
<1>3. /\ "bounce" \in arm => Arm(c, arm, 0).left["bounce"] = BounceTimeout
      /\ "bounce" \notin arm => Arm(c, arm, 0).left["bounce"] = c.left["bounce"]
      /\ "short" \in arm => Arm(c, arm, 0).left["short"] = SpuriousTimeout
      /\ "short" \notin arm => Arm(c, arm, 0).left["short"] = c.left["short"]
  BY <1>1, <1>2 DEF Arm, SetTimer
<1> QED BY <1>1, <1>3 DEF c

(* The time fields of the device after an event of age 0 of its button.    *)
LEMMA ReactTimes ==
  ASSUME NEW dev \in Device, NEW e \in Events \ {"OTHERBUTTON"}
  PROVE  LET r == Reaction(dev.state, e, dev.spurious)
             n == React(dev, e, 0)
             gap == IF r.stamp THEN dev.sentAge ELSE dev.gap
         IN  /\ n.stampAge = IF r.stamp THEN 0 ELSE dev.stampAge
             /\ n.gap = gap
             /\ n.sentAge = IF r.notify = "none" THEN dev.sentAge ELSE n.stampAge
             /\ n.quiet = IF r.notify = "none" THEN dev.quiet ELSE 0
             /\ n.tooFast => \/ dev.tooFast
                             \/ /\ r.notify # "none" /\ ~r.spurious
                                /\ gap < SpuriousTimeout
                                /\ dev.quiet < SpuriousTimeout
<1>1. Apart(dev.sentAge, 0) = dev.sentAge
  BY DebounceAssumption DEF Apart, Device, LagCap
<1> QED BY <1>1 DEF React, Device

(* What a reaction moves, sends, stamps and sets. *)
Row(r, to, notify, stamp, arm, cancel) ==
  r.to = to /\ r.notify = notify /\ r.stamp = stamp /\ r.arm = arm /\ r.cancel = cancel

Moves(s, e, r) ==
  \/ Row(r, "same", "none", FALSE, {}, {})
  \/ /\ s = "IS_UP" /\ e = "PRESS"
     /\ Row(r, "IS_DOWN_WAITING", "press", TRUE, {"bounce"}, {})
  \/ /\ s = "IS_DOWN" /\ e = "RELEASE"
     /\ Row(r, "IS_UP_DELAYING_SPURIOUS", "none", TRUE, Timers, {})
  \/ /\ s = "IS_DOWN" /\ e = "RELEASE"
     /\ Row(r, "IS_UP_DETECTING_SPURIOUS", "release", TRUE, Timers, {})
  \/ /\ s = "IS_DOWN_WAITING" /\ e = "RELEASE"
     /\ Row(r, "IS_UP_DELAYING", "none", TRUE, {"bounce"}, {})
  \/ /\ s = "IS_DOWN_WAITING" /\ e = "TIMEOUT"
     /\ Row(r, "IS_DOWN", "none", FALSE, {}, {})
  \/ /\ s = "IS_UP_DELAYING" /\ e = "PRESS"
     /\ Row(r, "IS_DOWN_WAITING", "none", FALSE, {"bounce"}, {})
  \/ /\ s = "IS_UP_DELAYING" /\ e = "TIMEOUT"
     /\ Row(r, "IS_UP", "release", FALSE, {}, {})
  \/ /\ s = "IS_UP_DELAYING_SPURIOUS" /\ e = "PRESS"
     /\ Row(r, "IS_DOWN", "none", FALSE, {}, Timers)
  \/ /\ s = "IS_UP_DELAYING_SPURIOUS" /\ e = "TIMEOUT_SHORT"
     /\ Row(r, "IS_UP_WAITING", "release", FALSE, {}, {})
  \/ /\ s = "IS_UP_DETECTING_SPURIOUS" /\ e = "PRESS"
     /\ Row(r, "IS_DOWN_DETECTING_SPURIOUS", "none", TRUE, Timers, {})
  \/ /\ s = "IS_UP_DETECTING_SPURIOUS" /\ e = "TIMEOUT_SHORT"
     /\ Row(r, "IS_UP_WAITING", "none", FALSE, {}, {})
  \/ /\ s = "IS_DOWN_DETECTING_SPURIOUS" /\ e = "RELEASE"
     /\ Row(r, "IS_UP_DETECTING_SPURIOUS", "none", FALSE, Timers, {})
  \/ /\ s = "IS_DOWN_DETECTING_SPURIOUS" /\ e = "TIMEOUT_SHORT" /\ r.spurious
     /\ Row(r, "IS_DOWN", "press", FALSE, {}, {"bounce"})
  \/ /\ s = "IS_UP_WAITING" /\ e = "PRESS"
     /\ Row(r, "IS_DOWN_DELAYING", "none", TRUE, {"bounce"}, {})
  \/ /\ s = "IS_UP_WAITING" /\ e = "TIMEOUT"
     /\ Row(r, "IS_UP", "none", FALSE, {}, {})
  \/ /\ s = "IS_DOWN_DELAYING" /\ e = "RELEASE"
     /\ Row(r, "IS_UP_WAITING", "none", FALSE, {"bounce"}, {})
  \/ /\ s = "IS_DOWN_DELAYING" /\ e = "TIMEOUT"
     /\ Row(r, "IS_DOWN", "press", FALSE, {}, {})
  \/ /\ s = "DISABLED" /\ e = "PRESS"
     /\ Row(r, "same", "press", TRUE, {}, {})
  \/ /\ s = "DISABLED" /\ e = "RELEASE"
     /\ Row(r, "same", "release", TRUE, {}, {})

(* Those are all the reactions to a change of the button and to a timer    *)
(* that fires where it was armed.                                          *)
LEMMA TimeRows ==
  ASSUME NEW s \in States, NEW e \in Events \ {"OTHERBUTTON"}, NEW sp \in BOOLEAN,
         e = "TIMEOUT" => Needs(s) = {"bounce"},
         e = "TIMEOUT_SHORT" => Needs(s) = Timers
  PROVE  Moves(s, e, Reaction(s, e, sp))
<1>1. CASE s = "IS_UP"
  BY <1>1 DEF Moves, Row, Reaction, IsUp, Go, Stay, Bug, Needs, Events
<1>2. CASE s = "IS_DOWN"
  BY <1>2 DEF Moves, Row, Reaction, IsDown, Go, Stay, Bug, Needs, Events
<1>3. CASE s = "IS_DOWN_WAITING"
  BY <1>3 DEF Moves, Row, Reaction, IsDownWaiting, Go, Stay, Bug, Needs, Events
<1>4. CASE s = "IS_UP_DELAYING"
  BY <1>4 DEF Moves, Row, Reaction, IsUpDelaying, Go, Stay, Bug, Needs, Events
<1>5. CASE s = "IS_UP_DELAYING_SPURIOUS"
  BY <1>5 DEF Moves, Row, Reaction, IsUpDelayingSpurious, Go, Stay, Bug, Needs, Events
<1>6. CASE s = "IS_UP_DETECTING_SPURIOUS"
  BY <1>6 DEF Moves, Row, Reaction, IsUpDetectingSpurious, Go, Stay, Bug, Needs, Events
<1>7. CASE s = "IS_DOWN_DETECTING_SPURIOUS"
  BY <1>7 DEF Moves, Row, Reaction, IsDownDetectingSpurious, Go, Stay, Bug, Needs, Events
<1>8. CASE s = "IS_UP_WAITING"
  BY <1>8 DEF Moves, Row, Reaction, IsUpWaiting, Go, Stay, Bug, Needs, Events
<1>9. CASE s = "IS_DOWN_DELAYING"
  BY <1>9 DEF Moves, Row, Reaction, IsDownDelaying, Go, Stay, Bug, Needs, Events
<1>10. CASE s = "DISABLED"
  BY <1>10 DEF Moves, Row, Reaction, Disabled, Go, Stay, Bug, Needs, Events
<1> QED BY <1>1, <1>2, <1>3, <1>4, <1>5, <1>6, <1>7, <1>8, <1>9, <1>10

(* A change of the button, or a timer that fires where it was armed, keeps *)
(* the pace.                                                               *)
LEMMA ReactPaced ==
  ASSUME NEW dev \in Device, NEW e \in Events \ {"OTHERBUTTON"},
         Paced(dev), ~dev.tooFast,
         e = "TIMEOUT" => /\ dev.timers.left["bounce"] <= 0
                          /\ Needs(dev.state) = {"bounce"},
         e = "TIMEOUT_SHORT" => /\ dev.timers.left["short"] <= 0
                                /\ Needs(dev.state) = Timers,
         dev.state = "DISABLED" => dev.sentAge >= SpuriousTimeout
  PROVE  Paced(React(dev, e, 0)) /\ ~React(dev, e, 0).tooFast
<1> DEFINE r == Reaction(dev.state, e, dev.spurious)
           n == React(dev, e, 0)
           gap == IF r.stamp THEN dev.sentAge ELSE dev.gap
<1>1. /\ dev.state \in States /\ dev.spurious \in BOOLEAN /\ dev.timers \in TimerLists
      /\ dev.stampAge \in Nat /\ dev.sentAge \in Nat /\ dev.gap \in Nat
      /\ dev.quiet \in Nat /\ dev.timers.left["bounce"] \in Int
      /\ dev.timers.left["short"] \in Int
  BY DebounceAssumption DEF Device, LagCap, TimerLists
<1>2. /\ SpuriousTimeout \in Nat \ {0} /\ BounceTimeout \in Nat
      /\ SpuriousTimeout < BounceTimeout
  BY DebounceAssumption
<1>3. /\ n.stampAge = IF r.stamp THEN 0 ELSE dev.stampAge
      /\ n.gap = gap
      /\ n.sentAge = IF r.notify = "none" THEN dev.sentAge ELSE n.stampAge
      /\ n.quiet = IF r.notify = "none" THEN dev.quiet ELSE 0
      /\ n.tooFast => /\ r.notify # "none" /\ ~r.spurious
                      /\ gap < SpuriousTimeout /\ dev.quiet < SpuriousTimeout
  BY ReactTimes
<1>4. /\ n.state = IF r.to = "same" THEN dev.state ELSE Settle(r.to, dev.want)
      /\ n.timers = Arm(Cancel(dev.timers, r.cancel), r.arm, 0)
  BY ReactFields, DebounceAssumption
<1>5. r.cancel \in SUBSET Timers /\ r.arm \in SUBSET Timers
  BY <1>1, ReactionType DEF Reactions
<1>6. /\ "bounce" \in r.arm => n.timers.left["bounce"] = BounceTimeout
      /\ "bounce" \notin r.arm \cup r.cancel =>
           n.timers.left["bounce"] = dev.timers.left["bounce"]
      /\ "short" \in r.arm => n.timers.left["short"] = SpuriousTimeout
      /\ "short" \notin r.arm \cup r.cancel =>
           n.timers.left["short"] = dev.timers.left["short"]
  BY <1>1, <1>4, <1>5, TimersLeft
<1>7. Moves(dev.state, e, r)
  BY <1>1, TimeRows
<1> SUFFICES Paced(n) /\ ~n.tooFast
  OBVIOUS
<1> DEFINE s == dev.state
<1> HIDE DEF n, r
<1>8. CASE Row(r, "same", "none", FALSE, {}, {})
  BY <1>1, <1>2, <1>3, <1>4, <1>6, <1>8 DEF Paced, Aged, Settle, Row
<1>9. CASE /\ s = "IS_UP" /\ e = "PRESS"
           /\ Row(r, "IS_DOWN_WAITING", "press", TRUE, {"bounce"}, {})
  BY <1>1, <1>2, <1>3, <1>4, <1>6, <1>9 DEF Paced, Aged, Settle, Row
<1>10. CASE /\ s = "IS_DOWN" /\ e = "RELEASE"
            /\ Row(r, "IS_UP_DELAYING_SPURIOUS", "none", TRUE, Timers, {})
  BY <1>1, <1>2, <1>3, <1>4, <1>6, <1>10 DEF Paced, Aged, Settle, Row
<1>11. CASE /\ s = "IS_DOWN" /\ e = "RELEASE"
            /\ Row(r, "IS_UP_DETECTING_SPURIOUS", "release", TRUE, Timers, {})
  BY <1>1, <1>2, <1>3, <1>4, <1>6, <1>11 DEF Paced, Aged, Settle, Row
<1>12. CASE /\ s = "IS_DOWN_WAITING" /\ e = "RELEASE"
            /\ Row(r, "IS_UP_DELAYING", "none", TRUE, {"bounce"}, {})
  BY <1>1, <1>2, <1>3, <1>4, <1>6, <1>12 DEF Paced, Aged, Settle, Row
<1>13. CASE /\ s = "IS_DOWN_WAITING" /\ e = "TIMEOUT"
            /\ Row(r, "IS_DOWN", "none", FALSE, {}, {})
  BY <1>1, <1>2, <1>3, <1>4, <1>6, <1>13 DEF Paced, Aged, Settle, Row
<1>14. CASE /\ s = "IS_UP_DELAYING" /\ e = "PRESS"
            /\ Row(r, "IS_DOWN_WAITING", "none", FALSE, {"bounce"}, {})
  BY <1>1, <1>2, <1>3, <1>4, <1>6, <1>14 DEF Paced, Aged, Settle, Row
<1>15. CASE /\ s = "IS_UP_DELAYING" /\ e = "TIMEOUT"
            /\ Row(r, "IS_UP", "release", FALSE, {}, {})
  BY <1>1, <1>2, <1>3, <1>4, <1>6, <1>15 DEF Paced, Aged, Settle, Row
<1>16. CASE /\ s = "IS_UP_DELAYING_SPURIOUS" /\ e = "PRESS"
            /\ Row(r, "IS_DOWN", "none", FALSE, {}, Timers)
  BY <1>1, <1>2, <1>3, <1>4, <1>6, <1>16 DEF Paced, Aged, Settle, Row
<1>17. CASE /\ s = "IS_UP_DELAYING_SPURIOUS" /\ e = "TIMEOUT_SHORT"
            /\ Row(r, "IS_UP_WAITING", "release", FALSE, {}, {})
  BY <1>1, <1>2, <1>3, <1>4, <1>6, <1>17 DEF Paced, Aged, Settle, Row
<1>18. CASE /\ s = "IS_UP_DETECTING_SPURIOUS" /\ e = "PRESS"
            /\ Row(r, "IS_DOWN_DETECTING_SPURIOUS", "none", TRUE, Timers, {})
  BY <1>1, <1>2, <1>3, <1>4, <1>6, <1>18 DEF Paced, Aged, Settle, Row
<1>19. CASE /\ s = "IS_UP_DETECTING_SPURIOUS" /\ e = "TIMEOUT_SHORT"
            /\ Row(r, "IS_UP_WAITING", "none", FALSE, {}, {})
  BY <1>1, <1>2, <1>3, <1>4, <1>6, <1>19 DEF Paced, Aged, Settle, Row
<1>20. CASE /\ s = "IS_DOWN_DETECTING_SPURIOUS" /\ e = "RELEASE"
            /\ Row(r, "IS_UP_DETECTING_SPURIOUS", "none", FALSE, Timers, {})
  BY <1>1, <1>2, <1>3, <1>4, <1>6, <1>20 DEF Paced, Aged, Settle, Row
<1>21. CASE /\ s = "IS_DOWN_DETECTING_SPURIOUS" /\ e = "TIMEOUT_SHORT" /\ r.spurious
            /\ Row(r, "IS_DOWN", "press", FALSE, {}, {"bounce"})
  BY <1>1, <1>2, <1>3, <1>4, <1>6, <1>21 DEF Paced, Aged, Settle, Row
<1>22. CASE /\ s = "IS_UP_WAITING" /\ e = "PRESS"
            /\ Row(r, "IS_DOWN_DELAYING", "none", TRUE, {"bounce"}, {})
  BY <1>1, <1>2, <1>3, <1>4, <1>6, <1>22 DEF Paced, Aged, Settle, Row
<1>23. CASE /\ s = "IS_UP_WAITING" /\ e = "TIMEOUT"
            /\ Row(r, "IS_UP", "none", FALSE, {}, {})
  BY <1>1, <1>2, <1>3, <1>4, <1>6, <1>23 DEF Paced, Aged, Settle, Row
<1>24. CASE /\ s = "IS_DOWN_DELAYING" /\ e = "RELEASE"
            /\ Row(r, "IS_UP_WAITING", "none", FALSE, {"bounce"}, {})
  BY <1>1, <1>2, <1>3, <1>4, <1>6, <1>24 DEF Paced, Aged, Settle, Row
<1>25. CASE /\ s = "IS_DOWN_DELAYING" /\ e = "TIMEOUT"
            /\ Row(r, "IS_DOWN", "press", FALSE, {}, {})
  BY <1>1, <1>2, <1>3, <1>4, <1>6, <1>25 DEF Paced, Aged, Settle, Row
<1>26. CASE /\ s = "DISABLED" /\ e = "PRESS"
            /\ Row(r, "same", "press", TRUE, {}, {})
  BY <1>1, <1>2, <1>3, <1>4, <1>6, <1>26 DEF Paced, Aged, Settle, Row
<1>27. CASE /\ s = "DISABLED" /\ e = "RELEASE"
            /\ Row(r, "same", "release", TRUE, {}, {})
  BY <1>1, <1>2, <1>3, <1>4, <1>6, <1>27 DEF Paced, Aged, Settle, Row
<1> QED
  BY <1>7, <1>8, <1>9, <1>10, <1>11, <1>12, <1>13, <1>14, <1>15, <1>16, <1>17, <1>18,
     <1>19, <1>20, <1>21, <1>22, <1>23, <1>24, <1>25, <1>26, <1>27 DEF Moves

-----------------------------------------------------------------------------
(* Frames.  Ready is the side condition of a flush: a state other than     *)
(* IS_UP has been entered by an event of a real button.                    *)
Ready(dev) == dev.usage \in Buttons \/ dev.state \in {"IS_UP", "DISABLED"}

(* A frame with one change, of the current or of another button.           *)
LEMMA OneChangeConsistent ==
  ASSUME NEW dev \in Device, NEW phys \in SUBSET Buttons, NEW b \in Buttons,
         NEW age \in 0..MaxLag, Consistent(dev, phys), Ready(dev)
  PROVE  LET n == OneChange(dev, Toggle(b, phys), age)
         IN  n \in Device /\ Consistent(n, Toggled(b, phys)) /\ Ready(n)
<1> DEFINE c == Toggle(b, phys)
<1>0. c.button = b
  BY DEF Toggle
<1>1. CASE b = dev.usage
  <2>1. [dev EXCEPT !.usage = b] = dev
    BY <1>1 DEF Device
  <2>2. Consistent([dev EXCEPT !.usage = b], phys)
    BY <2>1
  <2>3. OneChange(dev, c, age) = Feed(dev, c, age)
    BY <1>0, <1>1 DEF OneChange
  <2> QED BY <2>2, <2>3, FeedConsistent DEF Ready
<1>2. CASE b # dev.usage
  <2> DEFINE f == Flush(dev, age)
             m == Enter(f, c)
  <2>1. f \in Device /\ Consistent(f, phys) /\ f.timers.armed = {}
    BY FlushConsistent DEF Ready
  <2> HIDE DEF f
  <2>2. Consistent([m EXCEPT !.usage = b], phys)
    BY <2>1, EnterConsistent
  <2>3. m \in Device
    BY <2>1 DEF Enter, Device, Settle
  <2>4. OneChange(dev, c, age) = Feed(m, c, age)
    BY <1>0, <1>2 DEF OneChange, f
  <2> HIDE DEF m
  <2> QED BY <2>2, <2>3, <2>4, FeedConsistent DEF Ready
<1> QED BY <1>1, <1>2

(* One change of a frame with several, flushed right after it.             *)
LEMMA FlushedChangeConsistent ==
  ASSUME NEW dev \in Device, NEW phys \in SUBSET Buttons, NEW b \in Buttons,
         NEW age \in 0..MaxLag, Consistent(dev, phys), dev.timers.armed = {}
  PROVE  LET n == FlushedChange(dev, Toggle(b, phys), age)
         IN  /\ n \in Device /\ Consistent(n, Toggled(b, phys)) /\ Ready(n)
             /\ n.timers.armed = {}
<1> DEFINE c == Toggle(b, phys)
           m == Enter(dev, c)
           g == Feed(m, c, age)
<1>1. Consistent([m EXCEPT !.usage = b], phys)
  BY EnterConsistent
<1>2. m \in Device
  BY DEF Enter, Device, Settle
<1>3. FlushedChange(dev, c, age) = Flush(g, age)
  BY DEF FlushedChange
<1> HIDE DEF m
<1>4. g \in Device /\ Consistent(g, Toggled(b, phys)) /\ g.usage = b
  BY <1>1, <1>2, FeedConsistent
<1> HIDE DEF g
<1>5. Toggled(b, phys) \in SUBSET Buttons
  BY DEF Toggled
<1> QED BY <1>3, <1>4, <1>5, FlushConsistent DEF Ready

(* A frame with two changes, of one or of two buttons.                     *)
LEMMA TwoChangesConsistent ==
  ASSUME NEW dev \in Device, NEW phys \in SUBSET Buttons, NEW b \in Buttons,
         NEW c \in Buttons, NEW age \in 0..MaxLag, Consistent(dev, phys),
         Ready(dev)
  PROVE  LET n == TwoChanges(dev, Toggle(b, phys),
                             Toggle(c, Toggled(b, phys)), age)
         IN  /\ n \in Device /\ Ready(n)
             /\ Consistent(n, Toggled(c, Toggled(b, phys)))
<1> DEFINE f == Flush(dev, age)
           g == FlushedChange(f, Toggle(b, phys), age)
           mid == Toggled(b, phys)
<1>1. f \in Device /\ Consistent(f, phys) /\ f.timers.armed = {}
  BY FlushConsistent DEF Ready
<1>2. TwoChanges(dev, Toggle(b, phys), Toggle(c, mid), age)
        = FlushedChange(g, Toggle(c, mid), age)
  BY DEF TwoChanges
<1> HIDE DEF f
<1>3. g \in Device /\ Consistent(g, mid) /\ g.timers.armed = {}
  BY <1>1, FlushedChangeConsistent
<1>4. mid \in SUBSET Buttons
  BY DEF Toggled
<1> HIDE DEF g, mid
<1>5. LET n == FlushedChange(g, Toggle(c, mid), age)
      IN  n \in Device /\ Consistent(n, Toggled(c, mid)) /\ Ready(n)
  BY <1>3, <1>4, FlushedChangeConsistent
<1> QED BY <1>2, <1>5 DEF mid

(* A plugin that disabled itself passes every change on as it is.          *)
LEMMA BypassConsistent ==
  ASSUME NEW dev \in Device, NEW phys \in SUBSET Buttons, NEW b \in Buttons,
         Consistent(dev, phys), dev.state = "DISABLED"
  PROVE  LET n == [dev EXCEPT !.down = Toggled(b, @)]
         IN  /\ n \in Device /\ Consistent(n, Toggled(b, phys)) /\ Ready(n)
             /\ n.state = "DISABLED"
<1> DEFINE n == [dev EXCEPT !.down = Toggled(b, @)]
<1>1. dev.timers.armed = {} /\ dev.down = phys
  BY ConsistentSync DEF Consistent, Needs
<1>2. /\ n \in Device /\ n.down = Toggled(b, phys) /\ n.usage = dev.usage
      /\ n.state = "DISABLED" /\ n.timers = dev.timers /\ n.bug = dev.bug
      /\ n.redundant = dev.redundant /\ n.spurious = dev.spurious
  BY <1>1 DEF Device, Toggled
<1>3. Agrees(n, Toggled(b, phys))
  BY <1>2 DEF Agrees
<1>4. n.timers.armed = Needs(n.state) /\ Ordered(n.timers) /\ Healthy(n)
  BY <1>2 DEF Consistent, Healthy
<1> QED BY <1>2, <1>3, <1>4 DEF Consistent, Ready

(* The passage of time keeps the order of the two expiries.                *)
LEMMA ElapseOrdered ==
  ASSUME NEW tl \in TimerLists, Ordered(tl)
  PROVE  /\ Elapse(tl, 0 - MaxLag) \in TimerLists
         /\ Ordered(Elapse(tl, 0 - MaxLag))
         /\ Elapse(tl, 0 - MaxLag).armed = tl.armed
<1> DEFINE n == Elapse(tl, 0 - MaxLag)
<1>1. /\ n.armed = tl.armed /\ n.ahead = tl.ahead
      /\ n.left = [t \in Timers |-> IF t \in tl.armed /\ tl.left[t] > 0 - MaxLag
                                      THEN tl.left[t] - 1 ELSE tl.left[t]]
      /\ n = [armed |-> n.armed, ahead |-> n.ahead, left |-> n.left]
  BY DEF Elapse, TimerLists
<1>2. n.left \in [Timers -> -MaxLag..BounceTimeout]
  <2>1. \A t \in Timers : tl.left[t] \in -MaxLag..BounceTimeout
    BY DEF TimerLists
  <2> HIDE DEF n
  <2>2. \A t \in Timers : n.left[t] \in -MaxLag..BounceTimeout
    BY <1>1, <2>1, DebounceAssumption
  <2> QED BY <1>1, <2>2
<1>3. n \in TimerLists
  BY <1>1, <1>2 DEF TimerLists
<1>4. Ordered(n)
  <2>1. SUFFICES ASSUME tl.armed = Timers
                 PROVE  n.left["short"] <= n.left["bounce"]
    BY <1>1 DEF Ordered
  <2>2. tl.left["short"] <= tl.left["bounce"]
    BY <2>1 DEF Ordered
  <2>3. tl.left["short"] \in Int /\ tl.left["bounce"] \in Int
        /\ tl.left["short"] >= -MaxLag
    BY DebounceAssumption DEF TimerLists
  <2> HIDE DEF n
  <2> QED BY <1>1, <2>1, <2>2, <2>3, DebounceAssumption
<1> QED BY <1>1, <1>3, <1>4

(* A device that has just been added is consistent, whatever it holds.     *)
LEMMA NewDeviceConsistent ==
  ASSUME NEW phys \in SUBSET Buttons
  PROVE  /\ NewDevice(phys) \in Device /\ Ready(NewDevice(phys))
         /\ Consistent(NewDevice(phys), phys)
<1> DEFINE n == NewDevice(phys)
<1>1. EmptyList(Timers) \in TimerLists
  BY DebounceAssumption DEF EmptyList, TimerLists
<1>2. n \in Device
  BY <1>1, DebounceAssumption DEF NewDevice, Device, LagCap
<1>3. Agrees(n, phys)
  BY DebounceAssumption DEF NewDevice, Agrees
<1>4. /\ n.timers.armed = Needs(n.state) /\ Ordered(n.timers)
      /\ Healthy(n) /\ Ready(n)
  BY DEF NewDevice, Needs, Ordered, EmptyList, Healthy, Ready
<1>5. n.down = phys
  BY DEF NewDevice
<1> QED BY <1>2, <1>3, <1>4, <1>5 DEF Consistent

-----------------------------------------------------------------------------
(* The pace: what the lemmas above say of consistency, said of Paced.      *)

(* An OTHERBUTTON event forgets when the last event was sent: it was of    *)
(* another button for all the machine knows.                               *)
LEMMA FlushTimes ==
  ASSUME NEW dev \in Device
  PROVE  LET f == Flush(dev, 0)
         IN  /\ f.state \in {"IS_UP", "IS_DOWN", "DISABLED"}
             /\ f.sentAge = SpuriousTimeout
             /\ f.tooFast = dev.tooFast
<1> DEFINE r == Reaction(dev.state, "OTHERBUTTON", dev.spurious)
           f == Flush(dev, 0)
<1>1. f = React(dev, "OTHERBUTTON", 0) /\ "OTHERBUTTON" \in Events /\ 0 \in 0..MaxLag
  BY DebounceAssumption DEF Flush, Events
<1>2. /\ dev.state \in States /\ dev.spurious \in BOOLEAN /\ dev.tooFast \in BOOLEAN
  BY DEF Device
<1>3. f.state = IF r.to = "same" THEN dev.state ELSE Settle(r.to, dev.want)
  BY <1>1, ReactFields
<1>4. f.state \in {"IS_UP", "IS_DOWN", "DISABLED"}
  BY <1>2, <1>3, FlushRows DEF Settle
<1>5. f.sentAge = SpuriousTimeout /\ f.tooFast = dev.tooFast
  BY <1>1, <1>2, ZenonT(60) DEF React, Device
<1> QED BY <1>4, <1>5

(* A change of the button in a state that keeps the pace. *)
LEMMA FeedPaced ==
  ASSUME NEW dev \in Device, NEW b \in Buttons, NEW down \in BOOLEAN,
         Paced(dev), ~dev.tooFast,
         dev.state = "DISABLED" => dev.sentAge >= SpuriousTimeout
  PROVE  LET n == Feed(dev, [button |-> b, press |-> down], 0)
         IN  Paced(n) /\ ~n.tooFast
<1> DEFINE m == [dev EXCEPT !.usage = b]
           e == IF down THEN "PRESS" ELSE "RELEASE"
<1>1. Feed(dev, [button |-> b, press |-> down], 0) = React(m, e, 0)
  BY DEF Feed
<1>2. m \in Device /\ e \in Events \ {"OTHERBUTTON"}
  BY DEF Device, Events
<1>3. Paced(m) /\ ~m.tooFast /\ (m.state = "DISABLED" => m.sentAge >= SpuriousTimeout)
  BY DEF Device, Paced, Aged
<1>4. e # "TIMEOUT" /\ e # "TIMEOUT_SHORT"
  OBVIOUS
<1> HIDE DEF m, e
<1> QED BY <1>1, <1>2, <1>3, <1>4, ReactPaced

(* A change of another button after a flush. *)
LEMMA EnterPaced ==
  ASSUME NEW dev \in Device, NEW b \in Buttons, NEW down \in BOOLEAN,
         dev.state \in {"IS_UP", "IS_DOWN", "DISABLED"},
         dev.sentAge >= SpuriousTimeout, ~dev.tooFast
  PROVE  LET c == [button |-> b, press |-> down]
             n == Feed(Enter(dev, c), c, 0)
         IN  Paced(n) /\ ~n.tooFast
<1> DEFINE c == [button |-> b, press |-> down]
           m == Enter(dev, c)
<1>1. m \in Device
  BY DEF Enter, Device, Settle
<1>2. /\ m.state \in {"IS_UP", "IS_DOWN", "DISABLED"}
      /\ m.sentAge = dev.sentAge /\ m.tooFast = dev.tooFast
  BY DEF Enter, Device, Settle
<1>3. Paced(m)
  BY <1>2 DEF Paced
<1> HIDE DEF m
<1>4. LET n == Feed(m, c, 0) IN Paced(n) /\ ~n.tooFast
  BY <1>1, <1>2, <1>3, FeedPaced
<1> QED BY <1>4 DEF m

(* A frame with one change that is handled when it is stamped.             *)
LEMMA OneChangePaced ==
  ASSUME NEW dev \in Device, NEW b \in Buttons, NEW phys \in SUBSET Buttons,
         dev.state # "DISABLED", Paced(dev), ~dev.tooFast,
         NEW age \in 0..MaxLag, age = 0,
         Consistent(dev, phys), Ready(dev)
  PROVE  LET n == OneChange(dev, Toggle(b, phys), age)
         IN  Paced(n) /\ ~n.tooFast
<1> DEFINE c == Toggle(b, phys)
           f == Flush(dev, age)
<1>1. c = [button |-> b, press |-> b \notin phys] /\ c.button = b
      /\ (b \notin phys) \in BOOLEAN
  BY DEF Toggle
<1>2. CASE b = dev.usage
  <2>1. OneChange(dev, c, age) = Feed(dev, c, age)
    BY <1>1, <1>2 DEF OneChange
  <2> QED BY <1>1, <2>1, FeedPaced
<1>3. CASE b # dev.usage
  <2>1. OneChange(dev, c, age) = Feed(Enter(f, c), c, age)
    BY <1>1, <1>3 DEF OneChange
  <2>2. f \in Device
    BY FlushConsistent DEF Ready
  <2>3. /\ f.state \in {"IS_UP", "IS_DOWN", "DISABLED"}
        /\ f.sentAge = SpuriousTimeout /\ f.tooFast = dev.tooFast
    BY FlushTimes
  <2>4. f.sentAge >= SpuriousTimeout
    BY <2>3, DebounceAssumption
  <2> HIDE DEF f
  <2> QED BY <1>1, <2>1, <2>2, <2>3, <2>4, EnterPaced
<1> QED BY <1>2, <1>3

(* A frame with two changes that is handled when it is stamped: the flush  *)
(* before and after each of them starts the times afresh.                  *)
LEMMA TwoChangesPaced ==
  ASSUME NEW dev \in Device, NEW b \in Buttons, NEW c \in Buttons,
         NEW phys \in SUBSET Buttons, ~dev.tooFast,
         Consistent(dev, phys), Ready(dev)
  PROVE  LET n == TwoChanges(dev, Toggle(b, phys),
                             Toggle(c, Toggled(b, phys)), 0)
         IN  Paced(n) /\ ~n.tooFast
<1> DEFINE Rests(x) == /\ x.state \in {"IS_UP", "IS_DOWN", "DISABLED"}
                       /\ x.sentAge = SpuriousTimeout
                       /\ ~x.tooFast
           mid == Toggled(b, phys)
           f == Flush(dev, 0)
           g == FlushedChange(f, Toggle(b, phys), 0)
<1>0. 0 \in 0..MaxLag /\ mid \in SUBSET Buttons
  BY DebounceAssumption DEF Toggled
<1>1. ASSUME NEW x \in Device, NEW q \in SUBSET Buttons, NEW k \in Buttons,
             Consistent(x, q), x.timers.armed = {}, Rests(x)
      PROVE  Rests(FlushedChange(x, Toggle(k, q), 0))
  <2> DEFINE t == Toggle(k, q)
             m == Enter(x, t)
             y == Feed(m, t, 0)
  <2>1. FlushedChange(x, t, 0) = Flush(y, 0)
    BY DEF FlushedChange
  <2>2. t = [button |-> k, press |-> k \notin q] /\ (k \notin q) \in BOOLEAN
    BY DEF Toggle
  <2>3. m \in Device
    BY DEF Enter, Device, Settle
  <2>4. Consistent([m EXCEPT !.usage = k], q)
    BY <1>1, EnterConsistent
  <2>5. x.sentAge >= SpuriousTimeout
    BY <1>1, DebounceAssumption
  <2>6. ~y.tooFast
    BY <1>1, <2>2, <2>5, EnterPaced
  <2> HIDE DEF m
  <2>7. y \in Device
    BY <1>0, <2>3, <2>4, FeedConsistent
  <2> HIDE DEF y
  <2> QED BY <2>1, <2>6, <2>7, FlushTimes
<1>2. TwoChanges(dev, Toggle(b, phys), Toggle(c, mid), 0)
        = FlushedChange(g, Toggle(c, mid), 0)
  BY DEF TwoChanges
<1>3. f \in Device /\ Consistent(f, phys) /\ f.timers.armed = {} /\ Rests(f)
  BY <1>0, FlushConsistent, FlushTimes DEF Ready
<1> HIDE DEF f, Rests
<1>4. g \in Device /\ Consistent(g, mid) /\ g.timers.armed = {} /\ Rests(g)
  BY <1>0, <1>1, <1>3, FlushedChangeConsistent
<1> HIDE DEF g, mid
<1>5. Rests(FlushedChange(g, Toggle(c, mid), 0))
  BY <1>0, <1>1, <1>4
<1>6. \A x : Rests(x) => Paced(x) /\ ~x.tooFast
  BY DebounceAssumption DEF Rests, Paced
<1> QED BY <1>2, <1>5, <1>6 DEF mid

(* The timer that fires has run down; firing it clears only its own expiry. *)
LEMMA TimeoutPaced ==
  ASSUME NEW dev \in Device, NEW phys \in SUBSET Buttons, NEW t \in Timers,
         NEW age \in 0..MaxLag, Consistent(dev, phys),
         FiresNext(dev.timers, t, age), Paced(dev), ~dev.tooFast
  PROVE  LET n == React([dev EXCEPT !.timers = CancelTimer(@, t)],
                        IF t = "bounce" THEN "TIMEOUT" ELSE "TIMEOUT_SHORT", 0)
         IN  Paced(n) /\ ~n.tooFast
<1> DEFINE m == [dev EXCEPT !.timers = CancelTimer(@, t)]
           e == IF t = "bounce" THEN "TIMEOUT" ELSE "TIMEOUT_SHORT"
<1>1. /\ dev.timers \in TimerLists /\ t \in dev.timers.armed
      /\ dev.timers.left[t] + age <= 0
  BY DEF Device, FiresNext, ExpiredAt
<1>2. dev.timers.left[t] <= 0
  BY <1>1, DebounceAssumption DEF TimerLists
<1>3. /\ CancelTimer(dev.timers, t) \in TimerLists
      /\ CancelTimer(dev.timers, t).left = [dev.timers.left EXCEPT ![t] = 0]
  BY <1>1, DebounceAssumption DEF CancelTimer, TimerLists
<1>4. /\ m \in Device /\ m.timers = CancelTimer(dev.timers, t)
      /\ m.state = dev.state /\ m.tooFast = dev.tooFast /\ m.gap = dev.gap
      /\ m.stampAge = dev.stampAge /\ m.sentAge = dev.sentAge /\ m.quiet = dev.quiet
  BY <1>3 DEF Device
<1>5. /\ m.timers.left[t] = 0
      /\ \A u \in Timers \ {t} : m.timers.left[u] = dev.timers.left[u]
  BY <1>1, <1>3, <1>4 DEF TimerLists
<1>6. dev.timers.armed = Needs(dev.state) /\ Ordered(dev.timers) /\ dev.state \in States
  BY DEF Consistent, Device
<1>7. /\ t = "bounce" => Needs(dev.state) = {"bounce"}
      /\ t = "short" => Needs(dev.state) = Timers
  BY <1>1, <1>6, LongFiresAlone DEF Needs
<1> HIDE DEF m
<1>8. \A u \in Timers : dev.timers.left[u] <= m.timers.left[u]
  <2>1. \A u \in Timers : dev.timers.left[u] \in Int
    BY <1>1, DebounceAssumption DEF TimerLists
  <2> QED BY <1>2, <1>5, <2>1
<1>9. Paced(m)
  <2>1. \A u \in Timers : dev.timers.left[u] \in Int /\ m.timers.left[u] \in Int
    BY <1>1, <1>4, DebounceAssumption DEF TimerLists, Device
  <2>2. /\ dev.stampAge \in Int /\ dev.sentAge \in Int /\ dev.quiet \in Int
        /\ BounceTimeout \in Int /\ SpuriousTimeout \in Int
    BY DebounceAssumption DEF Device, LagCap
  <2> QED BY <1>4, <1>8, <2>1, <2>2 DEF Paced, Aged
<1>10. /\ e \in Events \ {"OTHERBUTTON"} /\ m.state # "DISABLED"
       /\ e = "TIMEOUT" => t = "bounce"
       /\ e = "TIMEOUT_SHORT" => t = "short"
       /\ m.timers.left[t] <= 0
  BY <1>1, <1>4, <1>5, <1>6 DEF Events, Needs
<1> HIDE DEF e
<1>11. Paced(React(m, e, 0)) /\ ~React(m, e, 0).tooFast
  BY <1>4, <1>7, <1>9, <1>10, ReactPaced
<1> QED BY <1>11 DEF m, e

(* A tick makes every age grow, unless it is large enough already, by at   *)
(* least what it takes off a running timer.                                *)
LEMMA TickPaced ==
  ASSUME NEW dev \in Device, Paced(dev)
  PROVE  LET n == [dev EXCEPT !.timers = Elapse(@, 0 - MaxLag),
                              !.stampAge = Older(@, SpuriousTimeout),
                              !.sentAge = Older(@, SpuriousTimeout),
                              !.quiet = Older(@, SpuriousTimeout)]
         IN  Paced(n) /\ n.tooFast = dev.tooFast
<1> DEFINE n == [dev EXCEPT !.timers = Elapse(@, 0 - MaxLag),
                            !.stampAge = Older(@, SpuriousTimeout),
                            !.sentAge = Older(@, SpuriousTimeout),
                            !.quiet = Older(@, SpuriousTimeout)]
<1>1. /\ n.state = dev.state /\ n.gap = dev.gap /\ n.tooFast = dev.tooFast
      /\ n.timers = Elapse(dev.timers, 0 - MaxLag)
      /\ n.stampAge = Older(dev.stampAge, SpuriousTimeout)
      /\ n.sentAge = Older(dev.sentAge, SpuriousTimeout)
      /\ n.quiet = Older(dev.quiet, SpuriousTimeout)
  BY DEF Device
<1>2. /\ dev.stampAge \in Nat /\ dev.sentAge \in Nat /\ dev.quiet \in Nat
      /\ BounceTimeout \in Nat /\ SpuriousTimeout \in Nat
      /\ dev.timers \in TimerLists
  BY DebounceAssumption DEF Device, LagCap
<1>3. \A u \in Timers : dev.timers.left[u] \in Int
  BY <1>2, DebounceAssumption DEF TimerLists
<1> HIDE DEF n
<1>4. \A u \in Timers : /\ n.timers.left[u] \in Int
                        /\ n.timers.left[u] >= dev.timers.left[u] - 1
  BY <1>1, <1>2, <1>3, DebounceAssumption DEF Elapse, TimerLists
<1>5. \A x \in Nat : Older(x, SpuriousTimeout) \in Nat
        /\ (x >= SpuriousTimeout => Older(x, SpuriousTimeout) >= SpuriousTimeout)
        /\ (x < SpuriousTimeout => Older(x, SpuriousTimeout) = x + 1)
  BY <1>2 DEF Older
<1>6. ASSUME NEW x \in Nat, NEW u \in Timers, NEW timeout \in Nat,
             Aged(dev, x, u, timeout)
      PROVE  Aged(n, Older(x, SpuriousTimeout), u, timeout)
  <2>1. CASE x >= SpuriousTimeout
    BY <1>5, <2>1 DEF Aged
  <2>2. CASE ~(x >= SpuriousTimeout)
    <3>1. Older(x, SpuriousTimeout) = x + 1 /\ x + dev.timers.left[u] >= timeout
      BY <1>2, <1>5, <1>6, <2>2 DEF Aged
    <3>2. /\ n.timers.left[u] \in Int /\ dev.timers.left[u] \in Int
          /\ n.timers.left[u] >= dev.timers.left[u] - 1
      BY <1>3, <1>4
    <3>3. (x + 1) + n.timers.left[u] >= timeout
      BY <3>1, <3>2
    <3> QED BY <3>1, <3>3 DEF Aged
  <2> QED BY <2>1, <2>2
<1>7. Paced(n)
  BY <1>1, <1>2, <1>5, <1>6 DEF Paced
<1> QED BY <1>1, <1>7 DEF n

(* A new device has sent nothing yet. *)
LEMMA NewDevicePaced ==
  ASSUME NEW phys \in SUBSET Buttons
  PROVE  Paced(NewDevice(phys)) /\ ~NewDevice(phys).tooFast
BY DebounceAssumption DEF NewDevice, Paced

-----------------------------------------------------------------------------
(* The inductive invariant of the specification. *)
Inv ==
  /\ TypeOK
  /\ ~d.bug /\ ~d.redundant
  /\ Ready(d)
  /\ present => Consistent(d, physical)
  /\ ~present => d.timers.armed = {}

(* The invariant holds initially.                                          *)
LEMMA InitInv == Init => Inv
<1> SUFFICES ASSUME Init PROVE Inv
  OBVIOUS
<1>1. physical \in SUBSET Buttons /\ d = NewDevice(physical) /\ present
      /\ lag = LagCap /\ ~late /\ present \in BOOLEAN /\ late \in BOOLEAN
  BY DEF Init
<1>2. lag \in 0..LagCap
  BY <1>1, DebounceAssumption DEF LagCap
<1>3. d \in Device /\ Ready(d) /\ Consistent(d, physical)
  BY <1>1, NewDeviceConsistent
<1>4. ~d.bug /\ ~d.redundant
  BY <1>3 DEF Consistent, Healthy
<1> QED BY <1>1, <1>2, <1>3, <1>4 DEF Inv, TypeOK

(* Every step keeps the invariant: one step of the proof per action.       *)
LEMMA NextInv == Inv /\ [Next]_vars => Inv'
<1> SUFFICES ASSUME Inv, [Next]_vars PROVE Inv'
  OBVIOUS
<1>1. /\ d \in Device /\ physical \in SUBSET Buttons /\ Ready(d)
      /\ present \in BOOLEAN /\ late \in BOOLEAN /\ lag \in 0..LagCap
      /\ present => Consistent(d, physical)
  BY DEF Inv, TypeOK
<1>2. FrameAges \subseteq 0..MaxLag /\ 0..MaxLag \subseteq 0..LagCap
  BY DebounceAssumption DEF FrameAges, LagCap
<1>3. \A dev : Consistent(dev, physical') => ~dev.bug /\ ~dev.redundant
  BY DEF Consistent, Healthy
<1>4. ASSUME NEW a \in FrameAges, NEW b \in Buttons, Frame(b, a) PROVE Inv'
  <2>1. /\ present /\ present' /\ physical' = Toggled(b, physical)
        /\ present' = present /\ lag' = a /\ late' = (late \/ a > 0)
        /\ d' = IF d.state = "DISABLED"
                  THEN [d EXCEPT !.down = Toggled(b, @)]
                  ELSE OneChange(d, Toggle(b, physical), a)
    BY <1>4 DEF Frame
  <2>2. d' \in Device /\ Consistent(d', physical') /\ Ready(d')
    <3>1. CASE d.state = "DISABLED"
      BY <1>1, <2>1, <3>1, BypassConsistent
    <3>2. CASE d.state # "DISABLED"
      BY <1>1, <1>2, <2>1, <3>2, OneChangeConsistent
    <3> QED BY <3>1, <3>2
  <2>3. physical' \subseteq Buttons /\ late' \in BOOLEAN
    BY <1>1, <2>1 DEF Toggled
  <2> QED BY <1>1, <1>2, <1>3, <2>1, <2>2, <2>3 DEF Inv, TypeOK, Ready
<1>5. ASSUME NEW a \in FrameAges, NEW b \in Buttons, NEW c \in Buttons,
             DoubleFrame(b, c, a)
      PROVE  Inv'
  <2>1. /\ present /\ present' /\ physical' = Toggled(c, Toggled(b, physical))
        /\ present' = present /\ lag' = a /\ late' = (late \/ a > 0)
        /\ d' = IF d.state = "DISABLED"
                  THEN [d EXCEPT !.down = Toggled(c, Toggled(b, @))]
                  ELSE TwoChanges(d, Toggle(b, physical),
                                  Toggle(c, Toggled(b, physical)), a)
    BY <1>5 DEF DoubleFrame
  <2>2. d' \in Device /\ Consistent(d', physical') /\ Ready(d')
    <3>1. CASE d.state = "DISABLED"
      <4> DEFINE m == [d EXCEPT !.down = Toggled(b, @)]
      <4>1. /\ m \in Device /\ Consistent(m, Toggled(b, physical))
            /\ m.state = "DISABLED"
        BY <1>1, <2>1, <3>1, BypassConsistent
      <4>2. Toggled(b, physical) \in SUBSET Buttons
        BY <1>1 DEF Toggled
      <4>3. d' = [m EXCEPT !.down = Toggled(c, @)]
        BY <1>1, <2>1, <3>1 DEF Device
      <4> HIDE DEF m
      <4>4. LET n == [m EXCEPT !.down = Toggled(c, @)]
            IN  /\ n \in Device /\ Ready(n)
                /\ Consistent(n, Toggled(c, Toggled(b, physical)))
        BY <4>1, <4>2, BypassConsistent
      <4> QED BY <2>1, <4>3, <4>4
    <3>2. CASE d.state # "DISABLED"
      BY <1>1, <1>2, <2>1, <3>2, TwoChangesConsistent
    <3> QED BY <3>1, <3>2
  <2>3. physical' \subseteq Buttons /\ late' \in BOOLEAN
    BY <1>1, <2>1 DEF Toggled
  <2> QED BY <1>1, <1>2, <1>3, <2>1, <2>2, <2>3 DEF Inv, TypeOK, Ready
<1>6. ASSUME NEW a \in FrameAges, NEW t \in Timers, Timeout(t, a) PROVE Inv'
  <2>1. /\ FiresNext(d.timers, t, a)
        /\ d' = React([d EXCEPT !.timers = CancelTimer(@, t)],
                      IF t = "bounce" THEN "TIMEOUT" ELSE "TIMEOUT_SHORT", 0)
        /\ UNCHANGED <<present, physical, lag, late>>
    BY <1>6 DEF Timeout
  <2>2. present
    BY <1>1, <2>1 DEF Inv, FiresNext, ExpiredAt
  <2>3. d' \in Device /\ Consistent(d', physical) /\ d'.usage = d.usage
    BY <1>1, <1>2, <2>1, <2>2, TimeoutConsistent DEF Ready
  <2>4. d.usage \in Buttons
    <3>1. d.timers.armed # {}
      BY <2>1 DEF FiresNext, ExpiredAt
    <3>2. d.state \notin {"IS_UP", "DISABLED"}
      BY <1>1, <2>2, <3>1 DEF Consistent, Needs
    <3> QED BY <1>1, <3>2 DEF Ready
  <2> QED BY <1>1, <1>3, <2>1, <2>2, <2>3, <2>4 DEF Inv, TypeOK, Ready
<1>7. CASE FeatureDisabled
  <2>1. /\ present /\ d' = [d EXCEPT !.want = TRUE]
        /\ UNCHANGED <<present, physical, lag, late>>
    BY <1>7 DEF FeatureDisabled
  <2>2. d' \in Device /\ Ready(d') /\ Consistent(d', physical)
    BY <1>1, <2>1 DEF Device, Ready, Consistent, Agrees, Healthy
  <2> QED BY <1>1, <1>3, <2>1, <2>2 DEF Inv, TypeOK, Ready
<1>8. CASE DeviceRemoved
  <2>1. /\ ~present' /\ present' \in BOOLEAN
        /\ d' = [d EXCEPT !.timers = Cancel(@, Timers)]
        /\ UNCHANGED <<physical, lag, late>>
    BY <1>8 DEF DeviceRemoved
  <2>2. Cancel(d.timers, Timers) \in TimerLists
        /\ Cancel(d.timers, Timers).armed = {}
    BY <1>1, FlushTimers DEF Device
  <2>3. /\ d' \in Device /\ d'.timers.armed = {} /\ d'.state = d.state
        /\ d'.usage = d.usage /\ d'.bug = d.bug /\ d'.redundant = d.redundant
    BY <1>1, <2>1, <2>2 DEF Device
  <2> QED BY <1>1, <2>1, <2>3 DEF Inv, TypeOK, Ready
<1>9. CASE DeviceAdded
  <2>1. /\ present' /\ present' \in BOOLEAN /\ physical' \in SUBSET Buttons
        /\ d' = NewDevice(physical') /\ lag' = LagCap /\ late' = late
    BY <1>9 DEF DeviceAdded
  <2>2. d' \in Device /\ Ready(d') /\ Consistent(d', physical')
    BY <2>1, NewDeviceConsistent
  <2>3. lag' \in 0..LagCap
    BY <2>1, DebounceAssumption DEF LagCap
  <2> QED BY <1>1, <1>3, <2>1, <2>2, <2>3 DEF Inv, TypeOK, Ready
<1>10. CASE Tick
  <2>1. /\ lag' = Older(lag, LagCap) /\ UNCHANGED <<present, physical, late>>
        /\ d' = [d EXCEPT !.timers = Elapse(@, 0 - MaxLag),
                          !.stampAge = Older(@, SpuriousTimeout),
                          !.sentAge = Older(@, SpuriousTimeout),
                          !.quiet = Older(@, SpuriousTimeout)]
    BY <1>10 DEF Tick
  <2>2. \A x \in 0..LagCap : Older(x, LagCap) \in 0..LagCap
        /\ Older(x, SpuriousTimeout) \in 0..LagCap
    BY DebounceAssumption DEF Older, LagCap
  <2>3. present => Ordered(d.timers)
    BY <1>1 DEF Consistent
  <2>4. ~present => Ordered(d.timers)
    BY DEF Inv, Ordered
  <2>5. /\ Elapse(d.timers, 0 - MaxLag) \in TimerLists
        /\ Ordered(Elapse(d.timers, 0 - MaxLag))
        /\ Elapse(d.timers, 0 - MaxLag).armed = d.timers.armed
    BY <1>1, <2>3, <2>4, ElapseOrdered DEF Device
  <2>6. /\ d' \in Device /\ d'.timers = Elapse(d.timers, 0 - MaxLag)
        /\ d'.state = d.state /\ d'.usage = d.usage /\ d'.bug = d.bug
        /\ d'.redundant = d.redundant /\ d'.down = d.down
        /\ d'.spurious = d.spurious
    BY <1>1, <2>1, <2>2, <2>5 DEF Device
  <2>7. present => Consistent(d', physical)
    BY <1>1, <2>5, <2>6 DEF Consistent, Agrees, Healthy
  <2> QED BY <1>1, <2>1, <2>2, <2>5, <2>6, <2>7 DEF Inv, TypeOK, Ready
<1>11. CASE UNCHANGED vars
  BY <1>11 DEF vars, Inv, TypeOK, Ready
<1> QED
  BY <1>4, <1>5, <1>6, <1>7, <1>8, <1>9, <1>10, <1>11 DEF Next

(* In every reachable state the state of the machine says truly what the   *)
(* kernel and downstream know of the current button and which timers run.  *)
THEOREM Invariance == Spec => []Inv
<1> QED BY InitInv, NextInv, PTL DEF Spec

(* The fields of the model stay within their types. *)
THEOREM TypeCorrect == Spec => []TypeOK
<1>1. Inv => TypeOK
  BY DEF Inv
<1> QED BY Invariance, <1>1, PTL

(* No event reaches a state that calls it a bug, whatever the timeouts and *)
(* however late the frames.                                                *)
THEOREM NeverABug == Spec => []NoStateMachineBug
<1>1. Inv => NoStateMachineBug
  BY DEF Inv, NoStateMachineBug
<1> QED BY Invariance, <1>1, PTL

(* Downstream sees every button alternate between press and release.       *)
THEOREM Alternation == Spec => []PressesAlternate
<1>1. Inv => PressesAlternate
  BY DEF Inv, PressesAlternate
<1> QED BY Invariance, <1>1, PTL

(* All buttons but the current one are downstream as in the kernel.        *)
THEOREM OthersInSync == Spec => []OtherButtonsInSync
<1>1. Inv => OtherButtonsInSync
  BY DEF Inv, OtherButtonsInSync, Consistent
<1> QED BY Invariance, <1>1, PTL

(* Without an armed timer downstream agrees with the kernel.               *)
THEOREM NothingParked == Spec => []NothingWithheldWithoutTimer
<1>1. Inv => NothingWithheldWithoutTimer
  BY ConsistentSync DEF Inv, TypeOK, NothingWithheldWithoutTimer
<1> QED BY Invariance, <1>1, PTL

(* Whenever both timers are armed the short one is served first.           *)
THEOREM ShortFirst == Spec => []ShortFiresFirst
<1>1. Inv => ShortFiresFirst
  BY DEF Inv, Consistent, Ordered, ShortFiresFirst
<1> QED BY Invariance, <1>1, PTL

(* The pace is kept as long as no frame was late. *)
Pace == ~late => ~d.tooFast /\ (present => Paced(d))

(* Every step keeps the pace: one step of the proof per action.            *)
LEMMA NextPace == Inv /\ Pace /\ [Next]_vars => Pace'
<1> SUFFICES ASSUME Inv, Pace, [Next]_vars, ~late'
             PROVE  ~d'.tooFast /\ (present' => Paced(d'))
  BY DEF Pace
<1>1. /\ d \in Device /\ physical \in SUBSET Buttons /\ Ready(d)
      /\ present => Consistent(d, physical)
      /\ ~present => d.timers.armed = {}
  BY DEF Inv, TypeOK
<1>2. FrameAges \subseteq 0..MaxLag
  BY DEF FrameAges
<1>3. ~late => ~d.tooFast /\ (present => Paced(d))
  BY DEF Pace
<1>4. ASSUME NEW a \in FrameAges, NEW b \in Buttons, Frame(b, a)
      PROVE  ~d'.tooFast /\ Paced(d')
  <2>1. /\ present /\ late' = (late \/ a > 0)
        /\ d' = IF d.state = "DISABLED"
                  THEN [d EXCEPT !.down = Toggled(b, @)]
                  ELSE OneChange(d, Toggle(b, physical), a)
    BY <1>4 DEF Frame
  <2>2. ~late /\ a \in 0..MaxLag /\ a = 0
    <3>1. ~late /\ ~(a > 0)
      <4>1. ~(late \/ a > 0)
        BY <2>1
      <4> QED BY <4>1
    <3>2. a \in 0..MaxLag
      BY <1>2
    <3> QED BY <3>1, <3>2, DebounceAssumption
  <2>3. CASE d.state = "DISABLED"
    BY <1>1, <1>3, <2>1, <2>2, <2>3 DEF Device, Paced
  <2>4. CASE d.state # "DISABLED"
    BY <1>1, <1>3, <2>1, <2>2, <2>4, OneChangePaced
  <2> QED BY <2>3, <2>4
<1>5. ASSUME NEW a \in FrameAges, NEW b \in Buttons, NEW c \in Buttons,
             DoubleFrame(b, c, a)
      PROVE  ~d'.tooFast /\ Paced(d')
  <2>1. /\ present /\ late' = (late \/ a > 0)
        /\ d' = IF d.state = "DISABLED"
                  THEN [d EXCEPT !.down = Toggled(c, Toggled(b, @))]
                  ELSE TwoChanges(d, Toggle(b, physical),
                                  Toggle(c, Toggled(b, physical)), a)
    BY <1>5 DEF DoubleFrame
  <2>2. ~late /\ a = 0
    <3>1. ~late /\ ~(a > 0)
      <4>1. ~(late \/ a > 0)
        BY <2>1
      <4> QED BY <4>1
    <3>2. a \in 0..MaxLag
      BY <1>2
    <3> QED BY <3>1, <3>2, DebounceAssumption
  <2>3. CASE d.state = "DISABLED"
    BY <1>1, <1>3, <2>1, <2>2, <2>3 DEF Device, Paced
  <2>4. CASE d.state # "DISABLED"
    BY <1>1, <1>3, <2>1, <2>2, <2>4, TwoChangesPaced
  <2> QED BY <2>3, <2>4
<1>6. ASSUME NEW a \in FrameAges, NEW t \in Timers, Timeout(t, a)
      PROVE  ~d'.tooFast /\ Paced(d')
  <2>1. /\ FiresNext(d.timers, t, a) /\ late' = late
        /\ d' = React([d EXCEPT !.timers = CancelTimer(@, t)],
                      IF t = "bounce" THEN "TIMEOUT" ELSE "TIMEOUT_SHORT", 0)
    BY <1>6 DEF Timeout
  <2>2. present
    BY <1>1, <2>1 DEF FiresNext, ExpiredAt
  <2> QED BY <1>1, <1>2, <1>3, <2>1, <2>2, TimeoutPaced
<1>7. CASE FeatureDisabled
  BY <1>1, <1>3, <1>7 DEF FeatureDisabled, Device, Paced, Aged
<1>8. CASE DeviceRemoved
  BY <1>1, <1>3, <1>8 DEF DeviceRemoved, Device
<1>9. CASE DeviceAdded
  <2>1. physical' \in SUBSET Buttons /\ d' = NewDevice(physical')
    BY <1>9 DEF DeviceAdded
  <2> QED BY <2>1, NewDevicePaced
<1>10. CASE Tick
  <2>1. /\ present' = present /\ late' = late
        /\ d' = [d EXCEPT !.timers = Elapse(@, 0 - MaxLag),
                          !.stampAge = Older(@, SpuriousTimeout),
                          !.sentAge = Older(@, SpuriousTimeout),
                          !.quiet = Older(@, SpuriousTimeout)]
    BY <1>10 DEF Tick
  <2>2. CASE present
    BY <1>1, <1>3, <2>1, <2>2, TickPaced
  <2>3. CASE ~present
    <3>1. d'.tooFast = d.tooFast
      BY <1>1, <2>1 DEF Device
    <3> QED BY <1>3, <2>1, <2>3, <3>1
  <2> QED BY <2>2, <2>3
<1>11. CASE UNCHANGED vars
  BY <1>3, <1>11 DEF vars
<1> QED
  BY <1>4, <1>5, <1>6, <1>7, <1>8, <1>9, <1>10, <1>11 DEF Next

(* As long as no frame is late, two changes of one button that the state   *)
(* machine sends are SpuriousTimeout apart, whatever the switch does and   *)
(* whichever timers fire.  Frames that flush, those with another button or *)
(* several changes, are passed on unfiltered, so that nothing is said of   *)
(* what is sent for them, nor of the time from there to the next change.   *)
THEOREM BouncesFiltered == Spec => []BounceFiltered
<1>1. Init => Pace
  BY NewDevicePaced DEF Init, Pace
<1>2. Spec => []Pace
  BY <1>1, Invariance, NextPace, PTL DEF Spec
<1>3. Pace => BounceFiltered
  BY DEF Pace, BounceFiltered
<1> QED BY <1>2, <1>3, PTL

-----------------------------------------------------------------------------
(* What the theorems ask of the constants: frames change one button, and   *)
(* emulation and suspension come with the buttons up, as WhileHeld has     *)
(* neither.  Any button may scroll, the middle one as well, which is the   *)
(* default (evdev.c:806), but for one case: the middle button does not     *)
(* scroll while it is emulated (~MiddleScrolls).                           *)
Behaved ==
  /\ MaxChanges = 1
  /\ WhileHeld \subseteq {"left_handed", "scroll"}
  /\ ~MiddleScrolls

Devices ==
  [hw : SUBSET Codes, last : SUBSET Codes, left : BOOLEAN, wantLeft : BOOLEAN,
   mid : MiddleStates, midTimer : BOOLEAN, midOn : BOOLEAN, midWant : BOOLEAN,
   mask : SUBSET Codes, set : ScrollSettings, want : ScrollSettings,
   lockState : LockStates, scroll : ScrollStates, scrollTimer : BOOLEAN,
   count : [Codes -> 0..2], pressed : SUBSET Codes, redundant : BOOLEAN,
   bug : BOOLEAN, aborted : BOOLEAN]

(* How often each button is down where evdev_pointer_notify_button is      *)
(* called: the buttons the emulation does not withhold, and its own.       *)
Withheld(mid) ==
  CASE mid \in {"LEFT_DOWN", "LEFT_UP_PENDING", "IGNORE_L"} -> {LEFT}
    [] mid \in {"RIGHT_DOWN", "RIGHT_UP_PENDING", "IGNORE_R"} -> {RIGHT}
    [] mid \in {"MIDDLE", "IGNORE_LR"} -> Sides
    [] mid \in {"IDLE", "PASSTHROUGH"} -> {}

Times(mid, mask) ==
  [b \in Codes |->
     IF mid = "MIDDLE" /\ b = MIDDLE
       THEN IF b \in mask THEN 2 ELSE 1
       ELSE IF b \in mask \ Withheld(mid) THEN 1 ELSE 0]

More(n, b) == [n EXCEPT ![b] = @ + 1]
Less(n, b) == [n EXCEPT ![b] = @ - 1]
None == [b \in Codes |-> 0]

(* The client, the counts and the scroll button fit the buttons notified.  *)
Told(dev, n) ==
  /\ dev \in Devices /\ n \in [Codes -> 0..2]
  /\ ~dev.redundant /\ ~dev.bug /\ ~dev.aborted
  /\ dev.pressed = {b \in Codes : dev.count[b] > 0}
  /\ \A b \in Codes : dev.count[b] =
       IF dev.set.method = "on_button" /\ dev.set.button = b THEN 0 ELSE n[b]
  /\ dev.set.method = "on_button" /\ dev.set.button \in Codes =>
       LET times == n[dev.set.button]
       IN  /\ times \in {0, 1}
           /\ dev.lockState = "DISABLED" /\ times = 1 => dev.scroll # "IDLE"
           /\ dev.lockState \in {"IDLE", "FIRSTUP"} => times = 0
           /\ dev.lockState \in {"FIRSTDOWN", "SECONDDOWN"} => times = 1
           /\ dev.lockState \in {"FIRSTDOWN", "FIRSTUP", "SECONDDOWN"} => dev.scroll # "IDLE"

(* The emulation's state fits the buttons in its mask.                     *)
Emulating(mid, mask) ==
  /\ Withheld(mid) \subseteq mask
  /\ mid \in {"IDLE", "LEFT_DOWN", "LEFT_UP_PENDING", "RIGHT_DOWN", "RIGHT_UP_PENDING"} =>
       mask \cap Sides = Withheld(mid)
  /\ mid = "PASSTHROUGH" => mask # {}

Raw(dev) == {Mapped(dev, b) : b \in dev.hw}

-----------------------------------------------------------------------------
(* What one button event does at evdev_pointer_notify_button.              *)

\* What the layers above leave alone, and what they only change when every
\* button is up.
Beneath(dev, u) ==
  /\ u.hw = dev.hw /\ u.last = dev.last /\ u.mid = dev.mid /\ u.midTimer = dev.midTimer
  /\ u.midOn = dev.midOn /\ u.midWant = dev.midWant /\ u.mask = dev.mask
  /\ u.want = dev.want /\ (u.set = dev.set \/ u.set = dev.want)
  /\ dev.hw # {} => u.left = dev.left /\ u.set = dev.set

Scrolls(dev, b) == dev.set.method = "on_button" /\ dev.set.button = b

LEMMA SettingTypes ==
  \A s \in ScrollSettings : /\ s.method \in {"none", "on_button"} /\ s.lock \in BOOLEAN
                            /\ s.button \in Codes \cup {NoScrollButton}
  BY PointerAssumption

LEMMA NoneIsNone == None \in [Codes -> 0..2] /\ \A b \in Codes : None[b] = 0
  BY DEF None

\* Everything but the counts and what the client was told.
Fields(u, dev) ==
  /\ u.hw = dev.hw /\ u.last = dev.last /\ u.left = dev.left /\ u.wantLeft = dev.wantLeft 
  /\ u.mid = dev.mid /\ u.midTimer = dev.midTimer
  /\ u.midOn = dev.midOn /\ u.midWant = dev.midWant /\ u.mask = dev.mask
  /\ u.set = dev.set /\ u.want = dev.want /\ u.lockState = dev.lockState /\ u.scroll = dev.scroll
  /\ u.scrollTimer = dev.scrollTimer /\ u.bug = dev.bug /\ u.aborted = dev.aborted

LEMMA PressTold ==
  ASSUME NEW dev, NEW n, Told(dev, n), NEW b \in Codes, n[b] <= 1, ~Scrolls(dev, b)
  PROVE  Told(PostPress(dev, b), More(n, b)) /\ Beneath(dev, PostPress(dev, b))
<1> DEFINE u == PostPress(dev, b)
<1>1. Fields(u, dev) /\ u.count = [dev.count EXCEPT ![b] = @ + 1]
      /\ u.pressed = (IF dev.count[b] = 0 THEN dev.pressed \cup {b} ELSE dev.pressed)
      /\ u.redundant = (dev.redundant \/ (dev.count[b] = 0 /\ b \in dev.pressed))
  BY DEF Told, PostPress, Devices, Fields
<1>2. dev.count[b] = n[b] /\ n[b] \in 0..1 /\ dev.count \in [Codes -> 0..2] /\ n \in [Codes -> 0..2]
  BY DEF Told, Scrolls, Devices
<1>3. u.count \in [Codes -> 0..2] /\ u.pressed \in SUBSET Codes /\ u.redundant \in BOOLEAN
  BY <1>1, <1>2 DEF Told, Devices
<1>4. u \in Devices
  BY <1>1, <1>3 DEF Told, PostPress, Devices
<1> HIDE DEF u
<1>5. More(n, b) \in [Codes -> 0..2] /\ \A c \in Codes : More(n, b)[c] = IF c = b THEN n[c] + 1 ELSE n[c]
  BY <1>2 DEF More
<1>6. \A c \in Codes : u.count[c] = IF c = b THEN dev.count[c] + 1 ELSE dev.count[c]
  BY <1>1, <1>2
<1>7. u.pressed = {c \in Codes : u.count[c] > 0} /\ ~u.redundant
  BY <1>1, <1>2, <1>6 DEF Told, Devices
<1>8. \A c \in Codes : u.count[c] =
       IF u.set.method = "on_button" /\ u.set.button = c THEN 0 ELSE More(n, b)[c]
  BY <1>1, <1>2, <1>5, <1>6 DEF Told, Fields, Scrolls
<1>9. u.set.method = "on_button" /\ u.set.button \in Codes => More(n, b)[u.set.button] = n[dev.set.button]
  BY <1>1, <1>5 DEF Fields, Scrolls
<1>10. Told(u, More(n, b))
  BY <1>1, <1>4, <1>5, <1>7, <1>8, <1>9 DEF Told, Fields
<1> QED BY <1>10, <1>1 DEF Beneath, Fields, u

LEMMA SameDevice ==
  ASSUME NEW u \in Devices, NEW v \in Devices, Fields(u, v), u.count = v.count,
         u.pressed = v.pressed, u.redundant = v.redundant
  PROVE  u = v
  BY DEF Devices, Fields

LEMMA LeftHandedTold ==
  ASSUME NEW dev, NEW n, Told(dev, n)
  PROVE  LET u == ChangeLeftHanded(dev)
         IN  /\ Told(u, n) /\ Beneath(dev, u) /\ u.set = dev.set /\ u.want = dev.want
             /\ u.lockState = dev.lockState /\ u.scroll = dev.scroll
<1> DEFINE u == ChangeLeftHanded(dev)
<1>1. /\ Beneath(dev, u) /\ u.set = dev.set /\ u.want = dev.want
      /\ u.lockState = dev.lockState /\ u.scroll = dev.scroll
      /\ u.count = dev.count /\ u.pressed = dev.pressed
      /\ u.redundant = dev.redundant /\ u.bug = dev.bug /\ u.aborted = dev.aborted
  BY DEF Told, ChangeLeftHanded, Beneath, Devices
<1>2. u \in Devices
  BY DEF Told, ChangeLeftHanded, Devices
<1> HIDE DEF u
<1>3. Told(u, n)
  BY <1>1, <1>2 DEF Told
<1> QED BY <1>1, <1>3 DEF u

\* The scroll setting is changed while nothing is down.
LEMMA ScrollMethodTold ==
  ASSUME NEW l, NEW n, Told(l, n), l.hw = {} => n = None
  PROVE  LET u == ChangeScrollMethod(l)
         IN  /\ Told(u, n) /\ Beneath(l, u)
             /\ l.hw # {} => u.set = l.set
             /\ u.lockState \in {l.lockState, "DISABLED", "IDLE"}
<1> DEFINE u == ChangeScrollMethod(l)
<1>2. CASE l.hw = {} /\ l.want # l.set
  <2>1. n = None
    BY <1>2
  <2>2. /\ Beneath(l, u) /\ u.set = l.want
        /\ u.lockState = LockFor(l.want) /\ u.scroll = l.scroll
        /\ u.count = l.count /\ u.pressed = l.pressed
        /\ u.redundant = l.redundant /\ u.bug = l.bug /\ u.aborted = l.aborted
    BY <1>2 DEF Told, ChangeScrollMethod, Beneath, Devices
  <2>3. LockFor(l.want) \in {"IDLE", "DISABLED"}
    BY DEF LockFor
  <2>4. u \in Devices
    BY <1>2, <2>3 DEF Told, ChangeScrollMethod, Devices, LockStates
  <2> HIDE DEF u
  <2>5. \A b \in Codes : u.count[b] = 0
    BY <2>1, <2>2, NoneIsNone DEF Told
  <2>6. Told(u, n)
    BY <2>1, <2>2, <2>3, <2>4, <2>5, NoneIsNone DEF Told
  <2> QED BY <1>2, <2>2, <2>3, <2>6 DEF u
<1>3. CASE ~(l.hw = {} /\ l.want # l.set)
  <2>1. u = l
    BY <1>3 DEF ChangeScrollMethod
  <2> QED BY <2>1 DEF Beneath
<1> QED BY <1>2, <1>3

\* Settings are applied while nothing is down.
LEMMA SettingsTold ==
  ASSUME NEW dev, NEW n, Told(dev, n), dev.hw = {} => n = None
  PROVE  LET u == ChangeScrollMethod(ChangeLeftHanded(dev))
         IN  /\ Told(u, n) /\ Beneath(dev, u)
             /\ dev.hw # {} => u.set = dev.set
             /\ u.lockState \in {dev.lockState, "DISABLED", "IDLE"}
<1> DEFINE l == ChangeLeftHanded(dev)
           u == ChangeScrollMethod(l)
<1>1. Told(l, n) /\ Beneath(dev, l) /\ l.hw = dev.hw /\ l.set = dev.set /\ l.lockState = dev.lockState
  BY LeftHandedTold DEF Beneath
<1> HIDE DEF l
<1>2. /\ Told(u, n) /\ Beneath(l, u) /\ (l.hw # {} => u.set = l.set)
      /\ u.lockState \in {l.lockState, "DISABLED", "IDLE"}
  BY <1>1, ScrollMethodTold
<1> HIDE DEF u
<1>3. Beneath(dev, u)
  BY <1>1, <1>2 DEF Beneath
<1> QED BY <1>1, <1>2, <1>3 DEF u, l

LEMMA ReleaseTold ==
  ASSUME NEW dev, NEW n, Told(dev, n), NEW b \in Codes, n[b] >= 1, ~Scrolls(dev, b),
         dev.hw = {} => Less(n, b) = None
  PROVE  Told(PostRelease(dev, b), Less(n, b)) /\ Beneath(dev, PostRelease(dev, b))
<1> DEFINE counted == [dev EXCEPT !.count[b] = IF @ > 0 THEN @ - 1 ELSE 0,
                             !.bug = @ \/ dev.count[b] = 0]
           told == [counted EXCEPT !.pressed = @ \ {b},
                                 !.redundant = @ \/ b \notin dev.pressed]
           u == IF counted.count[b] > 0 THEN counted ELSE told
<1>1. dev.count[b] = n[b] /\ n[b] \in 1..2 /\ n \in [Codes -> 0..2] /\ dev.count \in [Codes -> 0..2]
      /\ b \in dev.pressed
  BY DEF Told, Scrolls, Devices
<1>2. /\ counted.count = [dev.count EXCEPT ![b] = @ - 1] /\ counted.pressed = dev.pressed
      /\ counted.redundant = dev.redundant /\ Fields(counted, dev)
  BY <1>1 DEF Told, Devices, Fields
<1>3. counted.count \in [Codes -> 0..2] /\ counted.bug \in BOOLEAN
  BY <1>1, <1>2 DEF Fields, Told
<1>4. counted \in Devices
  BY <1>3 DEF Told, Devices
<1> HIDE DEF counted
<1>13. u.count = counted.count /\ Fields(u, dev) /\ u \in Devices /\ ~u.redundant
      /\ u.pressed = (IF counted.count[b] > 0 THEN dev.pressed ELSE dev.pressed \ {b})
  <2>1. counted.count[b] > 0 => u = counted
    OBVIOUS
  <2>2. ~(counted.count[b] > 0) => u = told
    OBVIOUS
  <2>3. /\ told.count = counted.count /\ Fields(told, counted) /\ told.redundant = FALSE
        /\ told.pressed = counted.pressed \ {b}
    BY <1>1, <1>2, <1>4 DEF Told, Devices, Fields
  <2>4. told \in Devices
    BY <1>4 DEF Devices
  <2> HIDE DEF told, u
  <2> QED BY <1>2, <1>4, <2>1, <2>2, <2>3, <2>4 DEF Fields, Told
<1> HIDE DEF u
<1>5. Less(n, b) \in [Codes -> 0..2] /\ \A c \in Codes : Less(n, b)[c] = IF c = b THEN n[c] - 1 ELSE n[c]
  BY <1>1 DEF Less
<1>6. \A c \in Codes : u.count[c] = IF c = b THEN dev.count[c] - 1 ELSE dev.count[c]
  BY <1>1, <1>2, <1>13
<1>7. u.pressed = {c \in Codes : u.count[c] > 0}
  BY <1>1, <1>2, <1>13, <1>6 DEF Told, Devices
<1>8. \A c \in Codes : u.count[c] =
       IF u.set.method = "on_button" /\ u.set.button = c THEN 0 ELSE Less(n, b)[c]
  BY <1>1, <1>13, <1>5, <1>6 DEF Told, Fields, Scrolls
<1>9. u.set.method = "on_button" /\ u.set.button \in Codes => Less(n, b)[u.set.button] = n[dev.set.button]
  BY <1>13, <1>5 DEF Fields, Scrolls
<1>10. Told(u, Less(n, b)) /\ Beneath(dev, u)
  BY <1>13, <1>5, <1>7, <1>8, <1>9 DEF Told, Fields, Beneath
<1>11. CASE counted.count[b] > 0
  BY <1>10, <1>11 DEF PostRelease, u, counted
<1>12. CASE ~(counted.count[b] > 0)
  <2>1. PostRelease(dev, b) = ChangeScrollMethod(ChangeLeftHanded(u))
    BY <1>12 DEF PostRelease, u, counted
  <2>2. u.hw = {} => Less(n, b) = None
    BY <1>10 DEF Beneath
  <2>3. Told(PostRelease(dev, b), Less(n, b)) /\ Beneath(u, PostRelease(dev, b))
    BY <1>10, <2>1, <2>2, SettingsTold
  <2> QED BY <1>10, <2>3 DEF Beneath
<1> QED BY <1>11, <1>12

-----------------------------------------------------------------------------
(* The scroll button.                                                      *)

\* Stopping: the scroll button is up, and no lock is half way.
LEMMA ScrollIdleTold ==
  ASSUME NEW dev, NEW n, Told(dev, n), dev.lockState \in {"DISABLED", "IDLE"},
         \A b \in Codes : Scrolls(dev, b) => n[b] = 0
  PROVE  LET u == [dev EXCEPT !.scroll = "IDLE"] IN Told(u, n) /\ Beneath(dev, u)
<1> DEFINE u == [dev EXCEPT !.scroll = "IDLE"]
<1>1. u \in Devices /\ u.scroll = "IDLE" /\ Beneath(dev, u) /\ u.set = dev.set
      /\ u.lockState = dev.lockState /\ u.count = dev.count /\ u.pressed = dev.pressed
      /\ u.redundant = dev.redundant /\ u.bug = dev.bug /\ u.aborted = dev.aborted
  BY DEF Told, Devices, Beneath, ScrollStates
<1> HIDE DEF u
<1> QED BY <1>1 DEF Told, Scrolls, u

\* The click of a scroll button that did not scroll leaves no trace.
LEMMA ClickLeavesNothing ==
  ASSUME NEW q \in Devices, NEW b \in Codes, q.count[b] = 0, b \notin q.pressed,
         ~q.redundant, ~q.bug
  PROVE  PostRelease(PostPress(q, b), b) = ChangeScrollMethod(ChangeLeftHanded(q))
<1> DEFINE w == PostPress(q, b)
           counted == [w EXCEPT !.count[b] = IF @ > 0 THEN @ - 1 ELSE 0,
                             !.bug = @ \/ w.count[b] = 0]
           told == [counted EXCEPT !.pressed = @ \ {b},
                                 !.redundant = @ \/ b \notin w.pressed]
<1>1. /\ w.count = [q.count EXCEPT ![b] = @ + 1] /\ w.pressed = q.pressed \cup {b}
      /\ w.redundant = FALSE /\ Fields(w, q)
  BY DEF PostPress, Devices, Fields
<1>2. w.count \in [Codes -> 0..2] /\ w.pressed \in SUBSET Codes /\ w.count[b] = 1
  BY <1>1 DEF Devices
<1>3. w \in Devices
  BY <1>1, <1>2 DEF PostPress, Devices
<1> HIDE DEF w
<1>4. /\ counted.count = [w.count EXCEPT ![b] = @ - 1] /\ counted.pressed = w.pressed
      /\ counted.redundant = w.redundant /\ Fields(counted, w) 
  BY <1>1, <1>2, <1>3 DEF Devices, Fields
<1>5. counted.count = q.count
  BY <1>1, <1>2, <1>4 DEF Devices
<1>6. counted.count \in [Codes -> 0..2] /\ counted.bug \in BOOLEAN
  BY <1>1, <1>4, <1>5 DEF Fields, Devices
<1>7. counted \in Devices
  BY <1>3, <1>6 DEF Devices
<1> HIDE DEF counted
<1>8. /\ told.count = counted.count /\ told.pressed = counted.pressed \ {b}
      /\ told.redundant = (counted.redundant \/ b \notin w.pressed) /\ Fields(told, counted)
  BY <1>7 DEF Devices, Fields
<1>9. told \in Devices
  BY <1>1, <1>4, <1>7 DEF Devices
<1> HIDE DEF told
<1>10. told = q
  <2>1. Fields(told, q) /\ told.count = q.count
    BY <1>1, <1>4, <1>5, <1>8 DEF Fields
  <2>2. told.pressed = q.pressed
    BY <1>1, <1>4, <1>8 DEF Devices
  <2>3. told.redundant = q.redundant
    BY <1>1, <1>4, <1>8 DEF Devices
  <2> QED BY <1>9, <2>1, <2>2, <2>3, SameDevice
<1>11. PostRelease(w, b) = IF counted.count[b] > 0 THEN counted
                           ELSE ChangeScrollMethod(ChangeLeftHanded(told))
  BY DEF PostRelease, told, counted
<1>12. PostRelease(w, b) = ChangeScrollMethod(ChangeLeftHanded(q))
  BY <1>5, <1>10, <1>11
<1> QED BY <1>12 DEF w

LEMMA ScrollPressTold ==
  ASSUME NEW dev, NEW n, Told(dev, n), NEW b \in Codes, Scrolls(dev, b), n[b] = 0,
         NEW grace
  PROVE  LET u == ScrollButton(dev, TRUE, grace)
         IN  Told(u, More(n, b)) /\ Beneath(dev, u)
<1> DEFINE u == ScrollButton(dev, TRUE, grace)
<1>1. dev.lockState \in {"DISABLED", "IDLE", "FIRSTUP"}
  BY DEF Told, Scrolls, Devices, LockStates
<1>2. u \in Devices /\ Beneath(dev, u) /\ u.set = dev.set
      /\ u.count = dev.count /\ u.pressed = dev.pressed
      /\ u.redundant = dev.redundant /\ u.bug = dev.bug /\ u.aborted = dev.aborted
      /\ u.scroll # "IDLE"
      /\ u.lockState \in {"DISABLED", "FIRSTDOWN", "SECONDDOWN"}
  <2>1. CASE dev.lockState = "DISABLED"
    BY <2>1 DEF ScrollButton, ScrollPress, Told, Devices, Beneath, ScrollStates
  <2>2. CASE dev.lockState = "IDLE"
    BY <2>2 DEF ScrollButton, ScrollPress, Lock, Told, Devices, Beneath, ScrollStates, LockStates
  <2>3. CASE dev.lockState = "FIRSTUP"
    BY <2>3 DEF ScrollButton, Lock, Told, Devices, Beneath, ScrollStates, LockStates, Scrolls
  <2> QED BY <1>1, <2>1, <2>2, <2>3
<1>3. More(n, b) \in [Codes -> 0..2] /\ \A c \in Codes : More(n, b)[c] = IF c = b THEN 1 ELSE n[c]
  BY DEF More, Told
<1> HIDE DEF u
<1> QED BY <1>2, <1>3, ZenonT(60) DEF Told, Scrolls, u

LEMMA ScrollStopTold ==
  ASSUME NEW dev, NEW n, Told(dev, n), NEW b \in Codes, Scrolls(dev, b), n[b] = 0,
         dev.lockState \in {"DISABLED", "IDLE"}, dev.scroll # "IDLE",
         dev.hw = {} => n = None
  PROVE  Told(ScrollRelease(dev), n) /\ Beneath(dev, ScrollRelease(dev))
<1> DEFINE quiet == [dev EXCEPT !.scrollTimer = FALSE]
           click == PostRelease(PostPress(quiet, b), b)
           done == IF dev.scroll \in {"BUTTON_DOWN", "READY"} THEN click ELSE quiet
<1>1. /\ quiet \in Devices /\ Beneath(dev, quiet) /\ quiet.set = dev.set
      /\ quiet.lockState = dev.lockState /\ quiet.scroll = dev.scroll
      /\ quiet.count = dev.count /\ quiet.pressed = dev.pressed
      /\ quiet.redundant = dev.redundant /\ quiet.bug = dev.bug /\ quiet.aborted = dev.aborted
  BY DEF Told, Devices, Beneath
<1> HIDE DEF quiet
<1>2. Told(quiet, n)
  BY <1>1 DEF Told
<1>3. click = ChangeScrollMethod(ChangeLeftHanded(quiet))
  <2>1. quiet.count[b] = 0 /\ b \notin quiet.pressed /\ ~quiet.redundant /\ ~quiet.bug
    BY <1>2, <1>1 DEF Told, Scrolls
  <2> QED BY <1>1, <2>1, ClickLeavesNothing
<1>4. quiet.hw = {} => n = None
  BY <1>1 DEF Beneath
<1>5. /\ Told(done, n) /\ Beneath(quiet, done)
      /\ quiet.hw # {} => done.set = quiet.set
      /\ done.lockState \in {"DISABLED", "IDLE"}
  BY <1>1, <1>2, <1>3, <1>4, SettingsTold DEF Beneath
<1> HIDE DEF done
<1>6. \A c \in Codes : Scrolls(done, c) => n[c] = 0
  <2>1. CASE quiet.hw = {}
    BY <1>4, <2>1, NoneIsNone
  <2>2. CASE quiet.hw # {}
    BY <1>1, <1>5, <2>2 DEF Scrolls
  <2> QED BY <2>1, <2>2
<1>7. LET u == [done EXCEPT !.scroll = "IDLE"] IN Told(u, n) /\ Beneath(done, u)
  BY <1>5, <1>6, ScrollIdleTold
<1>8. dev.scroll \in ScrollStates
  BY DEF Told, Devices
<1>9. ScrollRelease(dev) = [done EXCEPT !.scroll = "IDLE"]
  BY <1>8 DEF ScrollRelease, done, quiet, Scrolls, ScrollStates
<1> QED BY <1>1, <1>5, <1>7, <1>9 DEF Beneath

LEMMA ScrollReleaseTold ==
  ASSUME NEW dev, NEW n, Told(dev, n), NEW b \in Codes, Scrolls(dev, b), n[b] = 1,
         dev.hw = {} => Less(n, b) = None, NEW grace
  PROVE  LET u == ScrollButton(dev, FALSE, grace)
         IN  Told(u, Less(n, b)) /\ Beneath(dev, u)
<1>1. dev.lockState \in {"DISABLED", "FIRSTDOWN", "SECONDDOWN"} /\ dev.scroll # "IDLE"
  BY DEF Told, Scrolls, Devices, LockStates
<1>2. Less(n, b) \in [Codes -> 0..2] /\ \A c \in Codes : Less(n, b)[c] = IF c = b THEN 0 ELSE n[c]
  BY DEF Less, Told
<1>3. ASSUME NEW s \in {"DISABLED", "IDLE", "FIRSTUP"}, s = "DISABLED" => dev.lockState = s
      PROVE  /\ Told(Lock(dev, s), Less(n, b)) /\ Beneath(dev, Lock(dev, s))
             /\ Scrolls(Lock(dev, s), b) /\ Lock(dev, s).lockState = s
             /\ Lock(dev, s).scroll = dev.scroll /\ Lock(dev, s).hw = dev.hw
  <2> DEFINE u == Lock(dev, s)
  <2>1. /\ u \in Devices /\ Beneath(dev, u) /\ u.set = dev.set
        /\ u.lockState = s /\ u.scroll = dev.scroll /\ u.hw = dev.hw
        /\ u.count = dev.count /\ u.pressed = dev.pressed
        /\ u.redundant = dev.redundant /\ u.bug = dev.bug /\ u.aborted = dev.aborted
    BY DEF Lock, Told, Devices, Beneath, LockStates
  <2> HIDE DEF u
  <2>2. Told(u, Less(n, b))
    BY <1>1, <1>2, <2>1 DEF Told, Scrolls
  <2> QED BY <2>1, <2>2 DEF Scrolls, u
<1>4. ASSUME NEW s \in {"DISABLED", "IDLE"}, s = "DISABLED" => dev.lockState = s
      PROVE  LET u == ScrollRelease(Lock(dev, s)) IN Told(u, Less(n, b)) /\ Beneath(dev, u)
  <2> DEFINE q == Lock(dev, s)
  <2>1. /\ Told(q, Less(n, b)) /\ Beneath(dev, q) /\ Scrolls(q, b) /\ q.lockState = s
        /\ q.scroll # "IDLE" /\ q.hw = dev.hw
    BY <1>1, <1>3, <1>4
  <2> HIDE DEF q
  <2>2. Told(ScrollRelease(q), Less(n, b)) /\ Beneath(q, ScrollRelease(q))
    BY <1>2, <1>4, <2>1, ScrollStopTold
  <2> QED BY <2>1, <2>2 DEF Beneath, q
<1>5. CASE dev.lockState = "DISABLED"
  <2>1. Lock(dev, "DISABLED") = dev
    BY <1>5 DEF Lock, Told, Devices
  <2> QED BY <1>4, <1>5, <2>1 DEF ScrollButton
<1>6. CASE dev.lockState = "FIRSTDOWN"
  BY <1>3, <1>4, <1>6 DEF ScrollButton
<1>7. CASE dev.lockState = "SECONDDOWN"
  BY <1>4, <1>7 DEF ScrollButton
<1> QED BY <1>1, <1>5, <1>6, <1>7

\* One notification: the counts follow.
LEMMA NotifyPressTold ==
  ASSUME NEW dev, NEW n, Told(dev, n), NEW b \in Codes, NEW grace, n[b] <= 1,
         Scrolls(dev, b) => n[b] = 0
  PROVE  LET u == NotifyButton(dev, b, TRUE, grace)
         IN  Told(u, More(n, b)) /\ Beneath(dev, u)
  BY PressTold, ScrollPressTold DEF NotifyButton, PostButton, Scrolls

LEMMA NotifyReleaseTold ==
  ASSUME NEW dev, NEW n, Told(dev, n), NEW b \in Codes, NEW grace, n[b] >= 1,
         dev.hw = {} => Less(n, b) = None
  PROVE  LET u == NotifyButton(dev, b, FALSE, grace)
         IN  Told(u, Less(n, b)) /\ Beneath(dev, u)
<1>1. Scrolls(dev, b) => n[b] = 1
  BY DEF Told, Scrolls
<1> QED BY <1>1, ReleaseTold, ScrollReleaseTold DEF NotifyButton, PostButton, Scrolls

-----------------------------------------------------------------------------
(* The emulation.                                                          *)

\* The device once its state is the reaction's and its error is noted.
Moved(v, r) ==
  [IF r.to = "same" THEN v ELSE [v EXCEPT !.mid = r.to, !.midTimer = r.to \in TimedStates]
     EXCEPT !.bug = @ \/ r.error]

Posted(dev, event, grace) == NotifyButton(dev, event.button, event.press, grace)

LEMMA EventPosts ==
  ASSUME NEW dev, NEW e, NEW grace
  PROVE  LET r == MiddleReaction(dev.mid, e)
         IN  /\ Len(r.post) = 0 => MiddleEvent(dev, e, grace) = Moved(dev, r)
             /\ Len(r.post) = 1 => MiddleEvent(dev, e, grace) = Moved(Posted(dev, r.post[1], grace), r)
             /\ Len(r.post) = 2 =>
                  MiddleEvent(dev, e, grace) =
                    Moved(Posted(Posted(dev, r.post[1], grace), r.post[2], grace), r)
<1> DEFINE r == MiddleReaction(dev.mid, e)
           posted[i \in 0..Len(r.post)] == IF i = 0 THEN dev ELSE Posted(posted[i - 1], r.post[i], grace)
           Is(f) == f = [i \in 0..Len(r.post) |-> IF i = 0 THEN dev ELSE Posted(f[i - 1], r.post[i], grace)]
<1>1. MiddleEvent(dev, e, grace) = Moved(posted[Len(r.post)], r)
  BY DEF MiddleEvent, Moved, Posted
<1>2. posted = CHOOSE f : Is(f)
  OBVIOUS
<1>3. ASSUME NEW f, Is(f) PROVE Is(posted)
  <2> HIDE DEF Is, posted
  <2> QED BY <1>2, <1>3
<1> HIDE DEF posted, r
<1>4. CASE Len(r.post) = 0
  <2> DEFINE f == [i \in 0..0 |-> dev]
  <2>1. Is(f)
    BY <1>4
  <2>2. Is(posted)
    BY <1>3, <2>1
  <2>3. posted[0] = dev
    BY <1>4, <2>2
  <2> QED BY <1>1, <1>4, <2>3 DEF r
<1>5. CASE Len(r.post) = 1
  <2> DEFINE f == [i \in 0..1 |-> IF i = 0 THEN dev ELSE Posted(dev, r.post[1], grace)]
  <2>1. Is(f)
    BY <1>5
  <2>2. Is(posted)
    BY <1>3, <2>1
  <2>3. posted[0] = dev /\ posted[1] = Posted(posted[0], r.post[1], grace)
    BY <1>5, <2>2
  <2> QED BY <1>1, <1>5, <2>3 DEF r
<1>6. CASE Len(r.post) = 2
  <2> DEFINE f == [i \in 0..2 |-> IF i = 0 THEN dev ELSE
                     IF i = 1 THEN Posted(dev, r.post[1], grace) ELSE Posted(Posted(dev, r.post[1], grace), r.post[2], grace)]
  <2>1. Is(f)
    BY <1>6
  <2>2. Is(posted)
    BY <1>3, <2>1
  <2>3. posted[0] = dev /\ posted[1] = Posted(posted[0], r.post[1], grace) /\ posted[2] = Posted(posted[1], r.post[2], grace)
    BY <1>6, <2>2
  <2> QED BY <1>1, <1>6, <2>3 DEF r
<1> QED BY <1>4, <1>5, <1>6 DEF r

\* What an event of the emulation may change besides what Told is about.
LeadsTo(dev, u, s) ==
  /\ u.hw = dev.hw /\ u.last = dev.last /\ u.midOn = dev.midOn
  /\ u.midWant = dev.midWant /\ u.mask = dev.mask
  /\ u.want = dev.want /\ (u.set = dev.set \/ u.set = dev.want)
  /\ dev.hw # {} => u.left = dev.left /\ u.set = dev.set
  /\ u.mid = s /\ (u.midTimer => s \in TimedStates)

Target(dev, r) == IF r.to = "same" THEN dev.mid ELSE r.to

\* The reaction is one the device can take.
Sound(dev, r) ==
  /\ r.to \in MiddleStates \cup {"same"} /\ r.error = FALSE
  /\ dev.midTimer => dev.mid \in TimedStates

LEMMA MovedTold ==
  ASSUME NEW dev, NEW v, NEW n, NEW r, Told(v, n), Beneath(dev, v), Sound(dev, r)
  PROVE  Told(Moved(v, r), n) /\ LeadsTo(dev, Moved(v, r), Target(dev, r))
<1> DEFINE w == IF r.to = "same" THEN v ELSE [v EXCEPT !.mid = r.to, !.midTimer = r.to \in TimedStates]
           u == [w EXCEPT !.bug = @ \/ r.error]
<1>0. w \in Devices
  <2>1. CASE r.to = "same"
    BY <2>1 DEF Told
  <2>2. CASE r.to # "same"
    <3> DEFINE t == r.to \in TimedStates
    <3>1. t \in BOOLEAN /\ r.to \in MiddleStates /\ v \in Devices
      BY <2>2 DEF Sound, Told
    <3>2. w = [v EXCEPT !.mid = r.to, !.midTimer = t]
      BY <2>2
    <3> HIDE DEF w, t
    <3> QED BY <3>1, <3>2 DEF Devices
  <2> QED BY <2>1, <2>2
<1>1. /\ w.count = v.count /\ w.pressed = v.pressed /\ w.redundant = v.redundant /\ w.bug = v.bug
      /\ w.mid = Target(v, r)
      /\ w.midTimer = IF r.to = "same" THEN v.midTimer ELSE r.to \in TimedStates
  BY DEF Told, Devices, Fields, Sound, Target
<1>2. /\ w.hw = v.hw /\ w.last = v.last /\ w.left = v.left /\ w.midOn = v.midOn
      /\ w.midWant = v.midWant /\ w.mask = v.mask /\ w.set = v.set /\ w.want = v.want
      /\ w.lockState = v.lockState /\ w.scroll = v.scroll /\ w.aborted = v.aborted
  BY DEF Told, Devices
<1> HIDE DEF w
<1>3. u \in Devices /\ u.bug = w.bug
      /\ u.count = w.count /\ u.pressed = w.pressed /\ u.redundant = w.redundant
      /\ u.mid = w.mid /\ u.midTimer = w.midTimer
  BY <1>0 DEF Devices, Sound
<1>4. /\ u.hw = w.hw /\ u.last = w.last /\ u.left = w.left /\ u.midOn = w.midOn
      /\ u.midWant = w.midWant /\ u.mask = w.mask /\ u.set = w.set /\ u.want = w.want
      /\ u.lockState = w.lockState /\ u.scroll = w.scroll /\ u.aborted = w.aborted
  BY <1>0 DEF Devices
<1>5. Moved(v, r) = u
  BY DEF Moved, w
<1> HIDE DEF u
<1>6. Told(u, n)
  BY <1>1, <1>2, <1>3, <1>4 DEF Told
<1>7. LeadsTo(dev, u, Target(dev, r))
  BY <1>1, <1>2, <1>3, <1>4 DEF LeadsTo, Beneath, Target, Sound
<1> QED BY <1>5, <1>6, <1>7

LEMMA SilentStep ==
  ASSUME NEW dev, NEW n, NEW e, NEW grace, Told(dev, n),
         Sound(dev, MiddleReaction(dev.mid, e)), MiddleReaction(dev.mid, e).post = <<>>
  PROVE  LET u == MiddleEvent(dev, e, grace)
         IN  Told(u, n) /\ LeadsTo(dev, u, Target(dev, MiddleReaction(dev.mid, e)))
<1>1. MiddleEvent(dev, e, grace) = Moved(dev, MiddleReaction(dev.mid, e))
  BY EventPosts
<1>2. Beneath(dev, dev)
  BY DEF Beneath
<1> QED BY <1>1, <1>2, MovedTold

LEMMA PressStep ==
  ASSUME NEW dev, NEW n, NEW e, NEW grace, NEW b \in Codes, Told(dev, n),
         Sound(dev, MiddleReaction(dev.mid, e)),
         MiddleReaction(dev.mid, e).post = <<Press(b)>>, n[b] = 0
  PROVE  LET u == MiddleEvent(dev, e, grace)
         IN  Told(u, More(n, b)) /\ LeadsTo(dev, u, Target(dev, MiddleReaction(dev.mid, e)))
<1> DEFINE r == MiddleReaction(dev.mid, e)
           v == NotifyButton(dev, b, TRUE, grace)
<1>1. MiddleEvent(dev, e, grace) = Moved(v, r)
  <2>1. Len(r.post) = 1 /\ r.post[1].button = b /\ r.post[1].press = TRUE
    BY DEF Press
  <2>2. MiddleEvent(dev, e, grace) = Moved(Posted(dev, r.post[1], grace), r)
    BY <2>1, EventPosts
  <2> QED BY <2>1, <2>2 DEF Posted
<1>2. Told(v, More(n, b)) /\ Beneath(dev, v)
  <2>1. n[b] <= 1
    OBVIOUS
  <2> QED BY <2>1, NotifyPressTold
<1> QED BY <1>1, <1>2, MovedTold

LEMMA PressAgainStep ==
  ASSUME NEW dev, NEW n, NEW e, NEW grace, NEW b \in Codes, Told(dev, n), ~Scrolls(dev, b),
         Sound(dev, MiddleReaction(dev.mid, e)),
         MiddleReaction(dev.mid, e).post = <<Press(b)>>, n[b] <= 1
  PROVE  LET u == MiddleEvent(dev, e, grace)
         IN  Told(u, More(n, b)) /\ LeadsTo(dev, u, Target(dev, MiddleReaction(dev.mid, e)))
<1> DEFINE r == MiddleReaction(dev.mid, e)
           v == NotifyButton(dev, b, TRUE, grace)
<1>1. MiddleEvent(dev, e, grace) = Moved(v, r)
  <2>1. Len(r.post) = 1 /\ r.post[1].button = b /\ r.post[1].press = TRUE
    BY DEF Press
  <2>2. MiddleEvent(dev, e, grace) = Moved(Posted(dev, r.post[1], grace), r)
    BY <2>1, EventPosts
  <2> QED BY <2>1, <2>2 DEF Posted
<1>2. Told(v, More(n, b)) /\ Beneath(dev, v)
  <2>1. n[b] <= 1
    OBVIOUS
  <2> QED BY <2>1, NotifyPressTold
<1> QED BY <1>1, <1>2, MovedTold

LEMMA ReleaseStep ==
  ASSUME NEW dev, NEW n, NEW e, NEW grace, NEW b \in Codes, Told(dev, n),
         Sound(dev, MiddleReaction(dev.mid, e)),
         MiddleReaction(dev.mid, e).post = <<Release(b)>>, n[b] >= 1,
         dev.hw # {}
  PROVE  LET u == MiddleEvent(dev, e, grace)
         IN  Told(u, Less(n, b)) /\ LeadsTo(dev, u, Target(dev, MiddleReaction(dev.mid, e)))
<1> DEFINE r == MiddleReaction(dev.mid, e)
           v == NotifyButton(dev, b, FALSE, grace)
<1>1. MiddleEvent(dev, e, grace) = Moved(v, r)
  <2>1. Len(r.post) = 1 /\ r.post[1].button = b /\ r.post[1].press = FALSE
    BY DEF Release
  <2> QED BY <2>1, EventPosts DEF Posted
<1>2. Told(v, Less(n, b)) /\ Beneath(dev, v)
  BY NotifyReleaseTold
<1> QED BY <1>1, <1>2, MovedTold

LEMMA ClickStep ==
  ASSUME NEW dev, NEW n, NEW e, NEW grace, NEW b \in Codes, Told(dev, n),
         Sound(dev, MiddleReaction(dev.mid, e)),
         MiddleReaction(dev.mid, e).post = <<Press(b), Release(b)>>, n[b] = 0,
         dev.hw = {} => n = None
  PROVE  LET u == MiddleEvent(dev, e, grace)
         IN  Told(u, n) /\ LeadsTo(dev, u, Target(dev, MiddleReaction(dev.mid, e)))
<1> DEFINE r == MiddleReaction(dev.mid, e)
           v == NotifyButton(dev, b, TRUE, grace)
           w == NotifyButton(v, b, FALSE, grace)
<1>1. MiddleEvent(dev, e, grace) = Moved(w, r)
  <2>1. /\ Len(r.post) = 2 /\ r.post[1].button = b /\ r.post[1].press = TRUE
        /\ r.post[2].button = b /\ r.post[2].press = FALSE
    BY DEF Press, Release
  <2>2. MiddleEvent(dev, e, grace) =
          Moved(Posted(Posted(dev, r.post[1], grace), r.post[2], grace), r)
    <3>1. Len(r.post) = 2
      BY <2>1
    <3> QED BY <3>1, EventPosts
  <2> QED BY <2>1, <2>2 DEF Posted
<1>2. Told(v, More(n, b)) /\ Beneath(dev, v)
  <2>1. n[b] <= 1
    OBVIOUS
  <2> QED BY <2>1, NotifyPressTold
<1>3. More(n, b)[b] = 1 /\ Less(More(n, b), b) = n
  <2>1. n \in [Codes -> 0..2]
    BY DEF Told
  <2>2. More(n, b) = [n EXCEPT ![b] = 1]
    BY <2>1 DEF More
  <2>3. Less(More(n, b), b) = [n EXCEPT ![b] = 0]
    BY <2>1, <2>2 DEF Less
  <2> QED BY <2>1, <2>2, <2>3
<1> HIDE DEF v
<1>4. v.hw = {} => Less(More(n, b), b) = None
  BY <1>2, <1>3 DEF Beneath
<1>5. Told(w, n) /\ Beneath(v, w)
  <2> DEFINE m == More(n, b)
  <2>1. Told(v, m) /\ m[b] >= 1 /\ (v.hw = {} => Less(m, b) = None)
    BY <1>2, <1>3, <1>4
  <2> HIDE DEF m
  <2>2. Told(w, Less(m, b)) /\ Beneath(v, w)
    BY <2>1, NotifyReleaseTold
  <2> QED BY <1>3, <2>2 DEF m
<1> HIDE DEF w
<1>6. Beneath(dev, w)
  BY <1>2, <1>5 DEF Beneath
<1> QED BY <1>1, <1>5, <1>6, MovedTold

LEMMA StateNames ==
  /\ Sides = {LEFT, RIGHT} /\ LEFT # RIGHT /\ MIDDLE \notin Sides
  /\ Sides \subseteq Codes /\ MIDDLE \in Codes
  /\ Withheld("IDLE") = {} /\ Withheld("PASSTHROUGH") = {}
  /\ Withheld("MIDDLE") = Sides /\ Withheld("IGNORE_LR") = Sides
  /\ \A own \in Sides :
       /\ Other(own) \in Sides \ {own} /\ Other(Other(own)) = own
       /\ Sides = {own, Other(own)}
       /\ Withheld(DownState(own)) = {own} /\ DownState(own) # "MIDDLE"
       /\ DownState(own) # "same"
       /\ DownState(own) \in MiddleStates \ {"PASSTHROUGH", "IDLE", "IGNORE_LR"}
       /\ Withheld(UpPending(own)) = {own} /\ UpPending(own) # "MIDDLE"
       /\ UpPending(own) \in MiddleStates \ {"PASSTHROUGH", "IDLE", "IGNORE_LR"}
       /\ UpPending(own) # "same"
       /\ Withheld(Ignore(own)) = {own} /\ Ignore(own) # "MIDDLE"
       /\ Ignore(own) \in MiddleStates \ {"PASSTHROUGH", "IDLE", "IGNORE_LR"}
       /\ Ignore(own) # "same"
  BY PointerAssumption
  DEF Sides, LEFT, RIGHT, MIDDLE, Withheld, DownState, UpPending, Ignore, Other, MiddleStates

LEMMA StateCases ==
  ASSUME NEW s \in MiddleStates
  PROVE  \/ s \in {"IDLE", "MIDDLE", "PASSTHROUGH", "IGNORE_LR"}
         \/ \E own \in Sides : s \in {DownState(own), UpPending(own), Ignore(own)}
  BY DEF MiddleStates, Sides, LEFT, RIGHT, DownState, UpPending, Ignore

LEMMA EmulatingNames ==
  ASSUME NEW mask
  PROVE  /\ Emulating("IDLE", mask) <=> mask \cap Sides = {}
         /\ Emulating("PASSTHROUGH", mask) <=> mask # {}
         /\ Emulating("MIDDLE", mask) <=> Sides \subseteq mask
         /\ Emulating("IGNORE_LR", mask) <=> Sides \subseteq mask
         /\ \A own \in Sides :
              /\ Emulating(DownState(own), mask) <=> mask \cap Sides = {own}
              /\ Emulating(UpPending(own), mask) <=> mask \cap Sides = {own}
              /\ Emulating(Ignore(own), mask) <=> own \in mask
  BY DEF Emulating, Sides, LEFT, RIGHT, MIDDLE, Withheld, DownState, UpPending, Ignore

LEMMA ReactionNames ==
  ASSUME NEW e
  PROVE  /\ MiddleReaction("IDLE", e) = Idle(e)
         /\ MiddleReaction("MIDDLE", e) = BothDown(e)
         /\ MiddleReaction("PASSTHROUGH", e) = Passthrough(e)
         /\ MiddleReaction("IGNORE_LR", e) = IgnoreBoth(e)
         /\ \A own \in Sides :
              /\ MiddleReaction(DownState(own), e) = OneDown(own, e)
              /\ MiddleReaction(UpPending(own), e) = OneUpPending(own, e)
              /\ MiddleReaction(Ignore(own), e) = IgnoreOne(own, e)
  BY DEF MiddleReaction, Sides, LEFT, RIGHT, DownState, UpPending, Ignore

Reacts(r, to, post, pass) == r.to = to /\ r.post = post /\ r.pass = pass /\ r.error = FALSE

\* What a reaction is, for the button changes that can come in the state.
LEMMA ButtonEvents ==
  ASSUME NEW b, NEW press
  PROVE  LET e == ButtonEvent(b, press)
         IN  /\ e.side = b
             /\ b \notin Sides => e.kind = "other"
             /\ b \in Sides /\ press => e.kind = "down"
             /\ b \in Sides /\ ~press => e.kind = "up"
  BY DEF ButtonEvent

LEMMA IdleReacts ==
  ASSUME NEW b, NEW press
  PROVE  LET R(state) == MiddleReaction(state, ButtonEvent(b, press))
         IN  /\ b \in Sides /\ press => Reacts(R("IDLE"), DownState(b), <<>>, FALSE)
             /\ b \notin Sides => Reacts(R("IDLE"), "same", <<>>, TRUE)
             /\ Reacts(R("PASSTHROUGH"), "same", <<>>, TRUE)
<1> DEFINE e == ButtonEvent(b, press)
<1>1. /\ e.side = b
      /\ b \notin Sides => e.kind = "other"
      /\ b \in Sides /\ press => e.kind = "down"
      /\ b \in Sides /\ ~press => e.kind = "up"
  BY ButtonEvents
<1> HIDE DEF e
<1>2. b \in Sides /\ press => Reacts(Idle(e), DownState(b), <<>>, FALSE)
  BY <1>1 DEF Reacts, Idle, To, Keep
<1>3. b \notin Sides => Reacts(Idle(e), "same", <<>>, TRUE)
  BY <1>1 DEF Reacts, Idle, PassOn, Keep
<1>4. Reacts(Passthrough(e), "same", <<>>, TRUE)
  BY <1>1 DEF Reacts, Passthrough, Keep, PassOn
<1> QED BY <1>2, <1>3, <1>4, ReactionNames DEF e

LEMMA OneReacts ==
  ASSUME NEW own \in Sides, NEW b, NEW press
  PROVE  LET R(state) == MiddleReaction(state, ButtonEvent(b, press))
         IN  /\ b \in Sides /\ b # own /\ press =>
                  /\ Reacts(R(DownState(own)), "MIDDLE", <<Press(MIDDLE)>>, FALSE)
                  /\ Reacts(R(UpPending(own)), "MIDDLE", <<Press(MIDDLE)>>, FALSE)
             /\ b = own /\ ~press =>
                  /\ Reacts(R(DownState(own)), "IDLE", <<Press(own), Release(own)>>, FALSE)
                  /\ Reacts(R(UpPending(own)), "IDLE", <<>>, FALSE)
                  /\ Reacts(R(Ignore(own)), "PASSTHROUGH", <<>>, FALSE)
             /\ b \notin Sides =>
                  /\ Reacts(R(DownState(own)), "PASSTHROUGH", <<Press(own)>>, TRUE)
                  /\ Reacts(R(UpPending(own)), Ignore(own), <<>>, TRUE)
             /\ b # own => Reacts(R(Ignore(own)), "same", <<>>, TRUE)
<1> DEFINE e == ButtonEvent(b, press)
<1>1. /\ e.side = b
      /\ b \notin Sides => e.kind = "other"
      /\ b \in Sides /\ press => e.kind = "down"
      /\ b \in Sides /\ ~press => e.kind = "up"
  BY ButtonEvents
<1> HIDE DEF e
<1>2. CASE b = own /\ ~press
  <2>1. e.kind = "up" /\ e.side = own
    BY <1>1, <1>2
  <2>2. Reacts(OneDown(own, e), "IDLE", <<Press(own), Release(own)>>, FALSE)
    BY <2>1 DEF Reacts, OneDown, Posting, Keep
  <2>3. Reacts(OneUpPending(own, e), "IDLE", <<>>, FALSE)
    BY <2>1 DEF Reacts, OneUpPending, To, Keep
  <2>4. Reacts(IgnoreOne(own, e), "PASSTHROUGH", <<>>, FALSE)
    BY <2>1 DEF Reacts, IgnoreOne, To, Keep
  <2> QED BY <1>2, <2>2, <2>3, <2>4, ReactionNames DEF e
<1>3. CASE b # own
  <2>1. Reacts(IgnoreOne(own, e), "same", <<>>, TRUE)
    <3>1. e.kind \in {"up", "down", "other"} /\ e.side # own
      BY <1>1, <1>3
    <3> QED BY <3>1 DEF Reacts, IgnoreOne, PassOn, Keep
  <2>2. CASE b \in Sides /\ press
    <3>1. e.kind = "down" /\ e.side # own
      BY <1>1, <1>3, <2>2
    <3>2. Reacts(OneDown(own, e), "MIDDLE", <<Press(MIDDLE)>>, FALSE)
      BY <3>1 DEF Reacts, OneDown, Posting, Keep
    <3>3. Reacts(OneUpPending(own, e), "MIDDLE", <<Press(MIDDLE)>>, FALSE)
      BY <3>1 DEF Reacts, OneUpPending, Posting, Keep
    <3> QED BY <1>3, <2>1, <2>2, <3>2, <3>3, ReactionNames DEF e
  <2>3. CASE b \notin Sides
    <3>1. e.kind = "other"
      BY <1>1, <2>3
    <3>2. Reacts(OneDown(own, e), "PASSTHROUGH", <<Press(own)>>, TRUE)
      BY <3>1 DEF Reacts, OneDown, Posting, Keep
    <3>3. Reacts(OneUpPending(own, e), Ignore(own), <<>>, TRUE)
      BY <3>1 DEF Reacts, OneUpPending, To, Keep
    <3> QED BY <1>3, <2>1, <2>3, <3>2, <3>3, ReactionNames DEF e
  <2> QED BY <1>3, <2>1, <2>2, <2>3, ReactionNames DEF e
<1>4. CASE b = own /\ press
  BY <1>4
<1> QED BY <1>2, <1>3, <1>4

LEMMA BothReact ==
  ASSUME NEW b, NEW press
  PROVE  LET R(state) == MiddleReaction(state, ButtonEvent(b, press))
         IN  /\ b \in Sides /\ ~press =>
                  /\ Reacts(R("MIDDLE"), UpPending(Other(b)), <<Release(MIDDLE)>>, FALSE)
                  /\ Reacts(R("IGNORE_LR"), Ignore(Other(b)), <<>>, FALSE)
             /\ b \notin Sides =>
                  /\ Reacts(R("MIDDLE"), "IGNORE_LR", <<Release(MIDDLE)>>, TRUE)
                  /\ Reacts(R("IGNORE_LR"), "same", <<>>, TRUE)
<1> DEFINE e == ButtonEvent(b, press)
<1>1. /\ e.side = b
      /\ b \notin Sides => e.kind = "other"
      /\ b \in Sides /\ press => e.kind = "down"
      /\ b \in Sides /\ ~press => e.kind = "up"
  BY ButtonEvents
<1> HIDE DEF e
<1>2. b \in Sides /\ ~press =>
        /\ Reacts(BothDown(e), UpPending(Other(b)), <<Release(MIDDLE)>>, FALSE)
        /\ Reacts(IgnoreBoth(e), Ignore(Other(b)), <<>>, FALSE)
  BY <1>1 DEF Reacts, BothDown, IgnoreBoth, Posting, To, Keep
<1>3. b \notin Sides =>
        /\ Reacts(BothDown(e), "IGNORE_LR", <<Release(MIDDLE)>>, TRUE)
        /\ Reacts(IgnoreBoth(e), "same", <<>>, TRUE)
  BY <1>1 DEF Reacts, BothDown, IgnoreBoth, Posting, To, PassOn, Keep
<1> QED BY <1>2, <1>3, ReactionNames DEF e

LEMMA TimesTypes ==
  ASSUME NEW mid, NEW mask PROVE Times(mid, mask) \in [Codes -> 0..2]
  BY DEF Times

LEMMA TimesAt ==
  ASSUME NEW mid, NEW mask, NEW c \in Codes
  PROVE  Times(mid, mask)[c] =
           IF mid = "MIDDLE" /\ c = MIDDLE THEN IF c \in mask THEN 2 ELSE 1
           ELSE IF c \in mask \ Withheld(mid) THEN 1 ELSE 0
  BY DEF Times

LEMMA MoreLess ==
  ASSUME NEW n \in [Codes -> 0..2], NEW m \in [Codes -> 0..2], NEW b \in Codes
  PROVE  /\ m[b] = n[b] + 1 /\ (\A c \in Codes \ {b} : m[c] = n[c]) => m = More(n, b)
         /\ m[b] = n[b] - 1 /\ (\A c \in Codes \ {b} : m[c] = n[c]) => m = Less(n, b)
         /\ (\A c \in Codes : m[c] = n[c]) => m = n
  BY DEF More, Less

\* How the buttons notified change with the state and the mask.
LEMMA TimesPass ==
  ASSUME NEW mask \in SUBSET Codes, NEW b \in Codes,
         NEW s \in MiddleStates \ {"MIDDLE"}, NEW t \in MiddleStates \ {"MIDDLE"},
         Withheld(s) = Withheld(t), b \notin Withheld(s)
  PROVE  /\ b \notin mask => /\ Times(t, mask \cup {b}) = More(Times(s, mask), b)
                             /\ Times(s, mask)[b] = 0
         /\ b \in mask => /\ Times(t, mask \ {b}) = Less(Times(s, mask), b)
                          /\ Times(s, mask)[b] = 1
<1>1. /\ Times(s, mask) \in [Codes -> 0..2] /\ Times(t, mask \cup {b}) \in [Codes -> 0..2]
      /\ Times(t, mask \ {b}) \in [Codes -> 0..2]
  BY TimesTypes
<1>2. \A c \in Codes : /\ Times(s, mask)[c] = IF c \in mask \ Withheld(s) THEN 1 ELSE 0
                       /\ Times(t, mask \cup {b})[c] = IF c \in (mask \cup {b}) \ Withheld(s) THEN 1 ELSE 0
                       /\ Times(t, mask \ {b})[c] = IF c \in (mask \ {b}) \ Withheld(s) THEN 1 ELSE 0
  BY TimesAt
<1>3. b \notin mask => Times(t, mask \cup {b}) = More(Times(s, mask), b) /\ Times(s, mask)[b] = 0
  BY <1>1, <1>2, MoreLess, SMTT(60)
<1>4. b \in mask => Times(t, mask \ {b}) = Less(Times(s, mask), b) /\ Times(s, mask)[b] = 1
  BY <1>1, <1>2, MoreLess
<1> QED BY <1>3, <1>4

LEMMA TimesDown ==
  ASSUME NEW mask \in SUBSET Codes, NEW b \in Codes,
         NEW s \in MiddleStates \ {"MIDDLE"}, NEW t \in MiddleStates \ {"MIDDLE"},
         b \notin mask, Withheld(t) = Withheld(s) \cup {b}
  PROVE  Times(t, mask \cup {b}) = Times(s, mask)
<1>1. \A S : Times(s, S) \in [Codes -> 0..2] /\ Times(t, S) \in [Codes -> 0..2]
  BY TimesTypes
<1>2. \A S : \A c \in Codes : /\ Times(s, S)[c] = IF c \in S \ Withheld(s) THEN 1 ELSE 0
                          /\ Times(t, S)[c] = IF c \in S \ Withheld(t) THEN 1 ELSE 0
  BY TimesAt
<1>3. \A c \in Codes : Times(t, mask \cup {b})[c] = Times(s, mask)[c]
  BY <1>2
<1> QED BY <1>1, <1>3, MoreLess

LEMMA TimesUp ==
  ASSUME NEW mask \in SUBSET Codes, NEW b \in Codes,
         NEW s \in MiddleStates \ {"MIDDLE"}, NEW t \in MiddleStates \ {"MIDDLE"},
         b \in Withheld(s), Withheld(t) = Withheld(s) \ {b}
  PROVE  Times(t, mask \ {b}) = Times(s, mask)
<1>1. \A S : Times(s, S) \in [Codes -> 0..2] /\ Times(t, S) \in [Codes -> 0..2]
  BY TimesTypes
<1>2. \A S : \A c \in Codes : /\ Times(s, S)[c] = IF c \in S \ Withheld(s) THEN 1 ELSE 0
                          /\ Times(t, S)[c] = IF c \in S \ Withheld(t) THEN 1 ELSE 0
  BY TimesAt
<1>3. \A c \in Codes : Times(t, mask \ {b})[c] = Times(s, mask)[c]
  BY <1>2
<1> QED BY <1>1, <1>3, MoreLess

LEMMA TimesGiven ==
  ASSUME NEW mask \in SUBSET Codes, NEW b \in Codes,
         NEW s \in MiddleStates \ {"MIDDLE"}, NEW t \in MiddleStates \ {"MIDDLE"},
         b \in mask, Withheld(s) = {b}, Withheld(t) = {}
  PROVE  Times(t, mask) = More(Times(s, mask), b) /\ Times(s, mask)[b] = 0
<1>1. \A S : Times(s, S) \in [Codes -> 0..2] /\ Times(t, S) \in [Codes -> 0..2]
  BY TimesTypes
<1>2. \A S : \A c \in Codes : /\ Times(s, S)[c] = IF c \in S \ Withheld(s) THEN 1 ELSE 0
                          /\ Times(t, S)[c] = IF c \in S \ Withheld(t) THEN 1 ELSE 0
  BY TimesAt
<1>3. /\ \A c \in Codes \ {b} : Times(t, mask)[c] = Times(s, mask)[c]
      /\ Times(t, mask)[b] = 1 /\ Times(s, mask)[b] = 0
  BY <1>2
<1> QED BY <1>1, <1>3, MoreLess

LEMMA TimesMiddle ==
  ASSUME NEW mask \in SUBSET Codes, NEW s \in MiddleStates \ {"MIDDLE"}, NEW b \in Sides
  PROVE  /\ b \notin mask /\ Withheld(s) = Sides \ {b} =>
              /\ Times("MIDDLE", mask \cup {b}) = More(Times(s, mask), MIDDLE)
              /\ Times(s, mask)[MIDDLE] \in {0, 1}
         /\ Sides \subseteq mask /\ Withheld(s) = Sides \ {b} =>
              Times(s, mask \ {b}) = Less(Times("MIDDLE", mask), MIDDLE)
         /\ Withheld(s) = Sides => Times(s, mask) = Less(Times("MIDDLE", mask), MIDDLE)
         /\ Times("MIDDLE", mask)[MIDDLE] \in {1, 2}
<1>1. \A S, m : Times(m, S) \in [Codes -> 0..2]
  BY TimesTypes
<1>2. /\ \A c \in Codes : \A S : Times(s, S)[c] = IF c \in S \ Withheld(s) THEN 1 ELSE 0
      /\ \A c \in Codes \ {MIDDLE} : \A S :
           Times("MIDDLE", S)[c] = IF c \in S \ Sides THEN 1 ELSE 0
      /\ \A S : Times("MIDDLE", S)[MIDDLE] = IF MIDDLE \in S THEN 2 ELSE 1
  BY TimesAt, StateNames
<1>3. MIDDLE \in Codes /\ MIDDLE \notin Sides
  BY StateNames
<1>4. ASSUME b \notin mask, Withheld(s) = Sides \ {b}
      PROVE  /\ Times("MIDDLE", mask \cup {b}) = More(Times(s, mask), MIDDLE)
             /\ Times(s, mask)[MIDDLE] \in {0, 1}
  <2>1. \A c \in Codes \ {MIDDLE} : Times("MIDDLE", mask \cup {b})[c] = Times(s, mask)[c]
    <3> TAKE c \in Codes \ {MIDDLE}
    <3>1. /\ Times("MIDDLE", mask \cup {b})[c] = IF c \in (mask \cup {b}) \ Sides THEN 1 ELSE 0
          /\ Times(s, mask)[c] = IF c \in mask \ Withheld(s) THEN 1 ELSE 0
      BY <1>2
    <3>2. c \in (mask \cup {b}) \ Sides <=> c \in mask \ Withheld(s)
      <4>1. c \in Sides /\ c \in mask => c \in Withheld(s)
        BY <1>4
      <4>2. c \notin Sides => c \notin Withheld(s) /\ c # b
        BY <1>4
      <4> QED BY <4>1, <4>2
    <3> QED BY <3>1, <3>2
  <2>2. /\ Times("MIDDLE", mask \cup {b})[MIDDLE] = Times(s, mask)[MIDDLE] + 1
        /\ Times(s, mask)[MIDDLE] \in {0, 1}
    BY <1>2, <1>3, <1>4
  <2>3. Times("MIDDLE", mask \cup {b}) = More(Times(s, mask), MIDDLE)
    <3> DEFINE m == Times("MIDDLE", mask \cup {b})
               n == Times(s, mask)
    <3>1. /\ n \in [Codes -> 0..2] /\ m \in [Codes -> 0..2] /\ m[MIDDLE] = n[MIDDLE] + 1
          /\ \A c \in Codes \ {MIDDLE} : m[c] = n[c]
      BY <1>1, <2>1, <2>2
    <3> HIDE DEF m, n
    <3>2. m = More(n, MIDDLE)
      BY <1>3, <3>1, MoreLess
    <3> QED BY <3>2 DEF m, n
  <2> QED BY <2>2, <2>3
<1>5. ASSUME Sides \subseteq mask, Withheld(s) = Sides \ {b}
      PROVE  Times(s, mask \ {b}) = Less(Times("MIDDLE", mask), MIDDLE)
  <2>1. \A c \in Codes \ {MIDDLE} : Times(s, mask \ {b})[c] = Times("MIDDLE", mask)[c]
    BY <1>2, <1>5
  <2>2. Times(s, mask \ {b})[MIDDLE] = Times("MIDDLE", mask)[MIDDLE] - 1
    BY <1>2, <1>3, <1>5
  <2> QED BY <1>1, <1>3, <2>1, <2>2, MoreLess
<1>6. ASSUME Withheld(s) = Sides
      PROVE  Times(s, mask) = Less(Times("MIDDLE", mask), MIDDLE)
  <2>1. \A c \in Codes \ {MIDDLE} : Times(s, mask)[c] = Times("MIDDLE", mask)[c]
    BY <1>2, <1>6
  <2>2. Times(s, mask)[MIDDLE] = Times("MIDDLE", mask)[MIDDLE] - 1
    BY <1>2, <1>3, <1>6
  <2> QED BY <1>1, <1>3, <2>1, <2>2, MoreLess
<1> QED BY <1>2, <1>4, <1>5, <1>6

\* A button change that can come to the emulation.
Coming(dev, b, press) ==
  /\ ~Scrolls(dev, MIDDLE)
  /\ Told(dev, Times(dev.mid, dev.mask)) /\ Emulating(dev.mid, dev.mask)
  /\ b \in Codes /\ press \in BOOLEAN /\ press = (b \notin dev.mask)
  /\ dev.midTimer => dev.mid \in TimedStates
  /\ dev.hw = {} => ~press /\ dev.mask = {b}

Changed(mask, b, press) == IF press THEN mask \cup {b} ELSE mask \ {b}

\* What it leaves: the change passes on or not.
Leaves(dev, u, b, press, s, n, pass) ==
  /\ Told(u, n) /\ LeadsTo(dev, u, s) /\ s \in MiddleStates
  /\ LET mask == Changed(dev.mask, b, press)
     IN  /\ Emulating(s, mask) \/ (s = "PASSTHROUGH" /\ mask = {})
         /\ ~pass => n = Times(s, mask)
         /\ pass /\ press => /\ n[b] \in {0, 1} /\ (b # MIDDLE => n[b] = 0)
                             /\ Times(s, mask) = More(n, b)
         /\ pass /\ ~press => n[b] \in {1, 2} /\ Times(s, mask) = Less(n, b)

LEMMA IdleLeaves ==
  ASSUME NEW dev, NEW b, NEW press, NEW grace, Coming(dev, b, press),
         dev.mid \in {"IDLE", "PASSTHROUGH"}
  PROVE  \E s, n : Leaves(dev, MiddleEvent(dev, ButtonEvent(b, press), grace), b, press, s, n,
                          MiddleReaction(dev.mid, ButtonEvent(b, press)).pass)
<1> DEFINE e == ButtonEvent(b, press)
           r == MiddleReaction(dev.mid, e)
           u == MiddleEvent(dev, e, grace)
           n == Times(dev.mid, dev.mask)
<1>1. /\ b \in Codes /\ press \in BOOLEAN /\ press = (b \notin dev.mask) /\ dev.mask \in SUBSET Codes
      /\ Told(dev, n) /\ (dev.midTimer => dev.mid \in TimedStates)
  BY DEF Coming, Told, Devices
<1> HIDE DEF r, u, e
<1>2. ASSUME r.post = <<>>, r.error = FALSE, r.to \in MiddleStates \cup {"same"}
      PROVE  Told(u, n) /\ LeadsTo(dev, u, Target(dev, r))
  BY <1>1, <1>2, SilentStep DEF r, u, Sound
<1>3. CASE dev.mid = "IDLE" /\ b \in Sides
  <2>1. dev.mask \cap Sides = {} /\ press
    <3>1. Emulating("IDLE", dev.mask)
      BY <1>3 DEF Coming
    <3>2. dev.mask \cap Sides = {}
      BY <3>1, EmulatingNames
    <3> QED BY <1>1, <1>3, <3>2
  <2>2. Reacts(r, DownState(b), <<>>, FALSE)
    BY <1>3, <2>1, IdleReacts DEF r, e
  <2>3. Told(u, n) /\ LeadsTo(dev, u, DownState(b)) /\ DownState(b) \in MiddleStates
    <3>1. DownState(b) \in MiddleStates /\ DownState(b) # "same"
      BY <1>3, StateNames
    <3> QED BY <1>2, <2>2, <3>1 DEF Reacts, Target
  <2>4. Emulating(DownState(b), dev.mask \cup {b})
    BY <2>1, <1>3, EmulatingNames
  <2>5. Times(DownState(b), dev.mask \cup {b}) = n
    <3>1. /\ DownState(b) \in MiddleStates \ {"MIDDLE"}
          /\ Withheld(DownState(b)) = Withheld(dev.mid) \cup {b}
      BY <1>3, StateNames
    <3>2. dev.mid \in MiddleStates \ {"MIDDLE"} /\ b \notin dev.mask
      BY <1>1, <1>3, <2>1 DEF MiddleStates
    <3> QED BY <1>1, <3>1, <3>2, TimesDown
  <2> QED BY <2>1, <2>2, <2>3, <2>4, <2>5 DEF Leaves, Changed, Reacts, r, u, e
<1>4. CASE dev.mid = "PASSTHROUGH" \/ b \notin Sides
  <2>1. Reacts(r, "same", <<>>, TRUE)
    BY <1>4, IdleReacts DEF r, e
  <2>2. Told(u, n) /\ LeadsTo(dev, u, dev.mid)
    BY <1>2, <2>1 DEF Reacts, Target
  <2>5. dev.mid \in MiddleStates \ {"MIDDLE"} /\ b \notin Withheld(dev.mid)
    BY StateNames DEF MiddleStates
  <2>3. CASE press
    <3>1. Emulating(dev.mid, dev.mask \cup {b})
      BY <1>1, <1>4, EmulatingNames DEF Coming
    <3>2. Times(dev.mid, dev.mask \cup {b}) = More(n, b) /\ n[b] = 0
      BY <1>1, <2>3, <2>5, TimesPass
    <3> QED BY <2>1, <2>2, <2>3, <3>1, <3>2 DEF Leaves, Changed, Reacts, r, u, e, MiddleStates
  <2>4. CASE ~press
    <3>1. Emulating(dev.mid, dev.mask \ {b}) \/ (dev.mid = "PASSTHROUGH" /\ dev.mask \ {b} = {})
      BY <1>1, <1>4, EmulatingNames DEF Coming
    <3>2. Times(dev.mid, dev.mask \ {b}) = Less(n, b) /\ n[b] = 1
      BY <1>1, <2>4, <2>5, TimesPass
    <3> QED BY <2>1, <2>2, <2>4, <3>1, <3>2 DEF Leaves, Changed, Reacts, r, u, e, MiddleStates
  <2> QED BY <1>1, <2>3, <2>4
<1> QED BY <1>3, <1>4

\* The two states of a button that waits for its partner.
LEMMA OneLeaves ==
  ASSUME NEW dev, NEW b, NEW press, NEW grace, Coming(dev, b, press), NEW own \in Sides,
         dev.mid \in {DownState(own), UpPending(own)}
  PROVE  \E s, n : Leaves(dev, MiddleEvent(dev, ButtonEvent(b, press), grace), b, press, s, n,
                          MiddleReaction(dev.mid, ButtonEvent(b, press)).pass)
<1> DEFINE e == ButtonEvent(b, press)
           r == MiddleReaction(dev.mid, e)
           u == MiddleEvent(dev, e, grace)
           n == Times(dev.mid, dev.mask)
<1>1. /\ b \in Codes /\ press \in BOOLEAN /\ press = (b \notin dev.mask) /\ dev.mask \in SUBSET Codes
      /\ Told(dev, n) /\ (dev.midTimer => dev.mid \in TimedStates) /\ n \in [Codes -> 0..2]
      /\ dev.hw = {} => ~press /\ dev.mask = {b}
  BY TimesTypes DEF Coming, Told, Devices
<1>2. dev.mask \cap Sides = {own}
  <2>1. Emulating(DownState(own), dev.mask) \/ Emulating(UpPending(own), dev.mask)
    BY DEF Coming
  <2> QED BY <2>1, EmulatingNames
<1>3. /\ dev.mid \in MiddleStates \ {"MIDDLE"} /\ Withheld(dev.mid) = {own}
      /\ own \in Codes /\ MIDDLE \in Codes /\ MIDDLE \notin Sides /\ Sides = {own, Other(own)}
      /\ dev.mid = DownState(own) \/ dev.mid = UpPending(own)
  BY StateNames
<1> HIDE DEF r, u, e
<1>4. ASSUME r.post = <<>>, r.error = FALSE, r.to \in MiddleStates
      PROVE  Told(u, n) /\ LeadsTo(dev, u, r.to)
  <2>1. Target(dev, r) = r.to
    BY <1>4 DEF Target, MiddleStates
  <2>2. Sound(dev, r)
    BY <1>1, <1>4 DEF Sound
  <2>3. Told(u, n) /\ LeadsTo(dev, u, Target(dev, r))
    BY <1>1, <1>4, <2>2, SilentStep DEF r, u
  <2> QED BY <2>1, <2>3
<1>5. ASSUME NEW c \in Codes, r.post = <<Press(c)>>, n[c] \in {0, 1}, n[c] = 0 \/ c = MIDDLE,
             r.error = FALSE, r.to \in MiddleStates
      PROVE  Told(u, More(n, c)) /\ LeadsTo(dev, u, r.to)
  <2>1. Target(dev, r) = r.to
    BY <1>5 DEF Target, MiddleStates
  <2>2. n[c] = 0 \/ ~Scrolls(dev, c)
    BY <1>5 DEF Coming
  <2>3. n[c] <= 1
    BY <1>5
  <2>4. Sound(dev, r)
    BY <1>1, <1>5 DEF Sound
  <2> HIDE DEF n
  <2>5. Told(u, More(n, c)) /\ LeadsTo(dev, u, Target(dev, r))
    <3>1. CASE n[c] = 0
      BY <1>1, <1>5, <2>4, <3>1, PressStep DEF r, u
    <3>2. CASE ~Scrolls(dev, c)
      BY <1>1, <1>5, <2>3, <2>4, <3>2, PressAgainStep DEF r, u
    <3> QED BY <2>2, <3>1, <3>2
  <2> QED BY <2>1, <2>5
<1>6. CASE b = own
  <2>1. ~press
    BY <1>1, <1>2, <1>6
  <2>2. Emulating("IDLE", dev.mask \ {b})
    BY <1>2, <1>6, EmulatingNames
  <2>3. Times("IDLE", dev.mask \ {b}) = n
    <3> DEFINE i == "IDLE"
    <3>1. i \in MiddleStates \ {"MIDDLE"} /\ Withheld(i) = Withheld(dev.mid) \ {b} /\ b \in Withheld(dev.mid)
      BY <1>3, <1>6, StateNames DEF MiddleStates
    <3> HIDE DEF i
    <3>2. Times(i, dev.mask \ {b}) = n
      BY <1>1, <1>3, <3>1, TimesUp
    <3> QED BY <3>2 DEF i
  <2>4. CASE dev.mid = UpPending(own)
    <3>1. Reacts(r, "IDLE", <<>>, FALSE)
      BY <1>6, <2>1, <2>4, OneReacts DEF r, e
    <3>2. Told(u, n) /\ LeadsTo(dev, u, "IDLE")
      BY <1>4, <3>1 DEF Reacts, MiddleStates
    <3> QED BY <2>1, <2>2, <2>3, <3>1, <3>2 DEF Leaves, Changed, Reacts, r, u, e, MiddleStates
  <2>5. CASE dev.mid = DownState(own)
    <3>1. Reacts(r, "IDLE", <<Press(own), Release(own)>>, FALSE)
      BY <1>6, <2>1, <2>5, OneReacts DEF r, e
    <3>2. n[own] = 0
      BY <1>3, TimesAt
    <3>3. dev.hw = {} => n = None
      <4>1. ASSUME dev.mask = {own} PROVE n = None
        <5>1. \A c \in Codes : n[c] = None[c]
          BY <1>3, <4>1, TimesAt, NoneIsNone
        <5> QED BY <1>1, <5>1, MoreLess, NoneIsNone
      <4> QED BY <1>1, <1>6, <4>1
    <3>4. Sound(dev, r) /\ Target(dev, r) = "IDLE" /\ r.post = <<Press(own), Release(own)>>
      BY <1>1, <3>1 DEF Sound, Reacts, Target, MiddleStates
    <3>5. Told(u, n) /\ LeadsTo(dev, u, "IDLE")
      BY <1>1, <1>3, <3>2, <3>3, <3>4, ClickStep DEF r, u
    <3> QED BY <2>1, <2>2, <2>3, <3>1, <3>5 DEF Leaves, Changed, Reacts, r, u, e, MiddleStates
  <2> QED BY <1>3, <2>4, <2>5
<1>7. CASE b \in Sides /\ b # own
  <2>1. press /\ b \notin dev.mask /\ Withheld(dev.mid) = Sides \ {b}
    BY <1>1, <1>2, <1>3, <1>7
  <2>2. Reacts(r, "MIDDLE", <<Press(MIDDLE)>>, FALSE)
    BY <1>3, <1>7, <2>1, OneReacts DEF r, e
  <2>3. Times("MIDDLE", dev.mask \cup {b}) = More(n, MIDDLE) /\ n[MIDDLE] \in {0, 1}
    BY <1>1, <1>3, <1>7, <2>1, TimesMiddle
  <2>4. Told(u, More(n, MIDDLE)) /\ LeadsTo(dev, u, "MIDDLE")
    BY <1>3, <1>5, <2>2, <2>3 DEF Reacts, MiddleStates
  <2>5. Emulating("MIDDLE", dev.mask \cup {b})
    BY <1>2, <1>3, <1>7, EmulatingNames
  <2> QED BY <2>1, <2>2, <2>3, <2>4, <2>5 DEF Leaves, Changed, Reacts, r, u, e, MiddleStates
<1>8. CASE b \notin Sides
  <2> DEFINE t == IF dev.mid = DownState(own) THEN "PASSTHROUGH" ELSE Ignore(own)
             m == IF dev.mid = DownState(own) THEN More(n, own) ELSE n
  <2>1. /\ r.to = t /\ r.pass = TRUE /\ r.error = FALSE
        /\ r.post = IF dev.mid = DownState(own) THEN <<Press(own)>> ELSE <<>>
    <3>1. CASE dev.mid = DownState(own)
      <4>1. Reacts(r, "PASSTHROUGH", <<Press(own)>>, TRUE)
        BY <1>8, <3>1, OneReacts DEF r, e
      <4> QED BY <3>1, <4>1 DEF Reacts
    <3>2. CASE dev.mid # DownState(own)
      <4>1. Reacts(r, Ignore(own), <<>>, TRUE)
        BY <1>3, <1>8, <3>2, OneReacts DEF r, e
      <4> QED BY <3>2, <4>1 DEF Reacts
    <3> QED BY <3>1, <3>2
  <2>2. /\ t \in MiddleStates \ {"MIDDLE"} /\ b \notin Withheld(t) /\ own \in dev.mask
        /\ Withheld(t) = IF dev.mid = DownState(own) THEN {} ELSE {own}
    BY <1>2, <1>3, <1>8, StateNames DEF MiddleStates
  <2>3. Told(u, m) /\ LeadsTo(dev, u, t) /\ m = Times(t, dev.mask)
    <3>1. CASE dev.mid = DownState(own)
      <4>1. Times(t, dev.mask) = More(n, own) /\ n[own] = 0
        <5>1. Withheld(t) = {} /\ own \in dev.mask /\ t \in MiddleStates \ {"MIDDLE"}
          BY <2>2, <3>1
        <5> HIDE DEF t
        <5> QED BY <1>1, <1>3, <5>1, TimesGiven
      <4>2. Told(u, More(n, own)) /\ LeadsTo(dev, u, t)
        BY <1>3, <1>5, <2>1, <2>2, <3>1, <4>1
      <4> QED BY <3>1, <4>1, <4>2
    <3>2. CASE dev.mid # DownState(own)
      <4>1. Told(u, n) /\ LeadsTo(dev, u, t)
        BY <1>4, <2>1, <2>2, <3>2
      <4>2. \A c \in Codes : n[c] = Times(t, dev.mask)[c]
        BY <1>3, <2>2, <3>2, TimesAt
      <4>3. n = Times(t, dev.mask)
        BY <1>1, <4>2, MoreLess, TimesTypes
      <4> QED BY <3>2, <4>1, <4>3
    <3> QED BY <3>1, <3>2
  <2>4. Emulating(t, Changed(dev.mask, b, press))
    BY <1>2, <1>3, <1>8, EmulatingNames DEF Changed
  <2> HIDE DEF t, m
  <2>5. press => Times(t, dev.mask \cup {b}) = More(m, b) /\ m[b] = 0
    BY <1>1, <2>2, <2>3, TimesPass
  <2>6. ~press => Times(t, dev.mask \ {b}) = Less(m, b) /\ m[b] = 1
    BY <1>1, <2>2, <2>3, TimesPass, ZenonT(60)
  <2> QED BY <1>1, <2>1, <2>2, <2>3, <2>4, <2>5, <2>6 DEF Leaves, Changed, r, u, e
<1> QED BY <1>6, <1>7, <1>8

\* A button was ignored alone: its release ends the gesture, all else passes.
LEMMA IgnoreLeaves ==
  ASSUME NEW dev, NEW b, NEW press, NEW grace, Coming(dev, b, press), NEW own \in Sides,
         dev.mid = Ignore(own)
  PROVE  \E s, n : Leaves(dev, MiddleEvent(dev, ButtonEvent(b, press), grace), b, press, s, n,
                          MiddleReaction(dev.mid, ButtonEvent(b, press)).pass)
<1> DEFINE e == ButtonEvent(b, press)
           r == MiddleReaction(dev.mid, e)
           u == MiddleEvent(dev, e, grace)
           n == Times(dev.mid, dev.mask)
<1>1. /\ b \in Codes /\ press \in BOOLEAN /\ press = (b \notin dev.mask) /\ dev.mask \in SUBSET Codes
      /\ Told(dev, n) /\ (dev.midTimer => dev.mid \in TimedStates)
  BY DEF Coming, Told, Devices
<1>2. own \in dev.mask
  <2>1. Emulating(Ignore(own), dev.mask)
    BY DEF Coming
  <2> QED BY <2>1, EmulatingNames
<1>3. dev.mid \in MiddleStates \ {"MIDDLE", "same"} /\ Withheld(dev.mid) = {own}
  BY StateNames
<1> HIDE DEF r, u, e
<1>4. ASSUME r.post = <<>>, r.error = FALSE, r.to \in MiddleStates \cup {"same"}
      PROVE  Told(u, n) /\ LeadsTo(dev, u, Target(dev, r))
  <2>2. Sound(dev, r)
    BY <1>1, <1>4 DEF Sound
  <2> QED BY <1>1, <1>4, <2>2, SilentStep DEF r, u
<1>5. CASE b = own
  <2>1. ~press
    BY <1>1, <1>2, <1>5
  <2>2. Reacts(r, "PASSTHROUGH", <<>>, FALSE)
    BY <1>5, <2>1, OneReacts DEF r, e
  <2>3. Told(u, n) /\ LeadsTo(dev, u, "PASSTHROUGH")
    BY <1>4, <2>2 DEF Reacts, Target, MiddleStates
  <2>4. Emulating("PASSTHROUGH", dev.mask \ {b}) \/ dev.mask \ {b} = {}
    BY EmulatingNames
  <2>5. Times("PASSTHROUGH", dev.mask \ {b}) = n
    <3> DEFINE i == "PASSTHROUGH"
    <3>1. i \in MiddleStates \ {"MIDDLE"} /\ Withheld(i) = Withheld(dev.mid) \ {b} /\ b \in Withheld(dev.mid)
      BY <1>3, <1>5, StateNames DEF MiddleStates
    <3> HIDE DEF i
    <3>2. Times(i, dev.mask \ {b}) = n
      BY <1>1, <1>3, <3>1, TimesUp
    <3> QED BY <3>2 DEF i
  <2> QED BY <2>1, <2>2, <2>3, <2>4, <2>5 DEF Leaves, Changed, Reacts, r, u, e, MiddleStates
<1>6. CASE b # own
  <2>1. Reacts(r, "same", <<>>, TRUE)
    BY <1>6, OneReacts DEF r, e
  <2>2. Told(u, n) /\ LeadsTo(dev, u, dev.mid)
    BY <1>4, <2>1 DEF Reacts, Target
  <2>3. Emulating(dev.mid, Changed(dev.mask, b, press))
    BY <1>2, <1>6, EmulatingNames DEF Changed
  <2>4. press => Times(dev.mid, dev.mask \cup {b}) = More(n, b) /\ n[b] = 0
    BY <1>1, <1>3, <1>6, TimesPass
  <2>5. ~press => Times(dev.mid, dev.mask \ {b}) = Less(n, b) /\ n[b] = 1
    BY <1>1, <1>3, <1>6, TimesPass
  <2> HIDE DEF n
  <2> QED BY <1>1, <1>3, <2>1, <2>2, <2>3, <2>4, <2>5 DEF Leaves, Changed, Reacts, r, u, e
<1> QED BY <1>5, <1>6

\* Both buttons are down.
LEMMA BothLeave ==
  ASSUME NEW dev, NEW b, NEW press, NEW grace, Coming(dev, b, press),
         dev.mid \in {"MIDDLE", "IGNORE_LR"}
  PROVE  \E s, n : Leaves(dev, MiddleEvent(dev, ButtonEvent(b, press), grace), b, press, s, n,
                          MiddleReaction(dev.mid, ButtonEvent(b, press)).pass)
<1> DEFINE e == ButtonEvent(b, press)
           r == MiddleReaction(dev.mid, e)
           u == MiddleEvent(dev, e, grace)
           n == Times(dev.mid, dev.mask)
           m == IF dev.mid = "MIDDLE" THEN Less(n, MIDDLE) ELSE n
           f == "IGNORE_LR"
<1>1. /\ b \in Codes /\ press \in BOOLEAN /\ press = (b \notin dev.mask) /\ dev.mask \in SUBSET Codes
      /\ Told(dev, n) /\ (dev.midTimer => dev.mid \in TimedStates) /\ n \in [Codes -> 0..2]
      /\ dev.hw = {} => ~press /\ dev.mask = {b}
  BY TimesTypes DEF Coming, Told, Devices
<1>2. Sides \subseteq dev.mask
  <2>1. Emulating("MIDDLE", dev.mask) \/ Emulating("IGNORE_LR", dev.mask)
    BY DEF Coming
  <2> QED BY <2>1, EmulatingNames
<1>3. MIDDLE \in Codes /\ dev.hw # {} /\ f \in MiddleStates \ {"MIDDLE"} /\ Withheld(f) = Sides
      /\ f # "same"
  <2>1. LEFT \in dev.mask /\ RIGHT \in dev.mask /\ LEFT # RIGHT
    BY <1>2, StateNames
  <2> QED BY <1>1, <2>1, StateNames DEF MiddleStates
<1>4. m = Times(f, dev.mask) /\ (dev.mid = "MIDDLE" => n[MIDDLE] \in {1, 2})
  <2>1. PICK own \in Sides : TRUE
    BY StateNames
  <2>2. Times(f, dev.mask) = Less(Times("MIDDLE", dev.mask), MIDDLE)
        /\ Times("MIDDLE", dev.mask)[MIDDLE] \in {1, 2}
    <3> HIDE DEF f
    <3> QED BY <1>1, <1>3, <2>1, TimesMiddle
  <2> QED BY <2>2
<1> HIDE DEF r, u, e, f
<1>5. ASSUME r.error = FALSE, r.to \in MiddleStates \cup {"same"},
             r.post = IF dev.mid = "MIDDLE" THEN <<Release(MIDDLE)>> ELSE <<>>
      PROVE  Told(u, m) /\ LeadsTo(dev, u, Target(dev, r))
  <2>1. Sound(dev, r)
    BY <1>1, <1>5 DEF Sound
  <2>2. CASE dev.mid = "MIDDLE"
    <3>1. r.post = <<Release(MIDDLE)>> /\ n[MIDDLE] >= 1
      BY <1>4, <1>5, <2>2
    <3> HIDE DEF n
    <3>2. Told(u, Less(n, MIDDLE)) /\ LeadsTo(dev, u, Target(dev, r))
      BY <1>1, <1>3, <2>1, <3>1, ReleaseStep DEF r, u
    <3> QED BY <2>2, <3>2
  <2>3. CASE dev.mid # "MIDDLE"
    <3> HIDE DEF n
    <3> QED BY <1>1, <1>5, <2>1, <2>3, SilentStep DEF r, u
  <2> QED BY <2>2, <2>3
<1>6. CASE b \in Sides
  <2> DEFINE t == IF dev.mid = "MIDDLE" THEN UpPending(Other(b)) ELSE Ignore(Other(b))
  <2>1. ~press
    BY <1>1, <1>2, <1>6
  <2>2. /\ r.to = t /\ r.pass = FALSE /\ r.error = FALSE
        /\ r.post = IF dev.mid = "MIDDLE" THEN <<Release(MIDDLE)>> ELSE <<>>
    <3>1. CASE dev.mid = "MIDDLE"
      <4>1. Reacts(r, UpPending(Other(b)), <<Release(MIDDLE)>>, FALSE)
        BY <1>6, <2>1, <3>1, BothReact DEF r, e
      <4> QED BY <3>1, <4>1 DEF Reacts
    <3>2. CASE dev.mid # "MIDDLE"
      <4>1. Reacts(r, Ignore(Other(b)), <<>>, FALSE)
        BY <1>6, <2>1, <3>2, BothReact DEF r, e
      <4> QED BY <3>2, <4>1 DEF Reacts
    <3> QED BY <3>1, <3>2
  <2>3. /\ t \in MiddleStates \ {"MIDDLE"} /\ t # "same" /\ Withheld(t) = Sides \ {b}
        /\ Other(b) \in Sides /\ Sides = {b, Other(b)} /\ Other(b) # b
    BY <1>6, StateNames
  <2>4. Emulating(t, dev.mask \ {b})
    BY <1>2, <2>3, EmulatingNames
  <2> HIDE DEF t
  <2>5. Told(u, m) /\ LeadsTo(dev, u, t)
    BY <1>5, <2>2, <2>3 DEF Target
  <2>6. Times(t, dev.mask \ {b}) = m
    <3>1. Withheld(t) = Withheld(f) \ {b} /\ b \in Withheld(f) /\ b \in Codes
      BY <1>1, <1>3, <1>6, <2>3
    <3>2. Times(t, dev.mask \ {b}) = Times(f, dev.mask)
      BY <1>1, <1>3, <2>3, <3>1, TimesUp
    <3> QED BY <1>4, <3>2
  <2> HIDE DEF m
  <2> QED BY <2>1, <2>2, <2>3, <2>4, <2>5, <2>6 DEF Leaves, Changed, r, u, e
<1>7. CASE b \notin Sides
  <2>2. /\ r.to = (IF dev.mid = "MIDDLE" THEN f ELSE "same") /\ r.pass = TRUE /\ r.error = FALSE
        /\ r.post = IF dev.mid = "MIDDLE" THEN <<Release(MIDDLE)>> ELSE <<>>
    <3>1. CASE dev.mid = "MIDDLE"
      <4>1. Reacts(r, "IGNORE_LR", <<Release(MIDDLE)>>, TRUE)
        BY <1>7, <3>1, BothReact DEF r, e
      <4> QED BY <3>1, <4>1 DEF Reacts, f
    <3>2. CASE dev.mid # "MIDDLE"
      <4>1. Reacts(r, "same", <<>>, TRUE)
        BY <1>7, <3>2, BothReact DEF r, e
      <4> QED BY <3>2, <4>1 DEF Reacts
    <3> QED BY <3>1, <3>2
  <2>3. Target(dev, r) = f
    BY <1>3, <2>2 DEF Target, f
  <2>4. Told(u, m) /\ LeadsTo(dev, u, f)
    BY <1>3, <1>5, <2>2, <2>3
  <2>5. Emulating(f, Changed(dev.mask, b, press))
    BY <1>2, <1>7, EmulatingNames DEF Changed, f
  <2>6. b \notin Withheld(f)
    BY <1>3, <1>7
  <2> HIDE DEF m
  <2>9. /\ press => /\ Times(f, dev.mask \cup {b}) = More(Times(f, dev.mask), b)
                    /\ Times(f, dev.mask)[b] = 0
        /\ ~press => /\ Times(f, dev.mask \ {b}) = Less(Times(f, dev.mask), b)
                     /\ Times(f, dev.mask)[b] = 1
    BY <1>1, <1>3, <2>6, TimesPass
  <2>7. press => Times(f, dev.mask \cup {b}) = More(m, b) /\ m[b] = 0
    BY <1>4, <2>9
  <2>8. ~press => Times(f, dev.mask \ {b}) = Less(m, b) /\ m[b] = 1
    BY <1>4, <2>9
  <2> QED BY <1>1, <1>3, <2>2, <2>4, <2>5, <2>7, <2>8 DEF Leaves, Changed, r, u, e
<1> QED BY <1>6, <1>7

LEMMA ButtonLeaves ==
  ASSUME NEW dev, NEW b, NEW press, NEW grace, Coming(dev, b, press)
  PROVE  \E s, n : Leaves(dev, MiddleEvent(dev, ButtonEvent(b, press), grace), b, press, s, n,
                          MiddleReaction(dev.mid, ButtonEvent(b, press)).pass)
<1>1. dev.mid \in MiddleStates
  BY DEF Coming, Told, Devices
<1>2. CASE dev.mid \in {"IDLE", "PASSTHROUGH"}
  BY <1>2, IdleLeaves
<1>3. CASE dev.mid \in {"MIDDLE", "IGNORE_LR"}
  BY <1>3, BothLeave
<1>4. ASSUME NEW own \in Sides, dev.mid \in {DownState(own), UpPending(own), Ignore(own)}
      PROVE  \E s, n : Leaves(dev, MiddleEvent(dev, ButtonEvent(b, press), grace), b, press, s, n,
                          MiddleReaction(dev.mid, ButtonEvent(b, press)).pass)
  <2>1. CASE dev.mid = Ignore(own)
    BY <2>1, IgnoreLeaves
  <2>2. CASE dev.mid \in {DownState(own), UpPending(own)}
    BY <2>2, OneLeaves
  <2> QED BY <1>4, <2>1, <2>2
<1> QED BY <1>1, <1>2, <1>3, <1>4, StateCases

\* The layers of the device once the buttons in `down' are notified.
Layer(dev, down) ==
  /\ Told(dev, IF dev.midOn THEN Times(dev.mid, dev.mask) ELSE Times("IDLE", down))
  /\ dev.mask = (IF dev.midOn THEN down ELSE {})
  /\ Emulating(dev.mid, dev.mask)
  /\ dev.midTimer => dev.mid \in TimedStates
  /\ ~dev.midOn => dev.mid = "IDLE"
  /\ down \subseteq Codes

LEMMA NoTimes ==
  /\ Times("IDLE", {}) = None /\ Times("PASSTHROUGH", {}) = None
<1>1. \A c \in Codes : Times("IDLE", {})[c] = None[c] /\ Times("PASSTHROUGH", {})[c] = None[c]
  BY TimesAt, NoneIsNone
<1> QED BY <1>1, TimesTypes, NoneIsNone, MoreLess

\* The mask is set after the event.
LEMMA MaskTold ==
  ASSUME NEW dev, NEW n, NEW mask \in SUBSET Codes, Told(dev, n)
  PROVE  LET u == [dev EXCEPT !.mask = mask]
         IN  /\ Told(u, n) /\ u.mask = mask /\ u.mid = dev.mid /\ u.midTimer = dev.midTimer
             /\ u.hw = dev.hw /\ u.last = dev.last /\ u.left = dev.left /\ u.midOn = dev.midOn
             /\ u.midWant = dev.midWant /\ u.set = dev.set /\ u.want = dev.want
<1> DEFINE u == [dev EXCEPT !.mask = mask]
<1>1. /\ u \in Devices /\ u.mask = mask /\ u.mid = dev.mid /\ u.midTimer = dev.midTimer
      /\ u.hw = dev.hw /\ u.last = dev.last /\ u.left = dev.left /\ u.midOn = dev.midOn
      /\ u.midWant = dev.midWant /\ u.set = dev.set /\ u.want = dev.want /\ u.lockState = dev.lockState
      /\ u.scroll = dev.scroll /\ u.count = dev.count /\ u.pressed = dev.pressed
      /\ u.redundant = dev.redundant /\ u.bug = dev.bug /\ u.aborted = dev.aborted
  BY DEF Told, Devices
<1> HIDE DEF u
<1>2. Told(u, n)
  BY <1>1 DEF Told
<1> QED BY <1>1, <1>2 DEF u

LEMMA MiddleConfigTold ==
  ASSUME NEW dev, NEW n, Told(dev, n)
  PROVE  LET u == ApplyMiddleConfig(dev)
         IN  /\ Told(u, n) /\ u.mask = dev.mask /\ u.mid = dev.mid /\ u.midTimer = dev.midTimer
             /\ u.hw = dev.hw /\ u.last = dev.last /\ u.left = dev.left
             /\ dev.mask # {} => u.midOn = dev.midOn
             /\ u.midOn = dev.midOn \/ u.midOn = dev.midWant
             /\ u.midWant = dev.midWant /\ u.set = dev.set /\ u.want = dev.want
<1> DEFINE u == ApplyMiddleConfig(dev)
<1>1. /\ u \in Devices /\ u.mask = dev.mask /\ u.mid = dev.mid /\ u.midTimer = dev.midTimer
      /\ u.hw = dev.hw /\ u.last = dev.last /\ u.left = dev.left
      /\ (dev.mask # {} => u.midOn = dev.midOn)
      /\ u.midOn = dev.midOn \/ u.midOn = dev.midWant
      /\ u.midWant = dev.midWant /\ u.set = dev.set /\ u.want = dev.want
      /\ u.lockState = dev.lockState
      /\ u.scroll = dev.scroll /\ u.count = dev.count /\ u.pressed = dev.pressed
      /\ u.redundant = dev.redundant /\ u.bug = dev.bug /\ u.aborted = dev.aborted
  BY DEF Told, Devices, ApplyMiddleConfig
<1> HIDE DEF u
<1>2. Told(u, n)
  BY <1>1 DEF Told
<1> QED BY <1>1, <1>2 DEF u

\* The last button went up: the state machine is back where it began.
LEMMA AllUpTold ==
  ASSUME NEW dev, NEW n, NEW grace, Told(dev, n), dev.mid \in {"IDLE", "PASSTHROUGH"},
         dev.midTimer => dev.mid \in TimedStates
  PROVE  LET u == MiddleEvent(dev, AllUpEvent, grace) IN Told(u, n) /\ LeadsTo(dev, u, "IDLE")
<1> DEFINE r == MiddleReaction(dev.mid, AllUpEvent)
<1>1. /\ r.to = (IF dev.mid = "IDLE" THEN "same" ELSE "IDLE") /\ r.post = <<>> /\ r.error = FALSE
  <2>1. MiddleReaction("IDLE", AllUpEvent) = Idle(AllUpEvent)
        /\ MiddleReaction("PASSTHROUGH", AllUpEvent) = Passthrough(AllUpEvent)
    BY ReactionNames
  <2>2. Idle(AllUpEvent).to = "same" /\ Idle(AllUpEvent).post = <<>> /\ Idle(AllUpEvent).error = FALSE
    BY DEF Idle, AllUpEvent, Keep
  <2>3. /\ Passthrough(AllUpEvent).to = "IDLE" /\ Passthrough(AllUpEvent).post = <<>>
        /\ Passthrough(AllUpEvent).error = FALSE
    BY DEF Passthrough, AllUpEvent, Keep, To
  <2> QED BY <2>1, <2>2, <2>3
<1> HIDE DEF r
<1>2. Sound(dev, r) /\ Target(dev, r) = "IDLE"
  BY <1>1 DEF Sound, Target, MiddleStates
<1> QED BY <1>1, <1>2, SilentStep DEF r

\* A button change that can come from the key masks, and what it leaves.
Pending(dev, down, b, press) ==
  /\ ~Clashes(dev) /\ Layer(dev, down)
  /\ b \in Codes /\ press \in BOOLEAN /\ press = (b \notin down)
  /\ dev.hw = {} => ~press /\ down = {b}

Handled(dev, u, down) ==
  /\ Layer(u, down) /\ u.hw = dev.hw /\ u.last = dev.last
  /\ ~Clashes(u)
  /\ dev.hw # {} => u.left = dev.left

\* A frame applies what is wanted and asks for nothing new.
LEMMA ClashSpreads ==
  ASSUME NEW dev, NEW u, ~Clashes(dev), u.midWant = dev.midWant, u.want = dev.want,
         u.midOn = dev.midOn \/ u.midOn = dev.midWant, u.set = dev.set \/ u.set = dev.want
  PROVE  ~Clashes(u)
  BY DEF Clashes

\* A change of one button at evdev_pointer_notify_physical_button.
LEMMA PhysicalLayer ==
  ASSUME NEW dev, NEW down, NEW b, NEW press, NEW grace, Pending(dev, down, b, press)
  PROVE  Handled(dev, NotifyPhysicalButton(dev, b, press, grace), Changed(down, b, press))
<1>3. /\ b \in Codes /\ press \in BOOLEAN /\ ~Clashes(dev) /\ Layer(dev, down)
      /\ press = (b \notin down) /\ (dev.hw = {} => ~press /\ down = {b})
  BY DEF Pending
<1> USE <1>3
<1> DEFINE u == NotifyPhysicalButton(dev, b, press, grace)
           down2 == Changed(down, b, press)
<1>0. down \in SUBSET Codes /\ down2 \in SUBSET Codes
  BY DEF Layer, Changed
<1>1. CASE ~dev.midOn
  <2> DEFINE i == "IDLE"
             n == Times(i, down)
  <2>1. Told(dev, n) /\ dev.mid = i /\ dev.mask = {} /\ ~(dev.midTimer /\ dev.mid \notin TimedStates)
    BY <1>1 DEF Layer
  <2>2. i \in MiddleStates \ {"MIDDLE"} /\ b \notin Withheld(i)
    BY StateNames DEF MiddleStates
  <2>3. u = NotifyButton(dev, b, press, grace)
    BY <1>1 DEF NotifyPhysicalButton
  <2>4. Emulating(i, {}) /\ i \notin TimedStates
    BY EmulatingNames DEF TimedStates
  <2> HIDE DEF i, u
  <2>5. /\ press => n[b] = 0 /\ Times(i, down2) = More(n, b)
        /\ ~press => n[b] = 1 /\ Times(i, down2) = Less(n, b)
    BY <1>0, <2>2, TimesPass DEF Changed
  <2>6. dev.hw = {} => Times(i, down2) = None
    BY NoTimes DEF i, Changed
  <2> HIDE DEF n
  <2>7. Told(u, Times(i, down2)) /\ Beneath(dev, u)
    <3>1. CASE press
      <4>0. press = TRUE
        BY <3>1
      <4>1. n[b] <= 1 /\ u = NotifyButton(dev, b, TRUE, grace)
        <5>1. n[b] <= 1
          BY <2>5, <3>1
        <5>2. u = NotifyButton(dev, b, TRUE, grace)
          BY <2>3, <4>0, Zenon
        <5> QED BY <5>1, <5>2
      <4>2. Told(u, More(n, b)) /\ Beneath(dev, u)
        BY <2>1, <2>5, <3>1, <4>1, NotifyPressTold
      <4> QED BY <2>5, <3>1, <4>2
    <3>2. CASE ~press
      <4>0. press = FALSE
        BY <3>2
      <4>1. n[b] >= 1 /\ u = NotifyButton(dev, b, FALSE, grace) /\ (dev.hw = {} => Less(n, b) = None)
        <5>1. n[b] >= 1 /\ (dev.hw = {} => Less(n, b) = None)
          BY <2>5, <2>6, <3>2
        <5>2. u = NotifyButton(dev, b, FALSE, grace)
          BY <2>3, <4>0, Zenon
        <5> QED BY <5>1, <5>2
      <4>2. Told(u, Less(n, b)) /\ Beneath(dev, u)
        BY <2>1, <2>5, <3>2, <4>1, NotifyReleaseTold
      <4> QED BY <2>5, <3>2, <4>2
    <3> QED BY <3>1, <3>2
  <2>8. Layer(u, down2)
    BY <1>0, <1>1, <2>1, <2>4, <2>7 DEF Layer, Beneath, i
  <2>9. ~Clashes(u)
    BY <2>7, ClashSpreads DEF Beneath
  <2> QED BY <2>7, <2>8, <2>9 DEF Beneath, Handled, u
<1>2. CASE dev.midOn
  <2> DEFINE e == ButtonEvent(b, press)
             v == MiddleEvent(dev, e, grace)
             pass == MiddleReaction(dev.mid, e).pass
             m == [v EXCEPT !.mask = IF press THEN @ \cup {b} ELSE @ \ {b}]
             up == MiddleEvent(m, AllUpEvent, grace)
             w == FilterButton(dev, b, press, grace)
  <2>1. Coming(dev, b, press) /\ dev.mask = down /\ ~Scrolls(dev, MIDDLE)
    BY <1>2 DEF Layer, Coming, Clashes, Scrolls
  <2>2. PICK s, n : Leaves(dev, v, b, press, s, n, pass)
    BY <2>1, ButtonLeaves
  <2>3. /\ Told(v, n) /\ LeadsTo(dev, v, s) /\ s \in MiddleStates
        /\ Emulating(s, down2) \/ (s = "PASSTHROUGH" /\ down2 = {})
        /\ ~pass => n = Times(s, down2)
        /\ pass /\ press => /\ n[b] \in {0, 1} /\ (b # MIDDLE => n[b] = 0)
                            /\ Times(s, down2) = More(n, b)
        /\ pass /\ ~press => n[b] \in {1, 2} /\ Times(s, down2) = Less(n, b)
    BY <2>1, <2>2 DEF Leaves
  <2>4. w = IF m.mask = {} /\ v.mask # {} THEN ApplyMiddleConfig(up) ELSE m
    BY DEF FilterButton
  <2>5. u = IF pass THEN NotifyButton(w, b, press, grace) ELSE w
    BY <1>2 DEF NotifyPhysicalButton
  <2> HIDE DEF v, pass, w, u
  <2>6. v.mask = down
    BY <2>1, <2>3 DEF LeadsTo
  <2>7. m = [v EXCEPT !.mask = down2]
    BY <2>6 DEF Changed
  <2> HIDE DEF m, down2
  <2>8. /\ Told(m, n) /\ m.mask = down2 /\ m.mid = s /\ m.midTimer = v.midTimer
        /\ m.hw = v.hw /\ m.last = v.last /\ m.left = v.left /\ m.midOn = v.midOn
        /\ m.midWant = v.midWant /\ m.set = v.set /\ m.want = v.want
    BY <1>0, <2>3, <2>7, MaskTold DEF LeadsTo
  <2>9. /\ m.hw = dev.hw /\ m.last = dev.last /\ (dev.hw # {} => m.left = dev.left)
        /\ m.midOn /\ (m.midTimer => s \in TimedStates)
        /\ m.midOn = dev.midOn /\ m.midWant = dev.midWant /\ m.want = dev.want
        /\ m.set = dev.set \/ m.set = dev.want
        /\ dev.hw # {} => m.set = dev.set
    BY <1>2, <2>3, <2>8 DEF LeadsTo
  <2> DEFINE t == IF down2 = {} THEN "IDLE" ELSE s
  <2>10. /\ Told(w, n) /\ w.mask = down2 /\ w.mid = t /\ (w.midTimer => t \in TimedStates)
         /\ w.hw = dev.hw /\ w.last = dev.last /\ (dev.hw # {} => w.left = dev.left)
         /\ down2 # {} => w.midOn /\ w.set = m.set
         /\ w.midOn = dev.midOn \/ w.midOn = dev.midWant
         /\ w.midWant = dev.midWant /\ w.want = dev.want
         /\ w.set = dev.set \/ w.set = dev.want
    <3>1. CASE down2 = {} /\ v.mask # {}
      <4>1. s \in {"IDLE", "PASSTHROUGH"}
        <5>1. CASE Emulating(s, {})
          <6>1. Withheld(s) = {} /\ s # "PASSTHROUGH"
            BY <5>1 DEF Emulating
          <6> QED BY <2>3, <6>1, StateCases, StateNames
        <5> QED BY <2>3, <3>1, <5>1
      <4>2. m.midTimer => m.mid \in TimedStates
        BY <2>8, <2>9
      <4>3. Told(up, n) /\ LeadsTo(m, up, "IDLE")
        BY <2>8, <4>1, <4>2, AllUpTold
      <4> HIDE DEF up
      <4>4. /\ up.mask = {} /\ up.mid = "IDLE" /\ (up.midTimer => "IDLE" \in TimedStates)
            /\ up.hw = dev.hw /\ up.last = dev.last /\ (dev.hw # {} => up.left = dev.left)
            /\ up.midOn = dev.midOn /\ up.midWant = dev.midWant /\ up.want = dev.want
            /\ up.set = dev.set \/ up.set = dev.want
        BY <2>8, <2>9, <3>1, <4>3 DEF LeadsTo
      <4>5. w = ApplyMiddleConfig(up)
        BY <2>4, <2>8, <3>1
      <4>6. /\ Told(w, n) /\ w.mask = up.mask /\ w.mid = up.mid /\ w.midTimer = up.midTimer
            /\ w.hw = up.hw /\ w.last = up.last /\ w.left = up.left
            /\ w.midOn = up.midOn \/ w.midOn = up.midWant
            /\ w.midWant = up.midWant /\ w.set = up.set /\ w.want = up.want
        BY <4>3, <4>5, MiddleConfigTold
      <4> QED BY <3>1, <4>4, <4>6
    <3>2. CASE down2 # {}
      <4>1. w = m
        BY <2>4, <2>8, <3>2
      <4> QED BY <2>8, <2>9, <3>2, <4>1
    <3>3. v.mask # {} \/ down2 # {}
      BY <2>6 DEF down2, Changed
    <3> QED BY <3>1, <3>2, <3>3
  <2> HIDE DEF t
  <2>11. Times(t, down2) = Times(s, down2) /\ Emulating(t, down2)
    <3>1. CASE down2 = {}
      <4>1. s \in {"IDLE", "PASSTHROUGH"}
        <5>1. CASE Emulating(s, {})
          <6>1. Withheld(s) = {} /\ s # "PASSTHROUGH"
            BY <5>1 DEF Emulating
          <6> QED BY <2>3, <6>1, StateCases, StateNames
        <5> QED BY <2>3, <3>1, <5>1
      <4> QED BY <3>1, <4>1, NoTimes, EmulatingNames DEF t
    <3>2. CASE down2 # {}
      BY <2>3, <3>2 DEF t
    <3> QED BY <3>1, <3>2
  <2>12. /\ Told(u, Times(t, down2))
         /\ u.mask = down2 /\ u.mid = t /\ (u.midTimer => t \in TimedStates)
         /\ u.hw = dev.hw /\ u.last = dev.last /\ (dev.hw # {} => u.left = dev.left)
         /\ u.midOn = w.midOn /\ u.midWant = w.midWant /\ u.want = w.want
         /\ u.set = w.set \/ u.set = w.want
    <3>1. CASE ~pass
      BY <2>3, <2>5, <2>10, <2>11, <3>1
    <3>2. ASSUME pass, Told(u, Times(s, down2)), Beneath(w, u)
          PROVE  /\ Told(u, Times(t, down2))
                 /\ u.mask = down2 /\ u.mid = t /\ (u.midTimer => t \in TimedStates)
                 /\ u.hw = dev.hw /\ u.last = dev.last /\ (dev.hw # {} => u.left = dev.left)
                 /\ u.midOn = w.midOn /\ u.midWant = w.midWant /\ u.want = w.want
                 /\ u.set = w.set \/ u.set = w.want
      BY <2>10, <2>11, <3>2 DEF Beneath
    <3>3. CASE pass /\ press
      <4>0. press = TRUE
        BY <3>3
      <4>1. n[b] <= 1 /\ u = NotifyButton(w, b, TRUE, grace)
        <5>1. n[b] <= 1
          BY <2>3, <3>3
        <5>2. u = NotifyButton(w, b, TRUE, grace)
          BY <2>5, <3>3, <4>0, Zenon
        <5> QED BY <5>1, <5>2
      <4>2. Scrolls(w, b) => n[b] = 0
        <5>1. b # MIDDLE => n[b] = 0
          BY <2>3, <3>3
        <5>2. down2 # {} /\ dev.hw # {}
          BY <3>3 DEF down2, Changed
        <5>3. w.set = dev.set
          BY <2>9, <2>10, <5>2
        <5> QED BY <2>1, <5>1, <5>3 DEF Scrolls
      <4>3. Told(u, More(n, b)) /\ Beneath(w, u)
        BY <2>10, <4>1, <4>2, NotifyPressTold
      <4> QED BY <2>3, <3>2, <3>3, <4>3
    <3>4. CASE pass /\ ~press
      <4>0. press = FALSE
        BY <3>4
      <4>1. n[b] >= 1 /\ u = NotifyButton(w, b, FALSE, grace)
        <5>1. n[b] >= 1
          BY <2>3, <3>4
        <5>2. u = NotifyButton(w, b, FALSE, grace)
          BY <2>5, <3>4, <4>0, Zenon
        <5> QED BY <5>1, <5>2
      <4>2. w.hw = {} => Less(n, b) = None
        <5>1. w.hw = {} => down2 = {}
          BY <2>10 DEF down2, Changed
        <5>2. down2 = {} => Times(t, down2) = None
          BY NoTimes DEF t
        <5> QED BY <2>3, <2>11, <3>4, <5>1, <5>2
      <4>3. Told(u, Less(n, b)) /\ Beneath(w, u)
        BY <2>10, <4>1, <4>2, NotifyReleaseTold
      <4> QED BY <2>3, <3>2, <3>4, <4>3
    <3> QED BY <3>1, <3>3, <3>4
  <2>13. Layer(u, down2)
    <3>1. CASE u.midOn
      BY <1>0, <2>11, <2>12, <3>1 DEF Layer
    <3>2. CASE ~u.midOn
      <4>1. down2 = {} /\ t = "IDLE"
        BY <2>10, <2>12, <3>2 DEF t
      <4> QED BY <1>0, <2>11, <2>12, <3>2, <4>1 DEF Layer
    <3> QED BY <3>1, <3>2
  <2>14. ~Clashes(u)
    BY <2>10, <2>12, ClashSpreads
  <2> QED BY <2>12, <2>13, <2>14 DEF Handled, u, down2
<1> QED BY <1>1, <1>2

-----------------------------------------------------------------------------
(* A frame, and the keys of a device that is suspended: one after the      *)
(* other in the order of the codes.                                        *)

LEMMA SetInduction ==
  ASSUME NEW S, 0 \in S, \A n \in Nat : n \in S => n + 1 \in S
  PROVE  Nat \subseteq S
<1> DEFINE T == Nat \ S
<1>1. SUFFICES ASSUME T # {} PROVE FALSE
  OBVIOUS
<1>2. IsWellFoundedOn(OpToRel(<, Nat), Nat)
  BY NatLessThanWellFounded
<1>3. PICK x \in T : \A y \in T : <<y, x>> \notin OpToRel(<, Nat)
  BY <1>1, <1>2, WFMin
<1>4. \A y \in T : ~(y < x)
  BY <1>3 DEF OpToRel
<1>5. x # 0 /\ x - 1 \in Nat
  OBVIOUS
<1>6. x - 1 \in S
  BY <1>4, <1>5
<1> QED BY <1>5, <1>6

\* Every button has one place in the order.
LEMMA Places ==
  ASSUME NEW x \in Codes
  PROVE  /\ Len(CodeOrder) \in Nat
         /\ \E k \in 1..Len(CodeOrder) : \A i \in 1..Len(CodeOrder) :
              /\ CodeOrder[i] \in Codes
              /\ CodeOrder[i] = x <=> i = k
<1>1. CodeOrder \in Seq(Codes) /\ \A i, j \in DOMAIN CodeOrder : CodeOrder[i] = CodeOrder[j] => i = j
  BY PointerAssumption
<1>2. PICK k \in DOMAIN CodeOrder : CodeOrder[k] = x
  BY DEF Codes, ToSet
<1>3. DOMAIN CodeOrder = 1..Len(CodeOrder) /\ Len(CodeOrder) \in Nat
  BY <1>1
<1>4. \A i \in 1..Len(CodeOrder) : CodeOrder[i] \in Codes
  BY <1>1, <1>3
<1> QED BY <1>1, <1>2, <1>3, <1>4

\* A button changed alone: HandleState notifies it and no other.
LEMMA HandleOne ==
  ASSUME NEW dev, NEW x \in Codes, NEW grace,
         \A b \in Codes : (b \in dev.hw) # (b \in dev.last) <=> b = x,
         LET u == NotifyPhysicalButton(dev, Mapped(dev, x), x \in dev.hw, grace)
         IN  u.hw = dev.hw /\ u.last = dev.last
  PROVE  LET u == NotifyPhysicalButton(dev, Mapped(dev, x), x \in dev.hw, grace)
         IN  HandleState(dev, grace) = [u EXCEPT !.last = u.hw]
<1> DEFINE u == NotifyPhysicalButton(dev, Mapped(dev, x), x \in dev.hw, grace)
           N == Len(CodeOrder)
           after[i \in 0..N] ==
             IF i = 0 THEN dev ELSE NotifyChange(after[i - 1], CodeOrder[i], grace)
           Is(f) == f = [i \in 0..N |-> IF i = 0 THEN dev ELSE NotifyChange(f[i - 1], CodeOrder[i], grace)]
<1>1. HandleState(dev, grace) = [after[N] EXCEPT !.last = after[N].hw]
  BY DEF HandleState
<1>2. PICK k \in 1..N : \A i \in 1..N : CodeOrder[i] \in Codes /\ (CodeOrder[i] = x <=> i = k)
  BY Places
<1>3. N \in Nat
  BY Places
<1>4. u.hw = dev.hw /\ u.last = dev.last
  OBVIOUS
<1>5. NotifyChange(dev, x, grace) = u
  BY DEF NotifyChange
<1> HIDE DEF u, N
<1>6. \A b \in Codes : b # x => NotifyChange(dev, b, grace) = dev
  BY DEF NotifyChange
<1>7. \A b \in Codes : b # x => NotifyChange(u, b, grace) = u
  BY <1>4 DEF NotifyChange
<1> DEFINE f == [i \in 0..N |-> IF i < k THEN dev ELSE u]
<1>8. Is(f)
  <2> SUFFICES ASSUME NEW i \in 0..N
               PROVE  f[i] = IF i = 0 THEN dev ELSE NotifyChange(f[i - 1], CodeOrder[i], grace)
    OBVIOUS
  <2>1. CASE i = 0
    BY <2>1
  <2>2. CASE i # 0 /\ i < k
    <3>1. f[i] = dev /\ f[i - 1] = dev /\ CodeOrder[i] \in Codes \ {x}
      BY <1>2, <1>3, <2>2
    <3> QED BY <1>6, <2>2, <3>1
  <2>3. CASE i = k
    <3>1. f[i] = u /\ f[i - 1] = dev /\ CodeOrder[i] = x /\ i # 0
      BY <1>2, <1>3, <2>3
    <3> QED BY <1>5, <2>3, <3>1
  <2>4. CASE i > k
    <3>1. f[i] = u /\ f[i - 1] = u /\ CodeOrder[i] \in Codes \ {x} /\ i # 0
      BY <1>2, <1>3, <2>4
    <3> QED BY <1>7, <2>4, <3>1
  <2> QED BY <1>3, <2>1, <2>2, <2>3, <2>4
<1>9. Is(after)
  <2>1. after = CHOOSE g : Is(g)
    OBVIOUS
  <2> HIDE DEF after, f, Is
  <2> QED BY <1>8, <2>1
<1> HIDE DEF after
<1>10. after[N] = u
  <2> DEFINE S == {i \in Nat : i \in 0..N => after[i] = f[i]}
  <2>1. \A i \in 0..N : /\ after[i] = IF i = 0 THEN dev ELSE NotifyChange(after[i - 1], CodeOrder[i], grace)
                        /\ f[i] = IF i = 0 THEN dev ELSE NotifyChange(f[i - 1], CodeOrder[i], grace)
    <3>1. \A i \in 0..N : after[i] = IF i = 0 THEN dev ELSE NotifyChange(after[i - 1], CodeOrder[i], grace)
      BY <1>9
    <3> HIDE DEF f
    <3>2. \A i \in 0..N : f[i] = IF i = 0 THEN dev ELSE NotifyChange(f[i - 1], CodeOrder[i], grace)
      BY <1>8
    <3> QED BY <3>1, <3>2
  <2>2. f[N] = u
    BY <1>3
  <2> HIDE DEF f
  <2>3. 0 \in S
    BY <1>3, <2>1
  <2>4. \A i \in Nat : i \in S => i + 1 \in S
    <3> SUFFICES ASSUME NEW i \in Nat, i \in S, i + 1 \in 0..N PROVE after[i + 1] = f[i + 1]
      OBVIOUS
    <3>1. i \in 0..N /\ (i + 1) - 1 = i /\ i + 1 # 0
      BY <1>3
    <3>2. after[i] = f[i]
      BY <3>1
    <3> QED BY <2>1, <3>1, <3>2
  <2>5. Nat \subseteq S
    <3> HIDE DEF S
    <3> QED BY <2>3, <2>4, SetInduction
  <2> QED BY <1>3, <2>2, <2>5
<1> QED BY <1>1, <1>10 DEF u

\* Nothing is counted: there is no key to release.
LEMMA ReleaseNone ==
  ASSUME NEW dev, NEW grace, \A b \in Codes : dev.count[b] = 0
  PROVE  ReturnToNeutral(dev, grace) = [dev EXCEPT !.hw = {}]
<1> DEFINE N == Len(CodeOrder)
           after[i \in 0..N] ==
             IF i = 0 THEN dev ELSE ReleasePressed(after[i - 1], CodeOrder[i], grace)
           Is(f) == f = [i \in 0..N |-> IF i = 0 THEN dev ELSE ReleasePressed(f[i - 1], CodeOrder[i], grace)]
           f == [i \in 0..N |-> dev]
<1>1. ReturnToNeutral(dev, grace) = [after[N] EXCEPT !.hw = {}]
  BY DEF ReturnToNeutral
<1>2. N \in Nat /\ \A i \in 1..N : CodeOrder[i] \in Codes
  BY PointerAssumption
<1> HIDE DEF N
<1>3. \A b \in Codes : ReleasePressed(dev, b, grace) = dev
  <2>1. \A b \in Codes : ~(dev.count[b] > 0)
    OBVIOUS
  <2> QED BY <2>1 DEF ReleasePressed
<1>4. Is(f)
  <2> SUFFICES ASSUME NEW i \in 0..N
               PROVE  f[i] = IF i = 0 THEN dev ELSE ReleasePressed(f[i - 1], CodeOrder[i], grace)
    OBVIOUS
  <2>1. CASE i = 0
    BY <2>1
  <2>2. CASE i # 0
    <3>1. f[i] = dev /\ f[i - 1] = dev /\ CodeOrder[i] \in Codes
      BY <1>2, <2>2
    <3> QED BY <1>3, <2>2, <3>1
  <2> QED BY <2>1, <2>2
<1>5. Is(after)
  <2>1. after = CHOOSE g : Is(g)
    OBVIOUS
  <2> HIDE DEF after, f, Is
  <2> QED BY <1>4, <2>1
<1> HIDE DEF after
<1>6. after[N] = dev
  <2> DEFINE S == {i \in Nat : i \in 0..N => after[i] = dev}
  <2>1. \A i \in 0..N : after[i] = IF i = 0 THEN dev ELSE ReleasePressed(after[i - 1], CodeOrder[i], grace)
    BY <1>5
  <2>3. 0 \in S
    BY <1>2, <2>1
  <2>4. \A i \in Nat : i \in S => i + 1 \in S
    <3> SUFFICES ASSUME NEW i \in Nat, i \in S, i + 1 \in 0..N PROVE after[i + 1] = dev
      OBVIOUS
    <3>1. i \in 0..N /\ (i + 1) - 1 = i /\ i + 1 # 0 /\ i + 1 \in 1..N
      BY <1>2
    <3>2. after[i] = dev
      BY <3>1
    <3> QED BY <1>2, <1>3, <2>1, <3>1, <3>2
  <2>5. Nat \subseteq S
    <3> HIDE DEF S
    <3> QED BY <2>3, <2>4, SetInduction
  <2> QED BY <1>2, <2>5
<1> QED BY <1>1, <1>6

LEMMA CodesFinite == IsFiniteSet(Codes)
<1>1. CodeOrder \in Seq(Codes) /\ Len(CodeOrder) \in Nat /\ DOMAIN CodeOrder = 1..Len(CodeOrder)
  BY PointerAssumption
<1>2. IsFiniteSet(1..Len(CodeOrder))
  BY <1>1, FS_Interval
<1>3. CodeOrder \in Surjection(1..Len(CodeOrder), Codes)
  BY <1>1 DEF Surjection, Codes, ToSet
<1> QED BY <1>2, <1>3, FS_Surjection

-----------------------------------------------------------------------------
(* The steps.                                                              *)

PointerInv ==
  /\ Layer(p, Raw(p)) /\ p.last = p.hw /\ ~Clashes(p)
  /\ kernel \subseteq Codes /\ suspended \in BOOLEAN

\* What Layer reads of a device.
LEMMA LayerAgrees ==
  ASSUME NEW dev, NEW down, Layer(dev, down), NEW u \in Devices,
         u.set = dev.set, u.lockState = dev.lockState, u.scroll = dev.scroll,
         u.count = dev.count, u.pressed = dev.pressed, u.redundant = dev.redundant,
         u.bug = dev.bug, u.aborted = dev.aborted, u.mid = dev.mid,
         u.midTimer = dev.midTimer, u.midOn = dev.midOn, u.mask = dev.mask
  PROVE  Layer(u, down)
<1>1. \A n : Told(dev, n) => Told(u, n)
  BY DEF Told
<1> QED BY <1>1 DEF Layer

LEMMA MappedTypes ==
  ASSUME NEW dev, NEW b \in Codes
  PROVE  /\ Mapped(dev, b) \in Codes
         /\ \A c \in Codes : Mapped(dev, b) = Mapped(dev, c) => b = c
  BY StateNames DEF Mapped

\* With every button up nothing is notified, withheld or counted.
LEMMA Quiet ==
  ASSUME PointerInv, p.hw = {}
  PROVE  /\ Raw(p) = {} /\ p.mask = {} /\ p.mid = "IDLE"
         /\ Told(p, None) /\ p.pressed = {} /\ \A b \in Codes : p.count[b] = 0
<1>1. Raw(p) = {} /\ p.mask = {}
  BY DEF PointerInv, Layer, Raw
<1>2. p.mid = "IDLE"
  <2>1. Withheld(p.mid) = {} /\ p.mid # "PASSTHROUGH" /\ p.mid \in MiddleStates
    BY <1>1 DEF PointerInv, Layer, Emulating, Told, Devices
  <2> QED BY <2>1, StateCases, StateNames
<1>3. Told(p, None)
  BY <1>1, <1>2, NoTimes DEF PointerInv, Layer
<1>4. \A b \in Codes : p.count[b] = 0
  BY <1>3, NoneIsNone DEF Told
<1>5. p.pressed = {}
  BY <1>3, <1>4 DEF Told
<1> QED BY <1>1, <1>2, <1>3, <1>4, <1>5

\* A quiet device stays so whatever the emulation is set to.
LEMMA QuietLayer ==
  ASSUME NEW u, Told(u, None), u.mask = {}, u.mid = "IDLE", u.midTimer => u.mid \in TimedStates
  PROVE  Layer(u, {})
<1>1. Emulating("IDLE", {})
  BY EmulatingNames
<1> QED BY <1>1, NoTimes DEF Layer

LEMMA PointerInitInv ==
  ASSUME PointerInit, Behaved
  PROVE  PointerInv
<1>1. PICK emulate \in BOOLEAN, setting \in {s \in ScrollSettings : ~s.lock} :
        p = NewPointer(emulate, setting)
  BY DEF PointerInit
<1>2. /\ p \in Devices /\ p.mask = {} /\ p.mid = "IDLE" /\ p.midTimer = FALSE /\ p.hw = {}
      /\ p.last = {} /\ p.redundant = FALSE /\ p.bug = FALSE /\ p.aborted = FALSE
      /\ p.pressed = {} /\ (\A b \in Codes : p.count[b] = 0) /\ p.lockState = "DISABLED"
  BY <1>1 DEF NewPointer, Devices, MiddleStates, LockStates, ScrollStates
<1>3. Told(p, None)
  BY <1>2, NoneIsNone DEF Told
<1>4. Layer(p, {})
  BY <1>2, <1>3, QuietLayer
<1>5. ~Clashes(p)
  BY DEF PointerInit, Allowed, Behaved
<1> QED BY <1>2, <1>4, <1>5 DEF PointerInit, PointerInv, Raw

\* A frame of one button.
LEMMA KeyFrameInv ==
  ASSUME PointerInv, Behaved, NEW S \in Changes, NEW grace, KeyFrame(S, grace)
  PROVE  PointerInv'
<1>1. PICK x \in Codes : S = {x}
  <2>1. S \in SUBSET Codes /\ Cardinality(S) = 1
    BY DEF Changes, Behaved
  <2>2. IsFiniteSet(S)
    <3>1. IsFiniteSet(Codes)
      BY CodesFinite
    <3> QED BY <2>1, <3>1, FS_Subset
  <2> QED BY <2>1, <2>2, FS_Singleton
<1> DEFINE fresh == {b \in S : (b \in kernel) = (b \in p.hw)}
           hw == (p.hw \ S) \cup {b \in S : b \in kernel'}
           dev == [p EXCEPT !.hw = hw]
<1>2. /\ kernel' \subseteq Codes /\ suspended' \in BOOLEAN
      /\ p' = IF fresh = {} THEN p ELSE HandleState(dev, grace)
      /\ (x \in kernel') = (x \notin kernel)
  BY <1>1 DEF KeyFrame, PointerInv, Flipped
<1>3. CASE fresh = {}
  <2>1. p' = p
    BY <1>2, <1>3
  <2>2. Raw(p)' = Raw(p) /\ Clashes(p)' = Clashes(p)
    BY <2>1 DEF Raw, Mapped, Clashes
  <2> QED BY <1>2, <2>1, <2>2 DEF PointerInv
<1>4. CASE fresh # {}
  <2>1. (x \in kernel) = (x \in p.hw)
    BY <1>1, <1>4
  <2>2. p \in Devices /\ p.last = p.hw /\ Layer(p, Raw(p)) /\ p.hw \subseteq Codes
    BY DEF PointerInv, Layer, Told, Devices
  <2>3. \A b \in Codes : (b \in hw) # (b \in p.hw) <=> b = x
    BY <1>1, <1>2, <2>1
  <2>4. hw \in SUBSET Codes
    BY <1>1, <2>2
  <2> HIDE DEF hw
  <2>5. /\ dev \in Devices /\ dev.hw = hw /\ dev.last = p.hw /\ dev.left = p.left
        /\ dev.set = p.set /\ dev.lockState = p.lockState /\ dev.scroll = p.scroll
        /\ dev.count = p.count /\ dev.pressed = p.pressed /\ dev.redundant = p.redundant
        /\ dev.bug = p.bug /\ dev.aborted = p.aborted /\ dev.mid = p.mid
        /\ dev.midTimer = p.midTimer /\ dev.midOn = p.midOn /\ dev.mask = p.mask
        /\ dev.midWant = p.midWant /\ dev.want = p.want
    BY <2>2, <2>4 DEF Devices
  <2>6. p' = HandleState(dev, grace)
    BY <1>2, <1>4
  <2> HIDE DEF dev, fresh
  <2> DEFINE down == Raw(p)
             b == Mapped(dev, x)
             press == x \in hw
             u == NotifyPhysicalButton(dev, b, press, grace)
  <2>7. Layer(dev, down)
    BY <2>2, <2>5, LayerAgrees
  <2>8. b \in Codes /\ press \in BOOLEAN /\ press = (b \notin down)
    <3>1. \A c \in Codes : Mapped(p, c) = Mapped(dev, c)
      BY <2>5 DEF Mapped
    <3>2. b \in Codes /\ \A c \in Codes : b = Mapped(dev, c) => x = c
      BY MappedTypes
    <3>3. b \in down <=> x \in p.hw
      BY <2>2, <3>1, <3>2 DEF Raw
    <3> QED BY <2>3, <3>2, <3>3
  <2>9. Changed(down, b, press) = {Mapped(dev, c) : c \in hw}
    <3>1. \A c \in Codes : Mapped(p, c) = Mapped(dev, c)
      BY <2>5 DEF Mapped
    <3>2. \A c \in Codes : b = Mapped(dev, c) => x = c
      BY MappedTypes
    <3>3. \A c \in Codes : c \in hw <=> IF c = x THEN press ELSE c \in p.hw
      BY <2>3
    <3>4. down = {Mapped(dev, c) : c \in p.hw}
      BY <2>2, <3>1 DEF Raw
    <3> HIDE DEF b, press, down
    <3>5. CASE press
      <4>1. hw = p.hw \cup {x}
        BY <2>2, <2>4, <3>3, <3>5
      <4> QED BY <3>4, <3>5, <4>1 DEF Changed, b
    <3>6. CASE ~press
      <4>1. hw = p.hw \ {x}
        BY <2>2, <2>4, <3>3, <3>6
      <4>2. {Mapped(dev, c) : c \in p.hw \ {x}} = {Mapped(dev, c) : c \in p.hw} \ {b}
        BY <2>2, <3>2 DEF b
      <4> QED BY <3>4, <3>6, <4>1, <4>2 DEF Changed
    <3> QED BY <3>5, <3>6
  <2>10. dev.hw = {} => ~press /\ down = {b}
    <3>1. ASSUME hw = {} PROVE down = {b}
      <4>1. p.hw = {x}
        BY <2>2, <2>3, <3>1
      <4> QED BY <2>5, <4>1 DEF Raw, Mapped
    <3> QED BY <2>5, <3>1
  <2> HIDE DEF press, b, down
  <2>11. /\ Layer(u, Changed(down, b, press)) /\ u.hw = dev.hw /\ u.last = dev.last
         /\ dev.hw # {} => u.left = dev.left
         /\ ~Clashes(u)
    <3>0. ~Clashes(dev)
      BY <2>5, ClashSpreads DEF PointerInv
    <3>1. Pending(dev, down, b, press)
      BY <2>7, <2>8, <2>10, <3>0 DEF Pending
    <3>2. Handled(dev, u, Changed(down, b, press))
      BY <3>1, PhysicalLayer
    <3> QED BY <3>2 DEF Handled
  <2> HIDE DEF u
  <2>12. HandleState(dev, grace) = [u EXCEPT !.last = u.hw]
    <3>1. \A c \in Codes : (c \in dev.hw) # (c \in dev.last) <=> c = x
      BY <2>3, <2>5
    <3>2. NotifyPhysicalButton(dev, Mapped(dev, x), x \in dev.hw, grace) = u
      BY <2>5 DEF u, b, press
    <3> QED BY <2>11, <3>1, <3>2, HandleOne
  <2>13. u \in Devices
    BY <2>11 DEF Layer, Told
  <2>14. /\ p' \in Devices /\ p'.hw = u.hw /\ p'.last = u.hw /\ p'.left = u.left
         /\ p'.set = u.set /\ p'.lockState = u.lockState /\ p'.scroll = u.scroll
         /\ p'.count = u.count /\ p'.pressed = u.pressed /\ p'.redundant = u.redundant
         /\ p'.bug = u.bug /\ p'.aborted = u.aborted /\ p'.mid = u.mid
         /\ p'.midTimer = u.midTimer /\ p'.midOn = u.midOn /\ p'.mask = u.mask
         /\ p'.midWant = u.midWant /\ p'.want = u.want
    BY <2>6, <2>12, <2>13 DEF Devices
  <2>15. Layer(p', Changed(down, b, press))
    BY <2>11, <2>14, LayerAgrees
  <2>16. {Mapped(p', c) : c \in p'.hw} = Changed(down, b, press)
    <3>1. CASE hw = {}
      BY <2>5, <2>9, <2>11, <2>14, <3>1
    <3>2. CASE hw # {}
      <4>1. p'.left = dev.left /\ p'.hw = hw
        BY <2>5, <2>11, <2>14, <3>2
      <4>2. \A c : Mapped(p', c) = Mapped(dev, c)
        BY <4>1 DEF Mapped
      <4> QED BY <2>9, <4>1, <4>2
    <3> QED BY <3>1, <3>2
  <2>17. Raw(p)' = {Mapped(p', c) : c \in p'.hw}
    BY DEF Raw
  <2>18. ~Clashes(p')
    BY <2>11, <2>14, ClashSpreads
  <2> QED BY <1>2, <2>14, <2>15, <2>16, <2>17, <2>18 DEF PointerInv
<1> QED BY <1>3, <1>4

\* A waiting button is let through.
LEMMA MiddleTimeoutInv ==
  ASSUME PointerInv, NEW grace, MiddleTimeout(grace)
  PROVE  PointerInv'
<1> DEFINE dev == [p EXCEPT !.midTimer = FALSE]
           e == TimeoutEvent
           n == Times(p.mid, p.mask)
           t == "PASSTHROUGH"
<1>1. p.midTimer /\ p' = MiddleEvent(dev, e, grace) /\ kernel' = kernel /\ suspended' = suspended
  BY DEF MiddleTimeout
<1>2. /\ p.mid \in TimedStates /\ p.midOn /\ p.mask = Raw(p) /\ Told(p, n) /\ p \in Devices
      /\ Emulating(p.mid, p.mask)
  BY <1>1 DEF PointerInv, Layer, TimedStates, Told
<1>3. PICK own \in Sides : p.mid = DownState(own)
  BY <1>2 DEF TimedStates, Sides, LEFT, RIGHT, DownState
<1>4. p.mask \cap Sides = {own}
  <2>1. Emulating(DownState(own), p.mask)
    BY <1>2, <1>3
  <2> QED BY <2>1, EmulatingNames
<1>5. p.hw # {}
  BY <1>2, <1>4 DEF Raw
<1>6. /\ Layer(dev, Raw(p)) /\ dev.mid = p.mid /\ dev.mask = p.mask /\ dev.midTimer = FALSE
      /\ dev.hw = p.hw /\ dev.last = p.last /\ dev.left = p.left /\ dev.midOn = p.midOn
      /\ dev.midWant = p.midWant /\ dev.set = p.set /\ dev.want = p.want
  <2>1. /\ dev \in Devices /\ dev.mid = p.mid /\ dev.mask = p.mask /\ dev.midTimer = FALSE
        /\ dev.hw = p.hw /\ dev.last = p.last /\ dev.left = p.left /\ dev.midOn = p.midOn
        /\ dev.midWant = p.midWant /\ dev.want = p.want
        /\ dev.set = p.set /\ dev.lockState = p.lockState /\ dev.scroll = p.scroll
        /\ dev.count = p.count /\ dev.pressed = p.pressed /\ dev.redundant = p.redundant
        /\ dev.bug = p.bug /\ dev.aborted = p.aborted
    BY <1>2 DEF Devices
  <2> HIDE DEF dev
  <2>2. \A m : Told(p, m) => Told(dev, m)
    BY <2>1 DEF Told
  <2>3. Layer(dev, Raw(p))
    BY <2>1, <2>2 DEF PointerInv, Layer
  <2> QED BY <2>1, <2>3
<1> HIDE DEF dev
<1>7. LET r == MiddleReaction(dev.mid, e)
      IN  r.to = t /\ r.post = <<Press(own)>> /\ r.error = FALSE
  <2>1. MiddleReaction(dev.mid, e) = OneDown(own, e)
    BY <1>3, <1>6, ReactionNames
  <2>2. OneDown(own, e).to = t /\ OneDown(own, e).post = <<Press(own)>> /\ OneDown(own, e).error = FALSE
    BY DEF OneDown, TimeoutEvent, Posting, Keep
  <2> QED BY <2>1, <2>2
<1>8. /\ own \in Codes /\ p.mask \in SUBSET Codes /\ p.mid \in MiddleStates \ {"MIDDLE"}
      /\ Withheld(p.mid) = {own} /\ t \in MiddleStates \ {"MIDDLE"} /\ Withheld(t) = {}
      /\ own \in p.mask
  BY <1>2, <1>3, <1>4, StateNames DEF MiddleStates, Devices
<1> HIDE DEF t
<1>9. Times(t, p.mask) = More(n, own) /\ n[own] = 0
  BY <1>8, TimesGiven
<1>10. Told(p', More(n, own)) /\ LeadsTo(dev, p', t)
  <2>1. Told(dev, n)
    BY <1>2, <1>6 DEF Layer
  <2>2. Sound(dev, MiddleReaction(dev.mid, e)) /\ Target(dev, MiddleReaction(dev.mid, e)) = t
    BY <1>6, <1>7, <1>8 DEF Sound, Target, t
  <2> HIDE DEF n, e
  <2> QED BY <1>1, <1>7, <1>8, <1>9, <2>1, <2>2, PressStep
<1>11. Raw(p)' = Raw(p)
  <2>1. p'.hw = p.hw /\ p'.left = p.left
    BY <1>5, <1>6, <1>10 DEF LeadsTo
  <2> QED BY <2>1 DEF Raw, Mapped
<1>12. Emulating(t, p.mask)
  BY <1>8, EmulatingNames DEF t
<1>13. Layer(p', Raw(p))
  BY <1>2, <1>6, <1>9, <1>10, <1>12 DEF Layer, LeadsTo
<1>14. ~Clashes(p')
  BY <1>6, <1>10, ClashSpreads DEF PointerInv, LeadsTo
<1> QED BY <1>1, <1>6, <1>10, <1>11, <1>13, <1>14 DEF PointerInv, LeadsTo

LEMMA ScrollTimeoutInv ==
  ASSUME PointerInv, ScrollTimeout
  PROVE  PointerInv'
<1>1. p \in Devices
  BY DEF PointerInv, Layer, Told
<1>2. p' = [p EXCEPT !.scrollTimer = FALSE, !.scroll = "READY"]
  BY DEF ScrollTimeout
<1>3. /\ p' \in Devices /\ p'.hw = p.hw /\ p'.last = p.last /\ p'.left = p.left
      /\ p'.set = p.set /\ p'.lockState = p.lockState /\ p'.scroll = "READY"
      /\ p'.count = p.count /\ p'.pressed = p.pressed /\ p'.redundant = p.redundant
      /\ p'.bug = p.bug /\ p'.aborted = p.aborted /\ p'.mid = p.mid
      /\ p'.midTimer = p.midTimer /\ p'.midOn = p.midOn /\ p'.mask = p.mask
      /\ p'.midWant = p.midWant /\ p'.want = p.want
  BY <1>1, <1>2 DEF Devices, ScrollStates
<1>4. \A n : Told(p, n) => Told(p', n)
  BY <1>3 DEF Told
<1>5. Raw(p)' = Raw(p)
  BY <1>3 DEF Raw, Mapped
<1>6. Layer(p', Raw(p))
  BY <1>3, <1>4 DEF PointerInv, Layer
<1>7. ~Clashes(p')
  BY <1>3, ClashSpreads DEF PointerInv
<1> QED BY <1>3, <1>5, <1>6, <1>7 DEF PointerInv, ScrollTimeout

LEMMA MotionInv ==
  ASSUME PointerInv, Motion
  PROVE  PointerInv'
<1>1. p \in Devices
  BY DEF PointerInv, Layer, Told
<1>2. p' = [p EXCEPT !.scroll = "SCROLLING"]
  BY DEF Motion
<1>3. /\ p' \in Devices /\ p'.hw = p.hw /\ p'.last = p.last /\ p'.left = p.left
      /\ p'.set = p.set /\ p'.lockState = p.lockState /\ p'.scroll = "SCROLLING"
      /\ p'.count = p.count /\ p'.pressed = p.pressed /\ p'.redundant = p.redundant
      /\ p'.bug = p.bug /\ p'.aborted = p.aborted /\ p'.mid = p.mid
      /\ p'.midTimer = p.midTimer /\ p'.midOn = p.midOn /\ p'.mask = p.mask
      /\ p'.midWant = p.midWant /\ p'.want = p.want
  BY <1>1, <1>2 DEF Devices, ScrollStates
<1>4. \A n : Told(p, n) => Told(p', n)
  BY <1>3 DEF Told
<1>5. Raw(p)' = Raw(p)
  BY <1>3 DEF Raw, Mapped
<1>6. Layer(p', Raw(p))
  BY <1>3, <1>4 DEF PointerInv, Layer
<1>7. ~Clashes(p')
  BY <1>3, ClashSpreads DEF PointerInv
<1> QED BY <1>3, <1>5, <1>6, <1>7 DEF PointerInv, Motion

\* The mapping changes at once only with every button up.
LEMMA SetLeftHandedInv ==
  ASSUME PointerInv, SetLeftHanded
  PROVE  PointerInv'
<1>1. p \in Devices
  BY DEF PointerInv, Layer, Told
<1>2. p' = ChangeLeftHanded([p EXCEPT !.wantLeft = ~@])
  BY DEF SetLeftHanded
<1>3. /\ p' \in Devices /\ p'.hw = p.hw /\ p'.last = p.last /\ (p.hw # {} => p'.left = p.left)
      /\ p'.set = p.set /\ p'.lockState = p.lockState /\ p'.scroll = p.scroll
      /\ p'.count = p.count /\ p'.pressed = p.pressed /\ p'.redundant = p.redundant
      /\ p'.bug = p.bug /\ p'.aborted = p.aborted /\ p'.mid = p.mid
      /\ p'.midTimer = p.midTimer /\ p'.midOn = p.midOn /\ p'.mask = p.mask
      /\ p'.midWant = p.midWant /\ p'.want = p.want
  <2> DEFINE q == [p EXCEPT !.wantLeft = ~@]
  <2>1. q \in Devices /\ q = [p EXCEPT !.wantLeft = q.wantLeft]
    BY <1>1 DEF Devices
  <2>2. p' = IF q.hw = {} THEN [q EXCEPT !.left = q.wantLeft] ELSE q
    BY <1>2 DEF ChangeLeftHanded
  <2>3. /\ q.hw = p.hw /\ q.last = p.last /\ q.left = p.left
        /\ q.set = p.set /\ q.lockState = p.lockState /\ q.scroll = p.scroll
        /\ q.count = p.count /\ q.pressed = p.pressed /\ q.redundant = p.redundant
        /\ q.bug = p.bug /\ q.aborted = p.aborted /\ q.mid = p.mid
        /\ q.midTimer = p.midTimer /\ q.midOn = p.midOn /\ q.mask = p.mask
        /\ q.midWant = p.midWant /\ q.want = p.want
    BY <1>1 DEF Devices
  <2> HIDE DEF q
  <2> QED BY <2>1, <2>2, <2>3 DEF Devices
<1>5. Raw(p)' = Raw(p)
  BY <1>3 DEF Raw, Mapped
<1>6. Layer(p', Raw(p))
  BY <1>3, LayerAgrees DEF PointerInv
<1>7. ~Clashes(p')
  BY <1>3, ClashSpreads DEF PointerInv
<1> QED BY <1>3, <1>5, <1>6, <1>7 DEF PointerInv, SetLeftHanded

LEMMA SetMiddleInv ==
  ASSUME PointerInv, Behaved, SetMiddleEmulation
  PROVE  PointerInv'
<1>1. p.hw = {} /\ p' = ApplyMiddleConfig([p EXCEPT !.midWant = ~@])
  BY DEF SetMiddleEmulation, May, Behaved
<1>2. Told(p, None) /\ p.mask = {} /\ p.mid = "IDLE" /\ p \in Devices
  BY <1>1, Quiet DEF Told
<1> DEFINE q == [p EXCEPT !.midWant = ~@]
<1>3. /\ q \in Devices /\ q.hw = p.hw /\ q.last = p.last
      /\ q.set = p.set /\ q.lockState = p.lockState /\ q.scroll = p.scroll
      /\ q.count = p.count /\ q.pressed = p.pressed /\ q.redundant = p.redundant
      /\ q.bug = p.bug /\ q.aborted = p.aborted /\ q.mid = p.mid
      /\ q.midTimer = p.midTimer /\ q.mask = p.mask
  BY <1>2 DEF Devices
<1> HIDE DEF q
<1>4. Told(q, None)
  BY <1>2, <1>3 DEF Told
<1>5. p' = ApplyMiddleConfig(q)
  BY <1>1 DEF q
<1>6. /\ Told(p', None) /\ p'.mask = q.mask /\ p'.mid = q.mid /\ p'.midTimer = q.midTimer
      /\ p'.hw = q.hw /\ p'.last = q.last
  BY <1>4, <1>5, MiddleConfigTold
<1>7. Layer(p', {})
  BY <1>2, <1>3, <1>6, QuietLayer DEF PointerInv, Layer
<1>8. Raw(p)' = {}
  BY <1>1, <1>3, <1>6 DEF Raw
<1>9. ~Clashes(p')
  BY DEF SetMiddleEmulation, Allowed, Behaved
<1> QED BY <1>1, <1>3, <1>6, <1>7, <1>8, <1>9 DEF PointerInv, SetMiddleEmulation

LEMMA SetScrollInv ==
  ASSUME PointerInv, Behaved, NEW setting \in ScrollSettings, SetScroll(setting)
  PROVE  PointerInv'
<1> DEFINE q == [p EXCEPT !.want = setting]
           n == IF p.midOn THEN Times(p.mid, p.mask) ELSE Times("IDLE", Raw(p))
<1>1. p' = ChangeScrollMethod(q) /\ p \in Devices /\ Told(p, n)
  BY DEF SetScroll, PointerInv, Layer, Told
<1>2. /\ q \in Devices /\ q.hw = p.hw /\ q.last = p.last /\ q.left = p.left
      /\ q.set = p.set /\ q.lockState = p.lockState /\ q.scroll = p.scroll
      /\ q.count = p.count /\ q.pressed = p.pressed /\ q.redundant = p.redundant
      /\ q.bug = p.bug /\ q.aborted = p.aborted /\ q.mid = p.mid
      /\ q.midTimer = p.midTimer /\ q.midOn = p.midOn /\ q.mask = p.mask
  BY <1>1 DEF Devices
<1>3. p.hw = {} => n = None
  BY Quiet, NoTimes
<1> HIDE DEF q, n
<1>4. Told(q, n) /\ (q.hw = {} => n = None)
  BY <1>1, <1>2, <1>3 DEF Told
<1>5. Told(p', n) /\ Beneath(q, p')
  BY <1>1, <1>4, ScrollMethodTold
<1>6. Layer(p', Raw(p))
  BY <1>2, <1>5 DEF PointerInv, Layer, Beneath, n
<1>7. Raw(p)' = Raw(p)
  BY <1>2, <1>5 DEF Beneath, Raw, Mapped
<1>8. ~Clashes(p')
  BY DEF SetScroll, Allowed, Behaved
<1> QED BY <1>2, <1>5, <1>6, <1>7, <1>8 DEF PointerInv, SetScroll, Beneath

LEMMA SuspendInv ==
  ASSUME PointerInv, Behaved, NEW grace, Suspend(grace)
  PROVE  PointerInv'
<1>1. p.hw = {} /\ p' = ReturnToNeutral(p, grace) /\ suspended' = TRUE /\ kernel' = kernel
  BY DEF Suspend, May, Behaved
<1>2. p' = [p EXCEPT !.hw = {}]
  BY <1>1, Quiet, ReleaseNone
<1>3. /\ p \in Devices
      /\ p' \in Devices /\ p'.hw = {} /\ p'.last = p.last /\ p'.left = p.left
      /\ p'.set = p.set /\ p'.lockState = p.lockState /\ p'.scroll = p.scroll
      /\ p'.count = p.count /\ p'.pressed = p.pressed /\ p'.redundant = p.redundant
      /\ p'.bug = p.bug /\ p'.aborted = p.aborted /\ p'.mid = p.mid
      /\ p'.midTimer = p.midTimer /\ p'.midOn = p.midOn /\ p'.mask = p.mask
      /\ p'.midWant = p.midWant /\ p'.want = p.want
  BY <1>2 DEF PointerInv, Layer, Told, Devices
<1>5. Raw(p)' = Raw(p)
  BY <1>1, <1>3 DEF Raw
<1>6. Layer(p', Raw(p))
  BY <1>3, LayerAgrees DEF PointerInv
<1>7. ~Clashes(p')
  BY <1>3, ClashSpreads DEF PointerInv
<1> QED BY <1>1, <1>3, <1>5, <1>6, <1>7 DEF PointerInv

LEMMA PointerStepInv ==
  ASSUME PointerInv, Behaved, [PointerNext]_pointerVars
  PROVE  PointerInv'
<1>1. ASSUME p' = p, kernel' \subseteq Codes, suspended' \in BOOLEAN PROVE PointerInv'
  <2>1. Raw(p)' = Raw(p) /\ Clashes(p)' = Clashes(p)
    BY <1>1 DEF Raw, Mapped, Clashes
  <2> QED BY <1>1, <2>1 DEF PointerInv
<1>2. CASE UNCHANGED pointerVars
  BY <1>1, <1>2 DEF pointerVars, PointerInv
<1>3. ASSUME NEW S \in Changes, NEW grace \in BOOLEAN, KeyFrame(S, grace) PROVE PointerInv'
  BY <1>3, KeyFrameInv
<1>4. ASSUME NEW S \in Changes, UnseenChange(S) PROVE PointerInv'
  BY <1>1, <1>4 DEF UnseenChange, Flipped, Changes, PointerInv
<1>5. ASSUME NEW grace \in BOOLEAN, MiddleTimeout(grace) PROVE PointerInv'
  BY <1>5, MiddleTimeoutInv
<1>6. ASSUME NEW setting \in ScrollSettings, SetScroll(setting) PROVE PointerInv'
  BY <1>6, SetScrollInv
<1>7. ASSUME NEW grace \in BOOLEAN, Suspend(grace) PROVE PointerInv'
  BY <1>7, SuspendInv
<1>8. CASE Resume
  BY <1>1, <1>8 DEF Resume, PointerInv
<1> QED BY <1>2, <1>3, <1>4, <1>5, <1>6, <1>7, <1>8, ScrollTimeoutInv, MotionInv,
           SetLeftHandedInv, SetMiddleInv DEF PointerNext

(* PointerInv holds in every reachable state of a mouse for any buttons,   *)
(* any order of their codes and any set of scroll settings, where frames   *)
(* change one button, emulation and suspension change with the buttons up, *)
(* and the middle button does not scroll while it is emulated: mapping,    *)
(* emulation, scroll button with its lock and key counts agree on which    *)
(* buttons are down, whatever frames, timers, configuration calls and      *)
(* suspensions come.                                                       *)
THEOREM PointerInvariant == Behaved /\ PointerSpec => []PointerInv
<1> SUFFICES ASSUME Behaved PROVE PointerSpec => []PointerInv
  OBVIOUS
<1>1. PointerInit => PointerInv
  BY PointerInitInv
<1>2. PointerInv /\ [PointerNext]_pointerVars => PointerInv'
  BY PointerStepInv
<1> QED BY <1>1, <1>2, PTL DEF PointerSpec

LEMMA InvProperties ==
  ASSUME PointerInv
  PROVE  NoBugReached /\ ClientAlternates /\ NoStuckButton
<1>1. PointerTypeOK
  BY DEF PointerInv, Layer, Told, Devices, PointerTypeOK
<1>2. ~p.bug /\ ~p.aborted /\ ~p.redundant
  BY DEF PointerInv, Layer, Told
<1>3. NoStuckButton
  BY Quiet DEF NoStuckButton
<1> QED BY <1>1, <1>2, <1>3 DEF NoBugReached, ClientAlternates

(* No log_bug of the emulation or of evdev_pointer_post_button is written  *)
(* and no assertion of the scroll lock fails.                              *)
THEOREM NoBugReachedHolds == Behaved /\ PointerSpec => []NoBugReached
  BY PointerInvariant, InvProperties, PTL

(* The client sees presses and releases of each button alternate: the      *)
(* counts of evdev_pointer_post_button let only the first press and the    *)
(* last release through.                                                   *)
THEOREM ClientAlternatesHolds == Behaved /\ PointerSpec => []ClientAlternates
  BY PointerInvariant, InvProperties, PTL

(* Once every button is up, nothing is pressed at the client and neither   *)
(* the emulation's mask nor a key count still holds a button.              *)
THEOREM NoStuckButtonHolds == Behaved /\ PointerSpec => []NoStuckButton
  BY PointerInvariant, InvProperties, PTL
================================================================================
