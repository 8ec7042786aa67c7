---------------------------- MODULE PointerButtons ----------------------------
(***************************************************************************)
(* The buttons of a mouse from the kernel to the client: the key masks of  *)
(* the fallback dispatch (src/evdev-fallback.c), the left-handed mapping,  *)
(* the middle button emulation (src/evdev-middle-button.c), on-button      *)
(* scrolling with its lock and the key counts (src/evdev.c), with the      *)
(* configuration calls and the suspension that may come at any time.       *)
(*                                                                         *)
(* A kernel frame is the set of the buttons it changes.  Behind the        *)
(* debounce plugin a frame changes one button at a time (MaxChanges = 1),  *)
(* on a device without that plugin it may change several.  The two timers  *)
(* fire at any moment while they are armed: their delays do not matter to  *)
(* the properties.  Key repeat, time stamps and the other event types are  *)
(* left out.                                                               *)
(***************************************************************************)
EXTENDS Naturals, FiniteSets, Sequences, SequencesExt, MiddleButton

CONSTANTS
  CodeOrder,       \* the buttons of the device in the order of their codes
  Dedicated,       \* buttons from BTN_LEFT + 5 on: they scroll without delay
  NoScrollButton,  \* scroll.button when none is set
  ScrollSettings,  \* the values the scroll configuration is given
  MaxChanges,      \* bound: how many buttons one frame changes
  WhileHeld,       \* the operations that also come while a button is held
  MiddleScrolls    \* the middle button also scrolls while it is emulated

Codes == ToSet(CodeOrder)

Operations == {"left_handed", "middle", "scroll", "suspend"}

ASSUME PointerAssumption ==
  /\ Sides \cup {MIDDLE} \subseteq Codes
  /\ Dedicated \subseteq Codes /\ NoScrollButton \notin Codes
  /\ ScrollSettings \subseteq
       [method : {"none", "on_button"}, button : Codes \cup {NoScrollButton}, lock : BOOLEAN]
  /\ CodeOrder \in Seq(Codes)
  /\ \A i, j \in DOMAIN CodeOrder : CodeOrder[i] = CodeOrder[j] => i = j
  /\ MaxChanges \in Nat /\ WhileHeld \subseteq Operations
  /\ MiddleScrolls \in BOOLEAN

VARIABLES
  kernel,     \* the buttons that are down in the kernel's view
  suspended,  \* the device has no file descriptor
  p           \* struct evdev_device and its fallback_dispatch

pointerVars == <<kernel, suspended, p>>

LockStates   == {"DISABLED", "IDLE", "FIRSTDOWN", "FIRSTUP", "SECONDDOWN"}
ScrollStates == {"IDLE", "BUTTON_DOWN", "READY", "SCROLLING"}

LockFor(setting) == IF setting.lock THEN "IDLE" ELSE "DISABLED"

(* A device as fallback_dispatch_create leaves it.  `pressed' is what the  *)
(* client has been told, `redundant' that it was told to press a button    *)
(* that is down or to release one that is up, `bug' that a log_bug was     *)
(* written and `aborted' that an assertion failed.                         *)
NewPointer(emulate, setting) ==
  [hw |-> {}, last |-> {},
   left |-> FALSE, wantLeft |-> FALSE,
   mid |-> "IDLE", midTimer |-> FALSE, midOn |-> emulate,
   midWant |-> emulate, mask |-> {},
   set |-> setting, want |-> setting, lockState |-> "DISABLED",
   scroll |-> "IDLE", scrollTimer |-> FALSE,
   count |-> [b \in Codes |-> 0],
   pressed |-> {}, redundant |-> FALSE, bug |-> FALSE, aborted |-> FALSE]

-----------------------------------------------------------------------------
(* Delayed configuration: a change waits until no button is down.          *)

ChangeLeftHanded(dev) ==
  IF dev.hw = {} THEN [dev EXCEPT !.left = dev.wantLeft] ELSE dev

\* Only a change of some setting resets the lock.
ChangeScrollMethod(dev) ==
  IF dev.hw = {} /\ dev.want # dev.set
    THEN [dev EXCEPT !.set = dev.want, !.lockState = LockFor(dev.want)]
    ELSE dev

ApplyMiddleConfig(dev) ==
  IF dev.mask = {} THEN [dev EXCEPT !.midOn = dev.midWant] ELSE dev

-----------------------------------------------------------------------------
\* Slip: every press reaches the client.
PostEveryPress(dev, b) ==
  [dev EXCEPT !.count[b] = @ + 1, !.pressed = @ \cup {b},
              !.redundant = @ \/ b \in dev.pressed]

(* evdev_pointer_post_button: the first press and the last release of a    *)
(* button reach the client, a release also applies pending configuration.  *)
PostPress(dev, b) ==
  LET first == dev.count[b] = 0
  IN  [dev EXCEPT !.count[b] = @ + 1,
                  !.pressed = IF first THEN @ \cup {b} ELSE @,
                  !.redundant = @ \/ (first /\ b \in dev.pressed)]

PostRelease(dev, b) ==
  LET counted == [dev EXCEPT !.count[b] = IF @ > 0 THEN @ - 1 ELSE 0,
                             !.bug = @ \/ dev.count[b] = 0]
      told    == [counted EXCEPT !.pressed = @ \ {b},
                                 !.redundant = @ \/ b \notin dev.pressed]
  IN  IF counted.count[b] > 0
        THEN counted
        ELSE ChangeScrollMethod(ChangeLeftHanded(told))

PostButton(dev, b, press) ==
  IF press THEN PostPress(dev, b) ELSE PostRelease(dev, b)

(* The part of evdev_button_scroll_button below the lock. *)
ScrollPress(dev) ==
  IF dev.set.button \in Dedicated
    THEN [dev EXCEPT !.scroll = "READY"]
    ELSE [dev EXCEPT !.scroll = "BUTTON_DOWN", !.scrollTimer = TRUE]

ScrollRelease(dev) ==
  LET b == dev.set.button
      quiet == [dev EXCEPT !.scrollTimer = FALSE]
      done ==
        CASE dev.scroll = "IDLE" -> [quiet EXCEPT !.bug = TRUE]
          [] dev.scroll \in {"BUTTON_DOWN", "READY"} ->
               PostRelease(PostPress(quiet, b), b)
          [] OTHER -> quiet
  IN  [done EXCEPT !.scroll = "IDLE"]

Abort(dev) == [dev EXCEPT !.aborted = TRUE]

Lock(dev, s) == [dev EXCEPT !.lockState = s]

(* evdev_button_scroll_button; `grace' is that the button has been down    *)
(* for SCROLL_BUTTON_LOCK_GRACE_TIMEOUT.                                   *)
ScrollButton(dev, press, grace) ==
  CASE dev.lockState = "DISABLED" ->
         IF press THEN ScrollPress(dev) ELSE ScrollRelease(dev)
    [] dev.lockState = "IDLE" /\ press -> ScrollPress(Lock(dev, "FIRSTDOWN"))
    [] dev.lockState = "FIRSTDOWN" /\ ~press ->
         IF dev.scroll = "SCROLLING" /\ grace
           THEN ScrollRelease(Lock(dev, "IDLE"))
           ELSE Lock(dev, "FIRSTUP")
    [] dev.lockState = "FIRSTUP" /\ press -> Lock(dev, "SECONDDOWN")
    [] dev.lockState = "SECONDDOWN" /\ ~press -> ScrollRelease(Lock(dev, "IDLE"))
    [] OTHER -> Abort(dev)

(* evdev_pointer_notify_button *)
NotifyButton(dev, b, press, grace) ==
  IF dev.set.method = "on_button" /\ dev.set.button = b
    THEN ScrollButton(dev, press, grace)
    ELSE PostButton(dev, b, press)

(* evdev_middlebutton_handle_event: what the state posts, then its timer.  *)
MiddleEvent(dev, e, grace) ==
  LET r == MiddleReaction(dev.mid, e)
      posted[i \in 0..Len(r.post)] ==
        IF i = 0 THEN dev
        ELSE NotifyButton(posted[i - 1], r.post[i].button, r.post[i].press, grace)
      done == posted[Len(r.post)]
      moved == IF r.to = "same" THEN done
               ELSE [done EXCEPT !.mid = r.to, !.midTimer = r.to \in TimedStates]
  IN  [moved EXCEPT !.bug = @ \/ r.error]

(* evdev_middlebutton_filter_button, for an enabled emulation. *)
FilterButton(dev, b, press, grace) ==
  LET n == MiddleEvent(dev, ButtonEvent(b, press), grace)
      m == [n EXCEPT !.mask = IF press THEN @ \cup {b} ELSE @ \ {b}]
  IN  IF m.mask = {} /\ n.mask # {}
        THEN ApplyMiddleConfig(MiddleEvent(m, AllUpEvent, grace))
        ELSE m

(* evdev_pointer_notify_physical_button *)
NotifyPhysicalButton(dev, b, press, grace) ==
  IF ~dev.midOn
    THEN NotifyButton(dev, b, press, grace)
    ELSE LET n == FilterButton(dev, b, press, grace)
         IN  IF MiddleReaction(dev.mid, ButtonEvent(b, press)).pass
               THEN NotifyButton(n, b, press, grace)
               ELSE n

Mapped(dev, b) == IF dev.left /\ b \in Sides THEN Other(b) ELSE b

(* fallback_handle_state: every button whose bit changed, in code order.   *)
NotifyChange(n, b, grace) ==
  IF (b \in n.hw) # (b \in n.last)
    THEN NotifyPhysicalButton(n, Mapped(n, b), b \in n.hw, grace)
    ELSE n

HandleState(dev, grace) ==
  LET after[i \in 0..Len(CodeOrder)] ==
        IF i = 0 THEN dev ELSE NotifyChange(after[i - 1], CodeOrder[i], grace)
      done == after[Len(CodeOrder)]
  IN  [done EXCEPT !.last = done.hw]

(* release_pressed_keys, then the key masks are cleared: both memset calls *)
(* of fallback_return_to_neutral_state name hw_key_mask.                   *)
ReleasePressed(n, b, grace) ==
  IF n.count[b] > 0 THEN NotifyButton(n, b, FALSE, grace) ELSE n

ReturnToNeutral(dev, grace) ==
  LET after[i \in 0..Len(CodeOrder)] ==
        IF i = 0 THEN dev ELSE ReleasePressed(after[i - 1], CodeOrder[i], grace)
  IN  [after[Len(CodeOrder)] EXCEPT !.hw = {}]

-----------------------------------------------------------------------------
Flipped(S) == (kernel \ S) \cup (S \ kernel)

(* Middle button emulation is on or wanted, and the middle button is or    *)
(* will be the scroll button.                                              *)
Clashes(dev) ==
  /\ dev.midOn \/ dev.midWant
  /\ \E s \in {dev.set, dev.want} : s.method = "on_button" /\ s.button = MIDDLE

\* The code lets a client ask for both, MiddleScrolls says whether one does.
Allowed(dev) == MiddleScrolls \/ ~Clashes(dev)

PointerInit ==
  /\ kernel \in SUBSET Codes
  /\ suspended = FALSE
  /\ \E emulate \in BOOLEAN, setting \in {s \in ScrollSettings : ~s.lock} :
       p = NewPointer(emulate, setting)
  /\ Allowed(p)

(* A frame with the changes of the buttons in S: fallback_process_key      *)
(* drops the ones hw_key_mask already has (a release of a button that was  *)
(* held when the device was opened), then the SYN_REPORT.                  *)
KeyFrame(S, grace) ==
  /\ ~suspended
  /\ kernel' = Flipped(S)
  /\ LET fresh == {b \in S : (b \in kernel) = (b \in p.hw)}
         hw == (p.hw \ S) \cup {b \in S : b \in kernel'}
     IN  p' = IF fresh = {} THEN p
              ELSE HandleState([p EXCEPT !.hw = hw], grace)
  /\ UNCHANGED suspended

\* The kernel state changes while nobody reads the device.
UnseenChange(S) ==
  /\ suspended
  /\ kernel' = Flipped(S)
  /\ UNCHANGED <<suspended, p>>

MiddleTimeout(grace) ==
  /\ p.midTimer
  /\ p' = MiddleEvent([p EXCEPT !.midTimer = FALSE], TimeoutEvent, grace)
  /\ UNCHANGED <<kernel, suspended>>

(* evdev_button_scroll_timeout *)
ScrollTimeout ==
  /\ p.scrollTimer
  /\ p' = [p EXCEPT !.scrollTimer = FALSE, !.scroll = "READY"]
  /\ UNCHANGED <<kernel, suspended>>

(* post_button_scroll, for relative motion. *)
Motion ==
  /\ ~suspended
  /\ p.set.method = "on_button" /\ p.scroll = "READY"
  /\ p' = [p EXCEPT !.scroll = "SCROLLING"]
  /\ UNCHANGED <<kernel, suspended>>

\* An operation comes while the buttons are up, or at any time.
May(operation) == operation \in WhileHeld \/ p.hw = {}

SetLeftHanded ==
  /\ May("left_handed")
  /\ p' = ChangeLeftHanded([p EXCEPT !.wantLeft = ~@])
  /\ UNCHANGED <<kernel, suspended>>

(* evdev_middlebutton_set *)
SetMiddleEmulation ==
  /\ May("middle")
  /\ p' = ApplyMiddleConfig([p EXCEPT !.midWant = ~@])
  /\ Allowed(p')
  /\ UNCHANGED <<kernel, suspended>>

(* evdev_scroll_set_method, _set_button and _set_button_lock each set a    *)
(* part of the wanted setting and apply all of it if they can: one step    *)
(* stands for one or several of these calls in a row.                      *)
SetScroll(setting) ==
  /\ May("scroll")
  /\ p' = ChangeScrollMethod([p EXCEPT !.want = setting])
  /\ Allowed(p')
  /\ UNCHANGED <<kernel, suspended>>

(* evdev_device_suspend *)
Suspend(grace) ==
  /\ ~suspended
  /\ May("suspend")
  /\ suspended' = TRUE
  /\ p' = ReturnToNeutral(p, grace)
  /\ UNCHANGED kernel

(* evdev_device_resume drops the events of the sync. *)
Resume ==
  /\ suspended
  /\ suspended' = FALSE
  /\ UNCHANGED <<kernel, p>>

Changes == {S \in SUBSET Codes : Cardinality(S) \in 1..MaxChanges}

PointerNext ==
  \/ \E S \in Changes, grace \in BOOLEAN : KeyFrame(S, grace)
  \/ \E S \in Changes : UnseenChange(S)
  \/ \E grace \in BOOLEAN : MiddleTimeout(grace)
  \/ ScrollTimeout
  \/ Motion
  \/ SetLeftHanded
  \/ SetMiddleEmulation
  \/ \E setting \in ScrollSettings : SetScroll(setting)
  \/ \E grace \in BOOLEAN : Suspend(grace)
  \/ Resume

PointerSpec == PointerInit /\ [][PointerNext]_pointerVars

-----------------------------------------------------------------------------
(* The values the variables can have.                                      *)
PointerTypeOK ==
  /\ kernel \subseteq Codes
  /\ suspended \in BOOLEAN
  /\ p.hw \subseteq Codes /\ p.last \subseteq Codes
  /\ p.left \in BOOLEAN /\ p.wantLeft \in BOOLEAN
  /\ p.mid \in MiddleStates /\ p.midTimer \in BOOLEAN
  /\ p.midOn \in BOOLEAN /\ p.midWant \in BOOLEAN /\ p.mask \subseteq Codes
  /\ {p.set, p.want} \subseteq ScrollSettings
  /\ p.lockState \in LockStates /\ p.scroll \in ScrollStates
  /\ p.scrollTimer \in BOOLEAN
  /\ p.count \in [Codes -> 0..2]
  /\ p.pressed \subseteq Codes
  /\ {p.redundant, p.bug, p.aborted} \subseteq BOOLEAN

(* No state machine gets an event it reports as a bug, no key is released  *)
(* with a count of 0, and no assertion of the scroll lock fails, although  *)
(* mapping, scroll settings and lock change under the buttons' feet.       *)
NoBugReached == PointerTypeOK /\ ~p.bug /\ ~p.aborted

(* The client sees the presses and releases of each button alternate,      *)
(* also when a physical and an emulated middle button overlap.             *)
ClientAlternates == ~p.redundant

(* With every button up nothing stays pressed at the client and no layer   *)
(* still counts a button.                                                  *)
NoStuckButton ==
  p.hw = {} => p.pressed = {} /\ p.mask = {} /\ \A b \in Codes : p.count[b] = 0

=============================================================================
