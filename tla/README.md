# libinput in TLA+

libinput turns the events of the kernel's input devices into the events that
Wayland compositors and the X server work with. Most of it is written as state
machines that are fed kernel frames, timeouts, the effects of other devices and
configuration calls in any order. This directory models the parts of it where
that order matters, checks them with TLC and proves some of the results with
TLAPS for every value of the constants.

## The system

libinput runs in one thread. The caller polls an epoll descriptor and calls
`libinput_dispatch`, which hands out device descriptors and one timerfd; the
callbacks run to completion. There are no data races, and what is hard is order:
a timer that expired before a frame is handled after it, a device is
reconfigured or suspended between a press and its release, several fingers
change in one frame, and one device's events change the state of another.

A kernel frame takes this way:

    kernel -> evdev.c (libevdev, frames) -> plugin chain (libinput-plugin.c)
           -> mtdev, forced tool, double tool, proximity timer, eraser button,
              wheel, button debouncing, ...  -> the last plugin (evdev-plugin.c)
           -> the device's dispatch: fallback (mice, keyboards), touchpad,
              tablet, pad, totem
           -> event queue (libinput.c) -> client

Within a touchpad's frame `tp_handle_state` runs tp_pre_process_state (touches),
tp_process_state (thumbs, palms, scroll and button machines), tp_post_events
(clicks, taps, gestures, scrolling) and tp_post_process_state, each a walk over
the touches.

| component | state it keeps | operations | what is hard | what makes it correct | modules |
|---|---|---|---|---|---|
| timers (`timer.c`) | a list of armed timers, one timerfd | set, cancel, dispatch, flush | expiry in list order, callbacks that set and cancel others | an expired timer fires once; frames and timers in order | `TimerList` |
| button debouncing (`libinput-plugin-button-debounce.c`) | a state, two timers, the current button | frames, two timeouts, feature switch, hotplug | late timers and frames, another button, several changes in a frame | presses and releases alternate, nothing is withheld for good | `ButtonDebounce` |
| middle button emulation (`evdev-middle-button.c`) | a state, a timer, a mask of held buttons | button changes, timeout, configuration | the ignored releases after a chord | an emulated button excludes the ones it stands for | `MiddleButton`, `PointerButtons` |
| pointer buttons (`evdev-fallback.c`, `evdev.c`) | key masks, key counts, left-handed mapping, scroll button and lock | frames, timeouts, configuration, suspend and resume | overlapping presses of one button, delayed configuration | every press has one release, mapped alike; nothing sticks | `PointerButtons` |
| touchpad core (`evdev-mt-touchpad.c`) | slot touches, fake touches, the count of fingers down | slot events, count keys, frames, suspension | slots and count keys that contradict each other, hovering, restored touches | the count is that of the touches; the touches are the fingers; nothing is left behind | `TouchpadTouches` |
| touchpad suspension (`evdev-mt-touchpad.c`, `evdev.c`) | a set of reasons, the device's descriptor, the count of slots | lid, tablet switch, mice, send-events mode, hotplug | four independent reasons that follow other devices; reopening may fail | suspended exactly while a reason holds; no touch survives | `TouchpadSuspend`, `SilentWhileSuspended` |
| disable while typing and trackpointing (`evdev-mt-touchpad.c`) | key and modifier masks, two timers, palms, one flag that suspends tapping | keys, trackpoint motion, timeouts, settings, hotplug | one flag with two owners; keyboards that go with keys held | taps always come back; palms stay palms | `TouchpadTyping` |
| touchpad tapping (`evdev-mt-touchpad-tap.c`) | a state, a timer, a count of fingers, pressed buttons | per-touch events, button, timeout, configuration, suspension | several touches in one frame, fingers that become palms or thumbs | the count agrees with the touches, the buttons with the state | `TouchpadTap` |
| touchpad buttons (`evdev-mt-touchpad-buttons.c`) | a state and a timer per touch, the active button, the trackpoint that takes the top buttons | areas, clicks, click methods, emulation, suspension | a click that waits for a touch; suspension, method and trackpoint changing while it is held | press and release name one button of one device; a click is never left without one | `TouchpadClicks` |
| touchpad gestures (`evdev-mt-touchpad-gestures.c`) | a state, six timers, a finger count with a pending successor, what the client has open | frames, timeouts, taps, clicks, typing, settings, suspension | finger counts that change within a gesture; cancelling from outside | begin, updates and one end; everything open is closed | `TouchpadGestures` |
| edge and circular scrolling, thumbs, palms (`evdev-mt-touchpad-edge-scroll.c`, `-circular-scroll.c`, `-thumb.c`) | a machine, a timer and a thumb state per touch | frames, timers, clicks, typing, pens, settings, suspension | a scroll whose finger is lifted, clicked, taken for a palm; timers that come late | every scroll ends with a zero; no lone finger stays a thumb | `TouchpadScroll` |
| tablet (`evdev-tablet.c`) and its four plugins (`libinput-plugin-tablet-*.c`) | tool, tip, buttons, area; a timer or a tool state per plugin; the touch screen that is arbitrated | frames, three timers, settings, suspension | proximity that never comes, never goes or comes twice | every event lies between proximity in and out, and the pen that left is reported gone | `Tablet`, `TabletPlugins` |
| plugin system (`libinput-plugin.c`) | a queue of frames | frame, prepend, inject | breadth-first replay | no frame is lost, order is kept | in `Tablet` and `ButtonDebounce` |
| context, events, seats (`libinput.c`, `udev-seat.c`, `path-seat.c`) | event ring, reference counts, seat key counts, device lists | dispatch, get event, suspend, resume, hotplug, change of seat | events that outlive their device, a hotplug between any two steps | nothing is used after its last reference; one device per node; order | `Context`, `EventRing`, `EventQueue` |
| tablet pad, LEDs, totem | buttons, rings, mode groups | frames | mode toggles | - | not modelled |
| wheel plugin | a state per axis, a timer | frames, timeouts | - | - | not modelled |
| pointer acceleration (`filter*.c`) | trackers | a function of time and motion | floating point | - | not modelled: out of TLC's reach |
| quirks, utilities, Lua binding, tools | - | parsing, printing, bindings | - | - | not modelled: sequential, no state of their own |

## Modules

A specification is a module of its own. `MC...` modules give its constants values
for TLC, `...Proofs` modules hold the theorems about it. Operators called *slips*
(each preceded by a comment that begins so) are not part of a specification: each
is a plausible mistake in the code, used to confirm that a property would notice
it.

`TimerList` is the list of `timer.c` as a value. A timer that is newly armed goes
to the head of the list and the handler fires the first *expired timer in list
order*; expiries are relative to the current time, so no clock has to be bounded.

`ButtonDebounce` models the debouncing plugin of one device. `d` is
`struct plugin_device` with its two timers and what has been sent downstream,
`physical` the kernel's view. The nine operators `IsUp` ... `IsDownDelaying` are
the nine state handlers, `Disabled` the tenth; each returns the next state, the
timers it sets and cancels and the notification. `React` is
`debounce_handle_event`, `OneChange` and `TwoChanges` are
`debounce_plugin_handle_frame` with its flushes before and after. A frame is
handled up to `MaxLag` ticks after it was stamped (`age`), because the timers
count from the time stamp and not from the moment of handling.

`MiddleButton` is the table of `evdev-middle-button.c`; the left and the right
half of the machine are mirror images and share a row. `PointerButtons` puts it
between the key masks of the fallback dispatch and the key counts of `evdev.c`,
with the left-handed mapping, on-button scrolling and its lock. `p` is
`struct evdev_device` with its dispatch. One action is one kernel frame
(`KeyFrame`: `fallback_process_key` for every change, then `fallback_handle_state`),
one timeout, one configuration call, `Suspend` or `Resume`. `WhileHeld` says
which calls also come while a button is held.

`TouchpadTouches` models the life of the touches. `kernel` is the open frame,
`pad` the touches of `struct tp_dispatch`. One action is one event of a frame:
`SlotBegins`, `SlotEnds`, `Moves`, `Keys`; `Report` is the SYN_REPORT on which
`PreProcess` (fake touches, the Synaptics and ALPS corrections, hovering by
BTN_TOUCH, pressure or size) and `PostProcess` run; `Suspend` and `Resume` clear
the touches. `Fits` says which frames a kernel completes.

`TouchpadClicks` composes the button machine of every touch with these touches:
its actions are those of `TouchpadTouches`, extended by where a touch is
(`spot`), what its machine does (`ButtonsHandled`), and what a click becomes
(`Post`, `Notify`). `client` is the monitor of what the client of the touchpad
and of the trackpoint holds down.

`TouchpadTap` models tapping. `tp_tap_handle_state` walks over the touches in the
order of their index and feeds at most one event per touch to the state machine:
`FrameBegin`, one `TouchStep` per touch (nothing, begin, end, palm, thumb,
motion) and `FrameEnd`, where the assertions stand. Nothing else happens in the
middle of a walk. A state of the code such as `TAP_STATE_2FGTAP_DRAGGING` is
`DRAGGING` with `n = 2`. `Timeout` may come at any moment while the timer is
armed.

`TouchpadGestures` models the gesture machine. A frame says how many touches are
active and what their motion amounts to, as far as
`tp_gesture_detect_motion_gestures` can make that of so many fingers. `g` is
`tp->gesture` with its six timers, `client` the monitor of what the client has
been told. Of tapping only the kind of state matters here, and of the
rest of the touchpad whether a click or typing interferes.

`TouchpadScroll` models which touch scrolls at an edge or on a ring, which is a
thumb, a palm or ignored, in the order `tp_handle_state` asks. A touch is at one
of a few points in mm; distances moved and speeds are inputs of the frame.

`TouchpadSuspend` models what makes a touchpad stop and start again. `tp` is the
part of `struct tp_dispatch` and its `evdev_device` that matters; `Suspended` and
`Resumed` are `tp_suspend` and `tp_resume` as functions of it, with
`evdev_device_suspend`, `evdev_device_resume`, `tp_clear_state` and
`tp_sync_slots` below them. Everything that reaches them is an action of the
device it starts from: `LidEvent` and `Key` (a key on the internal keyboard opens
a lid that is believed closed, `fallback_lid_keyboard_event`), `TabletEvent`,
`MouseEvent`, `Plug`, `Unplug`, `Disable` and `Enable` of any of them, and
`SetMode`. A listener runs in the middle of what happens to the other device, so
`Disable` is one step in which the held key or button is released, its listeners
act, and the touchpad is then told that the device is gone. `ok` is whether
`open_restricted` succeeds. `SilentWhileSuspended` is the abstract promise:
touches are reported only while there is no reason, and a change of the reasons
lifts all of them. `TouchpadSuspend` implements it, with the touches that
`tp_post_events` looks at as what is reported.

`TouchpadTyping` models disable-while-typing and disable-while-trackpointing.
`dwt` is `tp->dwt`, `trackpoint` the `trackpoint_*` fields of `tp->palm`, and
`tap_suspended` is the one flag both set through `tp_stop_actions`. `KeyPress`,
`KeyRelease` and `TrackpointEvent` are the listeners, `KeyboardTimeout` and
`TrackpointTimeout` the timers. `Disable` and `Remove` are the two ways a keyboard
goes, which differ in whether the touchpad still hears the release of the held
keys. Palms are released by comparing time stamps; the model keeps only the
outcome of the comparison, the set of touches that began `after` the last press
or motion. `resting` and `orphans` are history variables for the properties: the
palms that saw typing or trackpointing go on, and the keys that were down on a
keyboard that was removed.

`TabletPlugins` holds the four tablet plugins, each a pure function of its state
and a frame. `Tablet` puts them, the queue of `libinput-plugin.c` and their timers
in front of the tablet dispatch, one plugin per step, beside a kernel that knows
where pen and eraser are, a client that monitors the events, and the touch screen
that has to ignore the hand.

`EventRing` is the ring of `libinput_post_event` and `libinput_get_event`;
`EventQueue` the queue it implements. `Context` composes the ring with the
devices, seats and device groups and their reference counts, the two backends
(udev and path), the sources of one `epoll_wait`, and a client that holds on to
what it gets. A device that comes or goes may do so between any two steps of a
backend.

Which properties a component's hazards call for is listed under "hazards" in
`PROJECT.json`.

## Runs

| run | what it asks | bounds | states |
|---|---|---|---|
| `debounce` | do bouncing buttons, late frames and late timers ever confuse the state machine, double or lose a change? | two buttons, timeouts of 4 and 2 ticks (25 and 12 ms keep this order and ratio), frames up to one tick late, timers late without bound, one or two changes per frame | 21,944 |
| `pointer` | can a button stick, double or lose its release on its way to the client? | left, right, middle and one button that scrolls without delay; four scroll settings, one with the middle button, the default; one change per frame, as behind the debounce plugin; mapping and scroll settings change while buttons are held, emulation and suspension come with the buttons up; the middle button does not scroll while it is emulated (`MiddleScrolls` FALSE) | 64,112 |
| `tap` | is the count of fingers right, does every tap's button come up, is there always a timer? | four touches (one more than a tap has), a clickpad, every configuration call at any time between frames | 660,096 |
| `suspend` | is the touchpad suspended exactly for the reasons that hold, does it come back, is a touch ever left alive? | two slots, two mice (with a permutation of the slots and of the mice), one of every other device, `nactive_slots` up to 3 | |
| `typing` | does tapping always come back, do palms stay palms, do keys stay in a mask? | two keyboards with one typing key and one modifier each, a trackpoint, one touch | |
| `touches` | are the touches the fingers, and the count that of the touches? | ten touchpads (1 to 3 slots, up to 5 fingers; touch, pressure, size; Synaptics by BTN_TOUCH and by pressure, ALPS), two slots per frame, `nactive_slots` up to 4 | 1,075,642 |
| `clicks` | does a click always have its button, and lose it? | six clickpads with one or two slots, each with the spots that matter to it, one slot per frame, `nactive_slots` up to 2, `Rare` empty | 521,300 |
| `gestures` | is what the client sees well-formed, and does it end? | five touchpads (1, 2 or 5 slots, semi-mt, with and without tapping), four fingers, three-finger drags, timers in order (`Late` FALSE) | 56,000 |
| `scroll` | does every scroll at an edge end, does a thumb revive? | five touchpads, two touches, eight points on a pad of 100 x 60 mm, speeds as 0, 6 to 9 or 10 fast events | 33,984 |
| `scroll_circular` | finding: does a scroll on a ring end? | the round touchpad of `scroll` | |
| `tablet` | does the client get a tool, its tip and its buttons in order, and its going? | eight tablets: with and without pressure, an eraser, a mouse, an active area, and one or two of each kind the plugins are for; `Rare` empty | |
| `context` | does every object live as long as its references, is every device there once, are events in order? | udev and path backends; one node with three handles and every call, or two nodes with two handles and changes of seat; three unread events, one thing held, a ring that begins with two slots | 889,913 |

Two buttons suffice for debouncing because the plugin distinguishes only the
current button from the others. Four buttons are one of every kind that
`PointerButtons` tells apart (left, right, middle, other). Four touches are one
more than the longest tap, so that every state also gets the touch that is too
many, and four fingers are one more than a three-finger gesture for the same
reason. Two handles for one node are what a device that is replugged while its
predecessor is still referenced needs, three let the client hold on to one more.
A ring of two slots doubles once within three events, and wraps before it does.

`nactive_slots` grows with every resume that finds a finger down, so it has to be
bounded; steps beyond the bound are cut off, and because a touchpad that would
exceed it takes no more such steps, deadlock is not checked in `suspend`,
`touches` and `clicks`. A tablet without a pen may stop (`tablet`), and a context
ends when it is destroyed (`context`). Two mice are needed because one may be
unplugged while the other has sent events. Shift and the keys outside the typing
set do nothing when pressed, so `typing` leaves them out (`OtherKeys` is empty
there; the proofs cover them). After three trackpoint events more of them change
nothing, and the counter stops at `EnoughEvents`.

Some environment guards exclude what the code is known not to survive; each says
so where it stands. `pointer` leaves out enabling middle button emulation while a
button is held, frames with two changes, suspension with a button held, and the
middle button as scroll button while it is emulated (`Allowed`); with emulation
off, which is the default, it scrolls as by default.
`clicks` (through `Rare`) leaves out a trackpoint that comes or goes in the
middle of a click of a suspended touchpad. `tablet` leaves out pens whose events
pass through the active area's border with a tip or a button down, frames that a
doubled tablet splits, the eraser as a button on such tablets, and a change of that
setting while a plugin's timer runs. `context` leaves out a change of seat while a
device is in the udev queue, resuming a path context that is not suspended, adding a
path twice (as `test-path.c` does) or while the context is suspended, and calls on a
handle that its node has replaced. `libinput.h` forbids none of these, and
each can leave a node with two devices or paths and devices apart, so `OneDevicePerNode` and its theorem speak of
clients that make none of them. The room `HandleMonitor` asks for trims some
removals of two devices from the run; the proof covers them.

## Fairness

`ButtonDebounce`: the clock ticks and the event loop gets round to an expired
timer (weak fairness); the kernel, the user and the client owe nothing.
`TouchpadTap`: a frame that has begun is worked off, because the handler runs to
completion (weak fairness), and an armed timer is dispatched however many frames
come (strong fairness: frames disable the action while they are handled, and
`libinput_dispatch` hands out the timerfd and the device descriptors of one
`epoll_wait` alike). `TouchpadTyping`: weak fairness of the two timers, which
nothing but their own expiry disarms; keys, motions and clients owe nothing, so
`TapsComeBack` only promises taps to a user who stops typing.
`TouchpadGestures`: weak fairness of its timers, which stay armed until they
expire or what armed them is over; fingers owe nothing. `Tablet`: weak fairness
of the proximity, eraser and touch timers. The other specifications state no
fairness and only safety is checked of them; of `TouchpadScroll` also `ThumbRevives`,
an action property.

## Proofs

All proofs hold for every value of the constants that the modules' assumptions
allow. Where a theorem states a property of a run, the run had shown it on the
small instance first, and the inductive invariants were checked by TLC before
they were proved.

`MouseButtonProofs` has two parts. The first proves that `Inv` of `ButtonDebounce`
is an invariant of `Spec`, for any set of buttons, any two timeouts with the spurious one shorter, and any lag
(`DebounceAssumption`). The properties alone are not inductive: whether a press
may be sent depends on what the state says about downstream. `Inv` therefore says
for every state what the kernel and downstream know of the current button
(`Agrees`), which timers are armed in it (`Needs`), that the short timer is ahead
of the long one and expires no later (`Ordered`), that the other buttons are in
sync, and that the "spurious" mode excludes the two states that would switch it on
again (`Healthy`). From it follow `TypeOK`, `NoStateMachineBug`,
`PressesAlternate`, `OtherButtonsInSync`, `NothingWithheldWithoutTimer` and
`ShortFiresFirst`. The proof goes handler by handler: lemmas about cancelling and
setting timers, about the flush, about one event in each state, then one step per
action. `BouncesFiltered`, that two changes which the state machine sends for one
button are the spurious timeout apart, needs a second invariant on top, which relates
the age of the last change to how much of each armed timer is left. It claims nothing
of frames that flush. The plugin does not filter a frame with another button or with
several changes: what it withholds is sent at once and the frame is passed on, so that
a press and a release of one button within a frame both reach the client. Such bounces
are for `PressesAlternate` and `OtherButtonsInSync`: nothing is sent twice or lost.

The second part proves `NoBugReached`, `ClientAlternates` and `NoStuckButton` of
`PointerButtons`, for any buttons in any order of their codes and any set of scroll
settings, under the three hypotheses of `Behaved`. `PointerInv` relates the layers between frames, and each
of them is told of a button the way the next one expects it. `Told` says that the
client has exactly the buttons with a count, that a count is how often that button is
pressed at `evdev_pointer_notify_button` at the moment (0 for the scroll button), and
which states of the scroll button and its lock go with that button up or down. How
often a button is pressed there follows from the state of the emulation: `Withheld`
is what it keeps back, `Times` adds the button it presses itself, `Emulating` says which of
the two sides are down in each state. A change is `Pending` and then `Handled`
(`HandleOne`), whatever the layers in between do with it, and a suspension with the
buttons up finds nothing to release (`ReleaseNone`). `fallback_handle_state` and
`release_pressed_keys` are recursive functions over the codes; what they compute is
proved by `SetInduction`, induction over `Nat` for the set of the numbers for which a
claim holds. `Behaved` has three hypotheses, and TLC finds a counterexample for each one
that is dropped: frames change one button at a time (what the debounce plugin makes
of them); enabling emulation and suspending, which do not wait for the buttons, come
while they are up; and the middle button, which emulation may press a second time while
the hand holds it, does not scroll while it is emulated. As a mouse comes up, with the
middle button to scroll and emulation off, it is covered.

`TouchpadTapProofs` proves `TypeOK`, `NoTapBug`, `FingersMatchState` and
`ButtonsMatchState` for any number of touches. What one event does is looked at
state by state (`TapReaction`): every state speaks of a number of fingers
(`FingersOf`), has its timer and its buttons (`Sound`), and hands the next state a
tap structure of the same kind. The walk over the touches then only needs that
count and state agree after each event (`Counts`), and that the count is that of
the touches that are neither palm nor thumb while tapping is active.

`TouchpadClicksProofs` first proves `FingersCounted` of `TouchpadTouches` for every
touchpad (`FingersAreCounted`, from `TouchesInvariance`): any number of
slots and fingers, every way to tell contact and every correction. `Counted` says
of a pad that its count is the number of its touches that are down and that a
touch that is not dirty is settled. Each operator on a set of touches keeps it
(`NewTouchesCounted`, `EndSequencesCounted`, ...), whatever the set, so
`tp_handle_state` does; between frames nothing is dirty (`Rests`).

It then proves the other two properties of `TouchpadTouches`. `NothingLeftBehind`
(`NothingIsLeft`) rests on `Left`: a slot without a finger has a touch that is `Lifted`,
gone or about to end with nothing to keep it; `tp_handle_state` ends such a touch and
nothing in the frame takes it up again (`LiftedEnds`); the driver knows no key that is up
(`KeysKnown`) and counts at least the slots in use (`SlotsCounted`). `FewSlots` is what it
needs: the Synaptics correction takes back every touch that ended in the frame, and with
at most three slots the missing finger can only come back in the slot it left.

`FingersMatchSurface` (`FingersAreTheSurface`) is a claim about numbers, so it starts with
lemmas on them: `First` and `Last` pick as many touches as they should (`Ranked`,
`FirstCounted`, `LastCounted`), and the two loops of `tp_unhover_*` stop at the count they
are after (`RaiseIs`, `LowerIs`). What they work on are the `Active` touches, those
that hover or are down, which raising does not change. The argument for a frame: a finger
in a slot comes in with an active touch and leaves with one (`Kept`, `FrameKeeps`); the
slots in use and the touches above the last slot together are at least as many as the
keys say (`EnoughTouches`), on a Synaptics touchpad never more (`NotTooMany`), so nothing
of a slot is lowered; hence the loops end at the count (`FakeCounts`, `PressureFirm`).
On a Synaptics touchpad with pressure or size the touch of a finger may be dropped (see
below). The property says which fingers these are (`Lost`), and that no others are
missing: a touch that is gone stays so until its finger lifts (`FrameForgets`), and the
active touches are exactly those of the other fingers (`LostMissing`).
`Match` carries this from frame to frame: an ALPS touchpad is never believed to have fewer
slots than it uses (`SlotsAnnounced`), the keys are known once every finger was heard
(`KeysHeard`), and a Synaptics touchpad whose count goes up had fewer touches before
(`CountKnown`), so the touch it ended is taken back. `Expected` has the hypotheses, and
every touchpad of the run satisfies them: `FewSlots`, and that a touchpad uses the slots
it announces unless it is an ALPS one, whose number is corrected. TLC had checked `Left` and `Match` on the run's states first.

`TouchpadClicksProofs` then proves all three properties of `TouchpadClicks`, for any
clickpads, spots, methods and numbers of slots, while `Rare` is empty. A step of
the composition is a step of `TouchpadTouches` (`ClicksImplementTouches`), so `Inv`
of the touches is half of the invariant. The other half has two parts. The
machines: one runs exactly for each touch that is down or about to end
(`Waiting`); the events of a frame keep that, `tp_pre_process_state` leaves each
touch in a state its machine expects (`Coming`), and after
`tp_button_handle_state` a machine runs exactly for the touches that are down
(`Follow`), each with an area and a timer that fit its state (`Fitting`). The
click: what the client holds down is `active`, sent to the device that
`trackpoint`, `is_top` and the suspension say (`Told`), and there is no `active`
while a click waits or is over (`Synced`). `PostSynced` goes through the three arms
of `tp_post_clickpadbutton_buttons`. That a suspended pad without top buttons is
closed and a closed pad has no click makes it inductive, and the waiting click
(`Unsaid`) survives timers because a machine with a timer has an area.

`TouchpadGesturesProofs` proves what `TouchpadGestures` claims but liveness.
`ClientMatchesState` and `GesturesWellFormed` hold for any touchpads, any number of
fingers and both finger counts of the drag, under `~Late`: as in the run, a timer that
is due comes before a newer one. `GesturesInv` says that the client agrees with the
state (`Agrees`: what is open, the button, the scroll) and the fingers with the timers
(`Timed`: which states may be without fingers, which may have a changed count waiting,
and for which timer). Neither property is inductive alone: that a gesture ends with the
count it began with depends on the count changing only where nothing is open, so a
waiting count must find a state that closes what it has (`CountedGood`). Each state's
handler is shown to keep agreement for every event that may reach it (`Handles`), and
`HandleSteady` turns that into one fact about `tp_gesture_handle_event`, from which a
frame with up to three visits of the machine, the forced motion of a click and each
timer follow. The one condition the handlers put on their callers is that `RESET` comes
only where nothing is open (`Fits`).

The same module proves `OnlyKnownBugs`: no other event than the listed ones reaches a
state that logs it as a bug. That cannot be read off what the client has open, so
`BugsInv` adds to `GesturesInv` what the machine's past leaves behind (`Sane`): in which
states each timer runs, that a drag waiting for its fingers has not got them back, that
while tapping waits nothing has begun that needs motion, and that the fingers counted
and those about to be are the ones of the last frame (`Counts`). `Leads` says what an
event that a state expects does to all of that; a frame is then followed from its
fingers (`Updated`) through what tapping turns into (`TapTurnsSane`), a cancel or a
forced motion (`Heard`) and up to three visits of the machine (`Seen`) to its end
(`Carried`), and each timer to the states in which it can run. TLC checked the
invariant on every touchpad of one to five slots with five fingers and both drags
before it was proved, and found the fifth of the known bugs there (see below); the run
keeps to the smaller instance.

`TouchpadScrollProofs` proves all that `TouchpadScroll` claims but the end of circular
scrolls: `EdgeScrollsHaveTouch`, `OnlyKnownEdgeBugs` and `ThumbRevives`, for any
touchpads of up to three touches, any points, methods and equipment. `ScrollInv` says
what holds between frames: which states of the edge machine go with a touch that is
down or gone, that a touch which scrolls has no timer, and (`Posted`) that a touch with
a direction is down, in the one edge of that direction, under the method of edges and
with no pen about, and that the axes the client believes to be scrolling are such
directions. In the middle of a frame most of this does not hold, so the proof has a
predicate for each phase of `tp_handle_state`: `Start`, `Processed`, `Handled`, `Ready`,
`Answered`, `Ended`. The step that matters is `PostEdgesIs`: a touch that lifts while it
scrolls has lost its edge, is neither palm nor thumb (`Ready`), and so is not skipped
but sends the zero; and of several touches the last one has the last word on an axis
(`LastWordIs`). `ThumbRevives` needs of each phase that a touch which is alone is not
put aside again (`Alone`).

`TouchpadSuspendProofs` proves that `TouchpadSuspend` implements
`SilentWhileSuspended`, and with it `TypeOK`, `ReasonsExplained`,
`SuspendedMatchesReasons` and `TouchEndsSeen`, for any finite set of slots and any
mice (`SuspendAssumption`). One step may call `tp_suspend` and `tp_resume` several
times, each call working on the value the last one left. The proof is therefore
made for a single call: `Reaches(t, u)` says that `u` is a touchpad as it should be
(`Matched`) and that getting there from `t` was silent (`Silent`: either nothing is
seen, or everything is lifted). `Reaches` composes (`ReachesOn`), so it carries over
to chains of calls. `Matched` strengthens `SuspendedMatchesReasons` by the two facts
that make it inductive: a closed touchpad has no touches, and an open one without
top buttons is not suspended. What a call does to the reasons is the other half of
each lemma, and `ComeExplained` and `GoneExplained` turn it into
`ReasonsExplained`, with the fact that a paired device is on the seat
(`PairedIsPlugged`).

`TouchpadTypingProofs` proves `TypeOK`, `SuspendedIsTimed`, `PalmsRest` and
`MasksAreHeld` for any keyboards, keys and touches. The first, second and last are
inductive together; `PalmsRest` needs `RestingIsOld`, that a resting palm began
before the last press or motion of whatever made it one.

`ContextProofs` first proves that the ring implements `EventQueue`, for any first size
and any number of events: the unread events are `count` slots from `out` on, around
the end, up to `in`, and doubling the ring moves the ones before `in` behind the
others. It then proves `RefsCounted`, `EventsWellFormed`, `OneDevicePerNode` and
`InOrder` of `Context`, for any nodes, handles, seats and scenes (`ContextAssumption`:
handles are numbers, finitely many, and a scene has no more devices at once than there
are handles). The handlers change the objects one call after the other, so the objects
are one value, and `Sound(c, grip, keep)` says of it that every device has one reference
for the list, one for each unread event and `grip` more, every seat one for each of its
devices and `keep` more, and that device, keys and key counts are what the client was
told (`Fits`, `SeatFits`). While an operation is under way `keep` and the references
owed to a device differ from what they were by the one it is holding, and each operation
is shown to take sound objects to sound ones: `DeviceRef`, `DeviceUnref`, `SeatRef`,
`SeatUnref`, `Key`, `DeviceSuspend`, `DeviceCreate`, `DeviceRemove` and what the backends
build of them. Where the code goes through a list (`RemoveEach`, `Enumerate`,
`PathEnableAll`, `DestroyEvents`) the model has a recursive function, and
the proof is `SetInduction` over the places in the list. `ContextInv` puts this together
with what only holds between steps (`PlacesInv`): no node has two devices (`Unique`), a
device that udev has not announced yet, or whose message waits to be read, is on the
default seat (`AtHome`, without which `device_added` would not find it and add it again),
and what udev said is done unless its message waits (`Heard`). TLC had checked
`ContextInv` on the states of the run first.

`NothingWithheldWithoutTimer`, `ShortFiresFirst`, `SuspendedIsTimed` and the type
invariants are proved and no longer run on their own.

Only model-checked, and why:

- every liveness property (`ChangesDelivered`, `LiftReleases`, `TapsComeBack`,
  `GoneIsReported`, `EverythingEnds`): out of the prover's reach;
- `ScrollsEnd` of `TouchpadScroll`: the code does not have it (see below);
- `ClientWellFormed`, `ToolMatchesKernel` and `TouchFollowsTool` of `Tablet`. What a
  frame is when it reaches the tablet depends on what the four plugins before it made of
  all earlier ones, so an invariant has to relate the plugins' state to the kernel's.
  Nothing in a tablet is unbounded: its parameters are the set of tablets and the moves
  in `Rare`, and for the eight of the run TLC goes through every state.

Proving also corrected the models: overlapping arms of `CASE` in `TouchpadTap`,
`ButtonDebounce`, `TouchpadGestures`, `TouchpadScroll` and `Context` are now disjoint (TLC takes
the first arm, the language any), `TouchpadTouches` assumes that a touchpad counts one
to five fingers, as the kernel's keys do, and `ClickDecided` speaks of the number of
touches the driver has room for, by which it counts the fingers of a click.
`EdgeScrollsHaveTouch` was too strong: it claimed touchpads that look for thumbs among
three fingers, which no run has, and the attempt to prove it there led to a
counterexample that TLC confirmed and the code has (see below). `FirmFingersDown`, a
part of `FingersMatchSurface`, was weaker than it had to be: it now holds for the slots of
a touchpad that counts more fingers than it tracks as well.

## What the runs found

`scroll_circular` shows a disagreement of the code with its documentation:
a finger lifted from the ring of a circular touchpad leaves the client
scrolling, though `libinput.h` promises a terminating zero. `PROJECT.json` quotes
the lines.

These other disagreements were met while modelling, as counterexamples or in
the code, and are excluded by guards or by what the properties claim:

- Timers are flushed after the plugins have handled a frame
  (`evdev-plugin.c:37`), so a change withheld past its timeout is dropped by the
  next frame if that is read late.
- A device suspended with a button held resumes with a stale key mask:
  `fallback_return_to_neutral_state` clears `hw_key_mask` twice and
  `last_hw_key_mask` never (`evdev-fallback.c:1278`, `evdev.c:2992`).
- An emulated middle button can fail an assertion of the scroll button lock, and
  the lock's setting changed while it is engaged leaves the device scrolling
  (`evdev.c:859`). Emulation enabled with a button held never sees that button
  (`evdev-middle-button.c:543`).
- A timer left over from the start of a drag ends a sticky drag lock
  (`evdev-mt-touchpad-tap.c:842`).
- Every resume counts the fingers on the surface once more into `nactive_slots`.
  On an ALPS touchpad the number of slots is then never corrected.
- A keyboard unplugged with a key down leaves the key in the touchpad's masks
  (`evdev.c:3025`, against the comment at `evdev.c:2941`).
- A touch that Synaptics touchpads restore keeps `has_ended`, though the comment of
  `tp_recover_ended_touch` (`evdev-mt-touchpad.c:416`) says that it gets its previous
  state back. Where there is pressure to judge as well, a finger that then presses too
  lightly is gone instead of hovering (`tp_post_process_state`, line 1768), and stays
  ignored until it lifts. TLC found it when `FingersMatchSurface` did not yet leave
  out those fingers (`Lost`), with two slots and three fingers.
- On a Synaptics touchpad with four slots `tp_restore_synaptics_touches`
  (`evdev-mt-touchpad.c:594`) takes back a touch for a finger that then comes back in
  another slot, and the touch stays down when all fingers are gone. The serial
  touchpads that get the correction (`30-vendor-synaptics.quirks`) have two.
- A clickpad with top buttons and no trackpoint sends clicks while its events are
  disabled (`evdev-mt-touchpad-buttons.c:1177`, `libinput.h:5535`). A trackpoint
  that comes or goes while the suspended pad is clicked leaves a button pressed or
  released twice.
- A pinch goes on with one finger (`evdev-mt-touchpad-gestures.c:884`,
  `doc/user/gestures.rst:34`). Quick swipes, holds and counts that change back
  within a timeout end in log messages that `OnlyKnownBugs` lists; a three-finger
  drag ended by a suspension holds its button up to 700 ms. On a touchpad with three
  slots four fingers are taken for a drag before they move
  (`evdev-mt-touchpad-gestures.c:1405`); fingers that then leave and return in time to
  be tapped time out in the state that starts the drag, which does not expect it.
- Edge scrolling switched off and on, or a scroll method changed with a timer
  armed, meets the machine in states that log a bug (`OnlyKnownEdgeBugs`). A thumb
  in jail escapes without looking which touch it is
  (`evdev-mt-touchpad-thumb.c:242`). A pen that leaves and returns within 90 ms
  ends the arbitration until its next frame (`evdev-mt-touchpad.c:2845`).
- A finger that scrolls along the bottom edge and lifts in the frame in which a third
  one lands stays open as a scroll: `tp_thumb_update_multifinger` still counts the
  touch that ends (`evdev-mt-touchpad-thumb.c:266`), may make it the pinching thumb, and
  `tp_edge_scroll_post_events` then skips it (`evdev-mt-touchpad-edge-scroll.c:412`).
  The same happens to one that is a palm as it lifts.
- Tool bits survive the suspension of a tablet (`evdev-tablet.c:2382`). The
  double tool plugin repeats the other keys of a frame that swaps tools and drops
  both events of one that goes from pen to eraser; a pen in eraser mode that goes
  out and comes back quickly drops the release of its button; the forced tool
  plugin shifts a bit beyond the width of its mask.
- A device that comes between the udev monitor and the enumeration and changes its
  seat is added twice (`udev-seat.c:44`); a path device that has vanished fails
  every resume; resuming a path context that is not suspended adds its devices
  again; `udev_input_enable` that fails at its filter leaves a monitor without a
  source, on which the next suspend stumbles (`udev-seat.c:260`).
- `doc/user/switches.rst` says that the touchpad is disabled while the lid is
  closed, but one that is added, or a lid switch that is enabled again, while the
  lid is closed is not suspended until the lid moves (`tp_pair_lid_switch` does not
  ask). `ReasonsExplained` therefore claims only one direction for the lid.

## Not modelled

The tablet pad with its LEDs and the totem, the wheel and mtdev plugins, Lua
plugins, pointer acceleration, the quirks database, utilities and tools. Of the
modelled parts, `PROJECT.json` names what is left out under "components": positions
and motion, probing of devices, axes of tablets, configuration that is only
stored, and allocation failures.

## Plan

1. Proofs about `Tablet` (`ToolMatchesKernel`, `ClientWellFormed`).
2. `TouchpadTap` with its clicks and gestures: `TouchpadGestures` takes of tapping only
   the kind of state, `TouchpadTap` has the rest.
3. An abstract button (press and release alternate, every press is released)
   that `ButtonDebounce` and `PointerButtons` implement.
4. The wheel plugin, mode groups of tablet pads, and debouncing composed with
   suspension (`evdev.c:2933`).
