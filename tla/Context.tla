------------------------------- MODULE Context -------------------------------
(* A libinput context: its devices, seats, device groups and events            *)
(* (libinput.c), what adds and removes the devices (udev-seat.c, path-seat.c)  *)
(* and how a device is created, suspended and removed (evdev.c).               *)
(*                                                                             *)
(* A node is a device of the kernel by its syspath, so it comes and goes once; *)
(* a handle is a struct evdev_device.  Each device has one key.  Left out:     *)
(* devices that are not handled, event listeners, plugins, tools, and calls    *)
(* of the client and orders of the world that break what is claimed, though    *)
(* libinput.h forbids none of them: adding one path twice or while suspended,  *)
(* which makes two devices of a node, changing the seat of a device that udev  *)
(* is about to add.  Each guard that excludes one says so.                     *)
EXTENDS EventRing, FiniteSets, SequencesExt

CONSTANTS
  Nodes,        \* devices the kernel may have, all of this physical seat and
                \* of one device group
  Handles,      \* numbers for the libinput_device objects
  Seats,        \* logical seat names
  DefaultSeat,  \* the one devices are on without WL_SEAT
  Scenes,       \* a backend, how many nodes come, what the client does, how
                \* many handles there are at once
  MaxEvents,    \* bound on the events that are not read, for TLC
  MaxHeld       \* bound on what the client holds, for TLC

None == 0
Monitor == 0
EventTypes == {"added", "pressed", "released", "removed"}

ASSUME ContextAssumption ==
  /\ Handles \subseteq Nat \ {None} /\ IsFiniteSet(Handles)
  /\ DefaultSeat \in Seats
  /\ Scenes \subseteq [backend : {"udev", "path"}, nodes : Nat,
                       calls : SUBSET {"hold", "disable", "seat"},
                       handles : 0..Cardinality(Handles)]
  /\ [type : EventTypes, device : Handles] \subseteq Events
  /\ MaxEvents \in Nat
  /\ MaxHeld \in Nat

VARIABLES
  scene,    \* the scene, with the interface_backend; never changes
  phase,    \* "suspended", "running" or "closed"
  node,     \* the kernel's devices and what udev said of them
  monitor,  \* udev_monitor: the messages not yet received
  paths,    \* path_list
  batch,    \* what epoll_wait returned to libinput_dispatch, still to be done
  device,   \* struct evdev_device of each handle
  seat,     \* struct libinput_seat of each logical name
  group,    \* references to the device group
  client,   \* the event, devices and seats the client holds
  shown     \* ghost: what the events posted so far say of each handle

world == <<scene, node>>
backend == scene.backend
objects == <<ring, device, seat, group, shown>>
vars == <<scene, phase, node, monitor, paths, batch, client, objects>>

NoDevice == [node |-> None, seat |-> "none", refs |-> 0, removed |-> FALSE, open |-> FALSE,
             down |-> FALSE, synced |-> FALSE]
NoSeat == [refs |-> 0, count |-> 0]

\* The objects as one value, for handlers that change them step by step.
Objects == [ring |-> ring, device |-> device, seat |-> seat, group |-> group, shown |-> shown]

Set(c) ==
  /\ ring' = c.ring
  /\ device' = c.device
  /\ seat' = c.seat
  /\ group' = c.group
  /\ shown' = c.shown

-----------------------------------------------------------------------------
\* References.  An object without any is freed.
Live(c) == {h \in Handles : c.device[h].refs > 0}
Listed(c) == {h \in Live(c) : ~c.device[h].removed}

SeatRef(c, s) == [c EXCEPT !.seat[s].refs = @ + 1]

SeatUnref(c, s) ==
  IF c.seat[s].refs = 1 THEN [c EXCEPT !.seat[s] = NoSeat]
  ELSE [c EXCEPT !.seat[s].refs = @ - 1]

DeviceRef(c, h) == [c EXCEPT !.device[h].refs = @ + 1]

DeviceDestroy(c, h) ==
  SeatUnref([c EXCEPT !.group = @ - 1, !.device[h] = NoDevice, !.shown[h] = "none"],
            c.device[h].seat)

DeviceUnref(c, h) ==
  IF c.device[h].refs = 1 THEN DeviceDestroy(c, h)
  ELSE [c EXCEPT !.device[h].refs = @ - 1]

\* What the client may learn of a device, in this order; "wrong" if the events
\* say anything else.
Shown(before, type) ==
  CASE before = "none" /\ type = "added" -> "up"
    [] before = "up" /\ type = "pressed" -> "down"
    [] before = "down" /\ type = "released" -> "up"
    [] before = "up" /\ type = "removed" -> "removed"
    [] OTHER -> "wrong"

\* Slip: a queued event does not keep its device.
PostUncounted(c, h, type) ==
  [c EXCEPT !.ring = Posted(@, [type |-> type, device |-> h]), !.shown[h] = Shown(@, type)]

Post(c, h, type) ==
  DeviceRef([c EXCEPT !.ring = Posted(@, [type |-> type, device |-> h]),
                      !.shown[h] = Shown(@, type)], h)

-----------------------------------------------------------------------------
\* Devices (evdev.c).

\* keyboard_notify_key with the key count of the seat.
Key(c, h, pressed) ==
  LET s == c.device[h].seat
      count == c.seat[s].count
      counted == IF pressed THEN count + 1 ELSE IF count = 0 THEN 0 ELSE count - 1
  IN  Post([c EXCEPT !.device[h].down = pressed, !.seat[s].count = counted],
           h, IF pressed THEN "pressed" ELSE "released")

DeviceSuspend(c, h) ==
  LET neutral == IF c.device[h].down THEN Key(c, h, FALSE) ELSE c
  IN  [neutral EXCEPT !.device[h].open = FALSE]

DeviceResume(c, h) ==
  LET n == c.device[h].node
  IN  IF c.device[h].open \/ c.device[h].removed \/ node[n].state # "present" THEN c
      ELSE [c EXCEPT !.device[h].open = TRUE, !.device[h].synced = node[n].key]

DeviceRemove(c, h) ==
  LET closed == DeviceSuspend(c, h)
  IN  DeviceUnref(Post([closed EXCEPT !.device[h].removed = TRUE], h, "removed"), h)

RemoveEach(c, handles) ==
  LET after[i \in 0..Len(handles)] ==
        IF i = 0 THEN c ELSE DeviceRemove(after[i - 1], handles[i])
  IN  after[Len(handles)]

\* The caller holds a reference to the seat; opening fails when the node is gone.
DeviceCreate(c, s, n) ==
  LET h == Min(Handles \ Live(c))
      new == [node |-> n, seat |-> s, refs |-> 1, removed |-> FALSE, open |-> TRUE,
              down |-> FALSE, synced |-> node[n].key]
  IN  IF node[n].state # "present" THEN c
      ELSE Post(SeatRef([c EXCEPT !.device[h] = new, !.group = @ + 1], s), h, "added")

\* What evdev_device_dispatch reads: the key, or that the device is gone.
DeviceRead(c, h) ==
  LET d == c.device[h]
      key == node[d.node].key
      read == [c EXCEPT !.device[h].synced = key]
  IN  IF node[d.node].state = "gone" THEN DeviceRemove(c, h)
      ELSE IF key # d.down THEN Key(read, h, key)
      ELSE read

-----------------------------------------------------------------------------
\* The udev backend (udev-seat.c).

\* Slip: a device of both the enumeration and the monitor is added twice.
DeviceAddedTwice(c, n, s) == SeatUnref(DeviceCreate(SeatRef(c, s), s, n), s)

\* The seat is found by its name or created.
DeviceAdded(c, n, s) ==
  IF \E h \in Listed(c) : c.device[h].node = n /\ c.device[h].seat = s THEN c
  ELSE SeatUnref(DeviceCreate(SeatRef(c, s), s, n), s)

DeviceRemoved(c, n) ==
  RemoveEach(c, SetToSeq({h \in Listed(c) : c.device[h].node = n}))

Enumerate(c, nodes) ==
  LET after[i \in 0..Len(nodes)] ==
        IF i = 0 THEN c ELSE DeviceAdded(after[i - 1], nodes[i], DefaultSeat)
  IN  after[Len(nodes)]

-----------------------------------------------------------------------------
\* The path backend (path-seat.c).
PathEnable(c, s, n) == SeatUnref(DeviceCreate(SeatRef(c, s), s, n), s)

\* All devices of the list or none: the first that fails undoes the others.
PathEnableAll(c) ==
  LET enabled[i \in 0..Len(paths)] ==
        IF i = 0 THEN c ELSE PathEnable(enabled[i - 1], DefaultSeat, paths[i])
      failing == {i \in DOMAIN paths : node[paths[i]].state # "present"}
      some == enabled[Min(failing) - 1]
  IN  IF failing = {} THEN enabled[Len(paths)]
      ELSE RemoveEach(some, SetToSeq(Listed(some)))

-----------------------------------------------------------------------------
\* A client that holds nothing destroys an event as soon as it has read it.
Ready == phase # "closed" /\ ("hold" \in scene.calls \/ client.event = None)

\* The world.  Its steps may fall between any two of libinput's.
Plug(n) ==
  /\ Ready /\ node[n].state = "absent"
  /\ Cardinality({m \in Nodes : node[m].state # "absent"}) < scene.nodes
  /\ node' = [node EXCEPT ![n].state = "present"]
  /\ UNCHANGED <<scene, phase, monitor, paths, batch, client, objects>>

\* The node goes at once, udev says so later.
Unplug(n) ==
  /\ Ready /\ node[n].state = "present"
  /\ node' = [node EXCEPT ![n].state = "gone", ![n].key = FALSE]
  /\ UNCHANGED <<scene, phase, monitor, paths, batch, client, objects>>

\* At most one change is waiting to be read.
ToggleKey(n) ==
  /\ Ready /\ node[n].state = "present"
  /\ \A h \in Handles : device[h].open /\ device[h].node = n => device[h].synced = node[n].key
  /\ node' = [node EXCEPT ![n].key = ~@]
  /\ UNCHANGED <<scene, phase, monitor, paths, batch, client, objects>>

\* udevd tells everyone that listens, long after a context may have found the
\* node by itself.
Announce(n) ==
  /\ Ready /\ backend = "udev"
  /\ \/ node[n].said = "nothing" /\ node[n].state # "absent"
     \/ node[n].said = "add" /\ node[n].state = "gone"
  /\ LET said == IF node[n].said = "nothing" THEN "add" ELSE "remove"
     IN  /\ node' = [node EXCEPT ![n].said = said]
         /\ monitor' = [monitor EXCEPT !.messages =
                          IF monitor.on THEN Append(@, [action |-> said, node |-> n]) ELSE @]
  /\ UNCHANGED <<scene, phase, paths, batch, client, objects>>

World(n) == Plug(n) \/ Unplug(n) \/ ToggleKey(n) \/ Announce(n)

-----------------------------------------------------------------------------
\* libinput_dispatch takes what epoll_wait returns and handles one source after
\* the other; handling one may remove another.
Readable(h) ==
  /\ device[h].open
  /\ LET n == node[device[h].node] IN n.state = "gone" \/ n.key # device[h].synced

Dispatch ==
  /\ Ready /\ batch = {}
  /\ batch' = {h \in Handles : Readable(h)} \cup
               (IF monitor.on /\ monitor.messages # <<>> THEN {Monitor} ELSE {})
  /\ batch' # {}
  /\ UNCHANGED <<world, phase, monitor, paths, client, objects>>

Bounded(c) == c.ring.count <= MaxEvents
Room(new) == Cardinality(Live(Objects)) + new <= scene.handles

\* evdev_udev_handler receives one message.
HandleMonitor ==
  /\ Monitor \in batch
  /\ LET message == Head(monitor.messages)
         c == IF message.action = "add" THEN DeviceAdded(Objects, message.node, DefaultSeat)
              ELSE DeviceRemoved(Objects, message.node)
     IN  /\ Room(1)
         /\ Bounded(c)
         /\ Set(c)
  /\ monitor' = [monitor EXCEPT !.messages = Tail(@)]
  /\ batch' = batch \ {Monitor}
  /\ UNCHANGED <<world, phase, paths, client>>

\* Slip: a source is dispatched although it was removed.
HandleEverySource(h) ==
  /\ h \in batch
  /\ LET c == DeviceRead(Objects, h) IN Bounded(c) /\ Set(c)
  /\ batch' = batch \ {h}
  /\ UNCHANGED <<world, phase, monitor, paths, client>>

\* A source that was removed meanwhile is skipped, its memory is still there.
HandleDevice(h) ==
  /\ h \in batch
  /\ LET c == IF device[h].open THEN DeviceRead(Objects, h) ELSE Objects
     IN  Bounded(c) /\ Set(c)
  /\ batch' = batch \ {h}
  /\ UNCHANGED <<world, phase, monitor, paths, client>>

-----------------------------------------------------------------------------
\* What the client calls, between two calls of libinput_dispatch.
Idle == batch = {} /\ Ready

Held == Cardinality(client.devices) + Cardinality(client.seats) +
        IF client.event = None THEN 0 ELSE 1

\* libinput_get_event.
GetNext ==
  /\ Idle /\ Held < MaxHeld /\ client.event = None /\ ring.count > 0
  /\ client' = [client EXCEPT !.event = Oldest(ring).device]
  /\ ring' = Fetched(ring)
  /\ UNCHANGED <<world, phase, monitor, paths, batch, device, seat, group, shown>>

\* libinput_event_destroy.
DestroyEvent ==
  /\ batch = {} /\ client.event # None
  /\ Set(DeviceUnref(Objects, client.event))
  /\ client' = [client EXCEPT !.event = None]
  /\ UNCHANGED <<world, phase, monitor, paths, batch>>

\* The devices the client may name: those it holds, and those not yet removed.
Known(h) == h \in client.devices \cup {client.event} \cup Listed(Objects)

RefDevice(h) ==
  /\ Idle /\ Known(h) /\ "hold" \in scene.calls /\ Held < MaxHeld /\ h \notin client.devices
  /\ Set(DeviceRef(Objects, h))
  /\ client' = [client EXCEPT !.devices = @ \cup {h}]
  /\ UNCHANGED <<world, phase, monitor, paths, batch>>

UnrefDevice(h) ==
  /\ Idle /\ h \in client.devices
  /\ Set(DeviceUnref(Objects, h))
  /\ client' = [client EXCEPT !.devices = @ \ {h}]
  /\ UNCHANGED <<world, phase, monitor, paths, batch>>

RefSeat(h) ==
  /\ Idle /\ Known(h) /\ "hold" \in scene.calls /\ Held < MaxHeld /\ device[h].seat \notin client.seats
  /\ Set(SeatRef(Objects, device[h].seat))
  /\ client' = [client EXCEPT !.seats = @ \cup {device[h].seat}]
  /\ UNCHANGED <<world, phase, monitor, paths, batch>>

UnrefSeat(s) ==
  /\ Idle /\ s \in client.seats
  /\ Set(SeatUnref(Objects, s))
  /\ client' = [client EXCEPT !.seats = @ \ {s}]
  /\ UNCHANGED <<world, phase, monitor, paths, batch>>

\* LIBINPUT_CONFIG_SEND_EVENTS_DISABLED and _ENABLED, of a removed device too.
Disable(h) ==
  /\ Idle /\ Known(h) /\ "disable" \in scene.calls /\ device[h].open
  /\ LET c == DeviceSuspend(Objects, h) IN Bounded(c) /\ Set(c)
  /\ UNCHANGED <<world, phase, monitor, paths, batch, client>>

Enable(h) ==
  /\ Idle /\ Known(h) /\ ~device[h].open
  /\ Set(DeviceResume(Objects, h))
  /\ UNCHANGED <<world, phase, monitor, paths, batch, client>>

\* libinput_udev_assign_seat the first time, libinput_resume.  A context that
\* is not suspended is not resumed: a path context would add its devices again.
Resume ==
  /\ Idle /\ phase = "suspended"
  /\ Room(scene.nodes)
  /\ \E order \in SetToSeqs({n \in Nodes : node[n].state = "present"}) :
       LET c == IF backend = "udev" THEN Enumerate(Objects, order) ELSE PathEnableAll(Objects)
           failed == backend = "path" /\ \E n \in ToSet(paths) : node[n].state # "present"
       IN  /\ Bounded(c)
           /\ Set(c)
           /\ phase' = IF failed THEN "suspended" ELSE "running"
  /\ monitor' = [on |-> backend = "udev", messages |-> <<>>]
  /\ UNCHANGED <<world, paths, batch, client>>

\* libinput_suspend: all devices are removed, the messages are lost.
Suspend ==
  /\ Idle /\ phase = "running"
  /\ \E order \in SetToSeqs(Listed(Objects)) :
       LET c == RemoveEach(Objects, order) IN Bounded(c) /\ Set(c)
  /\ phase' = "suspended"
  /\ monitor' = [on |-> FALSE, messages |-> <<>>]
  /\ UNCHANGED <<world, paths, batch, client>>

\* A device is named by its last handle: one that it was replaced by stays away.
Current(h) == Known(h) /\ \A g \in Listed(Objects) \ {h} : device[g].node # device[h].node

\* path_list without the first entry of the node.
PathDropped(n) ==
  IF n \in ToSet(paths) THEN RemoveAt(paths, CHOOSE i \in DOMAIN paths : paths[i] = n)
  ELSE paths

PathRemoved(c, h) == IF c.device[h].removed THEN c ELSE DeviceRemove(c, h)

\* libinput_device_set_seat_logical_name.  With udev only after the add of the
\* node was handled, which would add it to its old seat as well.
SetSeat(h, s) ==
  /\ Idle /\ phase = "running" /\ "seat" \in scene.calls /\ Current(h) /\ Room(1)
  /\ LET n == device[h].node
     IN  IF backend = "udev" THEN
           LET c == DeviceAdded(DeviceRemoved(Objects, n), n, s)
           IN  /\ node[n].said # "nothing"
               /\ [action |-> "add", node |-> n] \notin ToSet(monitor.messages)
               /\ Bounded(c) /\ Set(c)
               /\ UNCHANGED paths
         ELSE
           LET c == PathEnable(PathRemoved(Objects, h), s, n)
               rest == PathDropped(n)
           IN  /\ Bounded(c) /\ Set(c)
               /\ paths' = IF node[n].state = "present" THEN <<n>> \o rest ELSE rest
  /\ UNCHANGED <<world, phase, monitor, batch, client>>

\* libinput_path_add_device, once for each node and not while suspended, when
\* the resume would add it again.  Both are calls the code accepts and that make
\* a second device of the node: they are left out, not impossible.
PathAdd(n) ==
  /\ Idle /\ backend = "path" /\ phase = "running"
  /\ node[n].state = "present" /\ n \notin ToSet(paths) /\ Room(1)
  /\ LET c == PathEnable(Objects, DefaultSeat, n) IN Bounded(c) /\ Set(c)
  /\ paths' = <<n>> \o paths
  /\ UNCHANGED <<world, phase, monitor, batch, client>>

\* libinput_path_remove_device, also of a device that is gone.
PathRemove(h) ==
  /\ Idle /\ backend = "path" /\ Current(h)
  /\ LET c == PathRemoved(Objects, h) IN Bounded(c) /\ Set(c)
  /\ paths' = PathDropped(device[h].node)
  /\ UNCHANGED <<world, phase, monitor, batch, client>>

\* The loop of libinput_unref: what is not read keeps its device no longer.
DestroyEvents(c, events) ==
  LET after[i \in 0..Len(events)] ==
        IF i = 0 THEN c ELSE DeviceUnref(after[i - 1], events[i].device)
  IN  [after[Len(events)] EXCEPT !.ring = InitialRing]

\* The last libinput_unref; the client holds nothing any more.
Close ==
  /\ Idle /\ Held = 0
  /\ \E order \in SetToSeqs(Listed(Objects)) :
       LET c == RemoveEach(Objects, order) IN Set(DestroyEvents(c, Unread(c.ring)))
  /\ phase' = "closed"
  /\ monitor' = [on |-> FALSE, messages |-> <<>>]
  /\ paths' = <<>>
  /\ UNCHANGED <<world, batch, client>>

Configure(h) == Disable(h) \/ Enable(h) \/ \E s \in Seats : SetSeat(h, s)

Hold(h) == RefDevice(h) \/ UnrefDevice(h) \/ RefSeat(h)

-----------------------------------------------------------------------------
Init ==
  /\ scene \in Scenes
  /\ phase = IF backend = "udev" THEN "suspended" ELSE "running"
  /\ node = [n \in Nodes |-> [state |-> "absent", said |-> "nothing", key |-> FALSE]]
  /\ monitor = [on |-> FALSE, messages |-> <<>>]
  /\ paths = <<>>
  /\ batch = {}
  /\ ring = InitialRing
  /\ device = [h \in Handles |-> NoDevice]
  /\ seat = [s \in Seats |-> NoSeat]
  /\ group = 0
  /\ client = [event |-> None, devices |-> {}, seats |-> {}]
  /\ shown = [h \in Handles |-> "none"]

Next ==
  \/ \E n \in Nodes : World(n) \/ PathAdd(n)
  \/ Dispatch \/ HandleMonitor \/ GetNext \/ DestroyEvent \/ Resume \/ Suspend \/ Close
  \/ \E h \in Handles : HandleDevice(h) \/ Hold(h) \/ Configure(h) \/ PathRemove(h)
  \/ \E s \in Seats : UnrefSeat(s)

Spec == Init /\ [][Next]_vars

-----------------------------------------------------------------------------
\* Every object is freed with its last reference and not before: the context
\* holds its devices, an event the device it is of, a device its seat and its
\* group (libinput_device_unref, libinput_seat_unref).  What a dispatch still
\* has to handle exists (libinput_drop_destroyed_sources).
RefsCounted ==
  /\ LET unread == Unread(ring)
         Queued(h) == {i \in DOMAIN unread : unread[i].device = h}
         Holders(h) == {holder \in {"list", "event", "client"} :
           CASE holder = "list" -> h \in Listed(Objects)
             [] holder = "event" -> h = client.event
             [] holder = "client" -> h \in client.devices}
     IN  \A h \in Handles :
           device[h].refs = Cardinality(Queued(h)) + Cardinality(Holders(h))
  /\ \A s \in Seats : seat[s].refs =
       Cardinality({h \in Live(Objects) : device[h].seat = s}) + Cardinality(client.seats \cap {s})
  /\ group = Cardinality(Live(Objects))
  /\ batch \subseteq Live(Objects) \cup {Monitor}
  /\ phase = "closed" => Live(Objects) = {}

\* The events of a device begin with its arrival, end with its removal, and a
\* key that is down is released before; the seat counts the devices that hold
\* a key, which is the count in the event (evdev_device_remove,
\* update_seat_key_count).
EventsWellFormed ==
  /\ \A h \in Handles : shown[h] # "wrong"
  /\ \A h \in Live(Objects) : device[h].removed <=> shown[h] = "removed"
  /\ \A h \in Handles : device[h].open => h \in Listed(Objects)
  /\ \A s \in Seats :
       seat[s].count = Cardinality({h \in Handles : device[h].seat = s /\ shown[h] = "down"})

\* Once udev has said all there is and the context has listened, it has exactly
\* one device for each node of the kernel; with paths it has none but those the
\* client added, each once (device_added, path_input_enable).
OneDevicePerNode ==
  LET Of(n) == {h \in Listed(Objects) : device[h].node = n}
      settled == monitor.on /\ monitor.messages = <<>> /\ batch = {}
  IN  \A n \in Nodes :
        /\ Cardinality(Of(n)) <= 1
        /\ backend = "path" /\ Of(n) # {} => n \in ToSet(paths)
        /\ settled /\ node[n].said = "add" /\ node[n].state = "present" => Of(n) # {}
        /\ settled /\ node[n].said = "remove" => Of(n) = {}
=============================================================================
