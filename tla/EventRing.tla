------------------------------ MODULE EventRing ------------------------------
(* The events a context holds for its client, in a ring that doubles when it   *)
(* is full (libinput_post_event, libinput_get_event in libinput.c).            *)
(*                                                                             *)
(* A slot is emptied when its event is read or moved; the code leaves the      *)
(* pointer where it was.  Left out: an allocation that fails.                  *)
EXTENDS Integers, Sequences

CONSTANTS
  Events,     \* what may be in the ring
  NoEvent,    \* a slot without an event
  InitialLen  \* its first size, 4 in libinput_init

ASSUME RingAssumption == InitialLen \in Nat \ {0} /\ NoEvent \notin Events

VARIABLE
  ring  \* events, events_len, events_in, events_out and events_count

InitialRing ==
  [slots |-> [i \in 0..(InitialLen - 1) |-> NoEvent], len |-> InitialLen,
   in |-> 0, out |-> 0, count |-> 0]

\* Slip: the events are not moved when the ring grows.
GrownUnmoved(r) ==
  [r EXCEPT !.slots = [i \in 0..(2 * r.len - 1) |->
               IF i < r.len THEN r.slots[i] ELSE NoEvent],
            !.len = 2 * r.len, !.in = IF r.in = 0 THEN r.len ELSE r.in]

\* realloc leaves the events at the front, so those that had wrapped around are
\* no longer ahead of the others: either the next one goes behind them all, or
\* the oldest ones move to the new end.
Grown(r) ==
  LET wide == 0..(2 * r.len - 1)
      Old(i) == IF i < r.len THEN r.slots[i] ELSE NoEvent
  IN  IF r.in = 0 THEN
        [r EXCEPT !.slots = [i \in wide |-> Old(i)], !.len = 2 * r.len, !.in = r.len]
      ELSE
        [r EXCEPT !.slots = [i \in wide |->
                     IF i >= r.len + r.out THEN r.slots[i - r.len]
                     ELSE IF i >= r.out THEN NoEvent ELSE Old(i)],
                  !.len = 2 * r.len, !.out = r.len + r.out]

Posted(r, e) ==
  LET g == IF r.count + 1 > r.len THEN Grown(r) ELSE r
  IN  [g EXCEPT !.slots[g.in] = e, !.in = (g.in + 1) % g.len, !.count = g.count + 1]

Oldest(r) == r.slots[r.out]

Fetched(r) ==
  [r EXCEPT !.slots[r.out] = NoEvent, !.out = (r.out + 1) % r.len, !.count = r.count - 1]

\* The unread events, oldest first.
Unread(r) == [i \in 1..r.count |-> r.slots[(r.out + i - 1) % r.len]]

-----------------------------------------------------------------------------
\* The ring by itself, for what is proved about it.
RingInit == ring = InitialRing

PostEvent(e) == ring' = Posted(ring, e)

GetEvent == ring.count > 0 /\ ring' = Fetched(ring)

DropEvents == ring' = InitialRing

RingNext == (\E e \in Events : PostEvent(e)) \/ GetEvent \/ DropEvents

RingSpec == RingInit /\ [][RingNext]_ring

Queue == INSTANCE EventQueue WITH queue <- Unread(ring)

\* However the ring wraps and grows, the client reads every event once and in
\* the order in which they were posted (libinput_post_event).
InOrder == Queue!Spec
=============================================================================
