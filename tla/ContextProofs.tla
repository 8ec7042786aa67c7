---------------------------- MODULE ContextProofs ----------------------------
(* A context counts its references, has the devices it should have and tells   *)
(* the client of them in order, for any devices, seats, calls and ring size    *)
(* (Context), and the ring of unread events is a queue (EventRing).            *)
(*                                                                             *)
(* First the ring: its invariant says where the unread events are: count of    *)
(* them from events_out on, around the end, up to events_in.  Then the objects *)
(* as one value: Sound says that its references are those of the list, of the  *)
(* queue and of whoever holds one, and each operation of the handlers takes    *)
(* sound objects to sound objects.  Last the state: ContextInv, which every    *)
(* step keeps, and what it says.                                               *)
EXTENDS Context, FiniteSetTheorems, NaturalsInduction, WellFoundedInduction, TLAPS

\* An index below twice the length, brought back into the ring.
Wrap(a, len) == IF a < len THEN a ELSE a - len

SlotsOf(len) == [0..(len - 1) -> Events \cup {NoEvent}]
Rings == [slots : UNION {SlotsOf(len) : len \in Nat \ {0}}, len : Nat \ {0},
          in : Nat, out : Nat, count : Nat]

\* One slot is next, one is the oldest, and no more are filled than there are.
InBounds(r) ==
  /\ r.slots \in SlotsOf(r.len)
  /\ r.in \in 0..(r.len - 1)
  /\ r.out \in 0..(r.len - 1)
  /\ r.count \in 0..r.len

Filled(r) ==
  /\ r.in = Wrap(r.out + r.count, r.len)
  /\ \A i \in 0..(r.count - 1) : r.slots[Wrap(r.out + i, r.len)] \in Events

RingInv(r) == r \in Rings /\ InBounds(r) /\ Filled(r)

-----------------------------------------------------------------------------
(* Indices                                                                     *)

\* The remainder the code takes is a subtraction at most.
LEMMA ModIsWrap ==
  ASSUME NEW a \in Nat, NEW len \in Nat \ {0}, a < 2 * len
  PROVE  a % len = Wrap(a, len)
<1>1. CASE a < len
  BY <1>1, SMT DEF Wrap
<1>2. CASE a >= len
  BY <1>2, SMTT(30) DEF Wrap
<1> QED BY <1>1, <1>2, SMT

\* Sequences are equal that are equally long and agree at every index.
LEMMA SameSequence ==
  ASSUME NEW S, NEW s \in Seq(S), NEW t \in Seq(S), Len(s) = Len(t),
         \A i \in 1..Len(s) : s[i] = t[i]
  PROVE  s = t
  OBVIOUS

\* The unread events without the remainder.
LEMMA UnreadAt ==
  ASSUME NEW r, RingInv(r)
  PROVE  /\ Unread(r) \in Seq(Events)
         /\ Len(Unread(r)) = r.count
         /\ \A i \in 1..r.count : Unread(r)[i] = r.slots[Wrap(r.out + i - 1, r.len)]
<1>1. r.count \in Nat /\ r.len \in Nat \ {0} /\ r.out \in 0..(r.len - 1) /\ r.count <= r.len
  BY SMT DEF RingInv, InBounds, Rings
<1>2. ASSUME NEW i \in 1..r.count
      PROVE  /\ (r.out + i - 1) % r.len = Wrap(r.out + i - 1, r.len)
             /\ r.slots[Wrap(r.out + i - 1, r.len)] \in Events
  <2>1. r.out + i - 1 \in Nat /\ r.out + i - 1 < 2 * r.len /\ i - 1 \in 0..(r.count - 1)
    BY <1>1, SMT
  <2>2. (r.out + i - 1) % r.len = Wrap(r.out + i - 1, r.len)
    BY <1>1, <2>1, ModIsWrap
  <2>3. r.out + (i - 1) = r.out + i - 1
    BY <1>1, SMT
  <2> QED BY <2>1, <2>2, <2>3 DEF RingInv, Filled
<1>3. \A i \in 1..r.count : Unread(r)[i] = r.slots[Wrap(r.out + i - 1, r.len)]
  BY <1>2 DEF Unread
<1>4. Unread(r) \in [1..r.count -> Events]
  BY <1>2 DEF Unread
<1>5. Unread(r) \in Seq(Events) /\ Len(Unread(r)) = r.count
  BY <1>1, <1>4
<1> QED BY <1>3, <1>5

-----------------------------------------------------------------------------
(* Growing                                                                     *)

\* The next slot is the first one: realloc leaves the events where they are.
LEMMA FrontKept ==
  ASSUME NEW len \in Nat \ {0}, NEW old \in SlotsOf(len)
  PROVE  /\ [i \in 0..(2 * len - 1) |-> IF i < len THEN old[i] ELSE NoEvent] \in SlotsOf(2 * len)
         /\ \A i \in 0..(len - 1) : i \in 0..(2 * len - 1) /\ Wrap(i, 2 * len) = i /\ Wrap(i, len) = i
         /\ Wrap(len, 2 * len) = len
<1>1. ASSUME NEW i \in 0..(2 * len - 1)
      PROVE  (IF i < len THEN old[i] ELSE NoEvent) \in Events \cup {NoEvent}
  <2>1. CASE i < len
    BY <2>1 DEF SlotsOf
  <2>2. CASE ~(i < len)
    BY <2>2
  <2> QED BY <2>1, <2>2
<1>2. [i \in 0..(2 * len - 1) |-> IF i < len THEN old[i] ELSE NoEvent] \in SlotsOf(2 * len)
  BY <1>1 DEF SlotsOf
<1>3. \A i \in 0..(len - 1) : i \in 0..(2 * len - 1) /\ Wrap(i, 2 * len) = i /\ Wrap(i, len) = i
  BY SMT DEF Wrap
<1>4. Wrap(len, 2 * len) = len
  BY SMT DEF Wrap
<1> QED BY <1>2, <1>3, <1>4

\* The oldest events wait at the old end and move to the new one.
LEMMA BackMoved ==
  ASSUME NEW len \in Nat \ {0}, NEW out \in 1..(len - 1), NEW old \in SlotsOf(len)
  PROVE  LET s == [i \in 0..(2 * len - 1) |->
                     IF i >= len + out THEN old[i - len]
                     ELSE IF i >= out THEN NoEvent
                     ELSE IF i < len THEN old[i] ELSE NoEvent]
         IN  /\ s \in SlotsOf(2 * len)
             /\ \A i \in 0..(len - 1) : s[Wrap(len + out + i, 2 * len)] = old[Wrap(out + i, len)]
             /\ Wrap(len + out + len, 2 * len) = out
<1> DEFINE Slot(i) == IF i >= len + out THEN old[i - len]
                      ELSE IF i >= out THEN NoEvent
                      ELSE IF i < len THEN old[i] ELSE NoEvent
           s == [i \in 0..(2 * len - 1) |-> Slot(i)]
<1>1. ASSUME NEW i \in 0..(2 * len - 1)
      PROVE  Slot(i) \in Events \cup {NoEvent}
  <2>1. CASE i >= len + out
    BY <2>1, i - len \in 0..(len - 1) DEF SlotsOf
  <2>2. CASE ~(i >= len + out) /\ i < out
    <3>1. i \in 0..(len - 1) /\ ~(i >= out) /\ i < len
      BY <2>2
    <3> QED BY <2>2, <3>1 DEF SlotsOf
  <2>3. CASE ~(i >= len + out) /\ i >= out
    BY <2>3
  <2> QED BY <2>1, <2>2, <2>3
<1>2. s \in SlotsOf(2 * len)
  BY <1>1 DEF SlotsOf
<1>3. ASSUME NEW i \in 0..(len - 1)
      PROVE  s[Wrap(len + out + i, 2 * len)] = old[Wrap(out + i, len)]
  <2>1. CASE out + i < len
    <3>1. /\ Wrap(len + out + i, 2 * len) = len + out + i /\ Wrap(out + i, len) = out + i
          /\ len + out + i \in 0..(2 * len - 1)
          /\ len + out + i >= len + out /\ len + out + i - len = out + i
      BY <2>1, SMT DEF Wrap
    <3> QED BY <3>1
  <2>2. CASE out + i >= len
    <3>1. /\ Wrap(len + out + i, 2 * len) = out + i - len /\ Wrap(out + i, len) = out + i - len
          /\ out + i - len \in 0..(2 * len - 1)
          /\ ~(out + i - len >= len + out) /\ ~(out + i - len >= out) /\ out + i - len < len
      BY <2>2, SMT DEF Wrap
    <3> QED BY <3>1
  <2> QED BY <2>1, <2>2
<1>4. Wrap(len + out + len, 2 * len) = out
  BY SMT DEF Wrap
<1> QED BY <1>2, <1>3, <1>4

\* A full ring that grows has room and the same events (libinput_post_event).
LEMMA GrownKeeps ==
  ASSUME NEW r, RingInv(r), r.count = r.len
  PROVE  /\ RingInv(Grown(r))
         /\ Grown(r).count = r.count
         /\ Grown(r).count < Grown(r).len
         /\ Unread(Grown(r)) = Unread(r)
<1> DEFINE g == Grown(r)
           wide == 0..(2 * r.len - 1)
           Moved == /\ g \in Rings /\ g.slots \in SlotsOf(2 * r.len)
                    /\ g.len = 2 * r.len /\ g.in = Wrap(g.out + g.count, g.len)
                    /\ g.in \in 0..(2 * r.len - 1) /\ g.out \in 0..(2 * r.len - 1)
                    /\ g.count = r.count
                    /\ \A i \in 0..(r.count - 1) :
                         g.slots[Wrap(g.out + i, g.len)] = r.slots[Wrap(r.out + i, r.len)]
<1>1. /\ r.in = r.out /\ r.len \in Nat \ {0} /\ r.out \in 0..(r.len - 1)
      /\ r \in Rings /\ r.count = r.len /\ r.slots \in SlotsOf(r.len)
  BY SMT DEF RingInv, InBounds, Rings, Filled, Wrap
<1>2. ASSUME r.in = 0 PROVE Moved
  <2> DEFINE s == [i \in wide |-> IF i < r.len THEN r.slots[i] ELSE NoEvent]
  <2>1. g = [r EXCEPT !.slots = s, !.len = 2 * r.len, !.in = r.len]
    BY <1>2, Zenon DEF Grown
  <2>2. /\ s \in SlotsOf(2 * r.len) /\ 2 * r.len \in Nat \ {0} /\ r.len \in Nat
        /\ \A i \in 0..(r.len - 1) : s[i] = r.slots[i]
        /\ \A i \in 0..(r.len - 1) : Wrap(i, 2 * r.len) = i /\ Wrap(i, r.len) = i
        /\ Wrap(r.len, 2 * r.len) = r.len
    BY <1>1, FrontKept
  <2> HIDE DEF s
  <2>3. s \in UNION {SlotsOf(len) : len \in Nat \ {0}}
    BY <2>2
  <2>4. /\ g \in Rings /\ g.slots = s /\ g.len = 2 * r.len /\ g.in = r.len
        /\ g.out = r.out /\ g.count = r.count
    BY <1>1, <2>1, <2>2, <2>3 DEF Rings
  <2> HIDE DEF g
  <2>5. g.out = 0 /\ r.out = 0
    BY <1>1, <1>2, <2>4
  <2>6. \A i \in 0..r.len : 0 + i = i
    BY <2>2
  <2>7. r.len \in 0..r.len /\ r.len \in 0..(2 * r.len - 1) /\ 0 \in 0..(2 * r.len - 1)
        /\ \A i \in 0..(r.len - 1) : i \in 0..r.len
    BY <1>1
  <2>8. g.in \in 0..(2 * r.len - 1) /\ g.out \in 0..(2 * r.len - 1)
    BY <2>4, <2>5, <2>7
  <2>9. g.in = Wrap(g.out + g.count, g.len)
    BY <1>1, <2>2, <2>4, <2>5, <2>6, <2>7
  <2>10. \A i \in 0..(r.count - 1) :
           g.slots[Wrap(g.out + i, g.len)] = r.slots[Wrap(r.out + i, r.len)]
    BY <1>1, <2>2, <2>4, <2>5, <2>6, <2>7
  <2> QED BY <2>2, <2>4, <2>8, <2>9, <2>10
<1>3. ASSUME r.in # 0 PROVE Moved
  <2> DEFINE s == [i \in wide |->
                     IF i >= r.len + r.out THEN r.slots[i - r.len]
                     ELSE IF i >= r.out THEN NoEvent
                     ELSE IF i < r.len THEN r.slots[i] ELSE NoEvent]
  <2>1. g = [r EXCEPT !.slots = s, !.len = 2 * r.len, !.out = r.len + r.out]
    BY <1>3, Zenon DEF Grown
  <2>2. r.out \in 1..(r.len - 1) /\ 2 * r.len \in Nat \ {0} /\ r.len + r.out \in 0..(2 * r.len - 1)
    BY <1>1, <1>3
  <2>3. /\ s \in SlotsOf(2 * r.len)
        /\ \A i \in 0..(r.len - 1) :
             s[Wrap(r.len + r.out + i, 2 * r.len)] = r.slots[Wrap(r.out + i, r.len)]
        /\ Wrap(r.len + r.out + r.len, 2 * r.len) = r.out
    BY <1>1, <2>2, BackMoved, Zenon
  <2> HIDE DEF s
  <2>4. s \in UNION {SlotsOf(len) : len \in Nat \ {0}} /\ r.len + r.out \in Nat
    BY <2>2, <2>3
  <2>5. /\ g \in Rings /\ g.slots = s /\ g.len = 2 * r.len /\ g.in = r.in
        /\ g.out = r.len + r.out /\ g.count = r.count
    BY <1>1, <2>1, <2>2, <2>4 DEF Rings
  <2> HIDE DEF g
  <2>6. g.in \in 0..(2 * r.len - 1)
    BY <1>1, <2>5
  <2>7. g.in = Wrap(g.out + g.count, g.len)
    BY <1>1, <2>3, <2>5
  <2>8. \A i \in 0..(r.count - 1) :
          g.slots[Wrap(g.out + i, g.len)] = r.slots[Wrap(r.out + i, r.len)]
    BY <1>1, <2>3, <2>5
  <2> QED BY <1>1, <2>2, <2>3, <2>5, <2>6, <2>7, <2>8
<1>4. Moved
  BY <1>2, <1>3
<1> HIDE DEF g
<1>5. InBounds(g) /\ g.count < g.len
  BY <1>1, <1>4 DEF InBounds
<1>6. Filled(g)
  BY <1>4 DEF RingInv, Filled
<1>7. RingInv(g)
  BY <1>4, <1>5, <1>6 DEF RingInv
<1>8. Unread(g) = Unread(r)
  <2>1. ASSUME NEW i \in 1..r.count PROVE Unread(g)[i] = Unread(r)[i]
    <3>1. /\ i - 1 \in 0..(r.count - 1) /\ g.out + (i - 1) = g.out + i - 1
          /\ r.out + (i - 1) = r.out + i - 1
      BY <1>1, <1>4, SMT
    <3>2. g.slots[Wrap(g.out + i - 1, g.len)] = r.slots[Wrap(r.out + i - 1, r.len)]
      BY <1>4, <3>1
    <3> QED BY <1>4, <1>7, <3>2, UnreadAt
  <2> QED BY <1>4, <1>7, <2>1, UnreadAt, SameSequence
<1> QED BY <1>4, <1>5, <1>7, <1>8 DEF g

-----------------------------------------------------------------------------
(* Posting                                                                     *)

\* The next slot comes after the filled ones and is none of them.
LEMMA NextSlot ==
  ASSUME NEW len \in Nat \ {0}, NEW out \in 0..(len - 1), NEW count \in 0..(len - 1)
  PROVE  /\ (Wrap(out + count, len) + 1) % len = Wrap(out + (count + 1), len)
         /\ Wrap(out + (count + 1), len) \in 0..(len - 1)
         /\ \A i \in 0..(count - 1) : /\ Wrap(out + i, len) # Wrap(out + count, len)
                                      /\ Wrap(out + i, len) \in 0..(len - 1)
<1>1. Wrap(out + count, len) + 1 \in Nat /\ Wrap(out + count, len) + 1 < 2 * len
  BY SMT DEF Wrap
<1>2. (Wrap(out + count, len) + 1) % len = Wrap(Wrap(out + count, len) + 1, len)
  BY <1>1, ModIsWrap
<1>3. Wrap(Wrap(out + count, len) + 1, len) = Wrap(out + (count + 1), len)
  BY SMT DEF Wrap
<1>4. Wrap(out + (count + 1), len) \in 0..(len - 1)
  BY SMT DEF Wrap
<1>5. \A i \in 0..(count - 1) : /\ Wrap(out + i, len) # Wrap(out + count, len)
                                /\ Wrap(out + i, len) \in 0..(len - 1)
  BY SMT DEF Wrap
<1> QED BY <1>2, <1>3, <1>4, <1>5

\* An event that there is room for goes behind the others.
LEMMA PostedWithRoom ==
  ASSUME NEW g, RingInv(g), g.count < g.len, NEW e \in Events,
         NEW q, q = [g EXCEPT !.slots[g.in] = e, !.in = (g.in + 1) % g.len,
                              !.count = g.count + 1]
  PROVE  RingInv(q) /\ Unread(q) = Append(Unread(g), e)
<1>1. /\ g \in Rings /\ g.len \in Nat \ {0} /\ g.out \in 0..(g.len - 1)
      /\ g.count \in 0..(g.len - 1) /\ g.slots \in SlotsOf(g.len)
      /\ g.in \in 0..(g.len - 1) /\ g.in = Wrap(g.out + g.count, g.len)
  BY SMT DEF RingInv, InBounds, Rings, Filled
<1>2. /\ (g.in + 1) % g.len = Wrap(g.out + (g.count + 1), g.len)
      /\ (g.in + 1) % g.len \in 0..(g.len - 1)
      /\ \A i \in 0..(g.count - 1) : /\ Wrap(g.out + i, g.len) # g.in
                                     /\ Wrap(g.out + i, g.len) \in 0..(g.len - 1)
  BY <1>1, NextSlot
<1> DEFINE s == [g.slots EXCEPT ![g.in] = e]
<1>3. s \in SlotsOf(g.len)
  BY <1>1 DEF SlotsOf
<1>4. s[g.in] = e /\ \A j \in 0..(g.len - 1) : j # g.in => s[j] = g.slots[j]
  BY <1>1 DEF SlotsOf
<1>5. q = [g EXCEPT !.slots = s, !.in = (g.in + 1) % g.len, !.count = g.count + 1]
  BY Zenon
<1> HIDE DEF s
<1>6. /\ s \in UNION {SlotsOf(len) : len \in Nat \ {0}}
      /\ (g.in + 1) % g.len \in Nat /\ g.count + 1 \in Nat /\ g.count + 1 <= g.len
  BY <1>1, <1>2, <1>3
<1>7. /\ q \in Rings /\ q.slots = s /\ q.len = g.len /\ q.in = (g.in + 1) % g.len
      /\ q.out = g.out /\ q.count = g.count + 1
  BY <1>1, <1>5, <1>6 DEF Rings
<1>8. ASSUME NEW i \in 0..(g.count - 1)
      PROVE  q.slots[Wrap(q.out + i, q.len)] = g.slots[Wrap(g.out + i, g.len)]
  BY <1>2, <1>4, <1>7
<1>9. q.slots[Wrap(q.out + g.count, q.len)] = e
  BY <1>1, <1>4, <1>7
<1>10. InBounds(q)
  BY <1>1, <1>2, <1>3, <1>6, <1>7 DEF InBounds
<1>11. Filled(q)
  <2>1. ASSUME NEW i \in 0..(q.count - 1) PROVE q.slots[Wrap(q.out + i, q.len)] \in Events
    <3>1. i = g.count \/ i \in 0..(g.count - 1)
      BY <1>1, <1>7
    <3> QED BY <1>8, <1>9, <3>1 DEF RingInv, Filled
  <2> QED BY <1>2, <1>7, <2>1 DEF Filled
<1>12. RingInv(q)
  BY <1>7, <1>10, <1>11 DEF RingInv
<1>13. Unread(q) = Append(Unread(g), e)
  <2>1. /\ Unread(g) \in Seq(Events) /\ Len(Unread(g)) = g.count
        /\ Unread(q) \in Seq(Events) /\ Len(Unread(q)) = g.count + 1
    BY <1>7, <1>12, UnreadAt
  <2>2. /\ Append(Unread(g), e) \in Seq(Events) /\ Len(Append(Unread(g), e)) = g.count + 1
        /\ \A i \in 1..g.count : Append(Unread(g), e)[i] = Unread(g)[i]
        /\ Append(Unread(g), e)[g.count + 1] = e
    BY <2>1
  <2>3. ASSUME NEW i \in 1..(g.count + 1) PROVE Unread(q)[i] = Append(Unread(g), e)[i]
    <3>1. Unread(q)[i] = q.slots[Wrap(q.out + i - 1, q.len)]
      BY <1>7, <1>12, UnreadAt
    <3>2. CASE i \in 1..g.count
      <4>1. /\ i - 1 \in 0..(g.count - 1) /\ g.out + (i - 1) = g.out + i - 1
        BY <1>1, <3>2, SMT
      <4>2. q.slots[Wrap(q.out + i - 1, q.len)] = g.slots[Wrap(g.out + i - 1, g.len)]
        BY <1>7, <1>8, <4>1
      <4>3. Unread(g)[i] = g.slots[Wrap(g.out + i - 1, g.len)]
        BY <3>2, UnreadAt
      <4> QED BY <2>2, <3>1, <3>2, <4>2, <4>3
    <3>3. CASE i = g.count + 1
      <4>1. g.out + i - 1 = g.out + g.count
        BY <1>1, <3>3
      <4> QED BY <1>7, <1>9, <2>2, <3>1, <3>3, <4>1
    <3>4. i \in 1..g.count \/ i = g.count + 1
      BY <1>1, SMT
    <3> QED BY <3>2, <3>3, <3>4
  <2> QED BY <2>1, <2>2, <2>3, SameSequence
<1> QED BY <1>12, <1>13

\* libinput_post_event is Append, whether the ring has to grow or not.
LEMMA PostedAppends ==
  ASSUME NEW r, RingInv(r), NEW e \in Events
  PROVE  RingInv(Posted(r, e)) /\ Unread(Posted(r, e)) = Append(Unread(r), e)
<1> DEFINE g == IF r.count + 1 > r.len THEN Grown(r) ELSE r
<1>1. r.count \in 0..r.len /\ r.len \in Nat \ {0}
  BY DEF RingInv, InBounds, Rings
<1>2. CASE r.count = r.len
  <2>1. g = Grown(r)
    BY <1>1, <1>2
  <2>2. RingInv(g) /\ g.count < g.len /\ Unread(g) = Unread(r)
    BY <1>2, <2>1, GrownKeeps
  <2> QED BY <2>2, PostedWithRoom DEF Posted
<1>3. CASE r.count < r.len
  <2>1. g = r
    BY <1>1, <1>3
  <2> QED BY <1>3, <2>1, PostedWithRoom DEF Posted
<1> QED BY <1>1, <1>2, <1>3

-----------------------------------------------------------------------------
(* Reading                                                                     *)

\* The slot after the oldest, and the indices counted from there.
LEMMA OldestSlot ==
  ASSUME NEW len \in Nat \ {0}, NEW out \in 0..(len - 1), NEW count \in 1..len
  PROVE  /\ (out + 1) % len \in 0..(len - 1)
         /\ Wrap(out + 0, len) = out
         /\ Wrap(((out + 1) % len) + (count - 1), len) = Wrap(out + count, len)
         /\ \A i \in 0..(count - 2) :
              /\ Wrap(((out + 1) % len) + i, len) = Wrap(out + (i + 1), len)
              /\ Wrap(out + (i + 1), len) # out
              /\ Wrap(out + (i + 1), len) \in 0..(len - 1)
<1>1. (out + 1) % len = Wrap(out + 1, len)
  BY ModIsWrap
<1>2. Wrap(out + 1, len) \in 0..(len - 1) /\ Wrap(out + 0, len) = out
  BY SMT DEF Wrap
<1>3. Wrap(Wrap(out + 1, len) + (count - 1), len) = Wrap(out + count, len)
  BY SMT DEF Wrap
<1>4. ASSUME NEW i \in 0..(count - 2)
      PROVE  /\ Wrap(Wrap(out + 1, len) + i, len) = Wrap(out + (i + 1), len)
             /\ Wrap(out + (i + 1), len) # out
             /\ Wrap(out + (i + 1), len) \in 0..(len - 1)
  BY SMT DEF Wrap
<1> QED BY <1>1, <1>2, <1>3, <1>4

\* libinput_get_event takes the head.
LEMMA FetchedDrops ==
  ASSUME NEW r, RingInv(r), r.count > 0
  PROVE  /\ RingInv(Fetched(r))
         /\ Unread(Fetched(r)) = Tail(Unread(r))
         /\ Unread(r) # <<>>
<1> DEFINE q == Fetched(r)
           s == [r.slots EXCEPT ![r.out] = NoEvent]
<1>1. /\ r \in Rings /\ r.len \in Nat \ {0} /\ r.out \in 0..(r.len - 1)
      /\ r.count \in 1..r.len /\ r.slots \in SlotsOf(r.len)
      /\ r.in \in 0..(r.len - 1) /\ r.in = Wrap(r.out + r.count, r.len)
  BY SMT DEF RingInv, InBounds, Rings, Filled
<1>2. /\ (r.out + 1) % r.len \in 0..(r.len - 1)
      /\ Wrap(((r.out + 1) % r.len) + (r.count - 1), r.len) = r.in
      /\ \A i \in 0..(r.count - 2) :
           /\ Wrap(((r.out + 1) % r.len) + i, r.len) = Wrap(r.out + (i + 1), r.len)
           /\ Wrap(r.out + (i + 1), r.len) # r.out
           /\ Wrap(r.out + (i + 1), r.len) \in 0..(r.len - 1)
  BY <1>1, OldestSlot, ZenonT(60)
<1>3. s \in SlotsOf(r.len) /\ \A j \in 0..(r.len - 1) : j # r.out => s[j] = r.slots[j]
  BY <1>1 DEF SlotsOf
<1>4. q = [r EXCEPT !.slots = s, !.out = (r.out + 1) % r.len, !.count = r.count - 1]
  BY Zenon DEF Fetched
<1> HIDE DEF s
<1>5. /\ s \in UNION {SlotsOf(len) : len \in Nat \ {0}}
      /\ (r.out + 1) % r.len \in Nat /\ r.count - 1 \in 0..r.len
  BY <1>1, <1>2, <1>3
<1>6. /\ q \in Rings /\ q.slots = s /\ q.len = r.len /\ q.in = r.in
      /\ q.out = (r.out + 1) % r.len /\ q.count = r.count - 1
  <2>1. r.count - 1 \in Nat
    BY <1>5
  <2>2. q \in Rings
    BY <1>1, <1>4, <1>5, <2>1, Zenon DEF Rings
  <2>3. /\ q.slots = s /\ q.len = r.len /\ q.in = r.in
        /\ q.out = (r.out + 1) % r.len /\ q.count = r.count - 1
    BY <1>1, <1>4, Zenon DEF Rings
  <2> QED BY <2>2, <2>3
<1> HIDE DEF q
<1>7. ASSUME NEW i \in 0..(r.count - 2)
      PROVE  q.slots[Wrap(q.out + i, q.len)] = r.slots[Wrap(r.out + (i + 1), r.len)]
  BY <1>2, <1>3, <1>6
<1>8. InBounds(q)
  BY <1>1, <1>2, <1>3, <1>5, <1>6 DEF InBounds
<1>9. Filled(q)
  <2>1. ASSUME NEW i \in 0..(q.count - 1) PROVE q.slots[Wrap(q.out + i, q.len)] \in Events
    <3>1. i \in 0..(r.count - 2) /\ i + 1 \in 0..(r.count - 1)
      BY <1>1, <1>6
    <3> QED BY <1>7, <3>1 DEF RingInv, Filled
  <2> QED BY <1>2, <1>6, <2>1 DEF Filled
<1>10. RingInv(q)
  BY <1>6, <1>8, <1>9 DEF RingInv
<1>11. /\ Unread(r) \in Seq(Events) /\ Len(Unread(r)) = r.count
       /\ Unread(q) \in Seq(Events) /\ Len(Unread(q)) = r.count - 1
  BY <1>6, <1>10, UnreadAt
<1>12. Unread(r) # <<>>
  BY <1>1, <1>11
<1>13. Unread(q) = Tail(Unread(r))
  <2>1. /\ Tail(Unread(r)) \in Seq(Events) /\ Len(Tail(Unread(r))) = r.count - 1
        /\ \A i \in 1..(r.count - 1) : Tail(Unread(r))[i] = Unread(r)[i + 1]
    BY <1>1, <1>11, <1>12
  <2>2. ASSUME NEW i \in 1..(r.count - 1) PROVE Unread(q)[i] = Tail(Unread(r))[i]
    <3>1. Unread(q)[i] = q.slots[Wrap(q.out + i - 1, q.len)]
      BY <1>6, <1>10, UnreadAt
    <3>2. /\ i - 1 \in 0..(r.count - 2) /\ q.out + (i - 1) = q.out + i - 1
          /\ i + 1 \in 1..r.count /\ r.out + (i - 1 + 1) = r.out + (i + 1) - 1
      BY <1>1, <1>2, <1>6, SMT
    <3>3. Unread(r)[i + 1] = r.slots[Wrap(r.out + (i + 1) - 1, r.len)]
      BY <3>2, UnreadAt
    <3>4. q.slots[Wrap(q.out + (i - 1), q.len)] = r.slots[Wrap(r.out + (i - 1 + 1), r.len)]
      BY <1>7, <3>2
    <3> QED BY <2>1, <3>1, <3>2, <3>3, <3>4
  <2> QED BY <1>11, <2>1, <2>2, SameSequence
<1> QED BY <1>10, <1>12, <1>13 DEF q

-----------------------------------------------------------------------------
(* The ring, the invariant of every step and the queue                         *)

LEMMA InitialRingInv ==
  RingInv(InitialRing) /\ Unread(InitialRing) = <<>>
<1> DEFINE s == [i \in 0..(InitialLen - 1) |-> NoEvent]
<1>1. InitialLen \in Nat \ {0} /\ 0 \in 0..(InitialLen - 1) /\ s \in SlotsOf(InitialLen)
  BY RingAssumption DEF SlotsOf
<1>2. s \in UNION {SlotsOf(len) : len \in Nat \ {0}}
  BY <1>1
<1> HIDE DEF s
<1>3. InitialRing = [slots |-> s, len |-> InitialLen, in |-> 0, out |-> 0, count |-> 0]
  BY DEF InitialRing, s
<1>4. /\ InitialRing \in Rings /\ InitialRing.slots = s /\ InitialRing.len = InitialLen
      /\ InitialRing.in = 0 /\ InitialRing.out = 0 /\ InitialRing.count = 0
  BY <1>1, <1>2, <1>3 DEF Rings
<1>5. InBounds(InitialRing)
  BY <1>1, <1>4 DEF InBounds
<1>6. Filled(InitialRing)
  BY <1>1, <1>4 DEF Filled, Wrap
<1>7. RingInv(InitialRing)
  BY <1>4, <1>5, <1>6 DEF RingInv
<1>8. Unread(InitialRing) \in Seq(Events) /\ Len(Unread(InitialRing)) = 0
  BY <1>4, <1>7, UnreadAt
<1> QED BY <1>7, <1>8

LEMMA StepKeepsInv ==
  ASSUME RingInv(ring), [RingNext]_ring
  PROVE  RingInv(ring)'
<1>1. ASSUME NEW e \in Events, PostEvent(e) PROVE RingInv(ring)'
  BY <1>1, PostedAppends DEF PostEvent
<1>2. CASE GetEvent
  BY <1>2, FetchedDrops DEF GetEvent
<1>3. CASE DropEvents
  BY <1>3, InitialRingInv DEF DropEvents
<1>4. CASE UNCHANGED ring
  BY <1>4 DEF RingInv, InBounds, Filled
<1> QED BY <1>1, <1>2, <1>3, <1>4 DEF RingNext

\* A step of the ring is a step of the queue.
LEMMA StepIsQueueStep ==
  ASSUME RingInv(ring), [RingNext]_ring
  PROVE  [Queue!Next]_(Unread(ring))
<1>1. ASSUME NEW e \in Events, PostEvent(e) PROVE Queue!Post
  <2>1. ring' = Posted(ring, e) /\ Unread(ring)' = Append(Unread(ring), e)
    BY <1>1, PostedAppends DEF PostEvent
  <2>2. Unread(ring) \in Seq(Events)
    BY UnreadAt
  <2>3. /\ Append(Unread(ring), e) \in Seq(Events)
        /\ Len(Unread(ring)) <= Len(Append(Unread(ring), e))
        /\ \A i \in 1..Len(Unread(ring)) : Append(Unread(ring), e)[i] = Unread(ring)[i]
    BY <2>2
  <2> QED BY <2>1, <2>3 DEF Queue!Post
<1>2. CASE GetEvent
  <2>1. Unread(ring)' = Tail(Unread(ring)) /\ Unread(ring) # <<>>
    BY <1>2, FetchedDrops DEF GetEvent
  <2> QED BY <2>1 DEF Queue!Next, Queue!Get
<1>3. CASE DropEvents
  <2>1. Unread(ring)' = <<>>
    BY <1>3, InitialRingInv DEF DropEvents
  <2> QED BY <2>1 DEF Queue!Next, Queue!Drop
<1>4. CASE UNCHANGED ring
  BY <1>4 DEF Unread
<1> QED BY <1>1, <1>2, <1>3, <1>4 DEF RingNext, Queue!Next

\* The unread events lie where the invariant says, however often the ring has
\* grown (libinput_post_event, libinput_get_event).
THEOREM RingInvariance == RingSpec => []RingInv(ring)
<1>1. RingInit => RingInv(ring)
  BY InitialRingInv DEF RingInit
<1>2. RingInv(ring) /\ [RingNext]_ring => RingInv(ring)'
  BY StepKeepsInv
<1> QED BY <1>1, <1>2, PTL DEF RingSpec

\* Every event is read once and in the order of posting: the ring of
\* libinput_post_event and libinput_get_event implements a queue for any first
\* size and any number of events.
THEOREM RingIsAQueue == RingSpec => InOrder
<1>1. RingInit => Queue!Init
  BY InitialRingInv DEF RingInit, Queue!Init
<1>2. RingInv(ring) /\ [RingNext]_ring => [Queue!Next]_(Unread(ring))
  BY StepIsQueueStep
<1> QED BY <1>1, <1>2, RingInvariance, PTL DEF RingSpec, InOrder, Queue!Spec

-----------------------------------------------------------------------------
(* Induction, the least of a set, and sets as sequences.                       *)

LEMMA SetInduction ==
  ASSUME NEW S, 0 \in S, \A n \in Nat : n \in S => n + 1 \in S
  PROVE  Nat \subseteq S
<1> DEFINE T == Nat \ S
<1>1. SUFFICES ASSUME T # {} PROVE FALSE
  OBVIOUS
<1>2. IsWellFoundedOn(OpToRel(<, Nat), Nat)
  BY NatLessThanWellFounded
<1>3. PICK x \in T : \A y \in T : <<y, x>> \notin OpToRel(<, Nat)
  BY <1>1, <1>2, WFMin
<1>4. \A y \in T : ~(y < x)
  BY <1>3 DEF OpToRel
<1>5. x # 0 /\ x - 1 \in Nat
  OBVIOUS
<1>6. x - 1 \in S
  BY <1>4, <1>5
<1> QED BY <1>5, <1>6

LEMMA LeastIn ==
  ASSUME NEW S, S \subseteq Nat, S # {}
  PROVE  Min(S) \in S /\ \A y \in S : Min(S) <= y
<1>1. IsWellFoundedOn(OpToRel(<, Nat), Nat)
  BY NatLessThanWellFounded
<1>2. PICK x \in S : \A y \in S : <<y, x>> \notin OpToRel(<, Nat)
  BY <1>1, WFMin
<1>3. \A y \in S : ~(y < x)
  BY <1>2 DEF OpToRel
<1>4. x \in S /\ \A y \in S : x <= y
  BY <1>3
<1> QED BY <1>4 DEF Min

\* Each element has one place.
Lists(q, S) ==
  /\ q \in Seq(S) /\ ToSet(q) = S /\ Len(q) = Cardinality(S)
  /\ \A i, j \in 1..Len(q) : q[i] = q[j] => i = j

LEMMA EachOnce ==
  ASSUME NEW S, IsFiniteSet(S), NEW q \in [1..Cardinality(S) -> S],
         \A i, j \in 1..Cardinality(S) : q[i] = q[j] => i = j
  PROVE  Lists(q, S)
<1> DEFINE N == Cardinality(S)
<1>1. N \in Nat
  BY FS_CardinalityType
<1>2. IsFiniteSet(1..N) /\ Cardinality(1..N) = N
  BY <1>1, FS_Interval
<1>3. q \in Injection(1..N, S)
  BY DEF Injection, IsInjective
<1>4. q \in Surjection(1..N, S)
  BY <1>2, <1>3, FS_Injection
<1>5. q \in Seq(S) /\ Len(q) = N /\ DOMAIN q = 1..N
  BY <1>1
<1>6. ToSet(q) = S
  BY <1>4, <1>5 DEF Surjection, ToSet
<1> QED BY <1>5, <1>6 DEF Lists

LEMMA OrdersList ==
  ASSUME NEW S, IsFiniteSet(S), NEW q \in SetToSeqs(S)
  PROVE  Lists(q, S)
  BY EachOnce DEF SetToSeqs

LEMMA SetToSeqLists ==
  ASSUME NEW S, IsFiniteSet(S)
  PROVE  Lists(SetToSeq(S), S)
<1> DEFINE N == Cardinality(S)
<1>1. PICK f \in Bijection(1..N, S) : TRUE
  BY FS_CardinalityType DEF ExistsBijection
<1>2. f \in [1..N -> S] /\ IsInjective(f)
  BY DEF Bijection, Injection, IsInjective
<1>3. SetToSeq(S) \in [1..N -> S] /\ IsInjective(SetToSeq(S))
  BY <1>2 DEF SetToSeq
<1> HIDE DEF N
<1>4. \A i, j \in 1..N : SetToSeq(S)[i] = SetToSeq(S)[j] => i = j
  BY <1>3 DEF IsInjective
<1> QED BY <1>3, <1>4, EachOnce DEF N

-----------------------------------------------------------------------------
(* How often the queue names a device.                                         *)

Queued(q, h) == {i \in DOMAIN q : q[i].device = h}

LEMMA QueuedFinite ==
  ASSUME NEW S, NEW q \in Seq(S), NEW h
  PROVE  IsFiniteSet(Queued(q, h)) /\ Cardinality(Queued(q, h)) \in Nat
<1>1. DOMAIN q = 1..Len(q) /\ Len(q) \in Nat
  OBVIOUS
<1>2. IsFiniteSet(1..Len(q))
  BY <1>1, FS_Interval
<1>3. Queued(q, h) \subseteq 1..Len(q)
  BY <1>1 DEF Queued
<1>4. IsFiniteSet(Queued(q, h))
  BY <1>2, <1>3, FS_Subset
<1> QED BY <1>4, FS_CardinalityType

LEMMA QueuedAppend ==
  ASSUME NEW S, NEW q \in Seq(S), NEW e \in S, NEW h
  PROVE  Cardinality(Queued(Append(q, e), h)) =
           Cardinality(Queued(q, h)) + (IF e.device = h THEN 1 ELSE 0)
<1> DEFINE r == Append(q, e)
<1>1. /\ Len(q) \in Nat /\ DOMAIN q = 1..Len(q) /\ DOMAIN r = 1..(Len(q) + 1)
      /\ r[Len(q) + 1] = e /\ \A i \in 1..Len(q) : r[i] = q[i]
  OBVIOUS
<1>2. Len(q) + 1 \notin Queued(q, h)
  BY <1>1 DEF Queued
<1>3. Queued(r, h) = IF e.device = h THEN Queued(q, h) \cup {Len(q) + 1} ELSE Queued(q, h)
  <2> HIDE DEF r
  <2>1. \A i \in 1..(Len(q) + 1) : i \in 1..Len(q) \/ i = Len(q) + 1
    BY <1>1
  <2> QED BY <1>1, <2>1 DEF Queued
<1>4. IsFiniteSet(Queued(q, h)) /\ Cardinality(Queued(q, h)) \in Nat
  BY QueuedFinite
<1>5. Cardinality(Queued(q, h) \cup {Len(q) + 1}) = Cardinality(Queued(q, h)) + 1
  BY <1>2, <1>4, FS_AddElement
<1> QED BY <1>3, <1>4, <1>5

LEMMA QueuedTail ==
  ASSUME NEW S, NEW q \in Seq(S), q # <<>>, NEW h
  PROVE  Cardinality(Queued(q, h)) =
           Cardinality(Queued(Tail(q), h)) + (IF Head(q).device = h THEN 1 ELSE 0)
<1> DEFINE r == Tail(q)
           N == Len(q)
<1>1. /\ N \in Nat /\ N >= 1 /\ DOMAIN q = 1..N /\ DOMAIN r = 1..(N - 1)
      /\ r \in Seq(S) /\ Head(q) = q[1] /\ \A i \in 1..(N - 1) : r[i] = q[i + 1]
  OBVIOUS
<1> HIDE DEF r, N
<1> DEFINE A == Queued(r, h)
           B == Queued(q, h) \ {1}
           f == [i \in A |-> i + 1]
<1>2. A \subseteq 1..(N - 1) /\ \A i \in 1..(N - 1) : i \in A <=> i + 1 \in B
  BY <1>1 DEF Queued
<1>3. \A j \in B : j \in 2..N /\ j - 1 \in A /\ f[j - 1] = j
  <2>1. \A j \in B : j \in 2..N
    BY <1>1 DEF Queued
  <2>2. \A j \in 2..N : j - 1 \in 1..(N - 1) /\ (j - 1) + 1 = j
    BY <1>1
  <2> QED BY <1>2, <2>1, <2>2
<1>4. f \in [A -> B] /\ \A i, j \in A : f[i] = f[j] => i = j
  BY <1>1, <1>2
<1>5. f \in Bijection(A, B)
  <2>1. f \in Surjection(A, B)
    BY <1>3, <1>4 DEF Surjection
  <2>2. f \in Injection(A, B)
    BY <1>4 DEF Injection, IsInjective
  <2> QED BY <2>1, <2>2 DEF Bijection
<1>6. IsFiniteSet(A) /\ Cardinality(A) \in Nat
  BY <1>1, QueuedFinite
<1>7. Cardinality(B) = Cardinality(A)
  BY <1>5, <1>6, FS_Bijection DEF ExistsBijection
<1>8. IsFiniteSet(Queued(q, h)) /\ Cardinality(Queued(q, h)) \in Nat
  BY QueuedFinite
<1>9. Cardinality(B) = IF 1 \in Queued(q, h) THEN Cardinality(Queued(q, h)) - 1
                       ELSE Cardinality(Queued(q, h))
  BY <1>8, FS_RemoveElement
<1>10. 1 \in Queued(q, h) <=> Head(q).device = h
  BY <1>1 DEF Queued
<1> QED BY <1>6, <1>7, <1>8, <1>9, <1>10 DEF r

-----------------------------------------------------------------------------
(* The objects and their references.                                           *)

Devices == [node : Nodes \cup {None}, seat : Seats \cup {"none"}, refs : Nat, removed : BOOLEAN,
            open : BOOLEAN, down : BOOLEAN, synced : BOOLEAN]

Contexts == [ring : Rings, device : [Handles -> Devices], seat : [Seats -> [refs : Nat, count : Nat]],
             group : Nat, shown : [Handles -> {"none", "up", "down", "removed", "wrong"}]]

\* A device without references is none; of any other the references that are not
\* the list's are n, and the client was told what it is.
Fits(d, told, n) ==
  \/ d = NoDevice /\ told = "none" /\ n = 0
  \/ /\ d.refs = n + (IF d.removed THEN 0 ELSE 1) /\ d.refs > 0
     /\ d.node \in Nodes /\ d.seat \in Seats
     /\ told \in {"up", "down", "removed"}
     /\ (d.removed <=> told = "removed") /\ (d.down <=> told = "down")
     /\ (d.open => ~d.removed) /\ (d.down => d.open)

On(c, s) == {h \in Live(c) : c.device[h].seat = s}
Down(c, s) == {h \in Handles : c.device[h].seat = s /\ c.shown[h] = "down"}

SeatFits(c, s, n) ==
  /\ c.seat[s].refs = Cardinality(On(c, s)) + n
  /\ c.seat[s].count = Cardinality(Down(c, s))

\* Each device has owed[h] references besides that of the list, each seat
\* keep[s] besides those of its devices.
Counts(c, owed, keep) ==
  /\ c \in Contexts /\ owed \in [Handles -> Nat] /\ keep \in [Seats -> Nat]
  /\ \A h \in Handles : Fits(c.device[h], c.shown[h], owed[h])
  /\ \A s \in Seats : SeatFits(c, s, keep[s])
  /\ c.group = Cardinality(Live(c))

LEMMA Sets ==
  ASSUME NEW c
  PROVE  /\ Live(c) \subseteq Handles /\ Listed(c) \subseteq Live(c)
         /\ IsFiniteSet(Live(c)) /\ IsFiniteSet(Listed(c)) /\ Cardinality(Live(c)) \in Nat
         /\ \A s : IsFiniteSet(On(c, s)) /\ Cardinality(On(c, s)) \in Nat
         /\ \A s : IsFiniteSet(Down(c, s)) /\ Cardinality(Down(c, s)) \in Nat
<1>1. /\ Live(c) \subseteq Handles /\ Listed(c) \subseteq Live(c)
      /\ \A s : On(c, s) \subseteq Handles /\ Down(c, s) \subseteq Handles
  BY DEF Live, Listed, On, Down
<1>2. IsFiniteSet(Handles)
  BY ContextAssumption
<1>3. \A S : S \subseteq Handles => IsFiniteSet(S)
  BY <1>2, FS_Subset
<1>4. /\ IsFiniteSet(Live(c)) /\ IsFiniteSet(Listed(c))
      /\ \A s : IsFiniteSet(On(c, s)) /\ IsFiniteSet(Down(c, s))
  BY <1>1, <1>3
<1> QED BY <1>1, <1>4, FS_CardinalityType

LEMMA Types ==
  ASSUME NEW c \in Contexts
  PROVE  /\ \A h \in Handles : c.device[h] \in Devices
         /\ \A s \in Seats : c.seat[s] \in [refs : Nat, count : Nat]
         /\ c.group \in Nat
  BY DEF Contexts

\* What is said of a device that is there, and of one that is not.
LEMMA LiveFits ==
  ASSUME NEW c, NEW owed, NEW keep, Counts(c, owed, keep), NEW h \in Live(c)
  PROVE  LET d == c.device[h]
         IN  /\ h \in Handles /\ d \in Devices
             /\ d.refs = owed[h] + (IF d.removed THEN 0 ELSE 1) /\ d.refs > 0
             /\ d.node \in Nodes /\ d.seat \in Seats
             /\ c.shown[h] \in {"up", "down", "removed"}
             /\ (d.removed <=> c.shown[h] = "removed") /\ (d.down <=> c.shown[h] = "down")
             /\ (d.open => ~d.removed) /\ (d.down => d.open)
             /\ owed[h] \in Nat
<1>1. h \in Handles /\ c.device[h].refs > 0
  BY DEF Live
<1>2. Fits(c.device[h], c.shown[h], owed[h]) /\ c.device[h] \in Devices /\ owed[h] \in Nat
  BY <1>1, Types DEF Counts
<1>3. c.device[h] # NoDevice
  BY <1>1 DEF NoDevice
<1> QED BY <1>1, <1>2, <1>3 DEF Fits

LEMMA DeadFits ==
  ASSUME NEW c, NEW owed, NEW keep, Counts(c, owed, keep), NEW h \in Handles \ Live(c)
  PROVE  c.device[h] = NoDevice /\ c.shown[h] = "none" /\ owed[h] = 0
<1>1. ~(c.device[h].refs > 0)
  BY DEF Live
<1> QED BY <1>1 DEF Counts, Fits

\* One device changes, and with it perhaps the keys that are down on its seat.
LEMMA OneChanges ==
  ASSUME NEW c, NEW owed, NEW keep, Counts(c, owed, keep), NEW h \in Live(c),
         NEW u \in Contexts, NEW new \in [Handles -> Nat],
         \A g \in Handles \ {h} : /\ u.device[g] = c.device[g] /\ u.shown[g] = c.shown[g]
                                  /\ new[g] = owed[g],
         Fits(u.device[h], u.shown[h], new[h]), u.device[h].refs > 0,
         u.device[h].seat = c.device[h].seat, u.group = c.group,
         \A s \in Seats : u.seat[s].refs = c.seat[s].refs,
         \A s \in Seats : u.seat[s].count = Cardinality(Down(u, s))
  PROVE  Counts(u, new, keep) /\ Live(u) = Live(c)
<1>1. h \in Handles
  BY DEF Live
<1>2. Live(u) = Live(c)
  BY <1>1 DEF Live
<1>3. \A s : On(u, s) = On(c, s)
  <2>1. \A g \in Live(c) : u.device[g].seat = c.device[g].seat
    BY Sets
  <2> QED BY <1>2, <2>1 DEF On
<1>4. \A s \in Seats : SeatFits(u, s, keep[s])
  BY <1>3 DEF Counts, SeatFits
<1>5. \A g \in Handles : Fits(u.device[g], u.shown[g], new[g])
  BY DEF Counts
<1> QED BY <1>2, <1>4, <1>5 DEF Counts

\* Which keys are down after that.
LEMMA DownAgain ==
  ASSUME NEW c, NEW h \in Handles, NEW u,
         \A g \in Handles \ {h} : u.device[g] = c.device[g] /\ u.shown[g] = c.shown[g],
         u.device[h].seat = c.device[h].seat,
         u.shown[h] = "down" <=> c.shown[h] = "down"
  PROVE  \A s : Down(u, s) = Down(c, s)
  BY DEF Down

LEMMA DownMore ==
  ASSUME NEW c, NEW h \in Handles, NEW u,
         \A g \in Handles \ {h} : u.device[g] = c.device[g] /\ u.shown[g] = c.shown[g],
         u.device[h].seat = c.device[h].seat, NEW s,
         u.shown[h] = "down", c.shown[h] # "down"
  PROVE  Cardinality(Down(u, s)) = Cardinality(Down(c, s)) + (IF c.device[h].seat = s THEN 1 ELSE 0)
<1>1. Down(u, s) = IF c.device[h].seat = s THEN Down(c, s) \cup {h} ELSE Down(c, s)
  BY DEF Down
<1>2. h \notin Down(c, s)
  BY DEF Down
<1>3. IsFiniteSet(Down(c, s)) /\ Cardinality(Down(c, s)) \in Nat
  BY Sets
<1>4. Cardinality(Down(c, s) \cup {h}) = Cardinality(Down(c, s)) + 1
  BY <1>2, <1>3, FS_AddElement
<1> QED BY <1>1, <1>3, <1>4

LEMMA DownLess ==
  ASSUME NEW c, NEW h \in Handles, NEW u,
         \A g \in Handles \ {h} : u.device[g] = c.device[g] /\ u.shown[g] = c.shown[g],
         u.device[h].seat = c.device[h].seat, NEW s,
         u.shown[h] # "down", c.shown[h] = "down"
  PROVE  /\ Cardinality(Down(u, s)) = Cardinality(Down(c, s)) - (IF c.device[h].seat = s THEN 1 ELSE 0)
         /\ c.device[h].seat = s => Cardinality(Down(c, s)) > 0
<1>1. Down(u, s) = IF c.device[h].seat = s THEN Down(c, s) \ {h} ELSE Down(c, s)
  BY DEF Down
<1>2. c.device[h].seat = s => h \in Down(c, s)
  BY DEF Down
<1>3. IsFiniteSet(Down(c, s)) /\ Cardinality(Down(c, s)) \in Nat
  BY Sets
<1>4. c.device[h].seat = s => Cardinality(Down(c, s) \ {h}) = Cardinality(Down(c, s)) - 1
  BY <1>2, <1>3, FS_RemoveElement
<1>5. c.device[h].seat = s => Cardinality(Down(c, s)) # 0
  BY <1>2, <1>3, FS_EmptySet
<1> QED BY <1>1, <1>3, <1>4, <1>5

-----------------------------------------------------------------------------
(* The queue and what it owes.                                                 *)

Told(c) == Unread(c.ring)
Owed(c, grip) == [h \in Handles |-> Cardinality(Queued(Told(c), h)) + grip[h]]

\* grip counts the client's references to a device, keep those to a seat.
Sound(c, grip, keep) ==
  /\ RingInv(c.ring)
  /\ \A i \in 1..Len(Told(c)) : Told(c)[i].device \in Handles
  /\ grip \in [Handles -> Nat]
  /\ Counts(c, Owed(c, grip), keep)

Longer(c, u) ==
  /\ Len(Told(c)) <= Len(Told(u))
  /\ \A i \in 1..Len(Told(c)) : Told(u)[i] = Told(c)[i]

LEMMA OwedType ==
  ASSUME NEW c, RingInv(c.ring), NEW grip \in [Handles -> Nat]
  PROVE  Owed(c, grip) \in [Handles -> Nat]
<1>1. \A h : Cardinality(Queued(Told(c), h)) \in Nat
  BY UnreadAt, QueuedFinite DEF Told
<1> QED BY <1>1 DEF Owed

LEMMA PostedOwed ==
  ASSUME NEW c, NEW grip, NEW keep, Sound(c, grip, keep), NEW h \in Handles,
         NEW type \in EventTypes, NEW u,
         u.ring = Posted(c.ring, [type |-> type, device |-> h])
  PROVE  /\ RingInv(u.ring) /\ u.ring \in Rings
         /\ \A i \in 1..Len(Told(u)) : Told(u)[i].device \in Handles
         /\ Owed(u, grip) \in [Handles -> Nat]
         /\ Owed(u, grip)[h] = Owed(c, grip)[h] + 1
         /\ \A g \in Handles \ {h} : Owed(u, grip)[g] = Owed(c, grip)[g]
         /\ Longer(c, u)
<1> DEFINE e == [type |-> type, device |-> h]
           q == Told(c)
<1>1. e \in Events /\ e.device = h
  BY ContextAssumption
<1> HIDE DEF e
<1>2. u.ring = Posted(c.ring, e)
  BY DEF e
<1>3. RingInv(c.ring) /\ q \in Seq(Events)
  BY UnreadAt DEF Sound, Told
<1>4. RingInv(u.ring) /\ Told(u) = Append(q, e)
  BY <1>1, <1>2, <1>3, PostedAppends DEF Told
<1>5. /\ \A i \in 1..Len(q) : Append(q, e)[i] = q[i]
      /\ Append(q, e)[Len(q) + 1] = e /\ Len(Append(q, e)) = Len(q) + 1 /\ Len(q) \in Nat
  BY <1>3
<1>6. \A i \in 1..Len(Told(u)) : Told(u)[i].device \in Handles
  <2>1. \A i \in 1..(Len(q) + 1) : i \in 1..Len(q) \/ i = Len(q) + 1
    BY <1>5
  <2> QED BY <1>1, <1>4, <1>5, <2>1 DEF Sound
<1>7. \A g : Cardinality(Queued(Told(u), g)) =
               Cardinality(Queued(q, g)) + (IF e.device = g THEN 1 ELSE 0)
  BY <1>1, <1>3, <1>4, QueuedAppend
<1>8. \A g : Cardinality(Queued(q, g)) \in Nat
  BY <1>3, QueuedFinite
<1>9. grip \in [Handles -> Nat]
  BY DEF Sound
<1>10. /\ Owed(u, grip)[h] = Owed(c, grip)[h] + 1
       /\ \A g \in Handles \ {h} : Owed(u, grip)[g] = Owed(c, grip)[g]
  BY <1>1, <1>7, <1>8, <1>9 DEF Owed
<1>11. Longer(c, u)
  BY <1>4, <1>5 DEF Longer
<1>12. u.ring \in Rings
  BY <1>4 DEF RingInv
<1> QED BY <1>4, <1>6, <1>9, <1>10, <1>11, <1>12, OwedType

\* An operation that leaves the queue alone.
LEMMA SameRing ==
  ASSUME NEW c, NEW grip, NEW keep, Sound(c, grip, keep), NEW u, u.ring = c.ring
  PROVE  /\ RingInv(u.ring) /\ u.ring \in Rings
         /\ \A i \in 1..Len(Told(u)) : Told(u)[i].device \in Handles
         /\ Owed(u, grip) = Owed(c, grip) /\ Owed(u, grip) \in [Handles -> Nat]
         /\ Longer(c, u)
<1>1. Told(u) = Told(c) /\ RingInv(u.ring) /\ grip \in [Handles -> Nat]
  BY DEF Told, Sound
<1>2. Len(Told(c)) \in Nat
  BY <1>1, UnreadAt DEF Told, Sound
<1> QED BY <1>1, <1>2, OwedType DEF Owed, Longer, Sound, RingInv

-----------------------------------------------------------------------------
(* What an operation on one device does to the record of the objects.          *)

LEMMA DeviceRefIs ==
  ASSUME NEW c \in Contexts, NEW h \in Handles
  PROVE  LET u == DeviceRef(c, h)
         IN  /\ u \in Contexts
             /\ u.ring = c.ring /\ u.seat = c.seat /\ u.group = c.group /\ u.shown = c.shown
             /\ u.device = [c.device EXCEPT ![h].refs = c.device[h].refs + 1]
<1>1. [c.device EXCEPT ![h].refs = c.device[h].refs + 1] \in [Handles -> Devices]
  BY DEF Contexts, Devices
<1>2. DeviceRef(c, h) = [c EXCEPT !.device = [c.device EXCEPT ![h].refs = c.device[h].refs + 1]]
  BY DEF DeviceRef, Contexts
<1> QED BY <1>1, <1>2 DEF Contexts

LEMMA PostIs ==
  ASSUME NEW c \in Contexts, NEW h \in Handles, NEW type \in EventTypes,
         Posted(c.ring, [type |-> type, device |-> h]) \in Rings
  PROVE  LET u == Post(c, h, type)
         IN  /\ u \in Contexts
             /\ u.ring = Posted(c.ring, [type |-> type, device |-> h])
             /\ u.seat = c.seat /\ u.group = c.group
             /\ u.device = [c.device EXCEPT ![h].refs = c.device[h].refs + 1]
             /\ u.shown = [c.shown EXCEPT ![h] = Shown(c.shown[h], type)]
<1> DEFINE b == [c EXCEPT !.ring = Posted(@, [type |-> type, device |-> h]),
                          !.shown[h] = Shown(@, type)]
           r == Posted(c.ring, [type |-> type, device |-> h])
           t == [c.shown EXCEPT ![h] = Shown(c.shown[h], type)]
<1>1. b = [c EXCEPT !.ring = r, !.shown = t]
  BY DEF Contexts
<1>2. t \in [Handles -> {"none", "up", "down", "removed", "wrong"}]
  BY DEF Contexts, Shown
<1>3. Post(c, h, type) = DeviceRef(b, h)
  BY DEF Post
<1> HIDE DEF r, t, b
<1>4. r \in Rings
  BY DEF r
<1>5. /\ b \in Contexts /\ b.ring = r /\ b.shown = t
      /\ b.seat = c.seat /\ b.group = c.group /\ b.device = c.device
  BY <1>1, <1>2, <1>4 DEF Contexts
<1> DEFINE u == DeviceRef(b, h)
<1>6. /\ u \in Contexts
      /\ u.ring = b.ring /\ u.seat = b.seat /\ u.group = b.group /\ u.shown = b.shown
      /\ u.device = [b.device EXCEPT ![h].refs = b.device[h].refs + 1]
  BY <1>5, DeviceRefIs
<1> HIDE DEF u
<1>7. u = Post(c, h, type)
  BY <1>3 DEF u
<1> QED BY <1>5, <1>6, <1>7 DEF r, t

-----------------------------------------------------------------------------
(* Devices that are read, suspended, resumed and removed.                      *)

\* The same devices are there, and where they were; what is told is told after
\* what was told.
Stays(c, u) ==
  /\ Live(u) = Live(c)
  /\ \A g \in Live(c) : u.device[g].node = c.device[g].node /\ u.device[g].seat = c.device[g].seat
  /\ Longer(c, u)

\* One device gets its event and changes, but stays on its seat.
LEMMA TellOne ==
  ASSUME NEW c, NEW grip, NEW keep, Sound(c, grip, keep), NEW h \in Live(c),
         NEW type \in EventTypes, NEW u \in Contexts,
         u.ring = Posted(c.ring, [type |-> type, device |-> h]),
         \A g \in Handles \ {h} : u.device[g] = c.device[g] /\ u.shown[g] = c.shown[g],
         Fits(u.device[h], u.shown[h], Owed(c, grip)[h] + 1), u.device[h].refs > 0,
         u.device[h].seat = c.device[h].seat, u.device[h].node = c.device[h].node,
         u.group = c.group,
         \A s \in Seats : u.seat[s].refs = c.seat[s].refs,
         \A s \in Seats : u.seat[s].count = Cardinality(Down(u, s))
  PROVE  Sound(u, grip, keep) /\ Stays(c, u)
<1>1. h \in Handles /\ Counts(c, Owed(c, grip), keep) /\ grip \in [Handles -> Nat]
  BY Sets DEF Sound
<1>2. /\ RingInv(u.ring) /\ Owed(u, grip) \in [Handles -> Nat] /\ Longer(c, u)
      /\ \A i \in 1..Len(Told(u)) : Told(u)[i].device \in Handles
      /\ Owed(u, grip)[h] = Owed(c, grip)[h] + 1
      /\ \A g \in Handles \ {h} : Owed(u, grip)[g] = Owed(c, grip)[g]
  BY <1>1, PostedOwed
<1>3. Counts(u, Owed(u, grip), keep) /\ Live(u) = Live(c)
  <2>1. Fits(u.device[h], u.shown[h], Owed(u, grip)[h])
    BY <1>2
  <2> QED BY <1>1, <1>2, <2>1, OneChanges
<1>4. \A g \in Live(c) : u.device[g].node = c.device[g].node /\ u.device[g].seat = c.device[g].seat
  BY Sets
<1> QED BY <1>1, <1>2, <1>3, <1>4 DEF Sound, Stays

\* One device changes without an event.
LEMMA ChangeOne ==
  ASSUME NEW c, NEW grip, NEW keep, Sound(c, grip, keep), NEW h \in Live(c),
         NEW u \in Contexts, u.ring = c.ring,
         \A g \in Handles \ {h} : u.device[g] = c.device[g] /\ u.shown[g] = c.shown[g],
         Fits(u.device[h], u.shown[h], Owed(c, grip)[h]), u.device[h].refs > 0,
         u.device[h].seat = c.device[h].seat, u.device[h].node = c.device[h].node,
         u.group = c.group, u.seat = c.seat, u.shown[h] = "down" <=> c.shown[h] = "down"
  PROVE  Sound(u, grip, keep) /\ Stays(c, u)
<1>1. h \in Handles /\ Counts(c, Owed(c, grip), keep) /\ grip \in [Handles -> Nat]
  BY Sets DEF Sound
<1>2. /\ RingInv(u.ring) /\ Owed(u, grip) = Owed(c, grip) /\ Longer(c, u)
      /\ \A i \in 1..Len(Told(u)) : Told(u)[i].device \in Handles
      /\ Owed(u, grip) \in [Handles -> Nat]
  BY SameRing
<1>3. \A s : Down(u, s) = Down(c, s)
  BY <1>1, DownAgain
<1>4. \A s \in Seats : u.seat[s].refs = c.seat[s].refs /\ u.seat[s].count = Cardinality(Down(u, s))
  BY <1>1, <1>3 DEF Counts, SeatFits
<1>5. Counts(u, Owed(u, grip), keep) /\ Live(u) = Live(c)
  BY <1>1, <1>2, <1>4, OneChanges
<1>6. \A g \in Live(c) : u.device[g].node = c.device[g].node /\ u.device[g].seat = c.device[g].seat
  BY Sets
<1> QED BY <1>1, <1>2, <1>5, <1>6 DEF Sound, Stays

KeyType(pressed) == IF pressed THEN "pressed" ELSE "released"

KeyCount(count, pressed) ==
  IF pressed THEN count + 1 ELSE IF count = 0 THEN 0 ELSE count - 1

\* The record keyboard_notify_key leaves.
KeyLeaves(c, h, pressed, u) ==
  /\ u \in Contexts
  /\ u.ring = Posted(c.ring, [type |-> KeyType(pressed), device |-> h])
  /\ u.group = c.group
  /\ u.device = [c.device EXCEPT ![h].down = pressed, ![h].refs = c.device[h].refs + 1]
  /\ u.shown = [c.shown EXCEPT ![h] = Shown(c.shown[h], KeyType(pressed))]
  /\ u.seat = [c.seat EXCEPT ![c.device[h].seat].count =
                  KeyCount(c.seat[c.device[h].seat].count, pressed)]

LEMMA KeyIs ==
  ASSUME NEW c \in Contexts, NEW h \in Handles, NEW pressed \in BOOLEAN,
         c.device[h].seat \in Seats,
         Posted(c.ring, [type |-> KeyType(pressed), device |-> h]) \in Rings
  PROVE  KeyLeaves(c, h, pressed, Key(c, h, pressed))
<1> DEFINE s == c.device[h].seat
           counted == KeyCount(c.seat[s].count, pressed)
           type == KeyType(pressed)
           D == [c.device EXCEPT ![h].down = pressed]
           S == [c.seat EXCEPT ![s].count = counted]
           b == [c EXCEPT !.device[h].down = pressed, !.seat[s].count = counted]
           v == Post(b, h, type)
<1>1. type \in EventTypes
  BY DEF EventTypes, KeyType
<1>2. D \in [Handles -> Devices]
  BY DEF Contexts, Devices
<1>3. counted \in Nat
  BY Types DEF KeyCount
<1>4. S \in [Seats -> [refs : Nat, count : Nat]]
  <2> HIDE DEF counted
  <2> QED BY <1>3 DEF Contexts
<1>5. b = [c EXCEPT !.device = D, !.seat = S]
  <2> HIDE DEF counted
  <2> QED BY DEF Contexts
<1>6. Key(c, h, pressed) = v
  BY DEF Key, KeyType, KeyCount
<1> HIDE DEF b, D, S, type, counted
<1>7. /\ b \in Contexts /\ b.ring = c.ring /\ b.device = D /\ b.seat = S
      /\ b.group = c.group /\ b.shown = c.shown
  BY <1>2, <1>4, <1>5 DEF Contexts
<1>8. /\ v \in Contexts /\ v.ring = Posted(b.ring, [type |-> type, device |-> h])
      /\ v.seat = b.seat /\ v.group = b.group
      /\ v.device = [b.device EXCEPT ![h].refs = b.device[h].refs + 1]
      /\ v.shown = [b.shown EXCEPT ![h] = Shown(b.shown[h], type)]
  BY <1>1, <1>7, PostIs DEF type
<1> HIDE DEF v
<1>9. [D EXCEPT ![h].refs = D[h].refs + 1] =
        [c.device EXCEPT ![h].down = pressed, ![h].refs = c.device[h].refs + 1]
  BY DEF D, Contexts, Devices
<1>10. /\ v \in Contexts /\ v.ring = Posted(c.ring, [type |-> type, device |-> h])
       /\ v.seat = S /\ v.group = c.group
       /\ v.device = [c.device EXCEPT ![h].down = pressed, ![h].refs = c.device[h].refs + 1]
       /\ v.shown = [c.shown EXCEPT ![h] = Shown(c.shown[h], type)]
  BY <1>7, <1>8, <1>9
<1> QED BY <1>6, <1>10 DEF S, type, counted, KeyLeaves

\* What it does to the device.
Keyed(c, h, pressed, u) ==
  /\ Stays(c, u)
  /\ \A g \in Handles \ {h} : u.device[g] = c.device[g]
  /\ u.device[h].removed = c.device[h].removed
  /\ u.device[h].open = c.device[h].open /\ u.device[h].down = pressed

LEMMA KeySound ==
  ASSUME NEW c, NEW grip, NEW keep, Sound(c, grip, keep), NEW h \in Live(c),
         NEW pressed \in BOOLEAN, c.device[h].open, c.device[h].down # pressed
  PROVE  Sound(Key(c, h, pressed), grip, keep) /\ Keyed(c, h, pressed, Key(c, h, pressed))
<1> DEFINE u == Key(c, h, pressed)
           d == c.device[h]
           type == KeyType(pressed)
           owed == Owed(c, grip)
<1>1. h \in Handles /\ Counts(c, owed, keep) /\ c \in Contexts
  BY Sets DEF Sound, Counts
<1>2. /\ d \in Devices /\ d.refs = owed[h] + 1 /\ owed[h] \in Nat /\ ~d.removed
      /\ d.node \in Nodes /\ d.seat \in Seats
      /\ c.shown[h] = IF pressed THEN "up" ELSE "down"
  BY <1>1, LiveFits DEF Devices
<1>3. type \in EventTypes
  BY DEF EventTypes, KeyType
<1>4. Posted(c.ring, [type |-> type, device |-> h]) \in Rings
  <2> DEFINE r == [ring |-> Posted(c.ring, [type |-> type, device |-> h])]
  <2>1. r.ring = Posted(c.ring, [type |-> type, device |-> h])
    OBVIOUS
  <2> HIDE DEF r
  <2> QED BY <1>1, <1>3, <2>1, PostedOwed
<1>5. /\ u \in Contexts /\ u.ring = Posted(c.ring, [type |-> type, device |-> h])
      /\ u.group = c.group
      /\ u.device = [c.device EXCEPT ![h].down = pressed, ![h].refs = d.refs + 1]
      /\ u.shown = [c.shown EXCEPT ![h] = Shown(c.shown[h], type)]
      /\ u.seat = [c.seat EXCEPT ![d.seat].count = KeyCount(c.seat[d.seat].count, pressed)]
  <2>1. KeyLeaves(c, h, pressed, u)
    BY <1>1, <1>2, <1>4, KeyIs
  <2> HIDE DEF u
  <2> QED BY <2>1 DEF KeyLeaves
<1> HIDE DEF u
<1>6. /\ u.device[h] = [d EXCEPT !.down = pressed, !.refs = d.refs + 1]
      /\ \A g \in Handles \ {h} : u.device[g] = c.device[g] /\ u.shown[g] = c.shown[g]
      /\ u.shown[h] = IF pressed THEN "down" ELSE "up"
  <2>1. c.device \in [Handles -> Devices] /\ DOMAIN c.shown = Handles
    BY <1>1 DEF Contexts
  <2>2. Shown(c.shown[h], type) = IF pressed THEN "down" ELSE "up"
    BY <1>2 DEF Shown, KeyType
  <2> QED BY <1>1, <1>5, <2>1, <2>2
<1>7. /\ u.device[h].down = pressed /\ u.device[h].refs = d.refs + 1
      /\ u.device[h].removed = d.removed /\ u.device[h].open = d.open
      /\ u.device[h].node = d.node /\ u.device[h].seat = d.seat
  BY <1>2, <1>6 DEF Devices
<1>8. Fits(u.device[h], u.shown[h], owed[h] + 1) /\ u.device[h].refs > 0
  BY <1>2, <1>6, <1>7 DEF Fits
<1>9. \A s \in Seats : u.seat[s].refs = c.seat[s].refs
  BY <1>1, <1>2, <1>5 DEF Contexts
<1>10. \A s \in Seats : u.seat[s].count = Cardinality(Down(u, s))
  <2> SUFFICES ASSUME NEW s \in Seats PROVE u.seat[s].count = Cardinality(Down(u, s))
    OBVIOUS
  <2>1. c.seat[s].count = Cardinality(Down(c, s)) /\ c.seat[s].count \in Nat
    BY <1>1, Types DEF Counts, SeatFits
  <2>2. u.seat[s].count = IF d.seat # s THEN c.seat[s].count
                          ELSE KeyCount(c.seat[s].count, pressed)
    BY <1>1, <1>2, <1>5 DEF Contexts
  <2>3. CASE pressed
    <3>1. u.shown[h] = "down" /\ c.shown[h] # "down"
      BY <1>2, <1>6, <2>3
    <3>2. Cardinality(Down(u, s)) = Cardinality(Down(c, s)) + (IF d.seat = s THEN 1 ELSE 0)
      <4>1. /\ \A g \in Handles \ {h} : u.device[g] = c.device[g] /\ u.shown[g] = c.shown[g]
            /\ u.device[h].seat = c.device[h].seat
        BY <1>6, <1>7
      <4> QED BY <1>1, <3>1, <4>1, DownMore
    <3> QED BY <2>1, <2>2, <2>3, <3>2 DEF KeyCount
  <2>4. CASE ~pressed
    <3>1. /\ Cardinality(Down(u, s)) = Cardinality(Down(c, s)) - (IF d.seat = s THEN 1 ELSE 0)
          /\ d.seat = s => Cardinality(Down(c, s)) > 0
      <4>1. u.shown[h] # "down" /\ c.shown[h] = "down"
        BY <1>2, <1>6, <2>4
      <4> QED BY <1>1, <1>6, <1>7, <4>1, DownLess
    <3> QED BY <2>1, <2>2, <2>4, <3>1 DEF KeyCount
  <2> QED BY <2>3, <2>4
<1>11. Sound(u, grip, keep) /\ Stays(c, u)
  <2> HIDE DEF type, owed, d
  <2>1. \A g \in Handles \ {h} : u.device[g] = c.device[g] /\ u.shown[g] = c.shown[g]
    BY <1>6
  <2>2. Fits(u.device[h], u.shown[h], Owed(c, grip)[h] + 1) /\ u.device[h].refs > 0
    BY <1>8 DEF owed
  <2>3. u.device[h].seat = c.device[h].seat /\ u.device[h].node = c.device[h].node
    BY <1>7 DEF d
  <2>4. /\ u \in Contexts /\ u.ring = Posted(c.ring, [type |-> type, device |-> h])
        /\ u.group = c.group
    BY <1>5
  <2> QED BY <1>3, <1>9, <1>10, <2>1, <2>2, <2>3, <2>4, TellOne
<1> QED BY <1>6, <1>7, <1>11 DEF u, Keyed

LEMMA StaysOn ==
  ASSUME NEW a, NEW b, NEW c, RingInv(a.ring), RingInv(b.ring), RingInv(c.ring),
         Stays(a, b), Stays(b, c)
  PROVE  Stays(a, c)
<1>1. /\ Len(Told(a)) \in Nat /\ Len(Told(b)) \in Nat /\ Len(Told(c)) \in Nat
  BY UnreadAt DEF Told
<1>2. Longer(a, c)
  BY <1>1 DEF Stays, Longer
<1> QED BY <1>2 DEF Stays

LEMMA SoundRing ==
  ASSUME NEW c, NEW grip, NEW keep, Sound(c, grip, keep)
  PROVE  RingInv(c.ring) /\ c \in Contexts /\ Counts(c, Owed(c, grip), keep)
  BY DEF Sound, Counts

LEMMA StaysSame ==
  ASSUME NEW c, NEW grip, NEW keep, Sound(c, grip, keep)
  PROVE  Stays(c, c)
<1>1. Len(Told(c)) \in Nat
  BY SoundRing, UnreadAt DEF Told
<1> QED BY <1>1 DEF Stays, Longer

\* A device is closed.
Closed(c, h, u) ==
  /\ Stays(c, u)
  /\ \A g \in Handles \ {h} : u.device[g] = c.device[g]
  /\ u.device[h].removed = c.device[h].removed
  /\ ~u.device[h].open

Puts(c, h, d, u) ==
  /\ u \in Contexts
  /\ u.ring = c.ring /\ u.seat = c.seat /\ u.group = c.group /\ u.shown = c.shown
  /\ u.device[h] = d
  /\ \A g \in Handles \ {h} : u.device[g] = c.device[g]

LEMMA PutsDevice ==
  ASSUME NEW c \in Contexts, NEW h \in Handles, NEW d \in Devices
  PROVE  Puts(c, h, d, [c EXCEPT !.device[h] = d])
<1> DEFINE D == [c.device EXCEPT ![h] = d]
<1>1. D \in [Handles -> Devices] /\ D[h] = d /\ \A g \in Handles \ {h} : D[g] = c.device[g]
  BY DEF Contexts
<1>2. [c EXCEPT !.device[h] = d] = [c EXCEPT !.device = D]
  BY DEF Contexts
<1> HIDE DEF D
<1> QED BY <1>1, <1>2 DEF Contexts, Puts

LEMMA DeviceSuspendSound ==
  ASSUME NEW c, NEW grip, NEW keep, Sound(c, grip, keep), NEW h \in Live(c)
  PROVE  /\ Sound(DeviceSuspend(c, h), grip, keep)
         /\ Closed(c, h, DeviceSuspend(c, h))
<1> DEFINE b == IF c.device[h].down THEN Key(c, h, FALSE) ELSE c
           d == [b.device[h] EXCEPT !.open = FALSE]
           u == [b EXCEPT !.device[h] = d]
<1>1. h \in Handles /\ c \in Contexts /\ RingInv(c.ring)
  BY Sets, SoundRing
<1>2. /\ Sound(b, grip, keep) /\ Stays(c, b)
      /\ \A g \in Handles \ {h} : b.device[g] = c.device[g]
      /\ b.device[h].removed = c.device[h].removed /\ b.device[h].down = FALSE
  <2>1. CASE c.device[h].down
    <3>1. c.device[h].open
      BY <2>1, SoundRing, LiveFits
    <3>2. c.device[h].down # FALSE
      BY <2>1
    <3> HIDE DEF b
    <3>3. b = Key(c, h, FALSE)
      BY <2>1 DEF b
    <3>4. Sound(b, grip, keep) /\ Keyed(c, h, FALSE, b)
      BY <3>1, <3>2, <3>3, KeySound
    <3> QED BY <3>4 DEF Keyed
  <2>2. CASE ~c.device[h].down
    <3>1. c.device[h].down \in BOOLEAN
      BY <1>1 DEF Contexts, Devices
    <3> QED BY <2>2, <3>1, StaysSame
  <2> QED BY <2>1, <2>2
<1>3. u = DeviceSuspend(c, h)
  BY DEF DeviceSuspend
<1> HIDE DEF b, u
<1>4. b \in Contexts /\ RingInv(b.ring) /\ Counts(b, Owed(b, grip), keep) /\ h \in Live(b)
  BY <1>2, SoundRing DEF Stays
<1>5. /\ u \in Contexts
      /\ u.ring = b.ring /\ u.seat = b.seat /\ u.group = b.group /\ u.shown = b.shown
      /\ \A g \in Handles \ {h} : u.device[g] = b.device[g]
      /\ u.device[h].refs = b.device[h].refs /\ u.device[h].node = b.device[h].node
      /\ u.device[h].seat = b.device[h].seat /\ u.device[h].removed = b.device[h].removed
      /\ u.device[h].down = b.device[h].down /\ u.device[h].open = FALSE
  <2>1. b.device[h] \in Devices
    BY <1>1, <1>4, Types
  <2>2. /\ d \in Devices /\ d.refs = b.device[h].refs /\ d.node = b.device[h].node
        /\ d.seat = b.device[h].seat /\ d.removed = b.device[h].removed
        /\ d.down = b.device[h].down /\ d.open = FALSE
    BY <2>1 DEF Devices
  <2> HIDE DEF d
  <2>3. Puts(b, h, d, u)
    BY <1>1, <1>4, <2>2, PutsDevice DEF u
  <2> QED BY <2>2, <2>3 DEF Puts
<1>7. Fits(u.device[h], u.shown[h], Owed(b, grip)[h]) /\ u.device[h].refs > 0
  <2>1. /\ b.device[h].refs = Owed(b, grip)[h] + (IF b.device[h].removed THEN 0 ELSE 1)
        /\ b.device[h].refs > 0
        /\ b.device[h].node \in Nodes /\ b.device[h].seat \in Seats
        /\ b.shown[h] \in {"up", "down", "removed"}
        /\ (b.device[h].removed <=> b.shown[h] = "removed")
        /\ (b.device[h].down <=> b.shown[h] = "down")
    BY <1>4, LiveFits
  <2> QED BY <1>2, <1>5, <2>1 DEF Fits
<1>8. Sound(u, grip, keep) /\ Stays(b, u)
  BY <1>2, <1>4, <1>5, <1>7, ChangeOne
<1>9. Stays(c, u)
  BY <1>1, <1>2, <1>4, <1>8, SoundRing, StaysOn
<1> QED BY <1>2, <1>3, <1>5, <1>8, <1>9 DEF Closed

LEMMA DeviceResumeSound ==
  ASSUME NEW c, NEW grip, NEW keep, Sound(c, grip, keep), NEW h \in Live(c),
         \A n \in Nodes : node[n].key \in BOOLEAN
  PROVE  /\ Sound(DeviceResume(c, h), grip, keep) /\ Stays(c, DeviceResume(c, h))
         /\ \A g \in Handles : DeviceResume(c, h).device[g].removed = c.device[g].removed
<1> DEFINE key == node[c.device[h].node].key
           d == [c.device[h] EXCEPT !.open = TRUE, !.synced = key]
           u == [c EXCEPT !.device[h] = d]
<1>1. /\ h \in Handles /\ c \in Contexts /\ Counts(c, Owed(c, grip), keep)
  BY Sets, SoundRing
<1>2. CASE DeviceResume(c, h) = c
  BY <1>2, StaysSame
<1>3. CASE DeviceResume(c, h) = u /\ ~c.device[h].open /\ ~c.device[h].removed
  <2>1. /\ c.device[h].refs = Owed(c, grip)[h] + (IF c.device[h].removed THEN 0 ELSE 1)
        /\ c.device[h].refs > 0
        /\ c.device[h].node \in Nodes /\ c.device[h].seat \in Seats
        /\ c.shown[h] \in {"up", "down", "removed"}
        /\ (c.device[h].removed <=> c.shown[h] = "removed")
        /\ (c.device[h].down <=> c.shown[h] = "down")
    BY <1>1, LiveFits
  <2>2. key \in BOOLEAN
    BY <2>1
  <2> HIDE DEF key
  <2>3. c.device[h] \in Devices
    BY <1>1, Types
  <2>4. /\ u.ring = c.ring /\ u.seat = c.seat /\ u.group = c.group /\ u.shown = c.shown
        /\ \A g \in Handles \ {h} : u.device[g] = c.device[g]
        /\ u.device[h].refs = c.device[h].refs /\ u.device[h].node = c.device[h].node
        /\ u.device[h].seat = c.device[h].seat /\ u.device[h].removed = c.device[h].removed
        /\ u.device[h].down = c.device[h].down /\ u.device[h].open = TRUE
        /\ u \in Contexts
    <3>1. /\ d \in Devices /\ d.refs = c.device[h].refs /\ d.node = c.device[h].node
          /\ d.seat = c.device[h].seat /\ d.removed = c.device[h].removed
          /\ d.down = c.device[h].down /\ d.open = TRUE
      BY <2>2, <2>3 DEF Devices
    <3> HIDE DEF d
    <3>2. Puts(c, h, d, u)
      BY <1>1, <3>1, PutsDevice
    <3> HIDE DEF u
    <3> QED BY <3>1, <3>2 DEF Puts
  <2> HIDE DEF u
  <2>5. Fits(u.device[h], u.shown[h], Owed(c, grip)[h]) /\ u.device[h].refs > 0
    BY <1>3, <2>1, <2>4 DEF Fits
  <2>6. Sound(u, grip, keep) /\ Stays(c, u)
    BY <2>4, <2>5, ChangeOne
  <2> QED BY <1>1, <1>3, <2>4, <2>6
<1> QED BY <1>2, <1>3 DEF DeviceResume

\* A device leaves the list.
Removes(c, h, u) ==
  /\ Stays(c, u)
  /\ \A g \in Handles \ {h} : u.device[g] = c.device[g]
  /\ u.device[h].removed

\* The reference of the list goes, that of the event comes.
RemoveLeaves(c, h, u) ==
  /\ u \in Contexts
  /\ u.ring = Posted(c.ring, [type |-> "removed", device |-> h])
  /\ u.group = c.group /\ u.seat = c.seat
  /\ u.device = [c.device EXCEPT ![h].removed = TRUE]
  /\ u.shown = [c.shown EXCEPT ![h] = Shown(c.shown[h], "removed")]

LEMMA RemoveIs ==
  ASSUME NEW c \in Contexts, NEW h \in Handles, c.device[h].refs > 0,
         Posted(c.ring, [type |-> "removed", device |-> h]) \in Rings
  PROVE  RemoveLeaves(c, h, DeviceUnref(Post([c EXCEPT !.device[h].removed = TRUE], h, "removed"), h))
<1> DEFINE d == [c.device[h] EXCEPT !.removed = TRUE]
           b == [c EXCEPT !.device[h].removed = TRUE]
           v == Post(b, h, "removed")
           u == DeviceUnref(v, h)
           n == c.device[h].refs
<1>1. /\ c.device \in [Handles -> Devices] /\ c.device[h] \in Devices /\ n \in Nat /\ n > 0
      /\ d \in Devices /\ d.refs = n
  <2>1. c.device \in [Handles -> Devices] /\ c.device[h] \in Devices
    BY Types DEF Contexts
  <2> HIDE DEF b, v, u
  <2> QED BY <2>1 DEF Devices
<1> HIDE DEF n
<1>2. Puts(c, h, d, b)
  <2>1. b = [c EXCEPT !.device[h] = d]
    BY <1>1 DEF Contexts
  <2> HIDE DEF b, d
  <2> QED BY <1>1, <2>1, PutsDevice
<1> HIDE DEF b, d
<1>3. /\ b \in Contexts /\ b.ring = c.ring /\ b.group = c.group /\ b.seat = c.seat
      /\ b.shown = c.shown /\ b.device[h] = d /\ \A g \in Handles \ {h} : b.device[g] = c.device[g]
  BY <1>2 DEF Puts
<1>4. /\ v \in Contexts /\ v.ring = Posted(c.ring, [type |-> "removed", device |-> h])
      /\ v.seat = c.seat /\ v.group = c.group
      /\ v.device = [b.device EXCEPT ![h].refs = b.device[h].refs + 1]
      /\ v.shown = [c.shown EXCEPT ![h] = Shown(c.shown[h], "removed")]
  <2>1. "removed" \in EventTypes
    BY DEF EventTypes
  <2>2. Posted(b.ring, [type |-> "removed", device |-> h]) \in Rings
    BY <1>3
  <2>3. /\ v \in Contexts /\ v.ring = Posted(b.ring, [type |-> "removed", device |-> h])
        /\ v.seat = b.seat /\ v.group = b.group
        /\ v.device = [b.device EXCEPT ![h].refs = b.device[h].refs + 1]
        /\ v.shown = [b.shown EXCEPT ![h] = Shown(b.shown[h], "removed")]
    BY <1>3, <2>1, <2>2, PostIs
  <2> HIDE DEF v
  <2> QED BY <1>3, <2>3
<1> HIDE DEF v
<1>5. v.device[h] = [d EXCEPT !.refs = n + 1] /\ \A g \in Handles \ {h} : v.device[g] = c.device[g]
  <2>1. b.device \in [Handles -> Devices]
    BY <1>3 DEF Contexts
  <2> QED BY <1>1, <1>3, <1>4, <2>1
<1>6. v.device[h].refs = n + 1 /\ v.device[h] \in Devices
  BY <1>1, <1>5 DEF Devices
<1>7. u = [v EXCEPT !.device[h].refs = n]
  <2>1. u = [v EXCEPT !.device[h].refs = v.device[h].refs - 1]
    <3>1. v.device[h].refs # 1
      BY <1>1, <1>6
    <3> QED BY <1>6, <3>1, <1>4 DEF DeviceUnref, Contexts
  <2>2. v.device[h].refs - 1 = n
    BY <1>1, <1>6
  <2> HIDE DEF u
  <2> QED BY <2>1, <2>2
<1>8. [v.device[h] EXCEPT !.refs = n] = d
  BY <1>1, <1>5 DEF Devices
<1>9. Puts(v, h, d, u)
  <2>1. u = [v EXCEPT !.device[h] = d]
    <3> HIDE DEF u
    <3> QED BY <1>7, <1>8, <1>4 DEF Contexts
  <2> HIDE DEF u
  <2> QED BY <1>1, <1>4, <2>1, PutsDevice
<1> HIDE DEF u
<1>10. /\ u \in Contexts /\ u.ring = v.ring /\ u.seat = v.seat /\ u.group = v.group
       /\ u.shown = v.shown /\ u.device[h] = d
       /\ \A g \in Handles \ {h} : u.device[g] = c.device[g]
  BY <1>5, <1>9 DEF Puts
<1>11. u.device = [c.device EXCEPT ![h].removed = TRUE]
  <2>1. u.device \in [Handles -> Devices]
    BY <1>10 DEF Contexts
  <2>2. [c.device EXCEPT ![h].removed = TRUE] = [c.device EXCEPT ![h] = d]
    BY <1>1 DEF d
  <2> QED BY <1>1, <1>10, <2>1, <2>2
<1> QED BY <1>4, <1>10, <1>11 DEF RemoveLeaves, u, v, b

LEMMA DeviceRemoveSound ==
  ASSUME NEW c, NEW grip, NEW keep, Sound(c, grip, keep), NEW h \in Listed(c)
  PROVE  Sound(DeviceRemove(c, h), grip, keep) /\ Removes(c, h, DeviceRemove(c, h))
<1> DEFINE b == DeviceSuspend(c, h)
           u == DeviceRemove(c, h)
<1>1. h \in Live(c) /\ h \in Handles /\ ~c.device[h].removed
  BY Sets DEF Listed
<1>2. Sound(b, grip, keep) /\ Closed(c, h, b)
  BY <1>1, DeviceSuspendSound
<1>3. u = DeviceUnref(Post([b EXCEPT !.device[h].removed = TRUE], h, "removed"), h)
  BY DEF DeviceRemove
<1> HIDE DEF b, u
<1>4. b \in Contexts /\ RingInv(b.ring) /\ Counts(b, Owed(b, grip), keep) /\ h \in Live(b)
  BY <1>1, <1>2, SoundRing DEF Closed, Stays
<1>5. /\ ~b.device[h].removed /\ ~b.device[h].open
      /\ \A g \in Handles \ {h} : b.device[g] = c.device[g]
  BY <1>1, <1>2 DEF Closed
<1>6. /\ b.device[h].refs = Owed(b, grip)[h] + 1 /\ b.device[h].refs > 0
      /\ b.device[h].node \in Nodes /\ b.device[h].seat \in Seats
      /\ b.shown[h] = "up" /\ ~b.device[h].down
      /\ Owed(b, grip)[h] \in Nat /\ b.device[h] \in Devices
  BY <1>4, <1>5, LiveFits
<1>7. Posted(b.ring, [type |-> "removed", device |-> h]) \in Rings
  <2> DEFINE r == [ring |-> Posted(b.ring, [type |-> "removed", device |-> h])]
  <2>1. r.ring = Posted(b.ring, [type |-> "removed", device |-> h])
    OBVIOUS
  <2>2. "removed" \in EventTypes
    BY DEF EventTypes
  <2> HIDE DEF r
  <2> QED BY <1>1, <1>2, <2>1, <2>2, PostedOwed
<1>8. RemoveLeaves(b, h, u)
  BY <1>1, <1>3, <1>4, <1>6, <1>7, RemoveIs
<1>9. /\ u \in Contexts /\ u.ring = Posted(b.ring, [type |-> "removed", device |-> h])
      /\ u.group = b.group /\ u.seat = b.seat
      /\ u.device = [b.device EXCEPT ![h].removed = TRUE]
      /\ u.shown = [b.shown EXCEPT ![h] = Shown(b.shown[h], "removed")]
  BY <1>8 DEF RemoveLeaves
<1>10. /\ \A g \in Handles \ {h} : u.device[g] = b.device[g] /\ u.shown[g] = b.shown[g]
       /\ u.device[h] = [b.device[h] EXCEPT !.removed = TRUE]
       /\ u.shown[h] = "removed"
  <2>1. b.device \in [Handles -> Devices] /\ DOMAIN b.shown = Handles
    BY <1>4 DEF Contexts
  <2>2. Shown("up", "removed") = "removed"
    BY DEF Shown
  <2> QED BY <1>1, <1>6, <1>9, <2>1, <2>2
<1>11. /\ u.device[h].removed /\ u.device[h].refs = b.device[h].refs
       /\ u.device[h].node = b.device[h].node /\ u.device[h].seat = b.device[h].seat
       /\ u.device[h].open = b.device[h].open /\ u.device[h].down = b.device[h].down
  BY <1>6, <1>10 DEF Devices
<1>12. Fits(u.device[h], u.shown[h], Owed(b, grip)[h] + 1) /\ u.device[h].refs > 0
  BY <1>5, <1>6, <1>10, <1>11 DEF Fits
<1>13. \A s \in Seats : u.seat[s].refs = b.seat[s].refs /\ u.seat[s].count = Cardinality(Down(u, s))
  <2>1. \A s : Down(u, s) = Down(b, s)
    <3>1. u.shown[h] = "down" <=> b.shown[h] = "down"
      BY <1>6, <1>10
    <3>2. /\ \A g \in Handles \ {h} : u.device[g] = b.device[g] /\ u.shown[g] = b.shown[g]
          /\ u.device[h].seat = b.device[h].seat
      BY <1>10, <1>11
    <3> QED BY <1>1, <3>1, <3>2, DownAgain
  <2> QED BY <1>4, <1>9, <2>1 DEF Counts, SeatFits
<1>14. Sound(u, grip, keep) /\ Stays(b, u)
  <2>1. "removed" \in EventTypes
    BY DEF EventTypes
  <2> QED BY <1>2, <1>4, <1>9, <1>10, <1>11, <1>12, <1>13, <2>1, TellOne
<1>15. Stays(c, u)
  <2>1. Stays(c, b)
    BY <1>2 DEF Closed
  <2> QED BY <1>2, <1>14, <2>1, SoundRing, StaysOn
<1> QED BY <1>5, <1>10, <1>11, <1>14, <1>15 DEF Removes, u

\* The devices of S leave the list.
Unlists(c, S, u) == Stays(c, u) /\ Listed(u) = Listed(c) \ S

LEMMA RemovesUnlists ==
  ASSUME NEW c, NEW h \in Listed(c), NEW u, Removes(c, h, u)
  PROVE  Unlists(c, {h}, u)
<1>1. Live(u) = Live(c) /\ Live(c) \subseteq Handles
  BY Sets DEF Removes, Stays
<1>2. \A g \in Live(c) : ~u.device[g].removed <=> (~c.device[g].removed /\ g # h)
  BY <1>1 DEF Removes
<1>3. Listed(u) = Listed(c) \ {h}
  BY <1>1, <1>2 DEF Listed
<1> QED BY <1>3 DEF Unlists, Removes

\* One after the other (the recursion ends at the number of handles).
LEMMA RemoveEachUnfolds ==
  ASSUME NEW c, NEW q, Len(q) \in Nat
  PROVE  \E f : /\ f[0] = c
                /\ \A i \in 1..Len(q) : f[i] = DeviceRemove(f[i - 1], q[i])
                /\ RemoveEach(c, q) = f[Len(q)]
<1> DEFINE Is(f, n) == f = [i \in 0..n |-> IF i = 0 THEN c ELSE DeviceRemove(f[i - 1], q[i])]
           S == {n \in Nat : \E f : Is(f, n)}
           F == CHOOSE f : Is(f, Len(q))
<1>1. 0 \in S
  <2> DEFINE f == [i \in 0..0 |-> c]
  <2>1. Is(f, 0)
    OBVIOUS
  <2> HIDE DEF f, Is
  <2> QED BY <2>1
<1>2. ASSUME NEW n \in Nat, n \in S PROVE n + 1 \in S
  <2>1. PICK f : Is(f, n)
    BY <1>2
  <2> DEFINE g == [i \in 0..(n + 1) |-> IF i = n + 1 THEN DeviceRemove(f[n], q[n + 1]) ELSE f[i]]
  <2>2. \A i \in 0..n : i # n + 1 /\ i \in 0..(n + 1) /\ g[i] = f[i]
    OBVIOUS
  <2>3. ASSUME NEW i \in 0..(n + 1)
        PROVE  g[i] = IF i = 0 THEN c ELSE DeviceRemove(g[i - 1], q[i])
    <3>1. CASE i = n + 1
      <4>1. g[i] = DeviceRemove(f[n], q[n + 1]) /\ i - 1 = n /\ i # 0 /\ g[n] = f[n]
        BY <2>2, <3>1
      <4> HIDE DEF g
      <4> QED BY <3>1, <4>1
    <3>2. CASE i # n + 1
      <4>1. i \in 0..n /\ (i # 0 => i - 1 \in 0..n)
        BY <3>2
      <4>2. g[i] = f[i] /\ (i # 0 => g[i - 1] = f[i - 1])
        BY <2>2, <4>1
      <4>3. f[i] = IF i = 0 THEN c ELSE DeviceRemove(f[i - 1], q[i])
        BY <2>1, <4>1
      <4> HIDE DEF g
      <4> QED BY <4>2, <4>3
    <3> QED BY <3>1, <3>2
  <2>4. Is(g, n + 1)
    <3>1. g = [i \in 0..(n + 1) |-> g[i]]
      OBVIOUS
    <3> HIDE DEF g
    <3>2. [i \in 0..(n + 1) |-> g[i]] =
            [i \in 0..(n + 1) |-> IF i = 0 THEN c ELSE DeviceRemove(g[i - 1], q[i])]
      BY <2>3
    <3> QED BY <3>1, <3>2
  <2> HIDE DEF g, Is
  <2> QED BY <2>4
<1>3. Is(F, Len(q))
  <2> HIDE DEF S
  <2>1. Len(q) \in S
    BY <1>1, <1>2, SetInduction
  <2> HIDE DEF Is
  <2> QED BY <2>1 DEF S
<1>4. RemoveEach(c, q) = F[Len(q)]
  BY DEF RemoveEach
<1> HIDE DEF F
<1>5. /\ F[0] = c
      /\ \A i \in 1..Len(q) : F[i] = DeviceRemove(F[i - 1], q[i])
  BY <1>3
<1> QED BY <1>4, <1>5

LEMMA RemoveEachSound ==
  ASSUME NEW c, NEW grip, NEW keep, Sound(c, grip, keep),
         NEW S, S \subseteq Listed(c), NEW q, Lists(q, S)
  PROVE  Sound(RemoveEach(c, q), grip, keep) /\ Unlists(c, S, RemoveEach(c, q))
<1>1. /\ Len(q) \in Nat /\ q \in Seq(S) /\ ToSet(q) = S
      /\ \A i, j \in 1..Len(q) : q[i] = q[j] => i = j
  BY DEF Lists
<1>2. PICK f : /\ f[0] = c
               /\ \A i \in 1..Len(q) : f[i] = DeviceRemove(f[i - 1], q[i])
               /\ RemoveEach(c, q) = f[Len(q)]
  BY <1>1, RemoveEachUnfolds, SMTT(60)
<1> DEFINE Upto(i) == {q[j] : j \in 1..i}
           P(i) == i \in 0..Len(q) => Sound(f[i], grip, keep) /\ Unlists(c, Upto(i), f[i])
           T == {i \in Nat : P(i)}
<1>3. 0 \in T
  <2>1. Upto(0) = {}
    OBVIOUS
  <2>2. Unlists(c, Upto(0), c)
    BY <2>1, StaysSame DEF Unlists
  <2> QED BY <1>2, <2>2
<1>4. ASSUME NEW i \in Nat, i \in T PROVE i + 1 \in T
  <2> SUFFICES ASSUME i + 1 \in 0..Len(q)
               PROVE  Sound(f[i + 1], grip, keep) /\ Unlists(c, Upto(i + 1), f[i + 1])
    OBVIOUS
  <2> DEFINE a == f[i]
             b == f[i + 1]
             h == q[i + 1]
  <2>1. Sound(a, grip, keep) /\ Unlists(c, Upto(i), a)
    BY <1>1, <1>4
  <2>2. i + 1 \in 1..Len(q) /\ (i + 1) - 1 = i
    BY <1>1
  <2>3. b = DeviceRemove(a, h)
    BY <1>2, <2>2
  <2>4. h \in Listed(a)
    <3>1. h \in S
      BY <1>1, <2>2
    <3>2. h \notin Upto(i)
      <4>1. \A j \in 1..i : j \in 1..Len(q) /\ j # i + 1
        BY <1>1, <2>2
      <4> QED BY <1>1, <2>2, <4>1
    <3> HIDE DEF Upto, h, a
    <3> QED BY <2>1, <3>1, <3>2 DEF Unlists
  <2>5. Upto(i + 1) = Upto(i) \cup {h}
    <3>1. \A j \in 1..(i + 1) : j \in 1..i \/ j = i + 1
      OBVIOUS
    <3>2. \A j \in 1..i : j \in 1..(i + 1)
      OBVIOUS
    <3>3. i + 1 \in 1..(i + 1)
      OBVIOUS
    <3> QED BY <3>1, <3>2, <3>3
  <2> HIDE DEF a, b, h, Upto
  <2>6. Sound(b, grip, keep) /\ Removes(a, h, b)
    BY <2>1, <2>3, <2>4, DeviceRemoveSound
  <2>7. Unlists(a, {h}, b)
    BY <2>4, <2>6, RemovesUnlists
  <2>8. Stays(c, b)
    BY <2>1, <2>6, <2>7, SoundRing, StaysOn DEF Unlists
  <2>9. Listed(b) = Listed(c) \ Upto(i + 1)
    BY <2>1, <2>5, <2>7 DEF Unlists
  <2> QED BY <2>6, <2>8, <2>9 DEF Unlists, b
<1>5. P(Len(q))
  <2> HIDE DEF P
  <2>1. Nat \subseteq T
    <3> HIDE DEF T
    <3> QED BY <1>3, <1>4, SetInduction
  <2> QED BY <1>1, <2>1
<1>6. Upto(Len(q)) = S
  BY <1>1 DEF ToSet
<1> HIDE DEF Upto
<1> QED BY <1>1, <1>2, <1>5, <1>6

-----------------------------------------------------------------------------
(* References to seats and devices.                                            *)

Seated(c, u) ==
  /\ u \in Contexts /\ u.ring = c.ring /\ u.device = c.device /\ u.group = c.group
  /\ u.shown = c.shown

LEMMA SeatedSame ==
  ASSUME NEW c, NEW u, Seated(c, u)
  PROVE  /\ Live(u) = Live(c) /\ Listed(u) = Listed(c)
         /\ \A s : On(u, s) = On(c, s) /\ Down(u, s) = Down(c, s)
  BY DEF Seated, Live, Listed, On, Down

LEMMA SeatRefCounts ==
  ASSUME NEW c, NEW owed, NEW keep, Counts(c, owed, keep), NEW s \in Seats
  PROVE  /\ Counts(SeatRef(c, s), owed, [keep EXCEPT ![s] = keep[s] + 1])
         /\ Seated(c, SeatRef(c, s))
<1> DEFINE x == [c.seat[s] EXCEPT !.refs = c.seat[s].refs + 1]
           S == [c.seat EXCEPT ![s] = x]
           u == SeatRef(c, s)
           more == [keep EXCEPT ![s] = keep[s] + 1]
<1>1. c \in Contexts /\ keep \in [Seats -> Nat] /\ owed \in [Handles -> Nat]
  BY DEF Counts
<1>2. c.seat \in [Seats -> [refs : Nat, count : Nat]] /\ c.seat[s] \in [refs : Nat, count : Nat]
  BY <1>1 DEF Contexts
<1>3. /\ x \in [refs : Nat, count : Nat] /\ x.refs = c.seat[s].refs + 1
      /\ x.count = c.seat[s].count
  BY <1>2
<1>4. u = [c EXCEPT !.seat = S]
  BY <1>1, <1>2 DEF SeatRef, Contexts
<1> HIDE DEF x
<1>5. /\ S \in [Seats -> [refs : Nat, count : Nat]]
      /\ S[s] = x /\ \A t \in Seats \ {s} : S[t] = c.seat[t]
  BY <1>2, <1>3
<1> HIDE DEF S, u
<1>6. Seated(c, u) /\ u.seat = S
  BY <1>1, <1>4, <1>5 DEF Contexts, Seated
<1>7. more \in [Seats -> Nat] /\ more[s] = keep[s] + 1 /\ \A t \in Seats \ {s} : more[t] = keep[t]
  BY <1>1
<1> HIDE DEF more
<1>8. ASSUME NEW t \in Seats PROVE SeatFits(u, t, more[t])
  <2>1. SeatFits(c, t, keep[t]) /\ On(u, t) = On(c, t) /\ Down(u, t) = Down(c, t)
    BY <1>6, SeatedSame DEF Counts
  <2>2. Cardinality(On(c, t)) \in Nat /\ keep[t] \in Nat
    BY <1>1, Sets
  <2>3. CASE t = s
    BY <1>3, <1>5, <1>6, <1>7, <2>1, <2>2, <2>3 DEF SeatFits
  <2>4. CASE t # s
    BY <1>5, <1>6, <1>7, <2>1, <2>4 DEF SeatFits
  <2> QED BY <2>3, <2>4
<1>9. /\ \A h \in Handles : Fits(u.device[h], u.shown[h], owed[h])
      /\ u.group = Cardinality(Live(u)) /\ u \in Contexts
  <2>1. u.device = c.device /\ u.shown = c.shown /\ u.group = c.group /\ Live(u) = Live(c)
        /\ u \in Contexts
    BY <1>6, SeatedSame DEF Seated
  <2> QED BY <2>1 DEF Counts
<1> QED BY <1>1, <1>6, <1>7, <1>8, <1>9 DEF Counts, u, more

\* The keys that are down are of devices that are there.
LEMMA DownIsOn ==
  ASSUME NEW c, NEW owed, NEW keep, Counts(c, owed, keep), NEW s
  PROVE  \A h \in Down(c, s) : h \in On(c, s) /\ c.shown[h] = "down"
<1>1. \A h \in Handles : h \notin Live(c) => c.shown[h] = "none"
  BY DeadFits
<1> QED BY <1>1 DEF Down, On

LEMMA SeatUnrefCounts ==
  ASSUME NEW c, NEW owed, NEW keep, Counts(c, owed, keep), NEW s \in Seats, keep[s] > 0
  PROVE  /\ Counts(SeatUnref(c, s), owed, [keep EXCEPT ![s] = keep[s] - 1])
         /\ Seated(c, SeatUnref(c, s))
<1> DEFINE x == IF c.seat[s].refs = 1 THEN NoSeat ELSE [c.seat[s] EXCEPT !.refs = c.seat[s].refs - 1]
           S == [c.seat EXCEPT ![s] = x]
           u == SeatUnref(c, s)
           less == [keep EXCEPT ![s] = keep[s] - 1]
<1>1. c \in Contexts /\ keep \in [Seats -> Nat] /\ owed \in [Handles -> Nat] /\ SeatFits(c, s, keep[s])
  BY DEF Counts
<1>2. /\ c.seat \in [Seats -> [refs : Nat, count : Nat]] /\ c.seat[s] \in [refs : Nat, count : Nat]
      /\ Cardinality(On(c, s)) \in Nat /\ keep[s] \in Nat
      /\ c.seat[s].refs = Cardinality(On(c, s)) + keep[s]
  BY <1>1, Sets DEF Contexts, SeatFits
<1>3. /\ x \in [refs : Nat, count : Nat] /\ x.refs = c.seat[s].refs - 1
      /\ x.count = c.seat[s].count
  <2>1. CASE c.seat[s].refs = 1
    <3>1. Cardinality(On(c, s)) = 0 /\ IsFiniteSet(On(c, s))
      <4>1. IsFiniteSet(On(c, s))
        BY Sets
      <4> HIDE DEF x, S, u, less
      <4> QED BY <1>2, <2>1, <4>1
    <3>2. On(c, s) = {}
      BY <3>1, FS_EmptySet
    <3>3. Down(c, s) = {}
      BY <3>2, DownIsOn
    <3>4. c.seat[s].count = 0
      BY <1>1, <3>3, FS_EmptySet DEF SeatFits
    <3> QED BY <2>1, <3>4 DEF NoSeat
  <2>2. CASE c.seat[s].refs # 1
    <3>1. c.seat[s].refs - 1 \in Nat
      BY <1>2
    <3> QED BY <1>2, <2>2, <3>1
  <2> QED BY <2>1, <2>2
<1>4. u = [c EXCEPT !.seat = S]
  <2>1. CASE c.seat[s].refs = 1
    BY <2>1, <1>1, <1>2 DEF SeatUnref, Contexts
  <2>2. CASE c.seat[s].refs # 1
    BY <2>2, <1>1, <1>2 DEF SeatUnref, Contexts
  <2> QED BY <2>1, <2>2
<1> HIDE DEF x
<1>5. /\ S \in [Seats -> [refs : Nat, count : Nat]]
      /\ S[s] = x /\ \A t \in Seats \ {s} : S[t] = c.seat[t]
  BY <1>2, <1>3
<1> HIDE DEF S, u
<1>6. Seated(c, u) /\ u.seat = S
  BY <1>1, <1>4, <1>5 DEF Contexts, Seated
<1>7. less \in [Seats -> Nat] /\ less[s] = keep[s] - 1 /\ \A t \in Seats \ {s} : less[t] = keep[t]
  BY <1>1, <1>2
<1> HIDE DEF less
<1>8. ASSUME NEW t \in Seats PROVE SeatFits(u, t, less[t])
  <2>1. SeatFits(c, t, keep[t]) /\ On(u, t) = On(c, t) /\ Down(u, t) = Down(c, t)
    BY <1>6, SeatedSame DEF Counts
  <2>3. CASE t = s
    BY <1>2, <1>3, <1>5, <1>6, <1>7, <2>1, <2>3 DEF SeatFits
  <2>4. CASE t # s
    BY <1>5, <1>6, <1>7, <2>1, <2>4 DEF SeatFits
  <2> QED BY <2>3, <2>4
<1>9. /\ \A h \in Handles : Fits(u.device[h], u.shown[h], owed[h])
      /\ u.group = Cardinality(Live(u)) /\ u \in Contexts
  <2>1. u.device = c.device /\ u.shown = c.shown /\ u.group = c.group /\ Live(u) = Live(c)
        /\ u \in Contexts
    BY <1>6, SeatedSame DEF Seated
  <2> QED BY <2>1 DEF Counts
<1> QED BY <1>1, <1>6, <1>7, <1>8, <1>9 DEF Counts, u, less

\* Another reference to a device.
LEMMA DeviceRefCounts ==
  ASSUME NEW c, NEW owed, NEW keep, Counts(c, owed, keep), NEW h \in Live(c)
  PROVE  /\ Counts(DeviceRef(c, h), [owed EXCEPT ![h] = owed[h] + 1], keep)
         /\ DeviceRef(c, h).ring = c.ring
         /\ Live(DeviceRef(c, h)) = Live(c) /\ Listed(DeviceRef(c, h)) = Listed(c)
         /\ \A g \in Handles : DeviceRef(c, h).device[g].node = c.device[g].node
         /\ \A g \in Handles : DeviceRef(c, h).device[g].seat = c.device[g].seat
<1> DEFINE u == DeviceRef(c, h)
           new == [owed EXCEPT ![h] = owed[h] + 1]
<1>1. c \in Contexts /\ h \in Handles /\ owed \in [Handles -> Nat] /\ keep \in [Seats -> Nat]
  BY Sets DEF Counts
<1>2. /\ u \in Contexts
      /\ u.ring = c.ring /\ u.seat = c.seat /\ u.group = c.group /\ u.shown = c.shown
      /\ u.device = [c.device EXCEPT ![h].refs = c.device[h].refs + 1]
  BY <1>1, DeviceRefIs
<1> HIDE DEF u
<1>3. new \in [Handles -> Nat] /\ new[h] = owed[h] + 1 /\ \A g \in Handles \ {h} : new[g] = owed[g]
  BY <1>1
<1> HIDE DEF new
<1>4. c.device \in [Handles -> Devices] /\ c.device[h] \in Devices
  BY <1>1 DEF Contexts
<1>5. /\ \A g \in Handles \ {h} : u.device[g] = c.device[g] /\ u.shown[g] = c.shown[g]
      /\ u.device[h] = [c.device[h] EXCEPT !.refs = c.device[h].refs + 1]
      /\ u.shown[h] = c.shown[h]
  BY <1>1, <1>2, <1>4
<1>6. /\ u.device[h].refs = c.device[h].refs + 1 /\ u.device[h].removed = c.device[h].removed
      /\ u.device[h].node = c.device[h].node /\ u.device[h].seat = c.device[h].seat
      /\ u.device[h].open = c.device[h].open /\ u.device[h].down = c.device[h].down
  BY <1>4, <1>5 DEF Devices
<1>7. /\ c.device[h].refs = owed[h] + (IF c.device[h].removed THEN 0 ELSE 1)
      /\ c.device[h].refs > 0 /\ c.device[h].node \in Nodes /\ c.device[h].seat \in Seats
      /\ c.shown[h] \in {"up", "down", "removed"}
      /\ (c.device[h].removed <=> c.shown[h] = "removed")
      /\ (c.device[h].down <=> c.shown[h] = "down")
      /\ (c.device[h].open => ~c.device[h].removed) /\ (c.device[h].down => c.device[h].open)
      /\ owed[h] \in Nat
  BY LiveFits
<1>8. Fits(u.device[h], u.shown[h], new[h]) /\ u.device[h].refs > 0
  BY <1>3, <1>5, <1>6, <1>7 DEF Fits
<1>9. \A s \in Seats : u.seat[s].refs = c.seat[s].refs /\ u.seat[s].count = Cardinality(Down(u, s))
  <2>1. \A s : Down(u, s) = Down(c, s)
    <3>1. /\ \A g \in Handles \ {h} : u.device[g] = c.device[g] /\ u.shown[g] = c.shown[g]
          /\ u.device[h].seat = c.device[h].seat /\ (u.shown[h] = "down" <=> c.shown[h] = "down")
      BY <1>5, <1>6
    <3> QED BY <1>1, <3>1, DownAgain
  <2> QED BY <1>2, <2>1 DEF Counts, SeatFits
<1>10. Counts(u, new, keep) /\ Live(u) = Live(c)
  <2>1. \A g \in Handles \ {h} : /\ u.device[g] = c.device[g] /\ u.shown[g] = c.shown[g]
                                  /\ new[g] = owed[g]
    BY <1>3, <1>5
  <2>2. u.device[h].seat = c.device[h].seat /\ u.group = c.group /\ u \in Contexts
    BY <1>2, <1>6
  <2>3. new \in [Handles -> Nat]
    BY <1>3
  <2> QED BY <1>8, <1>9, <2>1, <2>2, <2>3, OneChanges
<1>11. \A g \in Handles : /\ u.device[g].node = c.device[g].node /\ u.device[g].seat = c.device[g].seat
                          /\ u.device[g].removed = c.device[g].removed
  BY <1>5, <1>6
<1>12. Listed(u) = Listed(c)
  BY <1>1, <1>10, <1>11, Sets DEF Listed
<1> QED BY <1>2, <1>10, <1>11, <1>12 DEF u, new

\* A reference that is not the list's goes, and perhaps the device.
Drops(c, h, u) ==
  /\ u.ring = c.ring /\ Live(u) \subseteq Live(c) /\ Listed(u) = Listed(c)
  /\ \A g \in Listed(c) : u.device[g].node = c.device[g].node /\ u.device[g].seat = c.device[g].seat

\* The device that is destroyed, before it leaves its seat.
Emptied(c, h, b) ==
  /\ b \in Contexts /\ b.ring = c.ring /\ b.seat = c.seat /\ b.group = c.group - 1
  /\ b.device[h] = NoDevice /\ b.shown[h] = "none"
  /\ \A g \in Handles \ {h} : b.device[g] = c.device[g] /\ b.shown[g] = c.shown[g]

LEMMA EmptiedIs ==
  ASSUME NEW c \in Contexts, NEW h \in Handles, c.group > 0
  PROVE  Emptied(c, h, [c EXCEPT !.group = @ - 1, !.device[h] = NoDevice, !.shown[h] = "none"])
<1> DEFINE D == [c.device EXCEPT ![h] = NoDevice]
           W == [c.shown EXCEPT ![h] = "none"]
           n == c.group - 1
           b == [c EXCEPT !.group = @ - 1, !.device[h] = NoDevice, !.shown[h] = "none"]
<1>1. b = [c EXCEPT !.group = n, !.device = D, !.shown = W]
  BY DEF Contexts
<1>2. NoDevice \in Devices
  BY DEF NoDevice, Devices, None
<1>3. /\ D \in [Handles -> Devices] /\ D[h] = NoDevice
      /\ \A g \in Handles \ {h} : D[g] = c.device[g]
  BY <1>2 DEF Contexts
<1>4. /\ W \in [Handles -> {"none", "up", "down", "removed", "wrong"}] /\ W[h] = "none"
      /\ \A g \in Handles \ {h} : W[g] = c.shown[g]
  BY DEF Contexts
<1>5. n \in Nat /\ n = c.group - 1
  BY Types
<1> HIDE DEF b, D, W, n
<1>6. /\ b \in Contexts /\ b.ring = c.ring /\ b.seat = c.seat /\ b.group = n
      /\ b.device = D /\ b.shown = W
  BY <1>1, <1>3, <1>4, <1>5 DEF Contexts
<1> QED BY <1>3, <1>4, <1>5, <1>6 DEF Emptied, b

LEMMA EmptiedCounts ==
  ASSUME NEW c, NEW owed, NEW keep, Counts(c, owed, keep), NEW h \in Live(c),
         c.device[h].removed, owed[h] = 1, NEW b, Emptied(c, h, b),
         NEW s, s = c.device[h].seat
  PROVE  /\ Counts(b, [owed EXCEPT ![h] = 0], [keep EXCEPT ![s] = keep[s] + 1])
         /\ Drops(c, h, b)
<1> DEFINE new == [owed EXCEPT ![h] = 0]
           more == [keep EXCEPT ![s] = keep[s] + 1]
<1>1. /\ c \in Contexts /\ h \in Handles /\ owed \in [Handles -> Nat] /\ keep \in [Seats -> Nat]
      /\ s \in Seats /\ c.shown[h] = "removed" /\ c.group = Cardinality(Live(c))
  BY LiveFits DEF Counts
<1>2. /\ b \in Contexts /\ b.ring = c.ring /\ b.seat = c.seat /\ b.group = c.group - 1
      /\ b.device[h] = NoDevice /\ b.shown[h] = "none"
      /\ \A g \in Handles \ {h} : b.device[g] = c.device[g] /\ b.shown[g] = c.shown[g]
  BY DEF Emptied
<1>3. new \in [Handles -> Nat] /\ new[h] = 0 /\ \A g \in Handles \ {h} : new[g] = owed[g]
  BY <1>1
<1>4. more \in [Seats -> Nat] /\ more[s] = keep[s] + 1 /\ \A t \in Seats \ {s} : more[t] = keep[t]
  BY <1>1
<1> HIDE DEF new, more
<1>5. ~(NoDevice.refs > 0)
  BY DEF NoDevice
<1>6. Live(b) = Live(c) \ {h}
  BY <1>1, <1>2, <1>5 DEF Live
<1>7. \A g \in Handles : Fits(b.device[g], b.shown[g], new[g])
  BY <1>1, <1>2, <1>3 DEF Counts, Fits
<1>8. b.group = Cardinality(Live(b))
  <2>1. IsFiniteSet(Live(c))
    BY Sets
  <2>2. Cardinality(Live(c) \ {h}) = Cardinality(Live(c)) - 1
    BY <2>1, FS_RemoveElement
  <2> QED BY <1>1, <1>2, <1>6, <2>2
<1>9. ASSUME NEW t \in Seats PROVE SeatFits(b, t, more[t])
  <2>1. SeatFits(c, t, keep[t]) /\ keep[t] \in Nat
    BY <1>1 DEF Counts
  <2>2. Down(b, t) = Down(c, t)
    BY <1>1, <1>2 DEF Down
  <2>3. On(b, t) = On(c, t) \ {h}
    BY <1>1, <1>2, <1>6, Sets DEF On
  <2>4. h \in On(c, t) <=> t = s
    BY DEF On
  <2>5. IsFiniteSet(On(c, t)) /\ Cardinality(On(c, t)) \in Nat
    BY Sets
  <2>6. Cardinality(On(b, t)) = IF t = s THEN Cardinality(On(c, t)) - 1 ELSE Cardinality(On(c, t))
    BY <2>3, <2>4, <2>5, FS_RemoveElement, ZenonT(60)
  <2>7. more[t] = IF t = s THEN keep[t] + 1 ELSE keep[t]
    BY <1>4
  <2> QED BY <1>2, <2>1, <2>2, <2>5, <2>6, <2>7 DEF SeatFits
<1>10. Counts(b, new, more)
  BY <1>2, <1>3, <1>4, <1>7, <1>8, <1>9 DEF Counts
<1>11. Listed(b) = Listed(c)
  <2>1. h \notin Listed(c)
    BY DEF Listed
  <2>2. \A g \in Live(b) : b.device[g] = c.device[g]
    BY <1>2, <1>6, Sets
  <2> QED BY <1>6, <2>1, <2>2 DEF Listed
<1>12. \A g \in Listed(c) : b.device[g].node = c.device[g].node /\ b.device[g].seat = c.device[g].seat
  <2>1. \A g \in Listed(c) : g \in Handles \ {h}
    BY Sets DEF Listed
  <2> QED BY <1>2, <2>1
<1> QED BY <1>2, <1>6, <1>10, <1>11, <1>12 DEF Drops, new, more

LEMMA DeviceUnrefCounts ==
  ASSUME NEW c, NEW owed, NEW keep, Counts(c, owed, keep), NEW h \in Live(c), owed[h] > 0
  PROVE  /\ Counts(DeviceUnref(c, h), [owed EXCEPT ![h] = owed[h] - 1], keep)
         /\ Drops(c, h, DeviceUnref(c, h))
<1> DEFINE u == DeviceUnref(c, h)
           new == [owed EXCEPT ![h] = owed[h] - 1]
<1>1. /\ c \in Contexts /\ h \in Handles /\ owed \in [Handles -> Nat] /\ keep \in [Seats -> Nat]
      /\ c.device[h] \in Devices
  BY LiveFits DEF Counts
<1>2. /\ c.device[h].refs = owed[h] + (IF c.device[h].removed THEN 0 ELSE 1)
      /\ c.device[h].refs > 0 /\ c.device[h].node \in Nodes /\ c.device[h].seat \in Seats
      /\ c.shown[h] \in {"up", "down", "removed"}
      /\ (c.device[h].removed <=> c.shown[h] = "removed")
      /\ (c.device[h].down <=> c.shown[h] = "down")
      /\ (c.device[h].open => ~c.device[h].removed) /\ (c.device[h].down => c.device[h].open)
      /\ owed[h] \in Nat
  BY LiveFits
<1>3. new \in [Handles -> Nat] /\ new[h] = owed[h] - 1 /\ \A g \in Handles \ {h} : new[g] = owed[g]
  BY <1>1, <1>2
<1>4. CASE c.device[h].refs = 1
  <2> DEFINE b == [c EXCEPT !.group = @ - 1, !.device[h] = NoDevice, !.shown[h] = "none"]
             s == c.device[h].seat
             more == [keep EXCEPT ![s] = keep[s] + 1]
             zero == [owed EXCEPT ![h] = 0]
  <2>1. u = SeatUnref(b, s)
    BY <1>4 DEF DeviceUnref, DeviceDestroy
  <2>2. owed[h] = 1 /\ c.device[h].removed
    BY <1>2, <1>4
  <2>3. c.group > 0
    <3>1. IsFiniteSet(Live(c)) /\ Cardinality(Live(c)) \in Nat
      BY Sets
    <3>2. Cardinality(Live(c)) # 0
      BY <3>1, FS_EmptySet
    <3> QED BY <3>1, <3>2 DEF Counts
  <2>4. Emptied(c, h, b)
    BY <1>1, <2>3, EmptiedIs
  <2>5. s \in Seats
    BY <1>2
  <2> HIDE DEF b, u
  <2>6. Counts(b, zero, more) /\ Drops(c, h, b)
    BY <2>2, <2>4, EmptiedCounts
  <2>7. zero = new
    <3>1. owed[h] - 1 = 0
      BY <2>2
    <3> QED BY <3>1
  <2>8. more[s] > 0 /\ [more EXCEPT ![s] = more[s] - 1] = keep
    <3> HIDE DEF s
    <3>1. /\ more[s] = keep[s] + 1 /\ keep[s] \in Nat
          /\ more \in [Seats -> Nat] /\ \A t \in Seats \ {s} : more[t] = keep[t]
      BY <1>1, <2>5
    <3> HIDE DEF more
    <3> DEFINE back == [more EXCEPT ![s] = more[s] - 1]
    <3>2. more[s] - 1 = keep[s] /\ more[s] > 0
      BY <3>1
    <3>3. DOMAIN back = Seats /\ back = [t \in Seats |-> back[t]] /\ \A t \in Seats : back[t] = keep[t]
      BY <2>5, <3>1, <3>2
    <3> HIDE DEF back
    <3>4. back = keep
      BY <1>1, <3>3
    <3> QED BY <3>2, <3>4 DEF back
  <2> HIDE DEF s, more, zero, new
  <2>9. Counts(u, new, keep) /\ Seated(b, u)
    BY <2>1, <2>5, <2>6, <2>7, <2>8, SeatUnrefCounts
  <2>10. Drops(c, h, u)
    BY <2>6, <2>9, SeatedSame DEF Drops, Seated
  <2> QED BY <2>9, <2>10 DEF u, new
<1>5. CASE c.device[h].refs # 1
  <2> DEFINE d == [c.device[h] EXCEPT !.refs = c.device[h].refs - 1]
  <2>1. u = [c EXCEPT !.device[h] = d]
    BY <1>1, <1>5 DEF DeviceUnref, Contexts
  <2>2. /\ d \in Devices /\ d.refs = c.device[h].refs - 1 /\ d.node = c.device[h].node
        /\ d.seat = c.device[h].seat /\ d.removed = c.device[h].removed
        /\ d.open = c.device[h].open /\ d.down = c.device[h].down /\ d.refs > 0
    <3>1. c.device[h].refs - 1 \in Nat /\ c.device[h].refs - 1 > 0
      BY <1>1, <1>2, <1>5 DEF Devices
    <3> HIDE DEF u, new
    <3> QED BY <1>1, <3>1 DEF Devices
  <2> HIDE DEF d, u, new
  <2>3. Puts(c, h, d, u)
    BY <1>1, <2>1, <2>2, PutsDevice
  <2>4. /\ u \in Contexts /\ u.ring = c.ring /\ u.seat = c.seat /\ u.group = c.group
        /\ u.shown = c.shown /\ u.device[h] = d
        /\ \A g \in Handles \ {h} : u.device[g] = c.device[g]
    BY <2>3 DEF Puts
  <2>5. Fits(u.device[h], u.shown[h], new[h]) /\ u.device[h].refs > 0
    BY <1>2, <1>3, <2>2, <2>4 DEF Fits
  <2>6. \A s \in Seats : u.seat[s].refs = c.seat[s].refs /\ u.seat[s].count = Cardinality(Down(u, s))
    <3>1. \A s : Down(u, s) = Down(c, s)
      <4>1. /\ \A g \in Handles \ {h} : u.device[g] = c.device[g] /\ u.shown[g] = c.shown[g]
            /\ u.device[h].seat = c.device[h].seat /\ (u.shown[h] = "down" <=> c.shown[h] = "down")
        BY <2>2, <2>4
      <4> QED BY <1>1, <4>1, DownAgain
    <3> QED BY <2>4, <3>1 DEF Counts, SeatFits
  <2>7. Counts(u, new, keep) /\ Live(u) = Live(c)
    <3>1. \A g \in Handles \ {h} : /\ u.device[g] = c.device[g] /\ u.shown[g] = c.shown[g]
                                    /\ new[g] = owed[g]
      BY <1>3, <2>4
    <3>2. u.device[h].seat = c.device[h].seat /\ u.group = c.group /\ u \in Contexts
      BY <2>2, <2>4
    <3>3. new \in [Handles -> Nat]
      BY <1>3
    <3> QED BY <2>5, <2>6, <3>1, <3>2, <3>3, OneChanges
  <2>8. \A g \in Handles : /\ u.device[g].node = c.device[g].node /\ u.device[g].seat = c.device[g].seat
                           /\ u.device[g].removed = c.device[g].removed
    BY <2>2, <2>4
  <2>9. Listed(u) = Listed(c)
    BY <1>1, <2>7, <2>8, Sets DEF Listed
  <2>10. Drops(c, h, u)
    BY <2>4, <2>7, <2>8, <2>9, Sets DEF Drops
  <2> QED BY <2>7, <2>10 DEF u, new
<1> QED BY <1>4, <1>5

-----------------------------------------------------------------------------
(* Devices that come.                                                          *)

\* A device of node n joins seat s.
Joins(c, n, s, h, u) ==
  /\ h \in Handles \ Live(c)
  /\ Live(u) = Live(c) \cup {h} /\ Listed(u) = Listed(c) \cup {h}
  /\ u.device[h].node = n /\ u.device[h].seat = s
  /\ \A g \in Live(c) : u.device[g].node = c.device[g].node /\ u.device[g].seat = c.device[g].seat
  /\ Longer(c, u)

\* A device of node n joins seat s if the node is there.
Enters(c, n, s, u) ==
  IF node[n].state = "present" THEN \E h : Joins(c, n, s, h, u)
  ELSE Stays(c, u) /\ Listed(u) = Listed(c)

\* The record of the objects with one device, one seat and what is told changed.
Adds(c, h, d, s, u) ==
  /\ u \in Contexts
  /\ u.ring = Posted(c.ring, [type |-> "added", device |-> h])
  /\ u.group = c.group + 1
  /\ u.device[h] = d
  /\ u.shown[h] = Shown(c.shown[h], "added")
  /\ \A g \in Handles \ {h} : u.device[g] = c.device[g] /\ u.shown[g] = c.shown[g]
  /\ u.seat[s].refs = c.seat[s].refs + 1 /\ u.seat[s].count = c.seat[s].count
  /\ \A t \in Seats \ {s} : u.seat[t] = c.seat[t]

LEMMA SeatRefIs ==
  ASSUME NEW c \in Contexts, NEW s \in Seats
  PROVE  /\ Seated(c, SeatRef(c, s))
         /\ SeatRef(c, s).seat[s].refs = c.seat[s].refs + 1
         /\ SeatRef(c, s).seat[s].count = c.seat[s].count
         /\ \A t \in Seats \ {s} : SeatRef(c, s).seat[t] = c.seat[t]
<1> DEFINE x == [c.seat[s] EXCEPT !.refs = c.seat[s].refs + 1]
           S == [c.seat EXCEPT ![s] = x]
           u == SeatRef(c, s)
<1>2. c.seat \in [Seats -> [refs : Nat, count : Nat]] /\ c.seat[s] \in [refs : Nat, count : Nat]
  BY DEF Contexts
<1>3. /\ x \in [refs : Nat, count : Nat] /\ x.refs = c.seat[s].refs + 1
      /\ x.count = c.seat[s].count
  BY <1>2
<1>4. u = [c EXCEPT !.seat = S]
  BY <1>2 DEF SeatRef, Contexts
<1> HIDE DEF x
<1>5. /\ S \in [Seats -> [refs : Nat, count : Nat]]
      /\ S[s] = x /\ \A t \in Seats \ {s} : S[t] = c.seat[t]
  BY <1>2, <1>3
<1> HIDE DEF S, u
<1>6. Seated(c, u) /\ u.seat = S
  BY <1>4, <1>5 DEF Contexts, Seated
<1> QED BY <1>3, <1>5, <1>6 DEF u

LEMMA AddsIs ==
  ASSUME NEW c \in Contexts, NEW h \in Handles, NEW s \in Seats, NEW new \in Devices,
         Posted(c.ring, [type |-> "added", device |-> h]) \in Rings
  PROVE  Adds(c, h, [new EXCEPT !.refs = new.refs + 1], s,
              Post(SeatRef([c EXCEPT !.device[h] = new, !.group = @ + 1], s), h, "added"))
<1> DEFINE D == [c.device EXCEPT ![h] = new]
           n == c.group + 1
           a == [c EXCEPT !.device[h] = new, !.group = @ + 1]
           b == SeatRef(a, s)
           u == Post(b, h, "added")
           d == [new EXCEPT !.refs = new.refs + 1]
<1>1. a = [c EXCEPT !.device = D, !.group = n]
  BY DEF Contexts
<1>2. /\ D \in [Handles -> Devices] /\ D[h] = new /\ \A g \in Handles \ {h} : D[g] = c.device[g]
  BY DEF Contexts
<1>3. n \in Nat /\ n = c.group + 1
  BY Types
<1> HIDE DEF a, D, n
<1>4. /\ a \in Contexts /\ a.ring = c.ring /\ a.seat = c.seat /\ a.group = n
      /\ a.device = D /\ a.shown = c.shown
  BY <1>1, <1>2, <1>3 DEF Contexts
<1>5. /\ Seated(a, b)
      /\ b.seat[s].refs = c.seat[s].refs + 1 /\ b.seat[s].count = c.seat[s].count
      /\ \A t \in Seats \ {s} : b.seat[t] = c.seat[t]
  <2>1. /\ Seated(a, b)
        /\ b.seat[s].refs = a.seat[s].refs + 1 /\ b.seat[s].count = a.seat[s].count
        /\ \A t \in Seats \ {s} : b.seat[t] = a.seat[t]
    BY <1>4, SeatRefIs
  <2> HIDE DEF b
  <2> QED BY <1>4, <2>1
<1> HIDE DEF b
<1>6. /\ b \in Contexts /\ b.ring = c.ring /\ b.group = n /\ b.device = D /\ b.shown = c.shown
  BY <1>4, <1>5 DEF Seated
<1>7. /\ u \in Contexts
      /\ u.ring = Posted(c.ring, [type |-> "added", device |-> h])
      /\ u.seat = b.seat /\ u.group = n
      /\ u.device = [D EXCEPT ![h].refs = D[h].refs + 1]
      /\ u.shown = [c.shown EXCEPT ![h] = Shown(c.shown[h], "added")]
  <2>1. "added" \in EventTypes /\ Posted(b.ring, [type |-> "added", device |-> h]) \in Rings
    BY <1>6 DEF EventTypes
  <2>2. /\ u \in Contexts
        /\ u.ring = Posted(b.ring, [type |-> "added", device |-> h])
        /\ u.seat = b.seat /\ u.group = b.group
        /\ u.device = [b.device EXCEPT ![h].refs = b.device[h].refs + 1]
        /\ u.shown = [b.shown EXCEPT ![h] = Shown(b.shown[h], "added")]
    BY <1>6, <2>1, PostIs
  <2> HIDE DEF u
  <2> QED BY <1>6, <2>2
<1> HIDE DEF u
<1>8. u.device[h] = d /\ \A g \in Handles \ {h} : u.device[g] = c.device[g]
  BY <1>2, <1>7
<1>9. u.shown[h] = Shown(c.shown[h], "added") /\ \A g \in Handles \ {h} : u.shown[g] = c.shown[g]
  BY <1>7 DEF Contexts
<1> HIDE DEF d
<1> QED BY <1>3, <1>5, <1>7, <1>8, <1>9 DEF Adds, u, b, a, d

\* A device that joins.
LEMMA AddsSound ==
  ASSUME NEW c, NEW grip, NEW keep, Sound(c, grip, keep), NEW h \in Handles \ Live(c),
         NEW d \in Devices, NEW s \in Seats, NEW n \in Nodes,
         d.node = n, d.seat = s, d.refs = 2, ~d.removed, ~d.down, NEW u, Adds(c, h, d, s, u)
  PROVE  Sound(u, grip, keep) /\ Joins(c, n, s, h, u)
<1> DEFINE owed == Owed(c, grip)
           new == Owed(u, grip)
<1>1. /\ c \in Contexts /\ RingInv(c.ring) /\ Counts(c, owed, keep)
      /\ keep \in [Seats -> Nat] /\ grip \in [Handles -> Nat]
  BY SoundRing DEF Counts, Sound
<1>2. c.device[h] = NoDevice /\ c.shown[h] = "none" /\ owed[h] = 0
  BY <1>1, DeadFits
<1>3. /\ RingInv(u.ring) /\ u.ring \in Rings
      /\ \A i \in 1..Len(Told(u)) : Told(u)[i].device \in Handles
      /\ new \in [Handles -> Nat]
      /\ new[h] = owed[h] + 1
      /\ \A g \in Handles \ {h} : new[g] = owed[g]
      /\ Longer(c, u)
  <2>1. "added" \in EventTypes /\ u.ring = Posted(c.ring, [type |-> "added", device |-> h])
    BY DEF EventTypes, Adds
  <2> QED BY <2>1, PostedOwed
<1> HIDE DEF owed, new
<1>4. /\ u \in Contexts /\ u.group = c.group + 1 /\ u.device[h] = d /\ u.shown[h] = "up"
      /\ \A g \in Handles \ {h} : u.device[g] = c.device[g] /\ u.shown[g] = c.shown[g]
      /\ u.seat[s].refs = c.seat[s].refs + 1 /\ u.seat[s].count = c.seat[s].count
      /\ \A t \in Seats \ {s} : u.seat[t] = c.seat[t]
  <2>1. Shown("none", "added") = "up"
    BY DEF Shown
  <2> QED BY <1>2, <2>1 DEF Adds
<1>5. \A g \in Handles : Fits(u.device[g], u.shown[g], new[g])
  <2>1. Fits(u.device[h], u.shown[h], new[h])
    BY <1>2, <1>3, <1>4 DEF Fits
  <2>2. \A g \in Handles \ {h} : Fits(u.device[g], u.shown[g], new[g])
    BY <1>1, <1>3, <1>4 DEF Counts
  <2> QED BY <2>1, <2>2
<1>6. Live(u) = Live(c) \cup {h}
  BY <1>4 DEF Live
<1>7. u.group = Cardinality(Live(u))
  <2>1. IsFiniteSet(Live(c))
    BY Sets
  <2>2. Cardinality(Live(c) \cup {h}) = Cardinality(Live(c)) + 1
    BY <2>1, FS_AddElement
  <2> QED BY <1>1, <1>4, <1>6, <2>2 DEF Counts
<1>8. ASSUME NEW t \in Seats PROVE SeatFits(u, t, keep[t])
  <2>1. SeatFits(c, t, keep[t]) /\ keep[t] \in Nat
    BY <1>1 DEF Counts
  <2>2. Down(u, t) = Down(c, t)
    BY <1>2, <1>4 DEF Down
  <2>3. On(u, t) = IF t = s THEN On(c, t) \cup {h} ELSE On(c, t)
    <3>1. \A g \in Live(c) : u.device[g] = c.device[g]
      BY <1>4, Sets
    <3> QED BY <1>4, <1>6, <3>1 DEF On
  <2>4. IsFiniteSet(On(c, t)) /\ Cardinality(On(c, t)) \in Nat /\ h \notin On(c, t)
    <3>1. h \notin On(c, t)
      BY DEF On
    <3> QED BY <3>1, Sets
  <2>5. Cardinality(On(c, t) \cup {h}) = Cardinality(On(c, t)) + 1
    BY <2>4, FS_AddElement
  <2>6. u.seat[t].refs = IF t = s THEN c.seat[t].refs + 1 ELSE c.seat[t].refs
    BY <1>4
  <2>7. u.seat[t].count = c.seat[t].count
    BY <1>4
  <2> QED BY <2>1, <2>2, <2>3, <2>4, <2>5, <2>6, <2>7 DEF SeatFits
<1>9. Counts(u, new, keep)
  BY <1>1, <1>3, <1>4, <1>5, <1>7, <1>8 DEF Counts
<1>10. \A g \in Live(c) : u.device[g] = c.device[g]
  BY <1>4, Sets
<1>11. Listed(u) = Listed(c) \cup {h}
  BY <1>4, <1>6, <1>10 DEF Listed
<1> QED BY <1>1, <1>3, <1>4, <1>6, <1>9, <1>10, <1>11 DEF Sound, Joins, new

LEMMA DeviceCreateSound ==
  ASSUME NEW c, NEW grip, NEW keep, Sound(c, grip, keep), NEW s \in Seats, NEW n \in Nodes,
         node[n].key \in BOOLEAN, Live(c) # Handles
  PROVE  /\ Sound(DeviceCreate(c, s, n), grip, keep)
         /\ Enters(c, n, s, DeviceCreate(c, s, n))
<1> DEFINE h == Min(Handles \ Live(c))
           new == [node |-> n, seat |-> s, refs |-> 1, removed |-> FALSE, open |-> TRUE,
                   down |-> FALSE, synced |-> node[n].key]
           u == DeviceCreate(c, s, n)
           d == [new EXCEPT !.refs = new.refs + 1]
<1>1. c \in Contexts /\ RingInv(c.ring)
  BY SoundRing
<1>2. CASE node[n].state # "present"
  <2>1. u = c
    BY <1>2 DEF DeviceCreate
  <2> HIDE DEF u
  <2> QED BY <1>2, <2>1, StaysSame DEF Enters, u
<1>3. CASE node[n].state = "present"
  <2>1. h \in Handles \ Live(c)
    <3>1. Handles \ Live(c) \subseteq Nat /\ Handles \ Live(c) # {}
      BY ContextAssumption, Sets
    <3> QED BY <3>1, LeastIn
  <2>2. u = Post(SeatRef([c EXCEPT !.device[h] = new, !.group = @ + 1], s), h, "added")
    BY <1>3 DEF DeviceCreate
  <2>3. /\ new \in Devices /\ new.refs = 1
        /\ d \in Devices /\ d.node = n /\ d.seat = s /\ d.refs = 2 /\ ~d.removed /\ ~d.down
    <3> DEFINE key == node[n].key
    <3>1. key \in BOOLEAN
      OBVIOUS
    <3> HIDE DEF key
    <3>2. /\ new \in Devices /\ new.refs = 1 /\ new.node = n /\ new.seat = s /\ new.removed = FALSE
          /\ new.down = FALSE
      BY <3>1 DEF Devices, key
    <3> HIDE DEF new, h, u
    <3>3. /\ d \in Devices /\ d.node = n /\ d.seat = s /\ d.refs = 2 /\ d.removed = FALSE
          /\ d.down = FALSE
      BY <3>2 DEF Devices
    <3> QED BY <3>2, <3>3
  <2>4. Posted(c.ring, [type |-> "added", device |-> h]) \in Rings
    <3> DEFINE r == [ring |-> Posted(c.ring, [type |-> "added", device |-> h])]
    <3>1. r.ring = Posted(c.ring, [type |-> "added", device |-> h])
      OBVIOUS
    <3>2. "added" \in EventTypes
      BY DEF EventTypes
    <3> HIDE DEF r, h
    <3> QED BY <2>1, <3>1, <3>2, PostedOwed
  <2> HIDE DEF h, new, u
  <2>5. Adds(c, h, d, s, u)
    BY <1>1, <2>1, <2>2, <2>3, <2>4, AddsIs
  <2> HIDE DEF d
  <2>6. Sound(u, grip, keep) /\ Joins(c, n, s, h, u)
    BY <2>1, <2>3, <2>5, AddsSound
  <2> QED BY <1>3, <2>6 DEF Enters, u
<1> QED BY <1>2, <1>3

\* A reference to a seat and what is sound.
LEMMA SeatedSound ==
  ASSUME NEW c, NEW grip, NEW keep, Sound(c, grip, keep), NEW u, Seated(c, u),
         NEW other, Counts(u, Owed(c, grip), other)
  PROVE  Sound(u, grip, other) /\ Stays(c, u) /\ Listed(u) = Listed(c)
<1>1. u.ring = c.ring /\ u.device = c.device
  BY DEF Seated
<1>2. /\ RingInv(u.ring) /\ \A i \in 1..Len(Told(u)) : Told(u)[i].device \in Handles
      /\ Owed(u, grip) = Owed(c, grip) /\ Longer(c, u)
  BY <1>1, SameRing
<1>3. Live(u) = Live(c) /\ Listed(u) = Listed(c)
  BY SeatedSame
<1> QED BY <1>1, <1>2, <1>3 DEF Sound, Stays

LEMMA EntersOn ==
  ASSUME NEW a, NEW b, NEW c, NEW d, NEW n, NEW s,
         RingInv(a.ring), RingInv(b.ring), RingInv(c.ring), RingInv(d.ring),
         Stays(a, b), Listed(b) = Listed(a), Enters(b, n, s, c),
         Stays(c, d), Listed(d) = Listed(c)
  PROVE  Enters(a, n, s, d)
<1>1. CASE node[n].state # "present"
  <2>1. Stays(b, c) /\ Listed(c) = Listed(b)
    BY <1>1 DEF Enters
  <2>2. Stays(a, d)
    BY <2>1, StaysOn
  <2> QED BY <1>1, <2>1, <2>2 DEF Enters
<1>2. CASE node[n].state = "present"
  <2>1. PICK h : Joins(b, n, s, h, c)
    BY <1>2 DEF Enters
  <2>2. /\ Len(Told(a)) \in Nat /\ Len(Told(b)) \in Nat /\ Len(Told(c)) \in Nat
        /\ Len(Told(d)) \in Nat
    BY UnreadAt DEF Told
  <2>3. Longer(a, d)
    <3>1. Longer(a, b) /\ Longer(b, c) /\ Longer(c, d)
      BY <2>1 DEF Stays, Joins
    <3>2. Longer(a, c)
      BY <2>2, <3>1 DEF Longer
    <3> QED BY <2>2, <3>1, <3>2 DEF Longer
  <2>4. Live(d) = Live(a) \cup {h} /\ Listed(d) = Listed(a) \cup {h} /\ h \in Handles \ Live(a)
    BY <2>1 DEF Stays, Joins
  <2>5. d.device[h].node = n /\ d.device[h].seat = s
    BY <2>1 DEF Stays, Joins
  <2>6. \A g \in Live(a) : d.device[g].node = a.device[g].node /\ d.device[g].seat = a.device[g].seat
    BY <2>1 DEF Stays, Joins
  <2>7. Joins(a, n, s, h, d)
    BY <2>3, <2>4, <2>5, <2>6 DEF Joins
  <2> QED BY <1>2, <2>7 DEF Enters
<1> QED BY <1>1, <1>2

LEMMA PathEnableSound ==
  ASSUME NEW c, NEW grip, NEW keep, Sound(c, grip, keep), NEW s \in Seats, NEW n \in Nodes,
         node[n].key \in BOOLEAN, Live(c) # Handles
  PROVE  /\ Sound(PathEnable(c, s, n), grip, keep)
         /\ Enters(c, n, s, PathEnable(c, s, n))
<1> DEFINE a == SeatRef(c, s)
           b == DeviceCreate(a, s, n)
           u == SeatUnref(b, s)
           more == [keep EXCEPT ![s] = keep[s] + 1]
           back == [more EXCEPT ![s] = more[s] - 1]
<1>1. keep \in [Seats -> Nat] /\ Counts(c, Owed(c, grip), keep)
  BY DEF Sound, Counts
<1>2. /\ more[s] = keep[s] + 1 /\ keep[s] \in Nat
      /\ more \in [Seats -> Nat] /\ \A t \in Seats \ {s} : more[t] = keep[t]
  BY <1>1
<1>3. Counts(a, Owed(c, grip), more) /\ Seated(c, a)
  BY <1>1, SeatRefCounts
<1> HIDE DEF more
<1>4. more[s] - 1 = keep[s] /\ more[s] > 0
  BY <1>2
<1>5. DOMAIN back = Seats /\ back = [t \in Seats |-> back[t]] /\ \A t \in Seats : back[t] = keep[t]
  BY <1>2, <1>4
<1> HIDE DEF back
<1>6. back = keep
  BY <1>1, <1>5
<1> HIDE DEF a
<1>7. Sound(a, grip, more) /\ Stays(c, a) /\ Listed(a) = Listed(c)
  BY <1>3, SeatedSound
<1>8. Sound(b, grip, more) /\ Enters(a, n, s, b)
  <2>1. Live(a) # Handles
    BY <1>7 DEF Stays
  <2> QED BY <1>7, <2>1, DeviceCreateSound
<1> HIDE DEF b
<1>9. Counts(u, Owed(b, grip), keep) /\ Seated(b, u)
  <2>1. Counts(b, Owed(b, grip), more)
    BY <1>8, SoundRing
  <2>2. Counts(u, Owed(b, grip), back) /\ Seated(b, u)
    BY <1>4, <2>1, SeatUnrefCounts DEF back
  <2> HIDE DEF u
  <2> QED BY <1>6, <2>2
<1> HIDE DEF u
<1>10. Sound(u, grip, keep) /\ Stays(b, u) /\ Listed(u) = Listed(b)
  BY <1>8, <1>9, SeatedSound
<1>11. RingInv(a.ring) /\ RingInv(b.ring) /\ RingInv(c.ring) /\ RingInv(u.ring)
  BY <1>7, <1>8, <1>10, SoundRing
<1>12. Enters(c, n, s, u)
  BY <1>7, <1>8, <1>10, <1>11, EntersOn
<1>13. u = PathEnable(c, s, n)
  BY DEF PathEnable, u, b, a
<1> QED BY <1>10, <1>12, <1>13

\* The udev backend looks first whether the seat has the device.
Placed(c, n, s) == \E h \in Listed(c) : c.device[h].node = n /\ c.device[h].seat = s

LEMMA DeviceAddedSound ==
  ASSUME NEW c, NEW grip, NEW keep, Sound(c, grip, keep), NEW s \in Seats, NEW n \in Nodes,
         node[n].key \in BOOLEAN, Live(c) # Handles
  PROVE  /\ Sound(DeviceAdded(c, n, s), grip, keep)
         /\ IF Placed(c, n, s) THEN DeviceAdded(c, n, s) = c
            ELSE Enters(c, n, s, DeviceAdded(c, n, s))
<1>1. CASE Placed(c, n, s)
  <2>1. DeviceAdded(c, n, s) = c
    BY <1>1 DEF Placed, DeviceAdded
  <2> QED BY <1>1, <2>1
<1>2. CASE ~Placed(c, n, s)
  <2>1. DeviceAdded(c, n, s) = PathEnable(c, s, n)
    BY <1>2 DEF Placed, DeviceAdded, PathEnable
  <2> QED BY <1>2, <2>1, PathEnableSound
<1> QED BY <1>1, <1>2

\* The devices of a node leave the list.
LEMMA DeviceRemovedSound ==
  ASSUME NEW c, NEW grip, NEW keep, Sound(c, grip, keep), NEW n
  PROVE  LET gone == {h \in Listed(c) : c.device[h].node = n}
         IN  Sound(DeviceRemoved(c, n), grip, keep) /\ Unlists(c, gone, DeviceRemoved(c, n))
<1> DEFINE gone == {h \in Listed(c) : c.device[h].node = n}
<1>1. gone \subseteq Listed(c)
  OBVIOUS
<1> HIDE DEF gone
<1>2. IsFiniteSet(gone)
  BY <1>1, Sets, FS_Subset
<1>3. Lists(SetToSeq(gone), gone)
  BY <1>2, SetToSeqLists
<1>4. Sound(RemoveEach(c, SetToSeq(gone)), grip, keep) /\ Unlists(c, gone, RemoveEach(c, SetToSeq(gone)))
  BY <1>1, <1>3, RemoveEachSound
<1> QED BY <1>4 DEF DeviceRemoved, gone

\* What reading a device may change: it may leave the list when its node is gone.
Reads(c, h, u) ==
  /\ Stays(c, u)
  /\ Listed(u) = IF node[c.device[h].node].state = "gone" THEN Listed(c) \ {h} ELSE Listed(c)

LEMMA KeepsListed ==
  ASSUME NEW c, NEW u, Stays(c, u), \A g \in Handles : u.device[g].removed = c.device[g].removed
  PROVE  Listed(u) = Listed(c)
  BY Sets DEF Stays, Listed

LEMMA DeviceReadSound ==
  ASSUME NEW c, NEW grip, NEW keep, Sound(c, grip, keep), NEW h \in Handles, c.device[h].open,
         \A n \in Nodes : node[n].key \in BOOLEAN
  PROVE  Sound(DeviceRead(c, h), grip, keep) /\ Reads(c, h, DeviceRead(c, h))
<1> DEFINE key == node[c.device[h].node].key
           d == [c.device[h] EXCEPT !.synced = key]
           b == [c EXCEPT !.device[h].synced = key]
           u == DeviceRead(c, h)
           gone == node[c.device[h].node].state = "gone"
<1>1. c \in Contexts /\ RingInv(c.ring) /\ Counts(c, Owed(c, grip), keep)
  BY SoundRing
<1>2. h \in Live(c)
  <2>1. c.device[h] # NoDevice
    BY DEF NoDevice
  <2> QED BY <1>1, <2>1, DeadFits
<1>3. /\ c.device[h] \in Devices
      /\ c.device[h].refs = Owed(c, grip)[h] + (IF c.device[h].removed THEN 0 ELSE 1)
      /\ c.device[h].refs > 0 /\ c.device[h].node \in Nodes /\ c.device[h].seat \in Seats
      /\ c.shown[h] \in {"up", "down", "removed"}
      /\ (c.device[h].removed <=> c.shown[h] = "removed")
      /\ (c.device[h].down <=> c.shown[h] = "down")
      /\ (c.device[h].open => ~c.device[h].removed) /\ (c.device[h].down => c.device[h].open)
  BY <1>1, <1>2, LiveFits
<1>4. h \in Listed(c)
  BY <1>2, <1>3 DEF Listed
<1>5. CASE gone
  <2>1. u = DeviceRemove(c, h)
    BY <1>5 DEF DeviceRead
  <2>2. Sound(u, grip, keep) /\ Removes(c, h, u)
    BY <1>4, <2>1, DeviceRemoveSound
  <2> HIDE DEF u
  <2>3. Unlists(c, {h}, u)
    BY <1>4, <2>2, RemovesUnlists
  <2> QED BY <1>5, <2>2, <2>3 DEF Unlists, Reads, u
<1>6. CASE ~gone
  <2>1. key \in BOOLEAN
    BY <1>3
  <2>2. Puts(c, h, d, b)
    <3> HIDE DEF key
    <3>1. d \in Devices
      BY <1>3, <2>1 DEF Devices
    <3>2. b = [c EXCEPT !.device[h] = d]
      BY <1>1 DEF Contexts
    <3> HIDE DEF d, b
    <3> QED BY <1>1, <3>1, <3>2, PutsDevice
  <2>3. /\ d.refs = c.device[h].refs /\ d.node = c.device[h].node
        /\ d.seat = c.device[h].seat /\ d.removed = c.device[h].removed
        /\ d.open = c.device[h].open /\ d.down = c.device[h].down
    BY <1>3 DEF Devices
  <2>4. u = IF key # c.device[h].down THEN Key(b, h, key) ELSE b
    BY <1>6 DEF DeviceRead
  <2> HIDE DEF d, b, u, key, gone
  <2>5. /\ b \in Contexts /\ b.ring = c.ring /\ b.seat = c.seat /\ b.group = c.group
        /\ b.shown = c.shown /\ b.device[h] = d
        /\ \A g \in Handles \ {h} : b.device[g] = c.device[g]
    BY <2>2 DEF Puts
  <2>6. Fits(b.device[h], b.shown[h], Owed(c, grip)[h]) /\ b.device[h].refs > 0
    BY <1>3, <2>3, <2>5 DEF Fits
  <2>7. Sound(b, grip, keep) /\ Stays(c, b)
    BY <1>2, <2>3, <2>5, <2>6, ChangeOne
  <2>8. \A g \in Handles : b.device[g].removed = c.device[g].removed
    BY <2>3, <2>5
  <2>9. Listed(b) = Listed(c)
    BY <2>7, <2>8, KeepsListed
  <2>10. CASE key # c.device[h].down
    <3>1. u = Key(b, h, key) /\ h \in Live(b) /\ b.device[h].open /\ b.device[h].down # key
      BY <1>2, <2>3, <2>4, <2>5, <2>7, <2>10 DEF Stays
    <3>2. Sound(u, grip, keep) /\ Keyed(b, h, key, u)
      BY <2>1, <2>7, <3>1, KeySound
    <3>3. Stays(b, u) /\ Listed(u) = Listed(b)
      <4>1. \A g \in Handles : u.device[g].removed = b.device[g].removed
        BY <3>2 DEF Keyed
      <4> QED BY <3>2, <4>1, KeepsListed DEF Keyed
    <3>4. Stays(c, u)
      BY <1>1, <2>7, <3>2, <3>3, SoundRing, StaysOn
    <3> QED BY <1>6, <2>9, <3>2, <3>3, <3>4 DEF Reads, u, gone
  <2>11. CASE key = c.device[h].down
    <3>1. u = b
      BY <2>4, <2>11
    <3> QED BY <1>6, <2>7, <2>9, <3>1 DEF Reads, u, gone
  <2> QED BY <2>10, <2>11
<1> QED BY <1>5, <1>6

-----------------------------------------------------------------------------
(* The devices of several nodes.                                               *)

\* The list, which was empty, has one device for each node of N.
Gathers(c, N, u) ==
  /\ \A g \in Listed(u) : u.device[g].node \in N /\ u.device[g].seat = DefaultSeat
  /\ \A n \in N : \E g \in Listed(u) : u.device[g].node = n
  /\ \A g, h \in Listed(u) : u.device[g].node = u.device[h].node => g = h
  /\ Longer(c, u)

LEMMA GathersMore ==
  ASSUME NEW c, NEW a, NEW b, NEW N, NEW n, NEW h, n \notin N,
         RingInv(c.ring), RingInv(a.ring), RingInv(b.ring),
         Gathers(c, N, a), Joins(a, n, DefaultSeat, h, b)
  PROVE  /\ Gathers(c, N \cup {n}, b)
         /\ Cardinality(Live(b)) = Cardinality(Live(a)) + 1
<1>1. /\ Len(Told(a)) \in Nat /\ Len(Told(b)) \in Nat /\ Len(Told(c)) \in Nat
  BY UnreadAt DEF Told
<1>2. Longer(c, b)
  BY <1>1 DEF Gathers, Joins, Longer
<1>3. Cardinality(Live(b)) = Cardinality(Live(a)) + 1
  <2>1. IsFiniteSet(Live(a))
    BY Sets
  <2>2. Live(b) = Live(a) \cup {h} /\ h \notin Live(a)
    BY DEF Joins
  <2> QED BY <2>1, <2>2, FS_AddElement
<1>4. /\ Listed(b) = Listed(a) \cup {h} /\ h \notin Listed(a)
      /\ b.device[h].node = n /\ b.device[h].seat = DefaultSeat
      /\ \A g \in Listed(a) : b.device[g].node = a.device[g].node /\ b.device[g].seat = a.device[g].seat
  BY Sets DEF Joins
<1>5. \A g \in Listed(b) : b.device[g].node \in N \cup {n} /\ b.device[g].seat = DefaultSeat
  BY <1>4 DEF Gathers
<1>6. \A m \in N \cup {n} : \E g \in Listed(b) : b.device[g].node = m
  BY <1>4 DEF Gathers
<1>7. \A g, k \in Listed(b) : b.device[g].node = b.device[k].node => g = k
  BY <1>4 DEF Gathers
<1> QED BY <1>2, <1>3, <1>5, <1>6, <1>7 DEF Gathers

\* One after the other, by udev or by path, as long as the nodes are there.
LEMMA GatherEach ==
  ASSUME NEW c, NEW grip, NEW keep, Sound(c, grip, keep), Listed(c) = {},
         NEW q \in Seq(Nodes), \A i, j \in 1..Len(q) : q[i] = q[j] => i = j,
         \A n \in Nodes : node[n].key \in BOOLEAN,
         NEW L \in 0..Len(q), \A i \in 1..L : node[q[i]].state = "present",
         Cardinality(Live(c)) + Len(q) <= Cardinality(Handles), NEW f, f[0] = c,
         \A i \in 1..Len(q) : \/ f[i] = PathEnable(f[i - 1], DefaultSeat, q[i])
                              \/ f[i] = DeviceAdded(f[i - 1], q[i], DefaultSeat)
  PROVE  Sound(f[L], grip, keep) /\ Gathers(c, {q[j] : j \in 1..L}, f[L])
<1> DEFINE Upto(i) == {q[j] : j \in 1..i}
           P(i) == i \in 0..L => /\ Sound(f[i], grip, keep) /\ Gathers(c, Upto(i), f[i])
                                 /\ Cardinality(Live(f[i])) = Cardinality(Live(c)) + i
           T == {i \in Nat : P(i)}
<1>1. Len(q) \in Nat /\ L \in Nat /\ L <= Len(q)
  OBVIOUS
<1>2. Cardinality(Live(c)) \in Nat /\ Cardinality(Handles) \in Nat
  BY Sets, ContextAssumption, FS_CardinalityType
<1>3. 0 \in T
  <2>1. Upto(0) = {}
    OBVIOUS
  <2>2. Longer(c, c)
    BY StaysSame DEF Stays
  <2>3. Gathers(c, Upto(0), c)
    BY <2>1, <2>2 DEF Gathers
  <2> HIDE DEF Upto
  <2> QED BY <1>2, <2>3
<1>4. ASSUME NEW i \in Nat, i \in T PROVE i + 1 \in T
  <2> SUFFICES ASSUME i + 1 \in 0..L
               PROVE  /\ Sound(f[i + 1], grip, keep) /\ Gathers(c, Upto(i + 1), f[i + 1])
                      /\ Cardinality(Live(f[i + 1])) = Cardinality(Live(c)) + (i + 1)
    OBVIOUS
  <2> DEFINE a == f[i]
             b == f[i + 1]
             n == q[i + 1]
  <2>1. /\ Sound(a, grip, keep) /\ Gathers(c, Upto(i), a)
        /\ Cardinality(Live(a)) = Cardinality(Live(c)) + i
    BY <1>1, <1>4
  <2>2. i + 1 \in 1..Len(q) /\ (i + 1) - 1 = i /\ i + 1 \in 1..L
    BY <1>1
  <2>3. n \in Nodes /\ node[n].state = "present" /\ node[n].key \in BOOLEAN
    BY <1>1, <2>2
  <2>4. b = PathEnable(a, DefaultSeat, n) \/ b = DeviceAdded(a, n, DefaultSeat)
    BY <2>2
  <2>5. n \notin Upto(i)
    <3>1. \A j \in 1..i : j \in 1..Len(q) /\ j # i + 1
      BY <1>1, <2>2
    <3> QED BY <2>2, <3>1
  <2>6. Upto(i + 1) = Upto(i) \cup {n}
    <3>1. \A j \in 1..(i + 1) : j \in 1..i \/ j = i + 1
      OBVIOUS
    <3>2. \A j \in 1..i : j \in 1..(i + 1)
      OBVIOUS
    <3>3. i + 1 \in 1..(i + 1)
      OBVIOUS
    <3> QED BY <3>1, <3>2, <3>3
  <2> HIDE DEF a, b, n, Upto
  <2>7. Live(a) # Handles
    BY <1>1, <1>2, <2>1, <2>2
  <2>8. DefaultSeat \in Seats
    BY ContextAssumption
  <2>9. Sound(b, grip, keep) /\ Enters(a, n, DefaultSeat, b)
    <3>1. CASE b = PathEnable(a, DefaultSeat, n)
      BY <2>1, <2>3, <2>7, <2>8, <3>1, PathEnableSound
    <3>2. CASE b = DeviceAdded(a, n, DefaultSeat)
      <4>1. ~Placed(a, n, DefaultSeat)
        BY <2>1, <2>5 DEF Gathers, Placed
      <4> QED BY <2>1, <2>3, <2>7, <2>8, <3>2, <4>1, DeviceAddedSound
    <3> QED BY <2>4, <3>1, <3>2
  <2>10. PICK h : Joins(a, n, DefaultSeat, h, b)
    BY <2>3, <2>9 DEF Enters
  <2>11. RingInv(a.ring) /\ RingInv(b.ring) /\ RingInv(c.ring)
    BY <2>1, <2>9, SoundRing
  <2>12. Gathers(c, Upto(i + 1), b) /\ Cardinality(Live(b)) = Cardinality(Live(a)) + 1
    <3>1. Gathers(c, Upto(i), a)
      BY <2>1
    <3>2. Joins(a, n, DefaultSeat, h, b)
      BY <2>10
    <3>3. /\ Gathers(c, Upto(i) \cup {n}, b)
          /\ Cardinality(Live(b)) = Cardinality(Live(a)) + 1
      BY <2>5, <2>11, <3>1, <3>2, GathersMore
    <3> QED BY <2>6, <3>3
  <2>13. Cardinality(Live(b)) = Cardinality(Live(c)) + (i + 1)
    BY <1>2, <2>1, <2>12
  <2> QED BY <2>9, <2>12, <2>13 DEF b
<1>5. P(L)
  <2> HIDE DEF P
  <2>1. Nat \subseteq T
    <3> HIDE DEF T
    <3> QED BY <1>3, <1>4, SetInduction
  <2> QED BY <1>1, <2>1
<1> QED BY <1>1, <1>5

LEMMA EnumerateUnfolds ==
  ASSUME NEW c, NEW q, Len(q) \in Nat
  PROVE  \E f : /\ f[0] = c
                /\ \A i \in 1..Len(q) : f[i] = DeviceAdded(f[i - 1], q[i], DefaultSeat)
                /\ Enumerate(c, q) = f[Len(q)]
<1> DEFINE Is(f, n) == f = [i \in 0..n |-> IF i = 0 THEN c ELSE DeviceAdded(f[i - 1], q[i], DefaultSeat)]
           S == {n \in Nat : \E f : Is(f, n)}
           F == CHOOSE f : Is(f, Len(q))
<1>1. 0 \in S
  <2> DEFINE f == [i \in 0..0 |-> c]
  <2>1. Is(f, 0)
    OBVIOUS
  <2> HIDE DEF f, Is
  <2> QED BY <2>1
<1>2. ASSUME NEW n \in Nat, n \in S PROVE n + 1 \in S
  <2>1. PICK f : Is(f, n)
    BY <1>2
  <2> DEFINE last == DeviceAdded(f[n], q[n + 1], DefaultSeat)
             g == [i \in 0..(n + 1) |-> IF i = n + 1 THEN last ELSE f[i]]
  <2>2. \A i \in 0..n : i # n + 1 /\ i \in 0..(n + 1) /\ g[i] = f[i]
    OBVIOUS
  <2>3. ASSUME NEW i \in 0..(n + 1)
        PROVE  g[i] = IF i = 0 THEN c ELSE DeviceAdded(g[i - 1], q[i], DefaultSeat)
    <3>1. CASE i = n + 1
      <4>1. g[i] = last /\ i - 1 = n /\ i # 0 /\ g[n] = f[n]
        BY <2>2, <3>1
      <4> HIDE DEF g
      <4> QED BY <3>1, <4>1
    <3>2. CASE i # n + 1
      <4>1. i \in 0..n /\ (i # 0 => i - 1 \in 0..n)
        BY <3>2
      <4>2. g[i] = f[i] /\ (i # 0 => g[i - 1] = f[i - 1])
        BY <2>2, <4>1
      <4>3. f[i] = IF i = 0 THEN c ELSE DeviceAdded(f[i - 1], q[i], DefaultSeat)
        BY <2>1, <4>1
      <4> HIDE DEF g
      <4> QED BY <4>2, <4>3
    <3> QED BY <3>1, <3>2
  <2>4. Is(g, n + 1)
    <3>1. g = [i \in 0..(n + 1) |-> g[i]]
      OBVIOUS
    <3> HIDE DEF g
    <3>2. [i \in 0..(n + 1) |-> g[i]] =
            [i \in 0..(n + 1) |-> IF i = 0 THEN c ELSE DeviceAdded(g[i - 1], q[i], DefaultSeat)]
      BY <2>3
    <3> QED BY <3>1, <3>2
  <2> HIDE DEF g, Is
  <2> QED BY <2>4
<1>3. Is(F, Len(q))
  <2> HIDE DEF S
  <2>1. Len(q) \in S
    BY <1>1, <1>2, SetInduction
  <2> HIDE DEF Is
  <2> QED BY <2>1 DEF S
<1>4. Enumerate(c, q) = F[Len(q)]
  BY DEF Enumerate
<1> HIDE DEF F
<1>5. /\ F[0] = c
      /\ \A i \in 1..Len(q) : F[i] = DeviceAdded(F[i - 1], q[i], DefaultSeat)
  BY <1>3
<1> QED BY <1>4, <1>5

LEMMA EnumerateSound ==
  ASSUME NEW c, NEW grip, NEW keep, Sound(c, grip, keep), Listed(c) = {},
         NEW N, N \subseteq Nodes, NEW q, Lists(q, N),
         \A n \in Nodes : node[n].key \in BOOLEAN, \A n \in N : node[n].state = "present",
         Cardinality(Live(c)) + Cardinality(N) <= Cardinality(Handles)
  PROVE  Sound(Enumerate(c, q), grip, keep) /\ Gathers(c, N, Enumerate(c, q))
<1>1. /\ Len(q) \in Nat /\ q \in Seq(N) /\ ToSet(q) = N /\ Len(q) = Cardinality(N)
      /\ \A i, j \in 1..Len(q) : q[i] = q[j] => i = j
  BY DEF Lists
<1>2. PICK f : /\ f[0] = c
               /\ \A i \in 1..Len(q) : f[i] = DeviceAdded(f[i - 1], q[i], DefaultSeat)
               /\ Enumerate(c, q) = f[Len(q)]
  BY <1>1, EnumerateUnfolds
<1>3. q \in Seq(Nodes) /\ \A i \in 1..Len(q) : node[q[i]].state = "present"
  BY <1>1
<1>4. Len(q) \in 0..Len(q) /\ Cardinality(Live(c)) + Len(q) <= Cardinality(Handles)
  BY <1>1
<1>5. Sound(f[Len(q)], grip, keep) /\ Gathers(c, {q[j] : j \in 1..Len(q)}, f[Len(q)])
  BY <1>1, <1>2, <1>3, <1>4, GatherEach
<1>6. {q[j] : j \in 1..Len(q)} = N
  BY <1>1 DEF ToSet
<1> QED BY <1>2, <1>5, <1>6

LEMMA PathEnableUnfolds ==
  ASSUME NEW c, Len(paths) \in Nat
  PROVE  \E f : /\ f[0] = c
                /\ \A i \in 1..Len(paths) : f[i] = PathEnable(f[i - 1], DefaultSeat, paths[i])
                /\ LET failing == {i \in DOMAIN paths : node[paths[i]].state # "present"}
                       some == f[Min(failing) - 1]
                   IN  PathEnableAll(c) = IF failing = {} THEN f[Len(paths)]
                                          ELSE RemoveEach(some, SetToSeq(Listed(some)))
<1> DEFINE Is(f, n) == f = [i \in 0..n |-> IF i = 0 THEN c ELSE PathEnable(f[i - 1], DefaultSeat, paths[i])]
           S == {n \in Nat : \E f : Is(f, n)}
           F == CHOOSE f : Is(f, Len(paths))
<1>1. 0 \in S
  <2> DEFINE f == [i \in 0..0 |-> c]
  <2>1. Is(f, 0)
    OBVIOUS
  <2> HIDE DEF f, Is
  <2> QED BY <2>1
<1>2. ASSUME NEW n \in Nat, n \in S PROVE n + 1 \in S
  <2>1. PICK f : Is(f, n)
    BY <1>2
  <2> DEFINE last == PathEnable(f[n], DefaultSeat, paths[n + 1])
             g == [i \in 0..(n + 1) |-> IF i = n + 1 THEN last ELSE f[i]]
  <2>2. \A i \in 0..n : i # n + 1 /\ i \in 0..(n + 1) /\ g[i] = f[i]
    OBVIOUS
  <2>3. ASSUME NEW i \in 0..(n + 1)
        PROVE  g[i] = IF i = 0 THEN c ELSE PathEnable(g[i - 1], DefaultSeat, paths[i])
    <3>1. CASE i = n + 1
      <4>1. g[i] = last /\ i - 1 = n /\ i # 0 /\ g[n] = f[n]
        BY <2>2, <3>1
      <4> HIDE DEF g
      <4> QED BY <3>1, <4>1
    <3>2. CASE i # n + 1
      <4>1. i \in 0..n /\ (i # 0 => i - 1 \in 0..n)
        BY <3>2
      <4>2. g[i] = f[i] /\ (i # 0 => g[i - 1] = f[i - 1])
        BY <2>2, <4>1
      <4>3. f[i] = IF i = 0 THEN c ELSE PathEnable(f[i - 1], DefaultSeat, paths[i])
        BY <2>1, <4>1
      <4> HIDE DEF g
      <4> QED BY <4>2, <4>3
    <3> QED BY <3>1, <3>2
  <2>4. Is(g, n + 1)
    <3>1. g = [i \in 0..(n + 1) |-> g[i]]
      OBVIOUS
    <3> HIDE DEF g
    <3>2. [i \in 0..(n + 1) |-> g[i]] =
            [i \in 0..(n + 1) |-> IF i = 0 THEN c ELSE PathEnable(g[i - 1], DefaultSeat, paths[i])]
      BY <2>3
    <3> QED BY <3>1, <3>2
  <2> HIDE DEF g, Is
  <2> QED BY <2>4
<1>3. Is(F, Len(paths))
  <2> HIDE DEF S
  <2>1. Len(paths) \in S
    BY <1>1, <1>2, SetInduction
  <2> HIDE DEF Is
  <2> QED BY <2>1 DEF S
<1>4. LET failing == {i \in DOMAIN paths : node[paths[i]].state # "present"}
                       some == F[Min(failing) - 1]
                   IN  PathEnableAll(c) = IF failing = {} THEN F[Len(paths)]
                                          ELSE RemoveEach(some, SetToSeq(Listed(some)))
  BY DEF PathEnableAll
<1> HIDE DEF F
<1>5. /\ F[0] = c
      /\ \A i \in 1..Len(paths) : F[i] = PathEnable(F[i - 1], DefaultSeat, paths[i])
  BY <1>3
<1> QED BY <1>4, <1>5

LEMMA PathEnableAllSound ==
  ASSUME NEW c, NEW grip, NEW keep, Sound(c, grip, keep), Listed(c) = {},
         paths \in Seq(Nodes), \A i, j \in 1..Len(paths) : paths[i] = paths[j] => i = j,
         \A n \in Nodes : node[n].key \in BOOLEAN,
         Cardinality(Live(c)) + Len(paths) <= Cardinality(Handles)
  PROVE  /\ Sound(PathEnableAll(c), grip, keep)
         /\ IF \A n \in ToSet(paths) : node[n].state = "present"
            THEN Gathers(c, ToSet(paths), PathEnableAll(c))
            ELSE Listed(PathEnableAll(c)) = {} /\ Longer(c, PathEnableAll(c))
<1> DEFINE failing == {i \in DOMAIN paths : node[paths[i]].state # "present"}
           u == PathEnableAll(c)
<1>1. Len(paths) \in Nat /\ DOMAIN paths = 1..Len(paths) /\ ToSet(paths) = {paths[j] : j \in 1..Len(paths)}
  BY DEF ToSet
<1>2. PICK f : /\ f[0] = c
               /\ \A i \in 1..Len(paths) : f[i] = PathEnable(f[i - 1], DefaultSeat, paths[i])
               /\ LET some == f[Min(failing) - 1]
                  IN  u = IF failing = {} THEN f[Len(paths)]
                          ELSE RemoveEach(some, SetToSeq(Listed(some)))
  <2> HIDE DEF u
  <2>1. \E f : /\ f[0] = c
               /\ \A i \in 1..Len(paths) : f[i] = PathEnable(f[i - 1], DefaultSeat, paths[i])
               /\ LET some == f[Min(failing) - 1]
                  IN  PathEnableAll(c) = IF failing = {} THEN f[Len(paths)]
                          ELSE RemoveEach(some, SetToSeq(Listed(some)))
    BY <1>1, PathEnableUnfolds
  <2> QED BY <2>1 DEF u
<1> HIDE DEF u
<1>3. ASSUME NEW L \in 0..Len(paths), \A i \in 1..L : node[paths[i]].state = "present"
      PROVE  Sound(f[L], grip, keep) /\ Gathers(c, {paths[j] : j \in 1..L}, f[L])
  BY <1>2, <1>3, GatherEach
<1>4. CASE failing = {}
  <2>1. \A i \in 1..Len(paths) : node[paths[i]].state = "present"
    BY <1>1, <1>4
  <2>2. Sound(f[Len(paths)], grip, keep) /\ Gathers(c, ToSet(paths), f[Len(paths)])
    <3>1. Len(paths) \in 0..Len(paths)
      BY <1>1
    <3> HIDE DEF failing
    <3> QED BY <1>1, <1>3, <2>1, <3>1
  <2>3. \A n \in ToSet(paths) : node[n].state = "present"
    BY <1>1, <2>1
  <2> QED BY <1>2, <1>4, <2>2, <2>3 DEF u
<1>5. CASE failing # {}
  <2> DEFINE k == Min(failing)
             some == f[k - 1]
  <2>1. k \in failing /\ \A i \in failing : k <= i
    <3>1. failing \subseteq Nat
      BY <1>1
    <3> HIDE DEF failing
    <3> QED BY <1>5, <3>1, LeastIn
  <2>2. k \in 1..Len(paths) /\ node[paths[k]].state # "present"
    BY <1>1, <2>1
  <2> HIDE DEF k
  <2>3. \A i \in 1..(k - 1) : node[paths[i]].state = "present"
    <3>1. \A i \in 1..(k - 1) : i \in 1..Len(paths) /\ ~(k <= i)
      BY <1>1, <2>2
    <3> QED BY <1>1, <2>1, <3>1
  <2>4. Sound(some, grip, keep) /\ Longer(c, some)
    <3>1. k - 1 \in 0..Len(paths)
      BY <1>1, <2>2
    <3> QED BY <1>3, <2>3, <3>1 DEF Gathers
  <2>5. u = RemoveEach(some, SetToSeq(Listed(some)))
    BY <1>2, <1>5 DEF k
  <2> HIDE DEF some
  <2>6. Lists(SetToSeq(Listed(some)), Listed(some))
    BY Sets, SetToSeqLists
  <2>7. Sound(u, grip, keep) /\ Unlists(some, Listed(some), u)
    BY <2>4, <2>5, <2>6, RemoveEachSound
  <2>8. Listed(u) = {}
    BY <2>7 DEF Unlists
  <2>9. Longer(c, u)
    <3>1. /\ Len(Told(c)) \in Nat /\ Len(Told(some)) \in Nat /\ Len(Told(u)) \in Nat
      BY <2>4, <2>7, SoundRing, UnreadAt DEF Told
    <3>2. Longer(some, u)
      BY <2>7 DEF Unlists, Stays
    <3> QED BY <2>4, <3>1, <3>2 DEF Longer
  <2>10. ~(\A n \in ToSet(paths) : node[n].state = "present")
    BY <1>1, <2>2
  <2> QED BY <2>7, <2>8, <2>9, <2>10 DEF u
<1> QED BY <1>4, <1>5

-----------------------------------------------------------------------------
(* What is not read when the context is destroyed.                             *)

LEMMA DestroyUnfolds ==
  ASSUME NEW c, NEW q, Len(q) \in Nat
  PROVE  \E f : /\ f[0] = c
                /\ \A i \in 1..Len(q) : f[i] = DeviceUnref(f[i - 1], q[i].device)
                /\ DestroyEvents(c, q) = [f[Len(q)] EXCEPT !.ring = InitialRing]
<1> DEFINE Is(f, n) == f = [i \in 0..n |-> IF i = 0 THEN c ELSE DeviceUnref(f[i - 1], q[i].device)]
           S == {n \in Nat : \E f : Is(f, n)}
           F == CHOOSE f : Is(f, Len(q))
<1>1. 0 \in S
  <2> DEFINE f == [i \in 0..0 |-> c]
  <2>1. Is(f, 0)
    OBVIOUS
  <2> HIDE DEF f, Is
  <2> QED BY <2>1
<1>2. ASSUME NEW n \in Nat, n \in S PROVE n + 1 \in S
  <2>1. PICK f : Is(f, n)
    BY <1>2
  <2> DEFINE last == DeviceUnref(f[n], q[n + 1].device)
             g == [i \in 0..(n + 1) |-> IF i = n + 1 THEN last ELSE f[i]]
  <2>2. \A i \in 0..n : i # n + 1 /\ i \in 0..(n + 1) /\ g[i] = f[i]
    OBVIOUS
  <2>3. ASSUME NEW i \in 0..(n + 1)
        PROVE  g[i] = IF i = 0 THEN c ELSE DeviceUnref(g[i - 1], q[i].device)
    <3>1. CASE i = n + 1
      <4>1. g[i] = last /\ i - 1 = n /\ i # 0 /\ g[n] = f[n]
        BY <2>2, <3>1
      <4> HIDE DEF g
      <4> QED BY <3>1, <4>1
    <3>2. CASE i # n + 1
      <4>1. i \in 0..n /\ (i # 0 => i - 1 \in 0..n)
        BY <3>2
      <4>2. g[i] = f[i] /\ (i # 0 => g[i - 1] = f[i - 1])
        BY <2>2, <4>1
      <4>3. f[i] = IF i = 0 THEN c ELSE DeviceUnref(f[i - 1], q[i].device)
        BY <2>1, <4>1
      <4> HIDE DEF g
      <4> QED BY <4>2, <4>3
    <3> QED BY <3>1, <3>2
  <2>4. Is(g, n + 1)
    <3>1. g = [i \in 0..(n + 1) |-> g[i]]
      OBVIOUS
    <3> HIDE DEF g
    <3>2. [i \in 0..(n + 1) |-> g[i]] =
            [i \in 0..(n + 1) |-> IF i = 0 THEN c ELSE DeviceUnref(g[i - 1], q[i].device)]
      BY <2>3
    <3> QED BY <3>1, <3>2
  <2> HIDE DEF g, Is
  <2> QED BY <2>4
<1>3. Is(F, Len(q))
  <2> HIDE DEF S
  <2>1. Len(q) \in S
    BY <1>1, <1>2, SetInduction
  <2> HIDE DEF Is
  <2> QED BY <2>1 DEF S
<1>4. DestroyEvents(c, q) = [F[Len(q)] EXCEPT !.ring = InitialRing]
  BY DEF DestroyEvents
<1> HIDE DEF F
<1>5. /\ F[0] = c
      /\ \A i \in 1..Len(q) : F[i] = DeviceUnref(F[i - 1], q[i].device)
  BY <1>3
<1> QED BY <1>4, <1>5

\* The events of h after the i-th.
After(q, i, h) == {j \in (i + 1)..Len(q) : q[j].device = h}

LEMMA AfterOne ==
  ASSUME NEW q, Len(q) \in Nat, NEW i \in 1..Len(q), NEW h
  PROVE  /\ Cardinality(After(q, i, h)) \in Nat
         /\ Cardinality(After(q, i - 1, h)) =
              Cardinality(After(q, i, h)) + (IF q[i].device = h THEN 1 ELSE 0)
<1>1. \A j \in ((i - 1) + 1)..Len(q) : j = i \/ j \in (i + 1)..Len(q)
  OBVIOUS
<1>2. i \in ((i - 1) + 1)..Len(q) /\ i \notin (i + 1)..Len(q)
      /\ \A j \in (i + 1)..Len(q) : j \in ((i - 1) + 1)..Len(q)
  OBVIOUS
<1>3. After(q, i - 1, h) = IF q[i].device = h THEN After(q, i, h) \cup {i} ELSE After(q, i, h)
  BY <1>1, <1>2 DEF After
<1>4. i \notin After(q, i, h)
  BY <1>2 DEF After
<1>5. IsFiniteSet(After(q, i, h))
  <2>1. IsFiniteSet((i + 1)..Len(q))
    BY FS_Interval
  <2>2. After(q, i, h) \subseteq (i + 1)..Len(q)
    BY DEF After
  <2> QED BY <2>1, <2>2, FS_Subset
<1>6. Cardinality(After(q, i, h)) \in Nat
  BY <1>5, FS_CardinalityType
<1>7. Cardinality(After(q, i, h) \cup {i}) = Cardinality(After(q, i, h)) + 1
  BY <1>4, <1>5, FS_AddElement
<1> QED BY <1>3, <1>6, <1>7

LEMMA DestroyEventsSound ==
  ASSUME NEW c, NEW grip, NEW keep, Sound(c, grip, keep), Listed(c) = {},
         \A h \in Handles : grip[h] = 0
  PROVE  LET u == DestroyEvents(c, Told(c))
         IN  Sound(u, grip, keep) /\ Live(u) = {} /\ Told(u) = <<>>
<1> DEFINE q == Told(c)
           Rest(i) == [h \in Handles |-> Cardinality(After(q, i, h))]
           u == DestroyEvents(c, q)
<1>1. /\ RingInv(c.ring) /\ Counts(c, Owed(c, grip), keep) /\ grip \in [Handles -> Nat]
      /\ \A i \in 1..Len(q) : q[i].device \in Handles
  BY DEF Sound
<1>2. q \in Seq(Events) /\ Len(q) \in Nat
  BY <1>1, UnreadAt DEF Told
<1>3. PICK f : /\ f[0] = c
               /\ \A i \in 1..Len(q) : f[i] = DeviceUnref(f[i - 1], q[i].device)
               /\ u = [f[Len(q)] EXCEPT !.ring = InitialRing]
  <2> HIDE DEF u
  <2>1. \E f : /\ f[0] = c
               /\ \A i \in 1..Len(q) : f[i] = DeviceUnref(f[i - 1], q[i].device)
               /\ DestroyEvents(c, q) = [f[Len(q)] EXCEPT !.ring = InitialRing]
    BY <1>2, DestroyUnfolds
  <2> QED BY <2>1 DEF u
<1>4. Rest(0) = Owed(c, grip)
  <2>1. DOMAIN q = 1..Len(q)
    BY <1>2
  <2>2. \A h : After(q, 0, h) = Queued(q, h)
    BY <2>1 DEF After, Queued
  <2>3. \A h \in Handles : Cardinality(Queued(q, h)) + grip[h] = Cardinality(Queued(q, h))
    <3>1. \A h \in Handles : Cardinality(Queued(q, h)) \in Nat
      BY <1>2, QueuedFinite
    <3> QED BY <3>1
  <2> HIDE DEF q
  <2> QED BY <2>2, <2>3 DEF Owed, q
<1> HIDE DEF u, q
<1> DEFINE P(i) == i \in 0..Len(q) => Counts(f[i], Rest(i), keep) /\ Listed(f[i]) = {}
           T == {i \in Nat : P(i)}
<1>5. 0 \in T
  <2> HIDE DEF Rest
  <2> QED BY <1>1, <1>3, <1>4
<1>6. ASSUME NEW i \in Nat, i \in T PROVE i + 1 \in T
  <2> SUFFICES ASSUME i + 1 \in 0..Len(q)
               PROVE  Counts(f[i + 1], Rest(i + 1), keep) /\ Listed(f[i + 1]) = {}
    BY DEF P
  <2> DEFINE a == f[i]
             b == f[i + 1]
             h == q[i + 1].device
             less == [Rest(i) EXCEPT ![h] = Rest(i)[h] - 1]
  <2>1. Counts(a, Rest(i), keep) /\ Listed(a) = {}
    BY <1>2, <1>6
  <2>2. i + 1 \in 1..Len(q) /\ (i + 1) - 1 = i
    BY <1>2
  <2>3. b = DeviceUnref(a, h) /\ h \in Handles
    BY <1>1, <1>3, <2>2 DEF q
  <2>4. \A g : /\ Cardinality(After(q, i + 1, g)) \in Nat
               /\ Cardinality(After(q, i, g)) =
                    Cardinality(After(q, i + 1, g)) + (IF h = g THEN 1 ELSE 0)
    BY <1>2, <2>2, AfterOne
  <2> HIDE DEF a, b, h
  <2>5. Rest(i)[h] > 0 /\ Rest(i)[h] - 1 = Cardinality(After(q, i + 1, h))
    BY <2>3, <2>4
  <2>6. less = Rest(i + 1)
    <3>1. \A g \in Handles : (IF g = h THEN Rest(i)[h] - 1 ELSE Rest(i)[g]) = Rest(i + 1)[g]
      BY <2>4, <2>5
    <3>2. less = [g \in Handles |-> IF g = h THEN Rest(i)[h] - 1 ELSE Rest(i)[g]]
      BY Zenon
    <3> QED BY <3>1, <3>2
  <2>7. h \in Live(a)
    <3> HIDE DEF Rest
    <3> QED BY <2>1, <2>3, <2>5, DeadFits
  <2>8. Counts(b, less, keep) /\ Drops(a, h, b)
    <3> HIDE DEF Rest
    <3> QED BY <2>1, <2>3, <2>5, <2>7, DeviceUnrefCounts
  <2>9. Listed(b) = {}
    BY <2>1, <2>8 DEF Drops
  <2> HIDE DEF Rest, less
  <2> QED BY <2>6, <2>8, <2>9 DEF b
<1> DEFINE z == f[Len(q)]
<1>7. Counts(z, Rest(Len(q)), keep) /\ Listed(z) = {}
  <2> HIDE DEF P, Rest
  <2>1. Nat \subseteq T
    <3> HIDE DEF T
    <3> QED BY <1>5, <1>6, SetInduction
  <2>2. Len(q) \in 0..Len(q)
    BY <1>2
  <2> QED BY <1>2, <2>1, <2>2 DEF P
<1>8. \A h \in Handles : Rest(Len(q))[h] = 0
  <2>1. \A h : After(q, Len(q), h) = {}
    BY <1>2 DEF After
  <2> QED BY <2>1, FS_EmptySet
<1> HIDE DEF z, Rest, T, P
<1>9. Live(z) = {}
  <2> SUFFICES ASSUME NEW h \in Live(z) PROVE FALSE
    OBVIOUS
  <2>1. h \notin Listed(z) /\ h \in Handles
    BY <1>7, Sets
  <2>2. z.device[h].removed
    BY <2>1 DEF Listed
  <2>3. z.device[h].refs = Rest(Len(q))[h] + 0 /\ z.device[h].refs > 0
    BY <1>7, <2>2, LiveFits
  <2> QED BY <1>8, <2>1, <2>3
<1>10. RingInv(InitialRing) /\ InitialRing \in Rings /\ Unread(InitialRing) = <<>>
  BY InitialRingInv DEF RingInv
<1>11. z \in Contexts /\ u = [z EXCEPT !.ring = InitialRing]
  BY <1>3, <1>7 DEF Counts, z
<1>12. /\ u \in Contexts /\ u.ring = InitialRing /\ u.device = z.device /\ u.seat = z.seat
       /\ u.group = z.group /\ u.shown = z.shown
  BY <1>10, <1>11 DEF Contexts
<1>13. Told(u) = <<>> /\ Len(Told(u)) = 0
  BY <1>10, <1>12 DEF Told
<1>14. \A h \in Handles : Owed(u, grip)[h] = 0
  <2>1. \A h : Queued(Told(u), h) = {}
    <3>1. DOMAIN Told(u) = {}
      BY <1>13
    <3> QED BY <3>1 DEF Queued
  <2> QED BY <2>1, FS_EmptySet DEF Owed
<1>15. Owed(u, grip) \in [Handles -> Nat]
  BY <1>1, <1>10, <1>12, OwedType
<1>16. /\ Live(u) = Live(z) /\ \A s : On(u, s) = On(z, s) /\ Down(u, s) = Down(z, s)
  BY <1>12 DEF Live, On, Down
<1>17. Counts(u, Owed(u, grip), keep)
  <2>1. \A h \in Handles : Fits(u.device[h], u.shown[h], Owed(u, grip)[h])
    BY <1>7, <1>8, <1>12, <1>14 DEF Counts
  <2>2. \A s \in Seats : SeatFits(u, s, keep[s])
    BY <1>7, <1>12, <1>16 DEF Counts, SeatFits
  <2>3. u.group = Cardinality(Live(u)) /\ keep \in [Seats -> Nat]
    BY <1>7, <1>12, <1>16 DEF Counts
  <2> QED BY <1>12, <1>15, <2>1, <2>2, <2>3 DEF Counts
<1>18. \A i \in 1..Len(Told(u)) : Told(u)[i].device \in Handles
  BY <1>13
<1>19. Sound(u, grip, keep)
  BY <1>1, <1>10, <1>12, <1>17, <1>18 DEF Sound
<1> QED BY <1>9, <1>13, <1>16, <1>19 DEF u, q

-----------------------------------------------------------------------------
(* The invariant.                                                              *)

\* What the client holds.
Grip == [h \in Handles |-> (IF h = client.event THEN 1 ELSE 0) +
                           (IF h \in client.devices THEN 1 ELSE 0)]
SeatGrip == [s \in Seats |-> IF s \in client.seats THEN 1 ELSE 0]

ClientInv ==
  /\ client \in [event : Handles \cup {None}, devices : SUBSET Handles, seats : SUBSET Seats]
  /\ IsFiniteSet(client.seats)

ObjectsInv == Sound(Objects, Grip, SeatGrip)

\* udev announces a node after the kernel has it, and its end after it is gone.
NodeRecords == [state : {"absent", "present", "gone"}, said : {"nothing", "add", "remove"},
                key : BOOLEAN]
Arrived == {n \in Nodes : node[n].state # "absent"}

KernelInv ==
  /\ scene \in Scenes
  /\ node \in [Nodes -> NodeRecords]
  /\ \A n \in Nodes : /\ node[n].state = "absent" => node[n].said = "nothing"
                      /\ node[n].said = "remove" => node[n].state = "gone"
  /\ IsFiniteSet(Arrived) /\ Cardinality(Arrived) <= scene.nodes

\* A message of the monitor that the context has not read.
Messages == [action : {"add", "remove"}, node : Nodes]
Waits(said, n) == [action |-> said, node |-> n] \in ToSet(monitor.messages)

MonitorInv ==
  /\ monitor \in [on : BOOLEAN, messages : Seq(Messages)]
  /\ \A n \in Nodes : Waits("remove", n) => node[n].said = "remove"
  /\ monitor.on <=> (backend = "udev" /\ phase = "running")

PathsInv ==
  /\ paths \in Seq(Nodes)
  /\ \A i, j \in 1..Len(paths) : paths[i] = paths[j] => i = j
  /\ \A i \in 1..Len(paths) : node[paths[i]].state # "absent"

PhaseInv ==
  /\ phase \in {"suspended", "running", "closed"}
  /\ phase # "running" => Listed(Objects) = {}
  /\ phase = "closed" => Live(Objects) = {}

BatchInv ==
  /\ batch \subseteq Live(Objects) \cup {Monitor}
  /\ Monitor \in batch => monitor.on /\ monitor.messages # <<>>

\* No node has two devices, and with paths none that the client did not add.
Unique == \A g, h \in Listed(Objects) : device[g].node = device[h].node => g = h
OnPaths == backend = "path" => \A h \in Listed(Objects) : device[h].node \in ToSet(paths)

\* A device moves to another seat only after its message was read.
AtHome ==
  backend = "udev" => \A h \in Listed(Objects) :
    node[device[h].node].said = "nothing" \/ Waits("add", device[h].node) =>
      device[h].seat = DefaultSeat

\* What udev has said is done or still waits to be read.
Heard ==
  monitor.on => \A n \in Nodes :
    /\ node[n].said = "add" /\ node[n].state = "present" /\ ~Waits("add", n) =>
         \E h \in Listed(Objects) : device[h].node = n
    /\ node[n].said = "remove" /\ ~Waits("remove", n) =>
         \A h \in Listed(Objects) : device[h].node # n

PlacesInv == Unique /\ OnPaths /\ AtHome /\ Heard

ContextInv ==
  /\ ClientInv /\ ObjectsInv /\ KernelInv /\ MonitorInv /\ PathsInv /\ PhaseInv /\ BatchInv
  /\ PlacesInv

QueueStep == [Queue!Next]_(Unread(ring))

-----------------------------------------------------------------------------
(* What the steps have in common.                                              *)

LEMMA SetIs ==
  ASSUME NEW c \in Contexts, Set(c)
  PROVE  /\ Objects' = c /\ ring' = c.ring /\ device' = c.device /\ seat' = c.seat
         /\ group' = c.group /\ shown' = c.shown
<1>1. /\ ring' = c.ring /\ device' = c.device /\ seat' = c.seat
      /\ group' = c.group /\ shown' = c.shown
  BY DEF Set
<1>2. c = [ring |-> c.ring, device |-> c.device, seat |-> c.seat, group |-> c.group,
           shown |-> c.shown]
  BY DEF Contexts
<1> QED BY <1>1, <1>2 DEF Objects

LEMMA ObjectsAre ==
  /\ Objects.ring = ring /\ Objects.device = device /\ Objects.seat = seat
  /\ Objects.group = group /\ Objects.shown = shown
  BY DEF Objects

\* The step posts events or none.
LEMMA QueueGrows ==
  ASSUME RingInv(Objects.ring), NEW c, RingInv(c.ring), ring' = c.ring, Longer(Objects, c)
  PROVE  QueueStep
<1>1. Told(Objects) = Unread(ring) /\ Told(c) = Unread(ring)'
  BY ObjectsAre DEF Told
<1>2. Told(c) \in Seq(Events)
  BY UnreadAt DEF Told
<1>3. Queue!Post
  BY <1>1, <1>2 DEF Queue!Post, Longer
<1> QED BY <1>3 DEF QueueStep, Queue!Next

LEMMA QueueSame ==
  ASSUME UNCHANGED ring
  PROVE  QueueStep
  BY DEF QueueStep, Unread

\* A step that leaves the objects and the client alone.
LEMMA ObjectsSame ==
  ASSUME UNCHANGED <<client, objects>>
  PROVE  /\ Objects' = Objects /\ Grip' = Grip /\ SeatGrip' = SeatGrip
         /\ device' = device /\ ring' = ring
         /\ ObjectsInv => ObjectsInv'
         /\ ClientInv => ClientInv'
<1>1. Objects' = Objects /\ Grip' = Grip /\ SeatGrip' = SeatGrip /\ device' = device /\ ring' = ring
  BY DEF Objects, Grip, SeatGrip, objects
<1>2. ObjectsInv => ObjectsInv'
  BY <1>1 DEF ObjectsInv
<1>3. ClientInv => ClientInv'
  BY DEF ClientInv
<1> QED BY <1>1, <1>2, <1>3

LEMMA KernelSame ==
  ASSUME UNCHANGED world, KernelInv
  PROVE  KernelInv'
<1>1. Arrived' = Arrived
  BY DEF Arrived, world
<1> QED BY <1>1 DEF KernelInv, world

LEMMA MonitorSame ==
  ASSUME UNCHANGED <<world, monitor, phase>>, MonitorInv
  PROVE  MonitorInv' /\ \A said, n : Waits(said, n)' <=> Waits(said, n)
  BY DEF MonitorInv, Waits, world, backend

LEMMA PathsSame ==
  ASSUME UNCHANGED <<world, paths>>, PathsInv
  PROVE  PathsInv'
  BY DEF PathsInv, world

\* Devices may leave the list whose node is not there any more.
LEMMA PlacesKept ==
  ASSUME PlacesInv, UNCHANGED <<world, phase, monitor, paths>>,
         NEW c, Objects' = c, device' = c.device, Listed(c) \subseteq Listed(Objects),
         \A g \in Listed(Objects) : /\ c.device[g].node = device[g].node
                                    /\ c.device[g].seat = device[g].seat,
         \A g \in Listed(Objects) \ Listed(c) : node[device[g].node].state # "present"
  PROVE  PlacesInv'
<1>1. Unique'
  BY DEF PlacesInv, Unique
<1>2. OnPaths'
  BY DEF PlacesInv, OnPaths, world, backend
<1>3. AtHome'
  BY DEF PlacesInv, AtHome, Waits, world, backend
<1>4. Heard'
  <2>1. node' = node /\ monitor' = monitor /\ \A said, n : Waits(said, n)' <=> Waits(said, n)
    BY DEF world, Waits
  <2>2. Heard
    BY DEF PlacesInv
  <2> SUFFICES ASSUME monitor.on, NEW n \in Nodes
               PROVE  /\ node[n].said = "add" /\ node[n].state = "present" /\ ~Waits("add", n) =>
                           \E h \in Listed(c) : c.device[h].node = n
                      /\ node[n].said = "remove" /\ ~Waits("remove", n) =>
                           \A h \in Listed(c) : c.device[h].node # n
    BY <2>1 DEF Heard
  <2>3. ASSUME node[n].said = "add", node[n].state = "present", ~Waits("add", n)
        PROVE  \E h \in Listed(c) : c.device[h].node = n
    <3>1. PICK h \in Listed(Objects) : device[h].node = n
      BY <2>2, <2>3 DEF Heard
    <3> QED BY <2>3, <3>1
  <2>4. ASSUME node[n].said = "remove", ~Waits("remove", n)
        PROVE  \A h \in Listed(c) : c.device[h].node # n
    BY <2>2, <2>4 DEF Heard
  <2> QED BY <2>3, <2>4
<1> QED BY <1>1, <1>2, <1>3, <1>4 DEF PlacesInv

\* The objects are what a sound operation makes of them.
LEMMA ObjectsSet ==
  ASSUME NEW c, NEW grip, NEW keep, Sound(c, grip, keep), Set(c), Grip' = grip, SeatGrip' = keep
  PROVE  /\ ObjectsInv' /\ Objects' = c /\ device' = c.device /\ ring' = c.ring
<1>1. c \in Contexts
  BY SoundRing
<1> QED BY <1>1, SetIs DEF ObjectsInv

LEMMA ClientSame ==
  ASSUME UNCHANGED client, ClientInv
  PROVE  ClientInv' /\ Grip' = Grip /\ SeatGrip' = SeatGrip
  BY DEF ClientInv, Grip, SeatGrip

-----------------------------------------------------------------------------
(* The steps of the world.                                                     *)

LEMMA LiveAt ==
  ASSUME ObjectsInv
  PROVE  \A h \in Live(Objects) : h \in Handles /\ device[h].node \in Nodes /\ device[h].seat \in Seats
  BY ObjectsAre, SoundRing, LiveFits DEF ObjectsInv

\* The kernel's devices change and nothing else does.
LEMMA WorldParts ==
  ASSUME ContextInv, UNCHANGED <<scene, phase, monitor, paths, batch, client, objects>>
  PROVE  /\ ClientInv' /\ ObjectsInv' /\ PhaseInv' /\ BatchInv' /\ QueueStep
         /\ Objects' = Objects /\ device' = device /\ backend' = backend
         /\ \A said, n : Waits(said, n)' <=> Waits(said, n)
<1>1. ClientInv' /\ ObjectsInv' /\ Objects' = Objects /\ device' = device /\ ring' = ring
  BY ObjectsSame DEF ContextInv
<1>2. PhaseInv' /\ BatchInv'
  BY <1>1 DEF ContextInv, PhaseInv, BatchInv
<1>3. QueueStep
  BY <1>1, QueueSame
<1>4. backend' = backend /\ \A said, n : Waits(said, n)' <=> Waits(said, n)
  BY DEF backend, Waits
<1> QED BY <1>1, <1>2, <1>3, <1>4

LEMMA PlugKeeps ==
  ASSUME ContextInv, NEW n \in Nodes, Plug(n)
  PROVE  ContextInv' /\ QueueStep
<1> USE DEF ContextInv
<1>1. /\ ClientInv' /\ ObjectsInv' /\ PhaseInv' /\ BatchInv' /\ QueueStep
      /\ Objects' = Objects /\ device' = device /\ backend' = backend
      /\ \A said, m : Waits(said, m)' <=> Waits(said, m)
  BY WorldParts DEF Plug
<1> USE <1>1
<1>2. /\ node[n].state = "absent" /\ node[n].said = "nothing" /\ node \in [Nodes -> NodeRecords]
      /\ node' = [node EXCEPT ![n].state = "present"]
      /\ UNCHANGED <<scene, phase, monitor, paths>>
  BY DEF Plug, KernelInv
<1>3. /\ node' \in [Nodes -> NodeRecords]
      /\ \A m \in Nodes \ {n} : node'[m] = node[m]
      /\ node'[n].state = "present" /\ node'[n].said = "nothing"
  BY <1>2 DEF NodeRecords
<1>4. KernelInv'
  <2>1. Arrived' = Arrived \cup {n} /\ n \notin Arrived
    BY <1>2, <1>3 DEF Arrived
  <2>2. IsFiniteSet(Arrived) /\ scene \in Scenes /\ Cardinality(Arrived) < scene.nodes
    BY DEF KernelInv, Plug, Arrived
  <2>3. IsFiniteSet(Arrived \cup {n}) /\ Cardinality(Arrived \cup {n}) = Cardinality(Arrived) + 1
    BY <2>1, <2>2, FS_AddElement
  <2>4. Cardinality(Arrived) \in Nat /\ scene.nodes \in Nat
    BY <2>2, ContextAssumption, FS_CardinalityType
  <2>5. IsFiniteSet(Arrived)' /\ (Cardinality(Arrived) <= scene.nodes)'
    BY <1>2, <2>1, <2>2, <2>3, <2>4
  <2> QED BY <1>2, <1>3, <2>2, <2>5 DEF KernelInv
<1>5. MonitorInv'
  BY <1>2, <1>3 DEF MonitorInv
<1>6. PathsInv'
  BY <1>2, <1>3 DEF PathsInv
<1>7. Unique' /\ OnPaths'
  BY <1>2 DEF PlacesInv, Unique, OnPaths
<1>8. AtHome'
  BY <1>2, <1>3 DEF PlacesInv, AtHome
<1>9. Heard'
  BY <1>2, <1>3 DEF PlacesInv, Heard
<1> QED BY <1>4, <1>5, <1>6, <1>7, <1>8, <1>9 DEF PlacesInv

LEMMA UnplugKeeps ==
  ASSUME ContextInv, NEW n \in Nodes, Unplug(n)
  PROVE  ContextInv' /\ QueueStep
<1> USE DEF ContextInv
<1>1. /\ ClientInv' /\ ObjectsInv' /\ PhaseInv' /\ BatchInv' /\ QueueStep
      /\ Objects' = Objects /\ device' = device /\ backend' = backend
      /\ \A said, m : Waits(said, m)' <=> Waits(said, m)
  BY WorldParts DEF Unplug
<1> USE <1>1
<1>2. /\ node[n].state = "present" /\ node \in [Nodes -> NodeRecords]
      /\ node' = [node EXCEPT ![n].state = "gone", ![n].key = FALSE]
      /\ UNCHANGED <<scene, phase, monitor, paths>>
  BY DEF Unplug, KernelInv
<1>3. /\ node' \in [Nodes -> NodeRecords]
      /\ \A m \in Nodes \ {n} : node'[m] = node[m]
      /\ node'[n].state = "gone" /\ node'[n].said = node[n].said
  BY <1>2 DEF NodeRecords
<1>4. KernelInv'
  <2>1. Arrived' = Arrived
    BY <1>2, <1>3 DEF Arrived
  <2> QED BY <1>2, <1>3, <2>1 DEF KernelInv
<1>5. MonitorInv'
  BY <1>2, <1>3 DEF MonitorInv
<1>6. PathsInv'
  BY <1>2, <1>3 DEF PathsInv
<1>7. Unique' /\ OnPaths'
  BY <1>2 DEF PlacesInv, Unique, OnPaths
<1>8. AtHome'
  <2>1. \A h \in Listed(Objects) : device[h].node \in Nodes
    BY LiveAt, Sets
  <2>2. \A m \in Nodes : node'[m].said = node[m].said
    BY <1>3
  <2> QED BY <2>1, <2>2 DEF PlacesInv, AtHome
<1>9. Heard'
  BY <1>2, <1>3 DEF PlacesInv, Heard
<1> QED BY <1>4, <1>5, <1>6, <1>7, <1>8, <1>9 DEF PlacesInv

LEMMA ToggleKeyKeeps ==
  ASSUME ContextInv, NEW n \in Nodes, ToggleKey(n)
  PROVE  ContextInv' /\ QueueStep
<1> USE DEF ContextInv
<1>1. /\ ClientInv' /\ ObjectsInv' /\ PhaseInv' /\ BatchInv' /\ QueueStep
      /\ Objects' = Objects /\ device' = device /\ backend' = backend
      /\ \A said, m : Waits(said, m)' <=> Waits(said, m)
  BY WorldParts DEF ToggleKey
<1> USE <1>1
<1>2. /\ node \in [Nodes -> NodeRecords]
      /\ node' = [node EXCEPT ![n].key = ~@]
      /\ UNCHANGED <<scene, phase, monitor, paths>>
  BY DEF ToggleKey, KernelInv
<1>3. /\ node' \in [Nodes -> NodeRecords]
      /\ \A m \in Nodes : node'[m].state = node[m].state /\ node'[m].said = node[m].said
  BY <1>2 DEF NodeRecords
<1>4. KernelInv'
  <2>1. Arrived' = Arrived
    BY <1>2, <1>3 DEF Arrived
  <2> QED BY <1>2, <1>3, <2>1 DEF KernelInv
<1>5. MonitorInv'
  BY <1>2, <1>3 DEF MonitorInv
<1>6. PathsInv'
  BY <1>2, <1>3 DEF PathsInv
<1>7. Unique' /\ OnPaths'
  BY <1>2 DEF PlacesInv, Unique, OnPaths
<1>8. AtHome'
  <2>1. \A h \in Listed(Objects) : device[h].node \in Nodes
    BY LiveAt, Sets
  <2> QED BY <1>2, <1>3, <2>1 DEF PlacesInv, AtHome
<1>9. Heard'
  BY <1>2, <1>3 DEF PlacesInv, Heard
<1> QED BY <1>4, <1>5, <1>6, <1>7, <1>8, <1>9 DEF PlacesInv

\* Another message waits.
LEMMA WaitsMore ==
  ASSUME monitor \in [on : BOOLEAN, messages : Seq(Messages)], NEW said \in {"add", "remove"},
         NEW n \in Nodes,
         monitor' = [monitor EXCEPT !.messages = Append(@, [action |-> said, node |-> n])]
  PROVE  /\ monitor' \in [on : BOOLEAN, messages : Seq(Messages)]
         /\ monitor'.on = monitor.on /\ monitor'.messages # <<>>
         /\ \A other, m : Waits(other, m)' <=> (Waits(other, m) \/ (other = said /\ m = n))
<1> DEFINE e == [action |-> said, node |-> n]
           q == monitor.messages
           r == Append(q, e)
<1>1. e \in Messages /\ q \in Seq(Messages)
  BY DEF Messages
<1>2. \A other, m : [action |-> other, node |-> m] = e <=> (other = said /\ m = n)
  OBVIOUS
<1> HIDE DEF e, q
<1>3. /\ r \in Seq(Messages) /\ Len(r) = Len(q) + 1 /\ Len(q) \in Nat /\ r[Len(q) + 1] = e
      /\ \A i \in 1..Len(q) : r[i] = q[i]
  BY <1>1
<1>4. r # <<>>
  BY <1>3
<1>5. ToSet(r) = ToSet(q) \cup {e}
  <2>1. DOMAIN r = 1..(Len(q) + 1) /\ DOMAIN q = 1..Len(q)
    BY <1>1, <1>3
  <2> HIDE DEF r
  <2>2. \A i \in 1..(Len(q) + 1) : i \in 1..Len(q) \/ i = Len(q) + 1
    BY <1>3
  <2>3. Len(q) + 1 \in 1..(Len(q) + 1) /\ \A i \in 1..Len(q) : i \in 1..(Len(q) + 1)
    BY <1>3
  <2> QED BY <1>3, <2>1, <2>2, <2>3 DEF ToSet
<1>6. monitor' = [monitor EXCEPT !.messages = r]
  BY DEF r, q, e
<1> HIDE DEF r
<1>7. /\ monitor'.messages = r /\ monitor'.on = monitor.on
      /\ monitor' \in [on : BOOLEAN, messages : Seq(Messages)]
  BY <1>3, <1>6
<1>8. \A other, m : Waits(other, m)' <=> (Waits(other, m) \/ (other = said /\ m = n))
  BY <1>2, <1>5, <1>7 DEF Waits, q
<1> QED BY <1>4, <1>7, <1>8

LEMMA AnnounceKeeps ==
  ASSUME ContextInv, NEW n \in Nodes, Announce(n)
  PROVE  ContextInv' /\ QueueStep
<1> USE DEF ContextInv
<1>0. PICK said : said = IF node[n].said = "nothing" THEN "add" ELSE "remove"
  OBVIOUS
<1>1. /\ ClientInv' /\ ObjectsInv' /\ Objects' = Objects /\ device' = device /\ ring' = ring
      /\ backend' = backend
  BY ObjectsSame DEF Announce, backend
<1>2. QueueStep
  BY <1>1, QueueSame
<1>3. /\ backend = "udev" /\ node \in [Nodes -> NodeRecords]
      /\ \/ node[n].said = "nothing" /\ node[n].state # "absent"
         \/ node[n].said = "add" /\ node[n].state = "gone"
      /\ node' = [node EXCEPT ![n].said = said]
      /\ monitor' = [monitor EXCEPT !.messages =
                       IF monitor.on THEN Append(@, [action |-> said, node |-> n]) ELSE @]
      /\ UNCHANGED <<scene, phase, paths, batch>>
  BY <1>0 DEF Announce, KernelInv
<1>4. said \in {"add", "remove"} /\ (said = "remove" => node[n].said = "add" /\ node[n].state = "gone")
      /\ (said = "add" => node[n].said = "nothing" /\ node[n].state # "absent")
  BY <1>0, <1>3
<1>5. /\ node' \in [Nodes -> NodeRecords]
      /\ \A m \in Nodes \ {n} : node'[m] = node[m]
      /\ node'[n].state = node[n].state /\ node'[n].said = said
  BY <1>3, <1>4 DEF NodeRecords
<1>6. monitor \in [on : BOOLEAN, messages : Seq(Messages)]
  BY DEF MonitorInv
<1>7. /\ monitor' \in [on : BOOLEAN, messages : Seq(Messages)]
      /\ monitor'.on = monitor.on /\ (monitor.messages # <<>> => monitor'.messages # <<>>)
      /\ \A other, m : Waits(other, m)' <=>
            (Waits(other, m) \/ (monitor.on /\ other = said /\ m = n))
  <2>1. CASE monitor.on
    <3>1. monitor' = [monitor EXCEPT !.messages = Append(@, [action |-> said, node |-> n])]
      BY <1>3, <2>1
    <3> QED BY <1>4, <1>6, <2>1, <3>1, WaitsMore, ZenonT(60)
  <2>2. CASE ~monitor.on
    <3>1. monitor' = monitor
      BY <1>3, <1>6, <2>2
    <3>2. \A other, m : Waits(other, m)' <=> Waits(other, m)
      BY <3>1 DEF Waits
    <3> QED BY <1>6, <2>2, <3>1, <3>2
  <2> QED BY <2>1, <2>2
<1>8. KernelInv'
  <2>1. Arrived' = Arrived
    BY <1>3, <1>5 DEF Arrived
  <2> QED BY <1>3, <1>4, <1>5, <2>1 DEF KernelInv
<1>9. MonitorInv'
  <2>1. \A m \in Nodes : Waits("remove", m)' => node'[m].said = "remove"
    <3> SUFFICES ASSUME NEW m \in Nodes, Waits("remove", m)' PROVE node'[m].said = "remove"
      OBVIOUS
    <3>1. CASE m = n /\ monitor.on /\ said = "remove"
      BY <1>5, <3>1
    <3>2. CASE Waits("remove", m)
      <4>1. node[m].said = "remove"
        BY <3>2 DEF MonitorInv
      <4>2. m # n
        BY <1>3, <4>1
      <4> QED BY <1>5, <4>1, <4>2
    <3> QED BY <1>7, <3>1, <3>2
  <2>2. monitor'.on <=> (backend' = "udev" /\ phase' = "running")
    BY <1>1, <1>3, <1>7 DEF MonitorInv
  <2> QED BY <1>7, <2>1, <2>2 DEF MonitorInv
<1>10. PathsInv'
  BY <1>3, <1>5 DEF PathsInv
<1>11. PhaseInv'
  BY <1>1, <1>3 DEF PhaseInv
<1>12. BatchInv'
  BY <1>1, <1>3, <1>7 DEF BatchInv
<1>13. Unique' /\ OnPaths'
  BY <1>1, <1>3 DEF PlacesInv, Unique, OnPaths
<1>14. \A h \in Listed(Objects) : device[h].node \in Nodes /\ monitor.on
  <2>1. ASSUME NEW h \in Listed(Objects) PROVE monitor.on
    BY <1>3 DEF PhaseInv, MonitorInv
  <2> QED BY <2>1, LiveAt, Sets
<1>15. AtHome'
  <2> SUFFICES ASSUME NEW h \in Listed(Objects),
                      node'[device[h].node].said = "nothing" \/ Waits("add", device[h].node)'
               PROVE  device[h].seat = DefaultSeat
    BY <1>1 DEF AtHome
  <2>1. CASE node'[device[h].node].said = "nothing"
    BY <1>3, <1>4, <1>5, <1>14, <2>1 DEF PlacesInv, AtHome
  <2>2. CASE Waits("add", device[h].node)'
    <3>1. PICK m : m = device[h].node
      OBVIOUS
    <3>2. Waits("add", m)'
      BY <1>1, <2>2, <3>1
    <3>3. Waits("add", m) \/ (said = "add" /\ m = n)
      BY <1>7, <3>2
    <3> QED BY <1>3, <1>4, <3>1, <3>3 DEF PlacesInv, AtHome
  <2> QED BY <2>1, <2>2
<1>16. Heard'
  <2> SUFFICES ASSUME monitor.on, NEW m \in Nodes
               PROVE  /\ node'[m].said = "add" /\ node'[m].state = "present" /\ ~Waits("add", m)' =>
                           \E h \in Listed(Objects) : device[h].node = m
                      /\ node'[m].said = "remove" /\ ~Waits("remove", m)' =>
                           \A h \in Listed(Objects) : device[h].node # m
    BY <1>1, <1>7 DEF Heard
  <2>1. CASE m = n
    <3>1. Waits(said, n)'
      BY <1>7
    <3> QED BY <1>5, <2>1, <3>1
  <2>2. CASE m # n
    <3>1. node'[m] = node[m] /\ \A other : Waits(other, m)' <=> Waits(other, m)
      BY <1>5, <1>7, <2>2
    <3> QED BY <3>1 DEF PlacesInv, Heard
  <2> QED BY <2>1, <2>2
<1> QED BY <1>1, <1>2, <1>8, <1>9, <1>10, <1>11, <1>12, <1>13, <1>15, <1>16 DEF PlacesInv

LEMMA DispatchKeeps ==
  ASSUME ContextInv, Dispatch
  PROVE  ContextInv' /\ QueueStep
<1> USE DEF ContextInv
<1>1. UNCHANGED <<world, phase, monitor, paths, client, objects>>
  BY DEF Dispatch
<1>2. /\ ClientInv' /\ ObjectsInv' /\ Objects' = Objects /\ device' = device /\ ring' = ring
  BY <1>1, ObjectsSame
<1>3. KernelInv' /\ MonitorInv' /\ PathsInv'
  BY <1>1, KernelSame, MonitorSame, PathsSame
<1>4. PhaseInv'
  BY <1>1, <1>2 DEF PhaseInv
<1>5. BatchInv'
  <2>1. \A h \in Handles : device[h].open => h \in Live(Objects)
    <3> SUFFICES ASSUME NEW h \in Handles, device[h].open, h \notin Live(Objects) PROVE FALSE
      OBVIOUS
    <3>1. device[h] = NoDevice
      BY ObjectsAre, SoundRing, DeadFits DEF ObjectsInv
    <3> QED BY <3>1 DEF NoDevice
  <2>2. \A h \in Handles : h # Monitor
    BY ContextAssumption DEF Monitor, None
  <2>3. batch' = {h \in Handles : Readable(h)} \cup
                    (IF monitor.on /\ monitor.messages # <<>> THEN {Monitor} ELSE {})
    BY DEF Dispatch
  <2>4. batch' \subseteq Live(Objects) \cup {Monitor}
    BY <2>1, <2>3 DEF Readable
  <2>5. Monitor \in batch' => monitor.on /\ monitor.messages # <<>>
    BY <2>2, <2>3
  <2> QED BY <1>1, <1>2, <2>4, <2>5 DEF BatchInv
<1>6. PlacesInv'
  <2>1. Objects.device = device
    BY ObjectsAre
  <2> QED BY <1>1, <1>2, <2>1, PlacesKept
<1> QED BY <1>2, <1>3, <1>4, <1>5, <1>6, QueueSame

-----------------------------------------------------------------------------
(* Steps after which the list is what it was, or shorter by devices that are   *)
(* gone.                                                                       *)

\* No device comes, and those that leave the list are gone.
Shrinks(c) ==
  /\ Live(c) \subseteq Live(Objects) /\ Listed(c) \subseteq Listed(Objects)
  /\ \A g \in Listed(Objects) : /\ c.device[g].node = device[g].node
                                /\ c.device[g].seat = device[g].seat
  /\ \A g \in Listed(Objects) \ Listed(c) : node[device[g].node].state # "present"

LEMMA ShrinksKeeps ==
  ASSUME ContextInv, UNCHANGED <<world, phase, monitor, paths>>, ClientInv',
         NEW c, NEW grip, NEW keep, Sound(c, grip, keep), Set(c), Grip' = grip, SeatGrip' = keep,
         Shrinks(c), batch' \subseteq batch, batch' \subseteq Live(c) \cup {Monitor}
  PROVE  ContextInv'
<1> USE DEF ContextInv
<1>1. ObjectsInv' /\ Objects' = c /\ device' = c.device
  BY ObjectsSet
<1>2. KernelInv' /\ MonitorInv' /\ PathsInv'
  BY KernelSame, MonitorSame, PathsSame
<1>3. PhaseInv'
  BY <1>1 DEF PhaseInv, Shrinks
<1>4. BatchInv'
  BY <1>1 DEF BatchInv
<1>5. PlacesInv'
  BY <1>1, PlacesKept DEF Shrinks
<1> QED BY <1>1, <1>2, <1>3, <1>4, <1>5

\* Nothing happens to the list.
LEMMA StaysShrinks ==
  ASSUME NEW c, Stays(Objects, c), Listed(c) = Listed(Objects)
  PROVE  Shrinks(c) /\ Live(c) = Live(Objects)
<1>1. \A g \in Listed(Objects) : /\ c.device[g].node = device[g].node
                                 /\ c.device[g].seat = device[g].seat
  BY ObjectsAre, Sets DEF Stays
<1> QED BY <1>1 DEF Shrinks, Stays

LEMMA HandleDeviceKeeps ==
  ASSUME ContextInv, NEW h \in Handles, HandleDevice(h)
  PROVE  ContextInv' /\ QueueStep
<1> USE DEF ContextInv
<1>1. PICK c : /\ c = IF device[h].open THEN DeviceRead(Objects, h) ELSE Objects
               /\ Set(c)
  BY DEF HandleDevice
<1>2. /\ UNCHANGED <<world, phase, monitor, paths, client>>
      /\ batch' = batch \ {h} /\ h \in batch
  BY DEF HandleDevice
<1>3. ClientInv' /\ Grip' = Grip /\ SeatGrip' = SeatGrip
  BY <1>2, ClientSame
<1>4. Sound(Objects, Grip, SeatGrip) /\ Objects.device = device
  BY ObjectsAre DEF ObjectsInv
<1>5. \A n \in Nodes : node[n].key \in BOOLEAN
  BY DEF KernelInv, NodeRecords
<1>6. Sound(c, Grip, SeatGrip) /\ Stays(Objects, c) /\ Shrinks(c)
  <2>1. CASE device[h].open
    <3>1. Sound(c, Grip, SeatGrip) /\ Reads(Objects, h, c)
      BY <1>1, <1>4, <1>5, <2>1, DeviceReadSound
    <3>2. Shrinks(c)
      <4>1. Listed(c) = IF node[device[h].node].state = "gone" THEN Listed(Objects) \ {h}
                        ELSE Listed(Objects)
        BY <1>4, <3>1 DEF Reads
      <4>2. Live(c) = Live(Objects)
            /\ \A g \in Listed(Objects) : /\ c.device[g].node = device[g].node
                                          /\ c.device[g].seat = device[g].seat
        BY <1>4, <3>1, Sets DEF Reads, Stays
      <4> QED BY <4>1, <4>2 DEF Shrinks
    <3> QED BY <3>1, <3>2 DEF Reads
  <2>2. CASE ~device[h].open
    <3>1. c = Objects /\ Stays(Objects, c)
      BY <1>1, <1>4, <2>2, StaysSame
    <3> QED BY <1>4, <3>1, StaysShrinks
  <2> QED BY <2>1, <2>2
<1>7. batch' \subseteq batch /\ batch' \subseteq Live(c) \cup {Monitor}
  BY <1>2, <1>6 DEF BatchInv, Stays
<1>8. ContextInv'
  BY <1>1, <1>2, <1>3, <1>6, <1>7, ShrinksKeeps
<1>9. QueueStep
  <2>1. RingInv(Objects.ring) /\ RingInv(c.ring) /\ ring' = c.ring /\ Longer(Objects, c)
    BY <1>1, <1>3, <1>4, <1>6, SoundRing, ObjectsSet DEF Stays
  <2> QED BY <2>1, QueueGrows
<1> QED BY <1>8, <1>9

\* The devices that are on the list or that the client holds are there.
LEMMA KnownLives ==
  ASSUME ContextInv, NEW h \in Handles, Known(h)
  PROVE  h \in Live(Objects)
<1>1. CASE h \in Listed(Objects)
  BY <1>1, Sets
<1>2. CASE h \in client.devices \cup {client.event}
  <2>1. Sound(Objects, Grip, SeatGrip)
    BY DEF ContextInv, ObjectsInv
  <2>2. Grip[h] > 0 /\ Grip[h] \in Nat
    BY <1>2 DEF Grip
  <2>3. Cardinality(Queued(Told(Objects), h)) \in Nat
    BY <2>1, SoundRing, UnreadAt, QueuedFinite DEF Told
  <2>4. Owed(Objects, Grip)[h] # 0
    BY <2>2, <2>3 DEF Owed
  <2> QED BY <2>1, <2>4, SoundRing, DeadFits
<1> QED BY <1>1, <1>2 DEF Known

LEMMA DisableKeeps ==
  ASSUME ContextInv, NEW h \in Handles, Disable(h)
  PROVE  ContextInv' /\ QueueStep
<1> USE DEF ContextInv
<1>1. PICK c : c = DeviceSuspend(Objects, h) /\ Set(c)
  BY DEF Disable
<1>2. UNCHANGED <<world, phase, monitor, paths, batch, client>> /\ Known(h)
  BY DEF Disable
<1>3. ClientInv' /\ Grip' = Grip /\ SeatGrip' = SeatGrip
  BY <1>2, ClientSame
<1>4. Sound(Objects, Grip, SeatGrip) /\ h \in Live(Objects)
  BY <1>2, KnownLives DEF ObjectsInv
<1>5. Sound(c, Grip, SeatGrip) /\ Closed(Objects, h, c)
  BY <1>1, <1>4, DeviceSuspendSound
<1>6. Stays(Objects, c) /\ Listed(c) = Listed(Objects)
  <2>1. \A g \in Handles : c.device[g].removed = Objects.device[g].removed
    BY <1>5 DEF Closed
  <2> QED BY <1>5, <2>1, KeepsListed DEF Closed
<1>7. Shrinks(c) /\ batch' \subseteq batch /\ batch' \subseteq Live(c) \cup {Monitor}
  BY <1>2, <1>6, StaysShrinks DEF BatchInv
<1>8. ContextInv'
  BY <1>1, <1>2, <1>3, <1>5, <1>7, ShrinksKeeps
<1>9. QueueStep
  <2>1. RingInv(Objects.ring) /\ RingInv(c.ring) /\ ring' = c.ring /\ Longer(Objects, c)
    BY <1>1, <1>3, <1>4, <1>5, <1>6, SoundRing, ObjectsSet DEF Stays
  <2> QED BY <2>1, QueueGrows
<1> QED BY <1>8, <1>9

LEMMA EnableKeeps ==
  ASSUME ContextInv, NEW h \in Handles, Enable(h)
  PROVE  ContextInv' /\ QueueStep
<1> USE DEF ContextInv
<1>1. PICK c : c = DeviceResume(Objects, h) /\ Set(c)
  BY DEF Enable
<1>2. UNCHANGED <<world, phase, monitor, paths, batch, client>> /\ Known(h)
  BY DEF Enable
<1>3. ClientInv' /\ Grip' = Grip /\ SeatGrip' = SeatGrip
  BY <1>2, ClientSame
<1>4. Sound(Objects, Grip, SeatGrip) /\ h \in Live(Objects)
  BY <1>2, KnownLives DEF ObjectsInv
<1>5. \A n \in Nodes : node[n].key \in BOOLEAN
  BY DEF KernelInv, NodeRecords
<1>6. /\ Sound(c, Grip, SeatGrip) /\ Stays(Objects, c)
      /\ \A g \in Handles : c.device[g].removed = Objects.device[g].removed
  BY <1>1, <1>4, <1>5, DeviceResumeSound
<1>7. Listed(c) = Listed(Objects)
  BY <1>6, KeepsListed
<1>8. Shrinks(c) /\ batch' \subseteq batch /\ batch' \subseteq Live(c) \cup {Monitor}
  BY <1>2, <1>6, <1>7, StaysShrinks DEF BatchInv
<1>9. ContextInv'
  BY <1>1, <1>2, <1>3, <1>6, <1>8, ShrinksKeeps
<1>10. QueueStep
  <2>1. RingInv(Objects.ring) /\ RingInv(c.ring) /\ ring' = c.ring /\ Longer(Objects, c)
    BY <1>1, <1>3, <1>4, <1>6, SoundRing, ObjectsSet DEF Stays
  <2> QED BY <2>1, QueueGrows
<1> QED BY <1>9, <1>10

-----------------------------------------------------------------------------
(* The client's references.                                                    *)

\* A queue that is left alone, with other references of the client.
LEMMA GripSound ==
  ASSUME NEW c, NEW grip, NEW keep, Sound(c, grip, keep), NEW u, u.ring = c.ring,
         NEW new \in [Handles -> Nat], NEW other, NEW owed, Counts(u, owed, other),
         \A h \in Handles : owed[h] - Owed(c, grip)[h] = new[h] - grip[h]
  PROVE  Sound(u, new, other)
<1>1. RingInv(c.ring) /\ grip \in [Handles -> Nat] /\ Told(u) = Told(c)
  BY DEF Sound, Told
<1>2. \A h \in Handles : Cardinality(Queued(Told(c), h)) \in Nat
  BY <1>1, UnreadAt, QueuedFinite DEF Told
<1>3. owed \in [Handles -> Nat]
  BY DEF Counts
<1>4. \A h \in Handles : owed[h] = Cardinality(Queued(Told(c), h)) + new[h]
  <2> SUFFICES ASSUME NEW h \in Handles PROVE owed[h] = Cardinality(Queued(Told(c), h)) + new[h]
    OBVIOUS
  <2> DEFINE queued == Cardinality(Queued(Told(c), h))
  <2>1. queued \in Nat /\ grip[h] \in Nat /\ new[h] \in Nat /\ owed[h] \in Nat
    BY <1>1, <1>2, <1>3
  <2>2. Owed(c, grip)[h] = queued + grip[h]
    BY DEF Owed
  <2>3. owed[h] - Owed(c, grip)[h] = new[h] - grip[h]
    OBVIOUS
  <2> HIDE DEF queued
  <2>4. owed[h] = queued + new[h]
    BY <2>1, <2>2, <2>3
  <2> QED BY <2>4 DEF queued
<1>5. owed = Owed(u, new)
  BY <1>1, <1>3, <1>4 DEF Owed
<1> QED BY <1>1, <1>5 DEF Sound

LEMMA DropsShrinks ==
  ASSUME NEW c, NEW h, Drops(Objects, h, c)
  PROVE  Shrinks(c)
<1>1. Objects.device = device
  BY ObjectsAre
<1> QED BY <1>1 DEF Drops, Shrinks

LEMMA DeviceUnrefSound ==
  ASSUME NEW c, NEW grip, NEW keep, Sound(c, grip, keep), NEW h \in Handles, grip[h] > 0,
         NEW new \in [Handles -> Nat], new[h] = grip[h] - 1,
         \A g \in Handles \ {h} : new[g] = grip[g]
  PROVE  Sound(DeviceUnref(c, h), new, keep) /\ Drops(c, h, DeviceUnref(c, h))
<1> DEFINE owed == Owed(c, grip)
           less == [owed EXCEPT ![h] = owed[h] - 1]
           u == DeviceUnref(c, h)
<1>1. /\ Counts(c, owed, keep) /\ grip \in [Handles -> Nat] /\ RingInv(c.ring)
  BY DEF Sound
<1>2. owed \in [Handles -> Nat] /\ owed[h] > 0
  <2>1. \A g \in Handles : Cardinality(Queued(Told(c), g)) \in Nat
    BY <1>1, UnreadAt, QueuedFinite DEF Told
  <2> QED BY <1>1, <2>1 DEF Owed
<1>3. h \in Live(c)
  <2> HIDE DEF owed
  <2> QED BY <1>1, <1>2, DeadFits
<1> HIDE DEF owed
<1>4. Counts(u, less, keep) /\ Drops(c, h, u)
  BY <1>1, <1>2, <1>3, DeviceUnrefCounts
<1>5. \A g \in Handles : less[g] - owed[g] = new[g] - grip[g]
  BY <1>1, <1>2
<1> HIDE DEF less, u
<1>6. u.ring = c.ring
  BY <1>4 DEF Drops
<1>7. Sound(u, new, keep)
  BY <1>4, <1>5, <1>6, GripSound DEF owed
<1> QED BY <1>4, <1>7 DEF u

\* The client gives up the event or a device.
LEMMA GivesUp ==
  ASSUME ContextInv, NEW h \in Handles, batch = {}, ClientInv', Set(DeviceUnref(Objects, h)),
         Grip[h] > 0, Grip'[h] = Grip[h] - 1, \A g \in Handles \ {h} : Grip'[g] = Grip[g],
         SeatGrip' = SeatGrip, UNCHANGED <<world, phase, monitor, paths, batch>>
  PROVE  ContextInv' /\ QueueStep
<1> USE DEF ContextInv
<1>1. PICK c : c = DeviceUnref(Objects, h) /\ Set(c)
  OBVIOUS
<1>2. PICK grip : grip = Grip'
  OBVIOUS
<1>3. grip \in [Handles -> Nat]
  BY <1>2 DEF Grip
<1>4. Sound(Objects, Grip, SeatGrip)
  BY DEF ObjectsInv
<1>5. Sound(c, grip, SeatGrip) /\ Drops(Objects, h, c)
  BY <1>1, <1>2, <1>3, <1>4, DeviceUnrefSound
<1>6. Shrinks(c) /\ batch' \subseteq batch /\ batch' \subseteq Live(c) \cup {Monitor}
  BY <1>5, DropsShrinks
<1>7. ContextInv'
  BY <1>1, <1>2, <1>5, <1>6, ShrinksKeeps
<1>8. UNCHANGED ring
  <2>1. ring' = c.ring /\ c.ring = Objects.ring
    BY <1>1, <1>2, <1>5, ObjectsSet DEF Drops
  <2> QED BY <2>1, ObjectsAre
<1> QED BY <1>7, <1>8, QueueSame

LEMMA DestroyEventKeeps ==
  ASSUME ContextInv, DestroyEvent
  PROVE  ContextInv' /\ QueueStep
<1>1. PICK h : h = client.event
  OBVIOUS
<1>2. /\ client \in [event : Handles \cup {None}, devices : SUBSET Handles, seats : SUBSET Seats]
      /\ IsFiniteSet(client.seats)
  BY DEF ContextInv, ClientInv
<1>3. /\ h # None /\ batch = {} /\ Set(DeviceUnref(Objects, h))
      /\ client' = [client EXCEPT !.event = None]
      /\ UNCHANGED <<world, phase, monitor, paths, batch>>
  BY <1>1 DEF DestroyEvent
<1>4. h \in Handles /\ \A g \in Handles : g # None
  BY <1>1, <1>2, <1>3, ContextAssumption
<1>5. /\ client'.event = None /\ client'.devices = client.devices /\ client'.seats = client.seats
      /\ client' \in [event : Handles \cup {None}, devices : SUBSET Handles, seats : SUBSET Seats]
  BY <1>2, <1>3
<1>6. ClientInv' /\ SeatGrip' = SeatGrip
  BY <1>2, <1>5 DEF ClientInv, SeatGrip
<1>7. Grip[h] > 0 /\ Grip'[h] = Grip[h] - 1 /\ \A g \in Handles \ {h} : Grip'[g] = Grip[g]
  BY <1>1, <1>4, <1>5 DEF Grip
<1> QED BY <1>3, <1>4, <1>6, <1>7, GivesUp

LEMMA UnrefDeviceKeeps ==
  ASSUME ContextInv, NEW h \in Handles, UnrefDevice(h)
  PROVE  ContextInv' /\ QueueStep
<1>1. /\ client \in [event : Handles \cup {None}, devices : SUBSET Handles, seats : SUBSET Seats]
      /\ IsFiniteSet(client.seats)
  BY DEF ContextInv, ClientInv
<1>2. /\ h \in client.devices /\ batch = {} /\ Set(DeviceUnref(Objects, h))
      /\ client' = [client EXCEPT !.devices = @ \ {h}]
      /\ UNCHANGED <<world, phase, monitor, paths, batch>>
  BY DEF UnrefDevice, Idle
<1>3. /\ client'.event = client.event /\ client'.devices = client.devices \ {h}
      /\ client'.seats = client.seats
      /\ client' \in [event : Handles \cup {None}, devices : SUBSET Handles, seats : SUBSET Seats]
  BY <1>1, <1>2
<1>4. ClientInv' /\ SeatGrip' = SeatGrip
  BY <1>1, <1>3 DEF ClientInv, SeatGrip
<1>5. Grip[h] > 0 /\ Grip'[h] = Grip[h] - 1 /\ \A g \in Handles \ {h} : Grip'[g] = Grip[g]
  BY <1>2, <1>3 DEF Grip
<1> QED BY <1>2, <1>4, <1>5, GivesUp

LEMMA RefDeviceKeeps ==
  ASSUME ContextInv, NEW h \in Handles, RefDevice(h)
  PROVE  ContextInv' /\ QueueStep
<1> USE DEF ContextInv
<1>1. PICK c : c = DeviceRef(Objects, h) /\ Set(c)
  BY DEF RefDevice
<1>2. /\ client \in [event : Handles \cup {None}, devices : SUBSET Handles, seats : SUBSET Seats]
      /\ IsFiniteSet(client.seats)
  BY DEF ClientInv
<1>3. /\ Known(h) /\ h \notin client.devices /\ batch = {}
      /\ client' = [client EXCEPT !.devices = @ \cup {h}]
      /\ UNCHANGED <<world, phase, monitor, paths, batch>>
  BY DEF RefDevice, Idle
<1>4. /\ client'.event = client.event /\ client'.devices = client.devices \cup {h}
      /\ client'.seats = client.seats
      /\ client' \in [event : Handles \cup {None}, devices : SUBSET Handles, seats : SUBSET Seats]
  BY <1>2, <1>3
<1>5. ClientInv' /\ SeatGrip' = SeatGrip
  BY <1>2, <1>4 DEF ClientInv, SeatGrip
<1>6. Grip'[h] = Grip[h] + 1 /\ \A g \in Handles \ {h} : Grip'[g] = Grip[g]
  BY <1>3, <1>4 DEF Grip
<1>7. PICK grip : grip = Grip'
  OBVIOUS
<1>8. grip \in [Handles -> Nat] /\ Grip \in [Handles -> Nat]
  BY <1>7 DEF Grip
<1>9. Sound(Objects, Grip, SeatGrip) /\ h \in Live(Objects)
  BY <1>3, KnownLives DEF ObjectsInv
<1>10. PICK owed : owed = Owed(Objects, Grip)
  OBVIOUS
<1>11. Counts(Objects, owed, SeatGrip) /\ owed \in [Handles -> Nat]
  BY <1>9, <1>10 DEF Sound, Counts
<1>12. PICK more : more = [owed EXCEPT ![h] = owed[h] + 1]
  OBVIOUS
<1>13. /\ Counts(c, more, SeatGrip) /\ c.ring = Objects.ring
       /\ Live(c) = Live(Objects) /\ Listed(c) = Listed(Objects)
       /\ \A g \in Handles : c.device[g].node = Objects.device[g].node
       /\ \A g \in Handles : c.device[g].seat = Objects.device[g].seat
  BY <1>1, <1>9, <1>11, <1>12, DeviceRefCounts
<1>14. \A g \in Handles : more[g] - owed[g] = grip[g] - Grip[g]
  BY <1>6, <1>7, <1>8, <1>11, <1>12
<1>15. Sound(c, grip, SeatGrip)
  BY <1>8, <1>9, <1>10, <1>13, <1>14, GripSound
<1>16. Shrinks(c)
  BY <1>13, ObjectsAre, Sets DEF Shrinks
<1>17. batch' \subseteq batch /\ batch' \subseteq Live(c) \cup {Monitor}
  BY <1>3
<1>18. ContextInv'
  BY <1>1, <1>3, <1>5, <1>7, <1>15, <1>16, <1>17, ShrinksKeeps
<1>19. UNCHANGED ring
  BY <1>1, <1>5, <1>7, <1>13, <1>15, ObjectsAre, ObjectsSet
<1> QED BY <1>18, <1>19, QueueSame

\* The client's references to seats, and nothing else.
LEMMA SeatsKeep ==
  ASSUME ContextInv, NEW c, Set(c), Seated(Objects, c), NEW keep,
         Counts(c, Owed(Objects, Grip), keep), SeatGrip' = keep, ClientInv', Grip' = Grip,
         UNCHANGED <<world, phase, monitor, paths, batch>>
  PROVE  ContextInv' /\ QueueStep
<1> USE DEF ContextInv
<1>1. Sound(Objects, Grip, SeatGrip)
  BY DEF ObjectsInv
<1>2. Sound(c, Grip, keep) /\ Stays(Objects, c) /\ Listed(c) = Listed(Objects)
  BY <1>1, SeatedSound
<1>3. Shrinks(c) /\ batch' \subseteq batch /\ batch' \subseteq Live(c) \cup {Monitor}
  BY <1>2, StaysShrinks DEF BatchInv
<1>4. ContextInv'
  BY <1>2, <1>3, ShrinksKeeps
<1>5. UNCHANGED ring
  BY <1>2, ObjectsAre, ObjectsSet DEF Seated
<1> QED BY <1>4, <1>5, QueueSame

LEMMA RefSeatKeeps ==
  ASSUME ContextInv, NEW h \in Handles, RefSeat(h)
  PROVE  ContextInv' /\ QueueStep
<1> USE DEF ContextInv
<1>1. PICK s : s = device[h].seat
  OBVIOUS
<1>2. PICK c : c = SeatRef(Objects, s) /\ Set(c)
  BY <1>1 DEF RefSeat
<1>3. /\ client \in [event : Handles \cup {None}, devices : SUBSET Handles, seats : SUBSET Seats]
      /\ IsFiniteSet(client.seats)
  BY DEF ClientInv
<1>4. /\ Known(h) /\ s \notin client.seats
      /\ client' = [client EXCEPT !.seats = @ \cup {s}]
      /\ UNCHANGED <<world, phase, monitor, paths, batch>>
  BY <1>1 DEF RefSeat
<1>5. s \in Seats
  BY <1>1, <1>4, KnownLives, LiveAt
<1>6. /\ client'.event = client.event /\ client'.devices = client.devices
      /\ client'.seats = client.seats \cup {s}
      /\ client' \in [event : Handles \cup {None}, devices : SUBSET Handles, seats : SUBSET Seats]
  BY <1>3, <1>4, <1>5
<1>7. IsFiniteSet(client.seats \cup {s})
  BY <1>3, FS_AddElement
<1>8. ClientInv' /\ Grip' = Grip
  BY <1>6, <1>7 DEF ClientInv, Grip
<1>9. SeatGrip' = [SeatGrip EXCEPT ![s] = SeatGrip[s] + 1]
  <2>1. SeatGrip' = [t \in Seats |-> IF t \in client.seats \cup {s} THEN 1 ELSE 0]
    BY <1>6 DEF SeatGrip
  <2>2. \A t \in Seats : SeatGrip[t] = IF t \in client.seats THEN 1 ELSE 0
    BY DEF SeatGrip
  <2>3. [SeatGrip EXCEPT ![s] = SeatGrip[s] + 1] =
          [t \in Seats |-> IF t = s THEN SeatGrip[s] + 1 ELSE SeatGrip[t]]
    BY DEF SeatGrip
  <2>4. \A t \in Seats : (IF t \in client.seats \cup {s} THEN 1 ELSE 0) =
                           IF t = s THEN SeatGrip[s] + 1 ELSE SeatGrip[t]
    BY <1>4, <1>5, <2>2
  <2> HIDE DEF SeatGrip
  <2> QED BY <2>1, <2>3, <2>4
<1>10. Counts(Objects, Owed(Objects, Grip), SeatGrip)
  BY SoundRing DEF ObjectsInv
<1>11. Counts(c, Owed(Objects, Grip), [SeatGrip EXCEPT ![s] = SeatGrip[s] + 1]) /\ Seated(Objects, c)
  BY <1>2, <1>5, <1>10, SeatRefCounts
<1> QED BY <1>2, <1>4, <1>8, <1>9, <1>11, SeatsKeep

LEMMA UnrefSeatKeeps ==
  ASSUME ContextInv, NEW s \in Seats, UnrefSeat(s)
  PROVE  ContextInv' /\ QueueStep
<1> USE DEF ContextInv
<1>1. PICK c : c = SeatUnref(Objects, s) /\ Set(c)
  BY DEF UnrefSeat
<1>2. /\ client \in [event : Handles \cup {None}, devices : SUBSET Handles, seats : SUBSET Seats]
      /\ IsFiniteSet(client.seats)
  BY DEF ClientInv
<1>3. /\ s \in client.seats
      /\ client' = [client EXCEPT !.seats = @ \ {s}]
      /\ UNCHANGED <<world, phase, monitor, paths, batch>>
  BY DEF UnrefSeat
<1>4. /\ client'.event = client.event /\ client'.devices = client.devices
      /\ client'.seats = client.seats \ {s}
      /\ client' \in [event : Handles \cup {None}, devices : SUBSET Handles, seats : SUBSET Seats]
  BY <1>2, <1>3
<1>5. IsFiniteSet(client.seats \ {s})
  BY <1>2, FS_RemoveElement
<1>6. ClientInv' /\ Grip' = Grip
  BY <1>4, <1>5 DEF ClientInv, Grip
<1>7. SeatGrip[s] > 0
  BY <1>3 DEF SeatGrip
<1>8. SeatGrip' = [SeatGrip EXCEPT ![s] = SeatGrip[s] - 1]
  <2>1. SeatGrip' = [t \in Seats |-> IF t \in (client.seats \ {s}) THEN 1 ELSE 0]
    BY <1>4 DEF SeatGrip
  <2>2. \A t \in Seats : SeatGrip[t] = IF t \in client.seats THEN 1 ELSE 0
    BY DEF SeatGrip
  <2>3. [SeatGrip EXCEPT ![s] = SeatGrip[s] - 1] =
          [t \in Seats |-> IF t = s THEN SeatGrip[s] - 1 ELSE SeatGrip[t]]
    BY DEF SeatGrip
  <2>4. \A t \in Seats : (IF t \in (client.seats \ {s}) THEN 1 ELSE 0) =
                           IF t = s THEN SeatGrip[s] - 1 ELSE SeatGrip[t]
    BY <1>3, <2>2
  <2> HIDE DEF SeatGrip
  <2> QED BY <2>1, <2>3, <2>4
<1>9. Counts(Objects, Owed(Objects, Grip), SeatGrip)
  BY SoundRing DEF ObjectsInv
<1>10. Counts(c, Owed(Objects, Grip), [SeatGrip EXCEPT ![s] = SeatGrip[s] - 1]) /\ Seated(Objects, c)
  BY <1>1, <1>7, <1>9, SeatUnrefCounts
<1> QED BY <1>1, <1>3, <1>6, <1>8, <1>10, SeatsKeep

\* The reference of the oldest event becomes the client's.
LEMMA FetchedSound ==
  ASSUME NEW c, NEW grip, NEW keep, Sound(c, grip, keep), c.ring.count > 0,
         NEW u, u.ring = Fetched(c.ring), u.device = c.device, u.seat = c.seat,
         u.group = c.group, u.shown = c.shown, u \in [ring : Rings, device : {c.device},
           seat : {c.seat}, group : {c.group}, shown : {c.shown}],
         NEW new \in [Handles -> Nat],
         \A h \in Handles : new[h] = grip[h] + (IF Oldest(c.ring).device = h THEN 1 ELSE 0)
  PROVE  /\ Sound(u, new, keep) /\ Oldest(c.ring).device \in Handles
         /\ Live(u) = Live(c) /\ Listed(u) = Listed(c)
         /\ Told(c) # <<>> /\ Told(u) = Tail(Told(c))
<1>1. /\ RingInv(c.ring) /\ grip \in [Handles -> Nat]
      /\ \A i \in 1..Len(Told(c)) : Told(c)[i].device \in Handles
      /\ Counts(c, Owed(c, grip), keep)
  BY DEF Sound
<1>2. /\ RingInv(u.ring) /\ Told(u) = Tail(Told(c)) /\ Told(c) # <<>>
      /\ Told(c) \in Seq(Events) /\ Len(Told(c)) = c.ring.count /\ c.ring.count \in Nat
      /\ Told(u) \in Seq(Events)
  <2>1. RingInv(u.ring) /\ Told(u) = Tail(Told(c)) /\ Told(c) # <<>>
    BY <1>1, FetchedDrops DEF Told
  <2>2. c.ring.count \in Nat
    BY <1>1 DEF RingInv, InBounds, Rings
  <2> QED BY <1>1, <2>1, <2>2, UnreadAt DEF Told
<1>3. /\ Head(Told(c)) = Oldest(c.ring) /\ Told(c)[1] = Oldest(c.ring)
      /\ 1 \in 1..Len(Told(c))
  <2>1. 1 \in 1..c.ring.count
    BY <1>2
  <2>2. Told(c)[1] = c.ring.slots[Wrap(c.ring.out + 1 - 1, c.ring.len)]
    BY <1>1, <2>1, UnreadAt DEF Told
  <2>3. Wrap(c.ring.out + 1 - 1, c.ring.len) = c.ring.out
    BY <1>1 DEF RingInv, InBounds, Rings, Wrap
  <2> QED BY <1>2, <2>1, <2>2, <2>3 DEF Oldest
<1>4. Oldest(c.ring).device \in Handles
  BY <1>1, <1>2, <1>3
<1>5. \A i \in 1..Len(Told(u)) : Told(u)[i].device \in Handles
  <2> SUFFICES ASSUME NEW i \in 1..Len(Told(u)) PROVE Told(u)[i].device \in Handles
    OBVIOUS
  <2> DEFINE q == Told(c)
  <2>1. q \in Seq(Events) /\ q # <<>> /\ Told(u) = Tail(q)
    BY <1>2
  <2> HIDE DEF q
  <2>2. Tail(q)[i] = q[i + 1] /\ i + 1 \in 1..Len(q)
    BY <2>1
  <2> QED BY <1>1, <2>1, <2>2 DEF q
<1>6. Owed(u, new) = Owed(c, grip)
  <2>1. \A h \in Handles :
          Cardinality(Queued(Told(u), h)) + new[h] = Cardinality(Queued(Told(c), h)) + grip[h]
    <3> SUFFICES ASSUME NEW h \in Handles
                 PROVE  Cardinality(Queued(Told(u), h)) + new[h] =
                          Cardinality(Queued(Told(c), h)) + grip[h]
      OBVIOUS
    <3>1. Cardinality(Queued(Told(c), h)) =
            Cardinality(Queued(Told(u), h)) + (IF Oldest(c.ring).device = h THEN 1 ELSE 0)
      BY <1>2, <1>3, QueuedTail
    <3>2. Cardinality(Queued(Told(u), h)) \in Nat /\ new[h] \in Nat /\ grip[h] \in Nat
      BY <1>1, <1>2, QueuedFinite
    <3>3. new[h] = grip[h] + (IF Oldest(c.ring).device = h THEN 1 ELSE 0)
      OBVIOUS
    <3> HIDE DEF Queued
    <3> QED BY <3>1, <3>2, <3>3
  <2> QED BY <2>1 DEF Owed
<1>7. Counts(u, Owed(c, grip), keep) /\ Live(u) = Live(c) /\ Listed(u) = Listed(c)
  <2>1. Live(u) = Live(c) /\ Listed(u) = Listed(c) /\ \A s : On(u, s) = On(c, s) /\ Down(u, s) = Down(c, s)
    BY DEF Live, Listed, On, Down
  <2>2. u \in Contexts
    BY <1>1 DEF Counts, Contexts
  <2>3. \A s \in Seats : SeatFits(u, s, keep[s])
    BY <1>1, <2>1 DEF Counts, SeatFits
  <2> QED BY <1>1, <2>1, <2>2, <2>3 DEF Counts
<1>8. Sound(u, new, keep)
  BY <1>2, <1>5, <1>6, <1>7 DEF Sound
<1> QED BY <1>2, <1>4, <1>7, <1>8

LEMMA GetNextKeeps ==
  ASSUME ContextInv, GetNext
  PROVE  ContextInv' /\ QueueStep
<1> USE DEF ContextInv
<1>1. PICK c : c = [ring |-> Fetched(ring), device |-> device, seat |-> seat, group |-> group,
                    shown |-> shown]
  OBVIOUS
<1>2. /\ client.event = None /\ batch = {} /\ ring.count > 0
      /\ client' = [client EXCEPT !.event = Oldest(ring).device] /\ ring' = Fetched(ring)
      /\ UNCHANGED <<world, phase, monitor, paths, batch, device, seat, group, shown>>
  BY DEF GetNext, Idle
<1>3. Sound(Objects, Grip, SeatGrip) /\ RingInv(ring)
  BY SoundRing, ObjectsAre DEF ObjectsInv
<1>4. /\ c.ring = Fetched(Objects.ring) /\ c.device = Objects.device /\ c.seat = Objects.seat
      /\ c.group = Objects.group /\ c.shown = Objects.shown
      /\ Objects.ring = ring /\ Objects.device = device
  BY <1>1, ObjectsAre
<1>5. Set(c)
  BY <1>1, <1>2 DEF Set
<1>6. Fetched(ring) \in Rings
  BY <1>2, <1>3, FetchedDrops DEF RingInv
<1>7. c \in [ring : Rings, device : {Objects.device}, seat : {Objects.seat},
             group : {Objects.group}, shown : {Objects.shown}]
  BY <1>1, <1>6, ObjectsAre
<1>8. /\ client \in [event : Handles \cup {None}, devices : SUBSET Handles, seats : SUBSET Seats]
      /\ IsFiniteSet(client.seats) /\ \A h \in Handles : h # None
  BY ContextAssumption DEF ClientInv
<1>9. PICK grip : grip = Grip'
  OBVIOUS
<1>10. /\ client'.event = Oldest(ring).device /\ client'.devices = client.devices
       /\ client'.seats = client.seats
  BY <1>2, <1>8
<1>11. grip \in [Handles -> Nat]
  BY <1>9 DEF Grip
<1>12. \A h \in Handles : grip[h] = Grip[h] + (IF Oldest(Objects.ring).device = h THEN 1 ELSE 0)
  <2> SUFFICES ASSUME NEW h \in Handles
               PROVE  grip[h] = Grip[h] + (IF Oldest(ring).device = h THEN 1 ELSE 0)
    BY <1>4
  <2>1. grip[h] = (IF h = client'.event THEN 1 ELSE 0) + (IF h \in client'.devices THEN 1 ELSE 0)
    BY <1>9 DEF Grip
  <2>2. Grip[h] = IF h \in client.devices THEN 1 ELSE 0
    BY <1>2, <1>8 DEF Grip
  <2> QED BY <1>10, <2>1, <2>2
<1>13. /\ Sound(c, grip, SeatGrip) /\ Oldest(ring).device \in Handles
       /\ Live(c) = Live(Objects) /\ Listed(c) = Listed(Objects)
       /\ Told(Objects) # <<>> /\ Told(c) = Tail(Told(Objects))
  <2>1. Objects.ring.count > 0
    BY <1>2, <1>4
  <2>2. /\ Sound(c, grip, SeatGrip) /\ Oldest(Objects.ring).device \in Handles
        /\ Live(c) = Live(Objects) /\ Listed(c) = Listed(Objects)
        /\ Told(Objects) # <<>> /\ Told(c) = Tail(Told(Objects))
    BY <1>3, <1>4, <1>7, <1>11, <1>12, <2>1, FetchedSound
  <2> QED BY <1>4, <2>2
<1>14. ClientInv' /\ SeatGrip' = SeatGrip
  <2>1. client' \in [event : Handles \cup {None}, devices : SUBSET Handles, seats : SUBSET Seats]
    BY <1>2, <1>8, <1>13
  <2> QED BY <1>8, <1>10, <2>1 DEF ClientInv, SeatGrip
<1>15. Shrinks(c) /\ batch' \subseteq batch /\ batch' \subseteq Live(c) \cup {Monitor}
  BY <1>2, <1>4, <1>13 DEF Shrinks
<1>16. ContextInv'
  BY <1>2, <1>5, <1>9, <1>13, <1>14, <1>15, ShrinksKeeps
<1>17. QueueStep
  <2>1. Unread(ring) # <<>> /\ Unread(ring)' = Tail(Unread(ring))
    BY <1>2, <1>3, FetchedDrops
  <2> QED BY <2>1 DEF QueueStep, Queue!Next, Queue!Get
<1> QED BY <1>16, <1>17

-----------------------------------------------------------------------------
(* What udev says.                                                             *)

LEMMA RoomLeft ==
  ASSUME KernelInv, NEW k \in Nat, Room(k)
  PROVE  /\ Cardinality(Live(Objects)) + k <= Cardinality(Handles)
         /\ k = 1 => Live(Objects) # Handles
<1>1. scene.handles \in 0..Cardinality(Handles)
  BY ContextAssumption DEF KernelInv
<1>2. Cardinality(Handles) \in Nat /\ Cardinality(Live(Objects)) \in Nat
  BY ContextAssumption, FS_CardinalityType, Sets
<1>3. Cardinality(Live(Objects)) + k <= scene.handles
  BY DEF Room
<1> QED BY <1>1, <1>2, <1>3

LEMMA WaitsLess ==
  ASSUME monitor \in [on : BOOLEAN, messages : Seq(Messages)], monitor.messages # <<>>,
         monitor' = [monitor EXCEPT !.messages = Tail(monitor.messages)]
  PROVE  /\ monitor' \in [on : BOOLEAN, messages : Seq(Messages)] /\ monitor'.on = monitor.on
         /\ \A said, n : Waits(said, n)' => Waits(said, n)
         /\ \A said, n : Waits(said, n) =>
              Waits(said, n)' \/ Head(monitor.messages) = [action |-> said, node |-> n]
         /\ Head(monitor.messages) \in Messages
         /\ Waits(Head(monitor.messages).action, Head(monitor.messages).node)
<1> DEFINE q == monitor.messages
           r == Tail(q)
<1>1. q \in Seq(Messages) /\ q # <<>>
  OBVIOUS
<1>2. monitor'.messages = r /\ monitor'.on = monitor.on /\ r \in Seq(Messages)
      /\ monitor' \in [on : BOOLEAN, messages : Seq(Messages)]
  <2>1. r \in Seq(Messages)
    BY <1>1
  <2>2. monitor' = [monitor EXCEPT !.messages = r]
    OBVIOUS
  <2> HIDE DEF r
  <2> QED BY <2>1, <2>2
<1>3. \A m : Waits(m.action, m.node) <=> [action |-> m.action, node |-> m.node] \in ToSet(q)
  BY DEF Waits
<1>4. \A said, n : Waits(said, n) <=> [action |-> said, node |-> n] \in ToSet(q)
  BY DEF Waits
<1>5. \A said, n : Waits(said, n)' <=> [action |-> said, node |-> n] \in ToSet(r)
  BY <1>2 DEF Waits
<1> HIDE DEF q
<1>6. /\ Len(q) \in Nat /\ Len(q) >= 1 /\ Len(r) = Len(q) - 1 /\ Head(q) = q[1]
      /\ Head(q) \in Messages
      /\ \A i \in 1..(Len(q) - 1) : r[i] = q[i + 1]
  BY <1>1
<1>7. DOMAIN q = 1..Len(q) /\ DOMAIN r = 1..(Len(q) - 1)
  BY <1>1, <1>2, <1>6
<1> HIDE DEF r
<1>8. ToSet(r) \subseteq ToSet(q)
  <2>1. \A i \in 1..(Len(q) - 1) : i + 1 \in 1..Len(q)
    BY <1>6
  <2> QED BY <1>6, <1>7, <2>1 DEF ToSet
<1>9. \A m \in ToSet(q) : m \in ToSet(r) \/ m = Head(q)
  <2> SUFFICES ASSUME NEW i \in 1..Len(q), i # 1 PROVE q[i] \in ToSet(r)
    BY <1>6, <1>7 DEF ToSet
  <2>1. i - 1 \in 1..(Len(q) - 1) /\ q[i] = q[(i - 1) + 1]
    BY <1>6
  <2>2. r[i - 1] = q[i]
    BY <1>6, <2>1
  <2> QED BY <1>7, <2>1, <2>2 DEF ToSet
<1>10. Head(q) \in ToSet(q)
  <2>1. 1 \in 1..Len(q)
    BY <1>6
  <2> QED BY <1>6, <1>7, <2>1 DEF ToSet
<1>11. Waits(Head(q).action, Head(q).node)
  <2>1. Head(q) = [action |-> Head(q).action, node |-> Head(q).node]
    BY <1>6 DEF Messages
  <2> QED BY <1>4, <1>10, <2>1
<1>12. \A said, n : Waits(said, n)' => Waits(said, n)
  BY <1>4, <1>5, <1>8
<1>13. \A said, n : Waits(said, n) =>
         Waits(said, n)' \/ Head(q) = [action |-> said, node |-> n]
  BY <1>4, <1>5, <1>9
<1> QED BY <1>2, <1>6, <1>11, <1>12, <1>13 DEF q

\* The devices of nodes that were not named stay where they are.
Apart(n, c) ==
  /\ \A g \in Listed(c) : c.device[g].node # n =>
       g \in Listed(Objects) /\ c.device[g].node = device[g].node /\ c.device[g].seat = device[g].seat
  /\ \A g \in Listed(Objects) : device[g].node # n =>
       g \in Listed(c) /\ c.device[g].node = device[g].node /\ c.device[g].seat = device[g].seat

LEMMA ApartListed ==
  ASSUME NEW c, Stays(Objects, c), NEW n,
         \A g \in Listed(Objects) \ Listed(c) : device[g].node = n,
         Listed(c) \subseteq Listed(Objects)
  PROVE  Apart(n, c)
  BY ObjectsAre, Sets DEF Stays, Apart

LEMMA ApartJoins ==
  ASSUME NEW c, NEW n, NEW s, NEW h, Joins(Objects, n, s, h, c)
  PROVE  Apart(n, c)
<1>1. \A g \in Listed(Objects) : /\ c.device[g].node = device[g].node
                                 /\ c.device[g].seat = device[g].seat
  BY ObjectsAre, Sets DEF Joins
<1>2. Listed(c) = Listed(Objects) \cup {h} /\ c.device[h].node = n
  BY DEF Joins
<1> QED BY <1>1, <1>2 DEF Apart

\* A message of udev was read.  The devices of its node are those that should
\* be there.
LEMMA HeardOne ==
  ASSUME PlacesInv, UNCHANGED <<world, phase, paths>>, backend = "udev",
         NEW c, Objects' = c, device' = c.device, NEW n \in Nodes, Apart(n, c),
         monitor'.on = monitor.on, monitor.on,
         \A said, m : Waits(said, m)' => Waits(said, m),
         \A said, m : Waits(said, m) => Waits(said, m)' \/ m = n,
         node[n].said = "nothing" \/ Waits("add", n)' =>
           \A g \in Listed(c) : c.device[g].node = n => c.device[g].seat = DefaultSeat,
         \A g, h \in Listed(c) : c.device[g].node = n /\ c.device[h].node = n => g = h,
         /\ node[n].said = "add" /\ node[n].state = "present" /\ ~Waits("add", n)' =>
              \E h \in Listed(c) : c.device[h].node = n
         /\ node[n].said = "remove" /\ ~Waits("remove", n)' =>
              \A h \in Listed(c) : c.device[h].node # n
  PROVE  PlacesInv'
<1>1. node' = node /\ backend' = backend
  BY DEF world, backend
<1>2. Unique'
  <2> SUFFICES ASSUME NEW g \in Listed(c), NEW h \in Listed(c), c.device[g].node = c.device[h].node
               PROVE  g = h
    BY DEF Unique
  <2>1. CASE c.device[g].node = n
    BY <2>1
  <2>2. CASE c.device[g].node # n
    <3>1. /\ g \in Listed(Objects) /\ h \in Listed(Objects)
          /\ device[g].node = device[h].node
      BY <2>2 DEF Apart
    <3> QED BY <3>1 DEF PlacesInv, Unique
  <2> QED BY <2>1, <2>2
<1>3. OnPaths'
  BY <1>1 DEF OnPaths
<1>4. AtHome'
  <2> SUFFICES ASSUME NEW h \in Listed(c),
                      node[c.device[h].node].said = "nothing" \/ Waits("add", c.device[h].node)'
               PROVE  c.device[h].seat = DefaultSeat
    BY <1>1 DEF AtHome
  <2>1. CASE c.device[h].node = n
    <3>1. CASE node[c.device[h].node].said = "nothing"
      BY <2>1, <3>1
    <3>2. CASE Waits("add", c.device[h].node)'
      <4>1. Waits("add", n)'
        BY <2>1, <3>2
      <4> QED BY <2>1, <4>1
    <3> QED BY <3>1, <3>2
  <2>2. CASE c.device[h].node # n
    <3>1. PICK m : m = c.device[h].node
      OBVIOUS
    <3>2. h \in Listed(Objects) /\ device[h].node = m /\ c.device[h].seat = device[h].seat
      BY <2>2, <3>1 DEF Apart
    <3>3. node[m].said = "nothing" \/ Waits("add", m)
      <4>1. CASE node[c.device[h].node].said = "nothing"
        BY <3>1, <4>1
      <4>2. CASE Waits("add", c.device[h].node)'
        <5>1. Waits("add", m)'
          BY <3>1, <4>2
        <5> QED BY <5>1
      <4> QED BY <4>1, <4>2
    <3> QED BY <3>2, <3>3 DEF PlacesInv, AtHome
  <2> QED BY <2>1, <2>2
<1>5. Heard'
  <2> SUFFICES ASSUME NEW m \in Nodes
               PROVE  /\ node[m].said = "add" /\ node[m].state = "present" /\ ~Waits("add", m)' =>
                           \E h \in Listed(c) : c.device[h].node = m
                      /\ node[m].said = "remove" /\ ~Waits("remove", m)' =>
                           \A h \in Listed(c) : c.device[h].node # m
    BY <1>1 DEF Heard
  <2>1. CASE m = n
    BY <2>1
  <2>2. CASE m # n
    <3>1. Waits("add", m)' <=> Waits("add", m)
      BY <2>2
    <3>2. Waits("remove", m)' <=> Waits("remove", m)
      BY <2>2
    <3>3. /\ node[m].said = "add" /\ node[m].state = "present" /\ ~Waits("add", m) =>
               \E h \in Listed(Objects) : device[h].node = m
          /\ node[m].said = "remove" /\ ~Waits("remove", m) =>
               \A h \in Listed(Objects) : device[h].node # m
      BY DEF PlacesInv, Heard
    <3>4. (\E h \in Listed(Objects) : device[h].node = m) => \E h \in Listed(c) : c.device[h].node = m
      BY <2>2 DEF Apart
    <3>5. (\A h \in Listed(Objects) : device[h].node # m) => \A h \in Listed(c) : c.device[h].node # m
      BY <2>2 DEF Apart
    <3> QED BY <3>1, <3>2, <3>3, <3>4, <3>5
  <2> QED BY <2>1, <2>2
<1> QED BY <1>2, <1>3, <1>4, <1>5 DEF PlacesInv

\* What a sound operation that adds no more than told leaves of the phase, the
\* batch and the queue.
LEMMA Settles ==
  ASSUME ContextInv, NEW c, NEW grip, NEW keep, Sound(c, grip, keep), Set(c),
         Grip' = grip, SeatGrip' = keep, Longer(Objects, c)
  PROVE  /\ ObjectsInv' /\ Objects' = c /\ device' = c.device /\ QueueStep
<1>1. ObjectsInv' /\ Objects' = c /\ device' = c.device /\ ring' = c.ring
  BY ObjectsSet
<1>2. RingInv(Objects.ring) /\ RingInv(c.ring)
  BY SoundRing DEF ContextInv, ObjectsInv
<1> QED BY <1>1, <1>2, QueueGrows

LEMMA MessageAdded ==
  ASSUME ContextInv, NEW n \in Nodes, Waits("add", n), monitor.on, Live(Objects) # Handles,
         NEW c, c = DeviceAdded(Objects, n, DefaultSeat)
  PROVE  /\ Sound(c, Grip, SeatGrip) /\ Longer(Objects, c) /\ Live(Objects) \subseteq Live(c)
         /\ Apart(n, c)
         /\ \A g \in Listed(c) : c.device[g].node = n => c.device[g].seat = DefaultSeat
         /\ \A g, h \in Listed(c) : c.device[g].node = n /\ c.device[h].node = n => g = h
         /\ node[n].state = "present" => \E h \in Listed(c) : c.device[h].node = n
<1> USE DEF ContextInv
<1>1. Sound(Objects, Grip, SeatGrip) /\ DefaultSeat \in Seats /\ node[n].key \in BOOLEAN
  BY ContextAssumption DEF ObjectsInv, KernelInv, NodeRecords
<1>2. /\ Sound(c, Grip, SeatGrip)
      /\ IF Placed(Objects, n, DefaultSeat) THEN c = Objects ELSE Enters(Objects, n, DefaultSeat, c)
  BY <1>1, DeviceAddedSound
<1>3. Stays(Objects, Objects) /\ Objects.device = device
  BY <1>1, StaysSame, ObjectsAre
<1>4. \A g \in Listed(Objects) : device[g].node = n => device[g].seat = DefaultSeat
  BY DEF PlacesInv, AtHome, MonitorInv
<1>5. \A g, h \in Listed(Objects) : device[g].node = n /\ device[h].node = n => g = h
  BY DEF PlacesInv, Unique
<1>6. CASE Placed(Objects, n, DefaultSeat)
  <2>1. c = Objects
    BY <1>2, <1>6
  <2>2. \E h \in Listed(Objects) : device[h].node = n
    BY <1>3, <1>6 DEF Placed
  <2> QED BY <1>2, <1>3, <1>4, <1>5, <2>1, <2>2, ApartListed DEF Stays
<1>7. CASE ~Placed(Objects, n, DefaultSeat)
  <2>1. Enters(Objects, n, DefaultSeat, c)
    BY <1>2, <1>7
  <2>2. \A g \in Listed(Objects) : device[g].node # n
    BY <1>3, <1>4, <1>7 DEF Placed
  <2>3. CASE node[n].state = "present"
    <3>1. PICK h : Joins(Objects, n, DefaultSeat, h, c)
      BY <2>1, <2>3 DEF Enters
    <3>2. /\ Apart(n, c) /\ Listed(c) = Listed(Objects) \cup {h} /\ c.device[h].node = n
          /\ c.device[h].seat = DefaultSeat /\ Live(Objects) \subseteq Live(c) /\ Longer(Objects, c)
      BY <3>1, ApartJoins DEF Joins
    <3>3. \A g \in Listed(c) : c.device[g].node = n => g = h
      <4>1. \A g \in Listed(Objects) : c.device[g].node = device[g].node
        BY <1>3, <3>1, Sets DEF Joins
      <4> QED BY <2>2, <3>2, <4>1
    <3> QED BY <1>2, <3>2, <3>3
  <2>4. CASE node[n].state # "present"
    <3>1. Stays(Objects, c) /\ Listed(c) = Listed(Objects)
      BY <2>1, <2>4 DEF Enters
    <3>2. \A g \in Listed(c) : c.device[g].node # n
      BY <1>3, <2>2, <3>1, Sets DEF Stays
    <3> QED BY <1>2, <2>4, <3>1, <3>2, ApartListed DEF Stays
  <2> QED BY <2>3, <2>4
<1> QED BY <1>6, <1>7

LEMMA MessageRemoved ==
  ASSUME ContextInv, NEW n \in Nodes, NEW c, c = DeviceRemoved(Objects, n)
  PROVE  /\ Sound(c, Grip, SeatGrip) /\ Stays(Objects, c) /\ Apart(n, c)
         /\ Listed(c) = {g \in Listed(Objects) : device[g].node # n}
         /\ \A g \in Listed(c) : c.device[g].node # n
<1>1. Sound(Objects, Grip, SeatGrip) /\ Objects.device = device
  BY ObjectsAre DEF ContextInv, ObjectsInv
<1>2. PICK gone : gone = {h \in Listed(Objects) : Objects.device[h].node = n}
  OBVIOUS
<1>3. Sound(c, Grip, SeatGrip) /\ Unlists(Objects, gone, c)
  BY <1>1, <1>2, DeviceRemovedSound
<1>4. Listed(c) = {g \in Listed(Objects) : device[g].node # n} /\ Stays(Objects, c)
  BY <1>1, <1>2, <1>3 DEF Unlists
<1>5. Apart(n, c)
  BY <1>4, ApartListed
<1>6. \A g \in Listed(c) : c.device[g].node # n
  BY <1>1, <1>4, Sets DEF Stays
<1> QED BY <1>3, <1>4, <1>5, <1>6

LEMMA HandleMonitorKeeps ==
  ASSUME ContextInv, HandleMonitor
  PROVE  ContextInv' /\ QueueStep
<1> USE DEF ContextInv
<1>1. PICK message : message = Head(monitor.messages)
  OBVIOUS
<1>2. PICK n, said : n = message.node /\ said = message.action
  OBVIOUS
<1>3. PICK c : /\ c = IF said = "add" THEN DeviceAdded(Objects, n, DefaultSeat)
                      ELSE DeviceRemoved(Objects, n)
               /\ Set(c)
  BY <1>1, <1>2 DEF HandleMonitor
<1>4. /\ Monitor \in batch /\ batch' = batch \ {Monitor} /\ Room(1)
      /\ monitor' = [monitor EXCEPT !.messages = Tail(monitor.messages)]
      /\ UNCHANGED <<world, phase, paths, client>>
  BY DEF HandleMonitor
<1>5. /\ monitor.on /\ monitor.messages # <<>> /\ backend = "udev" /\ phase = "running"
      /\ monitor \in [on : BOOLEAN, messages : Seq(Messages)]
  BY <1>4 DEF BatchInv, MonitorInv
<1>6. /\ monitor' \in [on : BOOLEAN, messages : Seq(Messages)] /\ monitor'.on = monitor.on
      /\ \A a, m : Waits(a, m)' => Waits(a, m)
      /\ \A a, m : Waits(a, m) => Waits(a, m)' \/ message = [action |-> a, node |-> m]
      /\ message \in Messages /\ Waits(said, n)
  BY <1>1, <1>2, <1>4, <1>5, WaitsLess
<1>7. /\ n \in Nodes /\ said \in {"add", "remove"}
      /\ \A a, m : Waits(a, m) => Waits(a, m)' \/ (a = said /\ m = n)
  BY <1>2, <1>6 DEF Messages
<1>8. ClientInv' /\ Grip' = Grip /\ SeatGrip' = SeatGrip
  BY <1>4, ClientSame
<1>9. KernelInv' /\ PathsInv'
  BY <1>4, KernelSame, PathsSame
<1>10. MonitorInv'
  BY <1>4, <1>5, <1>6 DEF MonitorInv, world, backend
<1>11. Live(Objects) # Handles
  BY <1>4, RoomLeft
<1>12. /\ Sound(c, Grip, SeatGrip) /\ Longer(Objects, c) /\ Live(Objects) \subseteq Live(c)
       /\ PlacesInv'
  <2>1. CASE said = "add"
    <3>1. /\ Sound(c, Grip, SeatGrip) /\ Longer(Objects, c) /\ Live(Objects) \subseteq Live(c)
          /\ Apart(n, c)
          /\ \A g \in Listed(c) : c.device[g].node = n => c.device[g].seat = DefaultSeat
          /\ \A g, h \in Listed(c) : c.device[g].node = n /\ c.device[h].node = n => g = h
          /\ node[n].state = "present" => \E h \in Listed(c) : c.device[h].node = n
      BY <1>3, <1>5, <1>6, <1>7, <1>11, <2>1, MessageAdded
    <3>2. Objects' = c /\ device' = c.device
      BY <1>3, <1>8, <3>1, ObjectsSet
    <3>3. node[n].said = "remove" => Waits("remove", n)' \/ \A h \in Listed(c) : c.device[h].node # n
      <4> SUFFICES ASSUME node[n].said = "remove", ~Waits("remove", n)'
                   PROVE  \A h \in Listed(c) : c.device[h].node # n
        OBVIOUS
      <4>1. ~Waits("remove", n) /\ node[n].state = "gone"
        BY <1>7, <2>1 DEF KernelInv
      <4>2. \A h \in Listed(Objects) : device[h].node # n
        BY <1>5, <1>7, <4>1 DEF PlacesInv, Heard
      <4>3. ~Placed(Objects, n, DefaultSeat)
        BY <4>2, ObjectsAre DEF Placed
      <4>4. Enters(Objects, n, DefaultSeat, c)
        <5>1. Sound(Objects, Grip, SeatGrip) /\ DefaultSeat \in Seats /\ node[n].key \in BOOLEAN
          BY <1>7, ContextAssumption DEF ObjectsInv, KernelInv, NodeRecords
        <5> QED BY <1>3, <1>7, <1>11, <2>1, <4>3, <5>1, DeviceAddedSound
      <4>5. Stays(Objects, c) /\ Listed(c) = Listed(Objects)
        BY <4>1, <4>4 DEF Enters
      <4> QED BY <4>2, <4>5, ObjectsAre, Sets DEF Stays
    <3>4. PlacesInv'
      BY <1>4, <1>5, <1>6, <1>7, <3>1, <3>2, <3>3, HeardOne
    <3> QED BY <3>1, <3>4
  <2>2. CASE said = "remove"
    <3>1. /\ Sound(c, Grip, SeatGrip) /\ Stays(Objects, c) /\ Apart(n, c)
          /\ \A g \in Listed(c) : c.device[g].node # n
      BY <1>3, <1>7, <2>2, MessageRemoved
    <3>2. Objects' = c /\ device' = c.device
      BY <1>3, <1>8, <3>1, ObjectsSet
    <3>3. node[n].said = "remove"
      BY <1>6, <1>7, <2>2 DEF MonitorInv
    <3>4. PlacesInv'
      BY <1>4, <1>5, <1>6, <1>7, <3>1, <3>2, <3>3, HeardOne
    <3> QED BY <3>1, <3>4 DEF Stays
  <2> QED BY <1>7, <2>1, <2>2
<1>13. ObjectsInv' /\ Objects' = c /\ QueueStep
  BY <1>3, <1>8, <1>12, Settles
<1>14. PhaseInv'
  BY <1>4, <1>5 DEF PhaseInv
<1>15. BatchInv'
  BY <1>4, <1>12, <1>13 DEF BatchInv
<1> QED BY <1>8, <1>9, <1>10, <1>12, <1>13, <1>14, <1>15

-----------------------------------------------------------------------------
(* The context is resumed, suspended and destroyed.                            *)

\* The monitor listens or not, and has nothing yet.
LEMMA MonitorFresh ==
  ASSUME NEW on \in BOOLEAN, monitor' = [on |-> on, messages |-> <<>>],
         on <=> (backend' = "udev" /\ phase' = "running")
  PROVE  MonitorInv' /\ monitor'.on = on /\ \A said, n : ~Waits(said, n)'
<1>1. /\ monitor' \in [on : BOOLEAN, messages : Seq(Messages)] /\ monitor'.on = on
      /\ monitor'.messages = <<>>
  OBVIOUS
<1>2. ToSet(monitor'.messages) = {}
  BY <1>1 DEF ToSet
<1>3. \A said, n : ~Waits(said, n)'
  BY <1>2 DEF Waits
<1> QED BY <1>1, <1>3 DEF MonitorInv

LEMMA PlacesEmpty ==
  ASSUME NEW c, Objects' = c, Listed(c) = {}, ~monitor'.on
  PROVE  PlacesInv'
<1>1. Listed(Objects)' = {}
  OBVIOUS
<1> QED BY <1>1 DEF PlacesInv, Unique, OnPaths, AtHome, Heard

LEMMA SuspendKeeps ==
  ASSUME ContextInv, Suspend
  PROVE  ContextInv' /\ QueueStep
<1> USE DEF ContextInv
<1>1. PICK order \in SetToSeqs(Listed(Objects)) : Set(RemoveEach(Objects, order))
  BY DEF Suspend
<1>2. PICK c : c = RemoveEach(Objects, order) /\ Set(c)
  BY <1>1
<1>3. /\ batch = {} /\ phase' = "suspended" /\ monitor' = [on |-> FALSE, messages |-> <<>>]
      /\ UNCHANGED <<world, paths, batch, client>>
  BY DEF Suspend, Idle
<1>4. Lists(order, Listed(Objects))
  BY Sets, OrdersList
<1>5. Sound(c, Grip, SeatGrip) /\ Stays(Objects, c) /\ Listed(c) = {}
  <2>1. Sound(Objects, Grip, SeatGrip)
    BY DEF ObjectsInv
  <2>2. Sound(c, Grip, SeatGrip) /\ Unlists(Objects, Listed(Objects), c)
    BY <1>2, <1>4, <2>1, RemoveEachSound
  <2> QED BY <2>2 DEF Unlists
<1>6. ClientInv' /\ Grip' = Grip /\ SeatGrip' = SeatGrip
  BY <1>3, ClientSame
<1>7. ObjectsInv' /\ Objects' = c /\ QueueStep
  BY <1>2, <1>5, <1>6, Settles DEF Stays
<1>8. KernelInv' /\ PathsInv'
  BY <1>3, KernelSame, PathsSame
<1>9. MonitorInv' /\ ~monitor'.on
  <2>1. FALSE <=> (backend' = "udev" /\ phase' = "running")
    BY <1>3
  <2> QED BY <1>3, <2>1, MonitorFresh
<1>10. PhaseInv' /\ BatchInv'
  BY <1>3, <1>5, <1>7 DEF PhaseInv, BatchInv
<1>11. PlacesInv'
  BY <1>5, <1>7, <1>9, PlacesEmpty
<1> QED BY <1>6, <1>7, <1>8, <1>9, <1>10, <1>11

\* The client holds nothing.
LEMMA NothingHeld ==
  ASSUME ClientInv, Held = 0
  PROVE  \A h \in Handles : Grip[h] = 0
<1>1. /\ client \in [event : Handles \cup {None}, devices : SUBSET Handles, seats : SUBSET Seats]
      /\ IsFiniteSet(client.seats) /\ IsFiniteSet(client.devices)
  BY ContextAssumption, FS_Subset DEF ClientInv
<1>2. Cardinality(client.devices) \in Nat /\ Cardinality(client.seats) \in Nat
  BY <1>1, FS_CardinalityType
<1>3. Cardinality(client.devices) = 0 /\ client.event = None
  BY <1>2 DEF Held
<1>4. client.devices = {}
  BY <1>1, <1>3, FS_EmptySet
<1>5. None \notin Handles
  BY ContextAssumption
<1> QED BY <1>3, <1>4, <1>5 DEF Grip

LEMMA CloseKeeps ==
  ASSUME ContextInv, Close
  PROVE  ContextInv' /\ QueueStep
<1> USE DEF ContextInv
<1>1. PICK order \in SetToSeqs(Listed(Objects)) :
        LET c == RemoveEach(Objects, order) IN Set(DestroyEvents(c, Unread(c.ring)))
  BY DEF Close
<1>2. PICK b : b = RemoveEach(Objects, order)
  OBVIOUS
<1>3. PICK c : c = DestroyEvents(b, Told(b)) /\ Set(c)
  BY <1>1, <1>2 DEF Told
<1>4. /\ batch = {} /\ Held = 0 /\ phase' = "closed"
      /\ monitor' = [on |-> FALSE, messages |-> <<>>] /\ paths' = <<>>
      /\ UNCHANGED <<world, batch, client>>
  BY DEF Close, Idle
<1>5. Lists(order, Listed(Objects))
  BY Sets, OrdersList
<1>6. Sound(b, Grip, SeatGrip) /\ Listed(b) = {}
  <2>1. Sound(Objects, Grip, SeatGrip)
    BY DEF ObjectsInv
  <2>2. Sound(b, Grip, SeatGrip) /\ Unlists(Objects, Listed(Objects), b)
    BY <1>2, <1>5, <2>1, RemoveEachSound
  <2> QED BY <2>2 DEF Unlists
<1>7. Sound(c, Grip, SeatGrip) /\ Live(c) = {} /\ Told(c) = <<>>
  BY <1>3, <1>4, <1>6, NothingHeld, DestroyEventsSound
<1>8. Listed(c) = {}
  BY <1>7, Sets
<1>9. ClientInv' /\ Grip' = Grip /\ SeatGrip' = SeatGrip
  BY <1>4, ClientSame
<1>10. ObjectsInv' /\ Objects' = c /\ ring' = c.ring
  BY <1>3, <1>7, <1>9, ObjectsSet
<1>11. KernelInv'
  BY <1>4, KernelSame
<1>12. MonitorInv' /\ ~monitor'.on
  <2>1. FALSE <=> (backend' = "udev" /\ phase' = "running")
    BY <1>4
  <2> QED BY <1>4, <2>1, MonitorFresh
<1>13. PathsInv'
  <2>1. Len(paths') = 0 /\ paths' \in Seq(Nodes)
    BY <1>4
  <2> QED BY <2>1 DEF PathsInv
<1>14. PhaseInv' /\ BatchInv'
  BY <1>4, <1>7, <1>8, <1>10 DEF PhaseInv, BatchInv
<1>15. PlacesInv'
  BY <1>8, <1>10, <1>12, PlacesEmpty
<1>16. QueueStep
  <2>1. Unread(ring)' = <<>>
    BY <1>7, <1>10 DEF Told
  <2> QED BY <2>1 DEF QueueStep, Queue!Next, Queue!Drop
<1> QED BY <1>9, <1>10, <1>11, <1>12, <1>13, <1>14, <1>15, <1>16

\* No more paths than nodes ever came.
LEMMA PathsFew ==
  ASSUME KernelInv, PathsInv
  PROVE  Len(paths) \in Nat /\ Len(paths) <= scene.nodes
<1>1. Len(paths) \in Nat /\ DOMAIN paths = 1..Len(paths)
  BY DEF PathsInv
<1>2. \A i \in 1..Len(paths) : paths[i] \in Nodes
  BY DEF PathsInv
<1>3. \A i \in 1..Len(paths) : paths[i] \in Arrived
  BY <1>2 DEF PathsInv, Arrived
<1>4. paths \in [1..Len(paths) -> Arrived]
  <2>1. paths = [i \in 1..Len(paths) |-> paths[i]]
    BY <1>1 DEF PathsInv
  <2> QED BY <1>3, <2>1
<1>5. paths \in Injection(1..Len(paths), Arrived)
  BY <1>4 DEF PathsInv, Injection, IsInjective
<1>6. Cardinality(1..Len(paths)) <= Cardinality(Arrived)
  BY <1>5, FS_Injection DEF KernelInv
<1>7. Cardinality(1..Len(paths)) = Len(paths)
  <2>1. PICK k : k = Len(paths)
    OBVIOUS
  <2>2. k \in Nat
    BY <1>1, <2>1
  <2>3. IsFiniteSet(1..k) /\ Cardinality(1..k) = k
    BY <2>2, FS_Interval
  <2> QED BY <2>1, <2>3
<1>8. Cardinality(Arrived) \in Nat /\ scene.nodes \in Nat /\ Cardinality(Arrived) <= scene.nodes
  BY FS_CardinalityType, ContextAssumption DEF KernelInv
<1> QED BY <1>1, <1>6, <1>7, <1>8

\* The list has the devices of N, at home.
LEMMA PlacesGathered ==
  ASSUME NEW c, Objects' = c, device' = c.device, NEW N, Gathers(Objects, N, c),
         backend' = "path" => N \subseteq ToSet(paths'),
         \A said, n : ~Waits(said, n)',
         monitor'.on => \A n \in Nodes :
           /\ node'[n].said = "add" /\ node'[n].state = "present" => n \in N
           /\ node'[n].said = "remove" => n \notin N
  PROVE  PlacesInv'
<1>1. /\ \A g \in Listed(c) : c.device[g].node \in N /\ c.device[g].seat = DefaultSeat
      /\ \A n \in N : \E g \in Listed(c) : c.device[g].node = n
      /\ \A g, h \in Listed(c) : c.device[g].node = c.device[h].node => g = h
  BY DEF Gathers
<1>2. Unique' /\ OnPaths' /\ AtHome'
  BY <1>1 DEF Unique, OnPaths, AtHome
<1>3. Heard'
  BY <1>1 DEF Heard
<1> QED BY <1>2, <1>3 DEF PlacesInv

LEMMA ResumeKeeps ==
  ASSUME ContextInv, Resume
  PROVE  ContextInv' /\ QueueStep
<1> USE DEF ContextInv
<1>1. PICK present : present = {n \in Nodes : node[n].state = "present"}
  OBVIOUS
<1>2. PICK order \in SetToSeqs(present), failed \in BOOLEAN :
        /\ failed = (backend = "path" /\ \E n \in ToSet(paths) : node[n].state # "present")
        /\ Set(IF backend = "udev" THEN Enumerate(Objects, order) ELSE PathEnableAll(Objects))
        /\ phase' = IF failed THEN "suspended" ELSE "running"
  BY <1>1 DEF Resume
<1>3. PICK c : /\ c = IF backend = "udev" THEN Enumerate(Objects, order) ELSE PathEnableAll(Objects)
               /\ Set(c)
  BY <1>2
<1>4. /\ batch = {} /\ phase = "suspended" /\ Room(scene.nodes)
      /\ monitor' = [on |-> backend = "udev", messages |-> <<>>]
      /\ UNCHANGED <<world, paths, batch, client>>
  BY DEF Resume, Idle
<1>5. backend' = backend /\ node' = node /\ backend \in {"udev", "path"} /\ scene.nodes \in Nat
  BY <1>4, ContextAssumption DEF world, backend, KernelInv
<1>6. Sound(Objects, Grip, SeatGrip) /\ Listed(Objects) = {}
  BY <1>4 DEF ObjectsInv, PhaseInv
<1>7. \A n \in Nodes : node[n].key \in BOOLEAN
  BY DEF KernelInv, NodeRecords
<1>8. Cardinality(Live(Objects)) + scene.nodes <= Cardinality(Handles)
  BY <1>4, <1>5, RoomLeft
<1>9. Cardinality(Handles) \in Nat /\ Cardinality(Live(Objects)) \in Nat
  BY ContextAssumption, FS_CardinalityType, Sets
<1>10. ClientInv' /\ Grip' = Grip /\ SeatGrip' = SeatGrip
  BY <1>4, ClientSame
<1>11. KernelInv' /\ PathsInv'
  BY <1>4, KernelSame, PathsSame
<1>12. backend = "udev" => phase' = "running"
  BY <1>2
<1>13. MonitorInv' /\ monitor'.on = (backend = "udev") /\ \A said, n : ~Waits(said, n)'
  <2>1. (backend = "udev") <=> (backend' = "udev" /\ phase' = "running")
    BY <1>5, <1>12
  <2>2. (backend = "udev") \in BOOLEAN
    OBVIOUS
  <2> QED BY <1>4, <2>1, <2>2, MonitorFresh
<1>14. /\ Sound(c, Grip, SeatGrip) /\ Longer(Objects, c)
       /\ Listed(c) = {} \/ phase' = "running"
       /\ Objects' = c /\ device' = c.device => PlacesInv'
  <2>1. CASE backend = "udev"
    <3>1. present \subseteq Arrived /\ present \subseteq Nodes
      BY <1>1 DEF Arrived
    <3>2. IsFiniteSet(present) /\ Cardinality(present) <= Cardinality(Arrived)
      BY <3>1, FS_Subset DEF KernelInv
    <3>3. Cardinality(Live(Objects)) + Cardinality(present) <= Cardinality(Handles)
      <4>1. Cardinality(present) \in Nat /\ Cardinality(Arrived) \in Nat
            /\ Cardinality(Arrived) <= scene.nodes
        BY <3>2, FS_CardinalityType DEF KernelInv
      <4> QED BY <1>5, <1>8, <1>9, <3>2, <4>1
    <3>4. Lists(order, present)
      BY <3>2, OrdersList
    <3>5. Sound(c, Grip, SeatGrip) /\ Gathers(Objects, present, c)
      <4>1. \A n \in present : node[n].state = "present"
        BY <1>1
      <4>2. c = Enumerate(Objects, order)
        BY <1>3, <2>1
      <4> QED BY <1>6, <1>7, <3>1, <3>3, <3>4, <4>1, <4>2, EnumerateSound
    <3>6. \A n \in Nodes :
            /\ node'[n].said = "add" /\ node'[n].state = "present" => n \in present
            /\ node'[n].said = "remove" => n \notin present
      BY <1>1, <1>5 DEF KernelInv
    <3>7. Objects' = c /\ device' = c.device => PlacesInv'
      BY <1>5, <1>13, <2>1, <3>5, <3>6, PlacesGathered
    <3> QED BY <1>12, <2>1, <3>5, <3>7 DEF Gathers
  <2>2. CASE backend = "path"
    <3>1. Cardinality(Live(Objects)) + Len(paths) <= Cardinality(Handles)
      BY <1>5, <1>8, <1>9, PathsFew
    <3>2. /\ paths \in Seq(Nodes) /\ \A i, j \in 1..Len(paths) : paths[i] = paths[j] => i = j
      BY DEF PathsInv
    <3>3. c = PathEnableAll(Objects)
      BY <1>3, <2>2
    <3>4. /\ Sound(c, Grip, SeatGrip)
          /\ IF \A n \in ToSet(paths) : node[n].state = "present"
             THEN Gathers(Objects, ToSet(paths), c)
             ELSE Listed(c) = {} /\ Longer(Objects, c)
      BY <1>6, <1>7, <3>1, <3>2, <3>3, PathEnableAllSound
    <3>5. ~monitor'.on /\ paths' = paths
      BY <1>4, <1>13, <2>2
    <3>6. CASE \A n \in ToSet(paths) : node[n].state = "present"
      <4>1. phase' = "running" /\ Gathers(Objects, ToSet(paths), c)
        BY <1>2, <3>4, <3>6
      <4>2. Objects' = c /\ device' = c.device => PlacesInv'
        BY <1>13, <3>5, <4>1, PlacesGathered
      <4> QED BY <3>4, <4>1, <4>2 DEF Gathers
    <3>7. CASE ~\A n \in ToSet(paths) : node[n].state = "present"
      <4>1. Listed(c) = {} /\ Longer(Objects, c)
        BY <3>4, <3>7
      <4>2. Objects' = c => PlacesInv'
        BY <3>5, <4>1, PlacesEmpty
      <4> QED BY <3>4, <4>1, <4>2
    <3> QED BY <3>6, <3>7
  <2> QED BY <1>5, <2>1, <2>2
<1>15. ObjectsInv' /\ Objects' = c /\ device' = c.device /\ QueueStep
  BY <1>3, <1>10, <1>14, Settles
<1>16. PhaseInv'
  BY <1>2, <1>14, <1>15 DEF PhaseInv
<1>17. BatchInv'
  BY <1>4 DEF BatchInv
<1> QED BY <1>10, <1>11, <1>13, <1>14, <1>15, <1>16, <1>17

-----------------------------------------------------------------------------
(* The list of paths.                                                          *)

LEMMA Joined ==
  ASSUME NEW S, NEW a \in Seq(S), NEW b \in Seq(S)
  PROVE  a \o b \in Seq(S) /\ Len(a \o b) = Len(a) + Len(b)
  OBVIOUS

LEMMA EachIn ==
  ASSUME NEW S, NEW q \in Seq(S)
  PROVE  \A i \in 1..Len(q) : q[i] \in ToSet(q)
  BY DEF ToSet

LEMMA RemoveAtIs ==
  ASSUME NEW S, NEW q \in Seq(S), NEW i \in 1..Len(q)
  PROVE  /\ RemoveAt(q, i) \in Seq(S) /\ Len(RemoveAt(q, i)) = Len(q) - 1
         /\ \A j \in 1..(Len(q) - 1) : RemoveAt(q, i)[j] = IF j < i THEN q[j] ELSE q[j + 1]
<1> DEFINE a == SubSeq(q, 1, i - 1)
           b == SubSeq(q, i + 1, Len(q))
<1>1. Len(q) \in Nat /\ i \in Nat /\ 1 <= i /\ i <= Len(q)
  OBVIOUS
<1>2. a \in Seq(S) /\ Len(a) = i - 1 /\ \A j \in 1..(i - 1) : a[j] = q[j]
  BY <1>1
<1>3. b \in Seq(S) /\ Len(b) = Len(q) - i /\ \A j \in 1..(Len(q) - i) : b[j] = q[i + j]
  BY <1>1
<1>4. RemoveAt(q, i) = a \o b
  BY DEF RemoveAt
<1> HIDE DEF a, b
<1>5. a \o b \in Seq(S) /\ Len(a \o b) = Len(q) - 1
  <2>1. a \o b \in Seq(S) /\ Len(a \o b) = Len(a) + Len(b)
    BY <1>2, <1>3, Joined
  <2>2. (i - 1) + (Len(q) - i) = Len(q) - 1
    BY <1>1
  <2> QED BY <1>2, <1>3, <2>1, <2>2
<1>6. ASSUME NEW j \in 1..(Len(q) - 1)
      PROVE  (a \o b)[j] = IF j < i THEN q[j] ELSE q[j + 1]
  <2>1. (a \o b)[j] = IF j <= Len(a) THEN a[j] ELSE b[j - Len(a)]
    BY <1>1, <1>2, <1>3
  <2>2. CASE j < i
    BY <1>1, <1>2, <2>1, <2>2
  <2>3. CASE ~(j < i)
    <3>1. j - (i - 1) \in 1..(Len(q) - i) /\ i + (j - (i - 1)) = j + 1 /\ ~(j <= i - 1)
      BY <1>1, <2>3
    <3>2. b[j - (i - 1)] = q[j + 1]
      BY <1>3, <3>1
    <3> QED BY <1>2, <2>1, <2>3, <3>1, <3>2
  <2> QED BY <2>2, <2>3
<1> QED BY <1>4, <1>5, <1>6

\* Each element once.
Distinct(q) == \A i, j \in 1..Len(q) : q[i] = q[j] => i = j

LEMMA PathDroppedIs ==
  ASSUME paths \in Seq(Nodes), Distinct(paths), NEW n
  PROVE  /\ PathDropped(n) \in Seq(Nodes) /\ Distinct(PathDropped(n))
         /\ ToSet(PathDropped(n)) = ToSet(paths) \ {n}
<1>1. DOMAIN paths = 1..Len(paths) /\ Len(paths) \in Nat
  OBVIOUS
<1>2. CASE n \notin ToSet(paths)
  BY <1>2 DEF PathDropped
<1>3. CASE n \in ToSet(paths)
  <2>1. PICK i : i = CHOOSE k \in DOMAIN paths : paths[k] = n
    OBVIOUS
  <2>2. i \in 1..Len(paths) /\ paths[i] = n
    BY <1>1, <1>3, <2>1 DEF ToSet
  <2>3. PICK r : r = RemoveAt(paths, i)
    OBVIOUS
  <2>4. PathDropped(n) = r
    BY <1>3, <2>1, <2>3 DEF PathDropped
  <2>5. /\ r \in Seq(Nodes) /\ Len(r) = Len(paths) - 1
        /\ \A j \in 1..(Len(paths) - 1) : r[j] = IF j < i THEN paths[j] ELSE paths[j + 1]
    BY <2>2, <2>3, RemoveAtIs
  <2>6. DOMAIN r = 1..(Len(paths) - 1)
    BY <2>5
  <2>7. Distinct(r)
    <3> SUFFICES ASSUME NEW j \in 1..(Len(paths) - 1), NEW k \in 1..(Len(paths) - 1), r[j] = r[k]
                 PROVE  j = k
      BY <2>5 DEF Distinct
    <3> DEFINE at(x) == IF x < i THEN x ELSE x + 1
    <3>1. at(j) \in 1..Len(paths) /\ at(k) \in 1..Len(paths)
      BY <1>1, <2>2
    <3>2. r[j] = paths[at(j)] /\ r[k] = paths[at(k)]
      BY <2>5
    <3> HIDE DEF at
    <3>3. at(j) = at(k)
      BY <3>1, <3>2 DEF Distinct
    <3> QED BY <1>1, <2>2, <3>3 DEF at
  <2>8. ToSet(r) \subseteq ToSet(paths) \ {n}
    <3> SUFFICES ASSUME NEW j \in 1..(Len(paths) - 1) PROVE r[j] \in ToSet(paths) \ {n}
      BY <2>6 DEF ToSet
    <3> DEFINE k == IF j < i THEN j ELSE j + 1
    <3>1. k \in 1..Len(paths) /\ k # i
      BY <1>1, <2>2
    <3>2. r[j] = paths[k]
      BY <2>5
    <3> HIDE DEF k
    <3> QED BY <1>1, <2>2, <3>1, <3>2 DEF Distinct, ToSet
  <2>9. ToSet(paths) \ {n} \subseteq ToSet(r)
    <3> SUFFICES ASSUME NEW k \in 1..Len(paths), paths[k] # n PROVE paths[k] \in ToSet(r)
      BY <1>1 DEF ToSet
    <3>1. k # i
      BY <2>2
    <3>2. CASE k < i
      <4>1. k \in 1..(Len(paths) - 1) /\ r[k] = paths[k]
        BY <1>1, <2>2, <2>5, <3>2
      <4> QED BY <2>6, <4>1 DEF ToSet
    <3>3. CASE k > i
      <4>1. k - 1 \in 1..(Len(paths) - 1) /\ ~(k - 1 < i) /\ (k - 1) + 1 = k
        BY <1>1, <2>2, <3>3
      <4>2. r[k - 1] = paths[k]
        BY <2>5, <4>1
      <4> QED BY <2>6, <4>1, <4>2 DEF ToSet
    <3> QED BY <1>1, <2>2, <3>1, <3>2, <3>3
  <2> QED BY <2>4, <2>5, <2>7, <2>8, <2>9
<1> QED BY <1>2, <1>3

LEMMA PathFirst ==
  ASSUME NEW q \in Seq(Nodes), Distinct(q), NEW n \in Nodes, n \notin ToSet(q)
  PROVE  /\ <<n>> \o q \in Seq(Nodes) /\ Distinct(<<n>> \o q)
         /\ ToSet(<<n>> \o q) = ToSet(q) \cup {n}
<1> DEFINE r == <<n>> \o q
<1>1. /\ Len(q) \in Nat /\ r \in Seq(Nodes) /\ Len(r) = Len(q) + 1 /\ r[1] = n
      /\ \A i \in 1..Len(q) : r[i + 1] = q[i]
  OBVIOUS
<1> HIDE DEF r
<1>2. DOMAIN q = 1..Len(q) /\ DOMAIN r = 1..(Len(q) + 1)
  BY <1>1
<1>3. \A j \in 1..(Len(q) + 1) : j = 1 \/ (j - 1 \in 1..Len(q) /\ r[j] = q[j - 1])
  <2> SUFFICES ASSUME NEW j \in 1..(Len(q) + 1), j # 1
               PROVE  j - 1 \in 1..Len(q) /\ r[j] = q[j - 1]
    OBVIOUS
  <2>1. j - 1 \in 1..Len(q) /\ (j - 1) + 1 = j
    BY <1>1
  <2> QED BY <1>1, <2>1
<1>4. \A i \in 1..Len(q) : q[i] # n
  BY <1>2 DEF ToSet
<1>5. Distinct(r)
  <2> SUFFICES ASSUME NEW i \in 1..(Len(q) + 1), NEW j \in 1..(Len(q) + 1), r[i] = r[j]
               PROVE  i = j
    BY <1>1 DEF Distinct
  <2>1. CASE i = 1 \/ j = 1
    BY <1>1, <1>3, <1>4, <2>1
  <2>2. CASE i # 1 /\ j # 1
    <3>1. i - 1 \in 1..Len(q) /\ j - 1 \in 1..Len(q) /\ q[i - 1] = q[j - 1]
      BY <1>3, <2>2
    <3>2. i - 1 = j - 1
      BY <3>1 DEF Distinct
    <3> QED BY <1>1, <3>2
  <2> QED BY <2>1, <2>2
<1>6. ToSet(r) = ToSet(q) \cup {n}
  <2>1. 1 \in 1..(Len(q) + 1) /\ \A i \in 1..Len(q) : i + 1 \in 1..(Len(q) + 1)
    BY <1>1
  <2>2. ToSet(r) \subseteq ToSet(q) \cup {n}
    <3> SUFFICES ASSUME NEW j \in 1..(Len(q) + 1) PROVE r[j] \in ToSet(q) \cup {n}
      BY <1>2 DEF ToSet
    <3>1. CASE j = 1
      BY <1>1, <3>1
    <3>2. CASE j # 1
      <4>1. j - 1 \in 1..Len(q) /\ r[j] = q[j - 1]
        BY <1>3, <3>2
      <4> QED BY <1>2, <4>1 DEF ToSet
    <3> QED BY <3>1, <3>2
  <2>3. n \in ToSet(r)
    BY <1>1, <1>2, <2>1 DEF ToSet
  <2>4. ToSet(q) \subseteq ToSet(r)
    BY <1>1, <1>2, <2>1 DEF ToSet
  <2> QED BY <2>2, <2>3, <2>4
<1> QED BY <1>1, <1>5, <1>6 DEF r

LEMMA PathsDropped ==
  ASSUME KernelInv, PathsInv, UNCHANGED world, NEW n, paths' = PathDropped(n)
  PROVE  PathsInv' /\ ToSet(paths') = ToSet(paths) \ {n}
<1>1. paths \in Seq(Nodes) /\ Distinct(paths)
  BY DEF PathsInv, Distinct
<1>2. /\ paths' \in Seq(Nodes) /\ Distinct(paths') /\ ToSet(paths') = ToSet(paths) \ {n}
  BY <1>1, PathDroppedIs
<1>3. \A m \in ToSet(paths) : node[m].state # "absent"
  BY <1>1 DEF PathsInv, ToSet
<1>4. \A i \in 1..Len(paths') : paths'[i] \in ToSet(paths')
  BY <1>2, EachIn
<1>5. \A i \in 1..Len(paths') : node'[paths'[i]].state # "absent"
  BY <1>2, <1>3, <1>4 DEF world
<1> QED BY <1>2, <1>5 DEF PathsInv, Distinct

LEMMA PathsFirst ==
  ASSUME KernelInv, PathsInv, UNCHANGED world, NEW n \in Nodes, node[n].state = "present",
         NEW q \in Seq(Nodes), Distinct(q), ToSet(q) = ToSet(paths) \ {n}, paths' = <<n>> \o q
  PROVE  PathsInv' /\ ToSet(paths') = ToSet(paths) \cup {n}
<1>1. paths \in Seq(Nodes)
  BY DEF PathsInv
<1>2. /\ paths' \in Seq(Nodes) /\ Distinct(paths') /\ ToSet(paths') = ToSet(q) \cup {n}
  BY PathFirst
<1>3. \A m \in ToSet(paths) : node[m].state # "absent"
  BY <1>1 DEF PathsInv, ToSet
<1>4. \A i \in 1..Len(paths') : paths'[i] \in ToSet(paths')
  BY <1>2, EachIn
<1>5. \A i \in 1..Len(paths') : node'[paths'[i]].state # "absent"
  BY <1>2, <1>3, <1>4 DEF world
<1> QED BY <1>2, <1>5 DEF PathsInv, Distinct

\* The path backend has changed the devices of one node.
LEMMA PathPlaces ==
  ASSUME PlacesInv, MonitorInv, UNCHANGED <<world, phase, monitor>>, backend = "path",
         NEW c, Objects' = c, device' = c.device, NEW n, Apart(n, c),
         \A g, h \in Listed(c) : c.device[g].node = n /\ c.device[h].node = n => g = h,
         \A m \in ToSet(paths) : m # n => m \in ToSet(paths'),
         \A h \in Listed(c) : c.device[h].node = n => n \in ToSet(paths')
  PROVE  PlacesInv' /\ MonitorInv'
<1>1. backend' = backend /\ ~monitor'.on /\ MonitorInv'
  <2>1. MonitorInv'
    BY MonitorSame
  <2> QED BY <2>1 DEF world, backend, MonitorInv
<1>2. Unique'
  <2> SUFFICES ASSUME NEW g \in Listed(c), NEW h \in Listed(c), c.device[g].node = c.device[h].node
               PROVE  g = h
    BY DEF Unique
  <2>1. CASE c.device[g].node = n
    BY <2>1
  <2>2. CASE c.device[g].node # n
    <3>1. /\ g \in Listed(Objects) /\ h \in Listed(Objects)
          /\ device[g].node = device[h].node
      BY <2>2 DEF Apart
    <3> QED BY <3>1 DEF PlacesInv, Unique
  <2> QED BY <2>1, <2>2
<1>3. OnPaths'
  <2> SUFFICES ASSUME NEW h \in Listed(c) PROVE c.device[h].node \in ToSet(paths')
    BY DEF OnPaths
  <2>1. CASE c.device[h].node = n
    BY <2>1
  <2>2. CASE c.device[h].node # n
    <3>1. h \in Listed(Objects) /\ device[h].node = c.device[h].node
      BY <2>2 DEF Apart
    <3> QED BY <2>2, <3>1 DEF PlacesInv, OnPaths
  <2> QED BY <2>1, <2>2
<1>4. AtHome' /\ Heard'
  BY <1>1 DEF AtHome, Heard
<1> QED BY <1>1, <1>2, <1>3, <1>4 DEF PlacesInv

LEMMA PathAddKeeps ==
  ASSUME ContextInv, NEW n \in Nodes, PathAdd(n)
  PROVE  ContextInv' /\ QueueStep
<1> USE DEF ContextInv
<1>1. PICK c : c = PathEnable(Objects, DefaultSeat, n) /\ Set(c)
  BY DEF PathAdd
<1>2. /\ batch = {} /\ backend = "path" /\ phase = "running" /\ Room(1)
      /\ node[n].state = "present" /\ n \notin ToSet(paths) /\ paths' = <<n>> \o paths
      /\ UNCHANGED <<world, phase, monitor, batch, client>>
  BY DEF PathAdd, Idle
<1>3. Sound(Objects, Grip, SeatGrip) /\ DefaultSeat \in Seats /\ node[n].key \in BOOLEAN
  BY ContextAssumption DEF ObjectsInv, KernelInv, NodeRecords
<1>4. Sound(c, Grip, SeatGrip) /\ Enters(Objects, n, DefaultSeat, c)
  BY <1>1, <1>2, <1>3, RoomLeft, PathEnableSound
<1>5. PICK h : Joins(Objects, n, DefaultSeat, h, c)
  BY <1>2, <1>4 DEF Enters
<1>6. Apart(n, c) /\ Longer(Objects, c)
  BY <1>5, ApartJoins DEF Joins
<1>7. \A g \in Listed(c) : c.device[g].node = n => g = h
  <2>1. \A g \in Listed(Objects) : device[g].node # n
    BY <1>2 DEF PlacesInv, OnPaths
  <2>2. \A g \in Listed(Objects) : c.device[g].node = device[g].node
    BY <1>5, ObjectsAre, Sets DEF Joins
  <2> QED BY <1>5, <2>1, <2>2 DEF Joins
<1>8. ClientInv' /\ Grip' = Grip /\ SeatGrip' = SeatGrip
  BY <1>2, ClientSame
<1>9. ObjectsInv' /\ Objects' = c /\ device' = c.device /\ QueueStep
  BY <1>1, <1>4, <1>6, <1>8, Settles
<1>10. KernelInv'
  BY <1>2, KernelSame
<1>11. PathsInv' /\ ToSet(paths') = ToSet(paths) \cup {n}
  <2>1. paths \in Seq(Nodes) /\ Distinct(paths) /\ ToSet(paths) = ToSet(paths) \ {n}
    BY <1>2 DEF PathsInv, Distinct
  <2> QED BY <1>2, <2>1, PathsFirst
<1>12. PlacesInv' /\ MonitorInv'
  BY <1>2, <1>6, <1>7, <1>9, <1>11, PathPlaces
<1>13. PhaseInv' /\ BatchInv'
  BY <1>2 DEF PhaseInv, BatchInv
<1> QED BY <1>8, <1>9, <1>10, <1>11, <1>12, <1>13

\* Which devices are left when the one that names the node is removed.
LEMMA PathRemovedSound ==
  ASSUME ContextInv, NEW h \in Handles, Current(h), NEW n, n = device[h].node,
         NEW c, c = PathRemoved(Objects, h)
  PROVE  /\ Sound(c, Grip, SeatGrip) /\ Stays(Objects, c)
         /\ Listed(c) = {g \in Listed(Objects) : device[g].node # n}
         /\ n \in Nodes
<1>1. /\ Known(h) /\ \A g \in Listed(Objects) \ {h} : device[g].node # n
  BY DEF Current
<1>2. h \in Live(Objects) /\ n \in Nodes
  BY <1>1, KnownLives, LiveAt DEF ContextInv
<1>3. Sound(Objects, Grip, SeatGrip) /\ Objects.device = device
  BY ObjectsAre DEF ContextInv, ObjectsInv
<1>4. CASE Objects.device[h].removed
  <2>1. c = Objects /\ h \notin Listed(Objects)
    BY <1>4 DEF PathRemoved, Listed
  <2>2. Stays(Objects, Objects)
    BY <1>3, StaysSame
  <2>3. Listed(Objects) = {g \in Listed(Objects) : device[g].node # n}
    BY <1>1, <2>1
  <2> QED BY <1>2, <1>3, <2>1, <2>2, <2>3
<1>5. CASE ~Objects.device[h].removed
  <2>1. c = DeviceRemove(Objects, h) /\ h \in Listed(Objects)
    BY <1>2, <1>5 DEF PathRemoved, Listed
  <2>2. Sound(c, Grip, SeatGrip) /\ Removes(Objects, h, c)
    BY <1>3, <2>1, DeviceRemoveSound
  <2>3. Unlists(Objects, {h}, c)
    BY <2>1, <2>2, RemovesUnlists
  <2>4. Listed(c) = {g \in Listed(Objects) : device[g].node # n}
    BY <1>1, <2>3 DEF Unlists
  <2> QED BY <1>2, <2>2, <2>3, <2>4 DEF Unlists
<1> QED BY <1>4, <1>5

LEMMA PathRemoveKeeps ==
  ASSUME ContextInv, NEW h \in Handles, PathRemove(h)
  PROVE  ContextInv' /\ QueueStep
<1> USE DEF ContextInv
<1>1. PICK c : c = PathRemoved(Objects, h) /\ Set(c)
  BY DEF PathRemove
<1>2. PICK n : n = device[h].node
  OBVIOUS
<1>3. /\ batch = {} /\ backend = "path" /\ Current(h) /\ paths' = PathDropped(n)
      /\ UNCHANGED <<world, phase, monitor, batch, client>>
  BY <1>2 DEF PathRemove, Idle
<1>4. /\ Sound(c, Grip, SeatGrip) /\ Stays(Objects, c)
      /\ Listed(c) = {g \in Listed(Objects) : device[g].node # n}
  BY <1>1, <1>2, <1>3, PathRemovedSound
<1>5. Apart(n, c) /\ \A g \in Listed(c) : c.device[g].node # n
  BY <1>4, ApartListed, ObjectsAre, Sets DEF Stays
<1>6. ClientInv' /\ Grip' = Grip /\ SeatGrip' = SeatGrip
  BY <1>3, ClientSame
<1>7. ObjectsInv' /\ Objects' = c /\ device' = c.device /\ QueueStep
  BY <1>1, <1>4, <1>6, Settles DEF Stays
<1>8. KernelInv'
  BY <1>3, KernelSame
<1>9. PathsInv' /\ ToSet(paths') = ToSet(paths) \ {n}
  BY <1>3, PathsDropped
<1>10. PlacesInv' /\ MonitorInv'
  BY <1>3, <1>5, <1>7, <1>9, PathPlaces
<1>11. PhaseInv' /\ BatchInv'
  BY <1>3, <1>4, <1>7 DEF PhaseInv, BatchInv, Stays
<1> QED BY <1>6, <1>7, <1>8, <1>9, <1>10, <1>11

-----------------------------------------------------------------------------
(* A device is given another seat.                                             *)

\* The devices of a node left the list, and one may have come.
LEMMA Replaced ==
  ASSUME NEW n, NEW s, NEW b, NEW c,
         RingInv(Objects.ring), RingInv(b.ring), RingInv(c.ring), Stays(Objects, b),
         Listed(b) = {g \in Listed(Objects) : device[g].node # n}, Enters(b, n, s, c)
  PROVE  /\ Longer(Objects, c) /\ Live(Objects) \subseteq Live(c) /\ Apart(n, c)
         /\ \A g, h \in Listed(c) : c.device[g].node = n /\ c.device[h].node = n => g = h
         /\ node[n].state = "present" => \E h \in Listed(c) : c.device[h].node = n
         /\ node[n].state # "present" => \A h \in Listed(c) : c.device[h].node # n
<1>1. /\ Len(Told(Objects)) \in Nat /\ Len(Told(b)) \in Nat /\ Len(Told(c)) \in Nat
  BY UnreadAt DEF Told
<1>2. Longer(Objects, b) /\ Live(b) = Live(Objects)
  BY DEF Stays
<1>3. \A g \in Live(Objects) : /\ b.device[g].node = device[g].node
                               /\ b.device[g].seat = device[g].seat
  BY ObjectsAre DEF Stays
<1>4. CASE node[n].state = "present"
  <2>1. PICK h : Joins(b, n, s, h, c)
    BY <1>4 DEF Enters
  <2>2. /\ Live(c) = Live(b) \cup {h} /\ Listed(c) = Listed(b) \cup {h} /\ c.device[h].node = n
        /\ Longer(b, c)
        /\ \A g \in Live(b) : c.device[g].node = b.device[g].node /\ c.device[g].seat = b.device[g].seat
    BY <2>1 DEF Joins
  <2>3. Longer(Objects, c)
    BY <1>1, <1>2, <2>2 DEF Longer
  <2>4. \A g \in Listed(Objects) : /\ c.device[g].node = device[g].node
                                   /\ c.device[g].seat = device[g].seat
    BY <1>2, <1>3, <2>2, Sets
  <2>5. \A g \in Listed(c) : g = h \/ (g \in Listed(Objects) /\ device[g].node # n)
    BY <2>2
  <2>6. Apart(n, c)
    BY <2>2, <2>4, <2>5 DEF Apart
  <2>7. \A g \in Listed(c) : c.device[g].node = n => g = h
    BY <2>4, <2>5
  <2> QED BY <1>2, <1>4, <2>2, <2>3, <2>6, <2>7
<1>5. CASE node[n].state # "present"
  <2>1. Stays(b, c) /\ Listed(c) = Listed(b)
    BY <1>5 DEF Enters
  <2>2. Stays(Objects, c)
    BY <2>1, StaysOn
  <2>3. Apart(n, c)
    BY <2>1, <2>2, ApartListed
  <2>4. \A g \in Listed(c) : c.device[g].node # n
    BY <2>1, <2>2, ObjectsAre, Sets DEF Stays
  <2> QED BY <1>5, <2>2, <2>3, <2>4 DEF Stays
<1> QED BY <1>4, <1>5

LEMMA SetSeatUdev ==
  ASSUME ContextInv, NEW h \in Handles, NEW s \in Seats, SetSeat(h, s), backend = "udev"
  PROVE  ContextInv' /\ QueueStep
<1> USE DEF ContextInv
<1>1. PICK n : n = device[h].node
  OBVIOUS
<1>2. PICK b : b = DeviceRemoved(Objects, n)
  OBVIOUS
<1>3. PICK c : c = DeviceAdded(b, n, s) /\ Set(c)
  BY <1>1, <1>2 DEF SetSeat
<1>4. /\ batch = {} /\ phase = "running" /\ Current(h) /\ Room(1)
      /\ node[n].said # "nothing" /\ ~Waits("add", n)
      /\ UNCHANGED <<world, phase, monitor, paths, batch, client>>
  BY <1>1 DEF SetSeat, Idle, Waits
<1>5. n \in Nodes /\ node[n].key \in BOOLEAN
  <2>1. n \in Nodes
    BY <1>1, <1>4, KnownLives, LiveAt DEF Current
  <2> QED BY <2>1 DEF KernelInv, NodeRecords
<1>6. /\ Sound(b, Grip, SeatGrip) /\ Stays(Objects, b)
      /\ Listed(b) = {g \in Listed(Objects) : device[g].node # n}
      /\ \A g \in Listed(b) : b.device[g].node # n
  BY <1>2, <1>5, MessageRemoved
<1>7. Live(b) # Handles
  BY <1>4, <1>6, RoomLeft DEF Stays
<1>8. ~Placed(b, n, s)
  BY <1>6 DEF Placed
<1>9. Sound(c, Grip, SeatGrip) /\ Enters(b, n, s, c)
  BY <1>3, <1>5, <1>6, <1>7, <1>8, DeviceAddedSound
<1>10. RingInv(Objects.ring) /\ RingInv(b.ring) /\ RingInv(c.ring)
  BY <1>6, <1>9, SoundRing DEF ObjectsInv
<1>11. /\ Longer(Objects, c) /\ Live(Objects) \subseteq Live(c) /\ Apart(n, c)
       /\ \A g, k \in Listed(c) : c.device[g].node = n /\ c.device[k].node = n => g = k
       /\ node[n].state = "present" => \E k \in Listed(c) : c.device[k].node = n
       /\ node[n].state # "present" => \A k \in Listed(c) : c.device[k].node # n
  BY <1>6, <1>9, <1>10, Replaced
<1>12. ClientInv' /\ Grip' = Grip /\ SeatGrip' = SeatGrip
  BY <1>4, ClientSame
<1>13. ObjectsInv' /\ Objects' = c /\ device' = c.device /\ QueueStep
  BY <1>3, <1>9, <1>11, <1>12, Settles
<1>14. KernelInv' /\ PathsInv' /\ MonitorInv' /\ \A said, m : Waits(said, m)' <=> Waits(said, m)
  BY <1>4, KernelSame, PathsSame, MonitorSame
<1>15. monitor'.on = monitor.on /\ monitor.on
  BY <1>4 DEF MonitorInv
<1>16. node[n].said = "remove" => node[n].state # "present"
  BY <1>5 DEF KernelInv
<1>17. /\ ~Waits("add", n)' /\ (\A said, m : Waits(said, m)' => Waits(said, m))
       /\ \A said, m : Waits(said, m) => Waits(said, m)' \/ m = n
  BY <1>4, <1>14
<1>18. PlacesInv'
  BY <1>4, <1>5, <1>11, <1>13, <1>15, <1>16, <1>17, HeardOne
<1>19. PhaseInv' /\ BatchInv'
  BY <1>4 DEF PhaseInv, BatchInv
<1> QED BY <1>12, <1>13, <1>14, <1>18, <1>19

LEMMA SetSeatPath ==
  ASSUME ContextInv, NEW h \in Handles, NEW s \in Seats, SetSeat(h, s), backend = "path"
  PROVE  ContextInv' /\ QueueStep
<1> USE DEF ContextInv
<1>1. PICK n : n = device[h].node
  OBVIOUS
<1>2. PICK b : b = PathRemoved(Objects, h)
  OBVIOUS
<1>3. PICK rest : rest = PathDropped(n)
  OBVIOUS
<1>4. PICK c : c = PathEnable(b, s, n) /\ Set(c)
  BY <1>1, <1>2 DEF SetSeat
<1>5. /\ batch = {} /\ phase = "running" /\ Current(h) /\ Room(1)
      /\ paths' = IF node[n].state = "present" THEN <<n>> \o rest ELSE rest
      /\ UNCHANGED <<world, phase, monitor, batch, client>>
  BY <1>1, <1>3 DEF SetSeat, Idle
<1>6. /\ Sound(b, Grip, SeatGrip) /\ Stays(Objects, b) /\ n \in Nodes
      /\ Listed(b) = {g \in Listed(Objects) : device[g].node # n}
  BY <1>1, <1>2, <1>5, PathRemovedSound
<1>7. Live(b) # Handles /\ node[n].key \in BOOLEAN
  BY <1>5, <1>6, RoomLeft DEF Stays, KernelInv, NodeRecords
<1>8. Sound(c, Grip, SeatGrip) /\ Enters(b, n, s, c)
  BY <1>4, <1>6, <1>7, PathEnableSound
<1>9. RingInv(Objects.ring) /\ RingInv(b.ring) /\ RingInv(c.ring)
  BY <1>6, <1>8, SoundRing DEF ObjectsInv
<1>10. /\ Longer(Objects, c) /\ Live(Objects) \subseteq Live(c) /\ Apart(n, c)
       /\ \A g, k \in Listed(c) : c.device[g].node = n /\ c.device[k].node = n => g = k
       /\ node[n].state # "present" => \A k \in Listed(c) : c.device[k].node # n
  BY <1>6, <1>8, <1>9, Replaced
<1>11. ClientInv' /\ Grip' = Grip /\ SeatGrip' = SeatGrip
  BY <1>5, ClientSame
<1>12. ObjectsInv' /\ Objects' = c /\ device' = c.device /\ QueueStep
  BY <1>4, <1>8, <1>10, <1>11, Settles
<1>13. KernelInv'
  BY <1>5, KernelSame
<1>14. /\ PathsInv' /\ \A m \in ToSet(paths) : m # n => m \in ToSet(paths')
       /\ node[n].state = "present" => n \in ToSet(paths')
  <2>1. CASE node[n].state = "present"
    <3>1. paths \in Seq(Nodes) /\ Distinct(paths)
      BY DEF PathsInv, Distinct
    <3>2. rest \in Seq(Nodes) /\ Distinct(rest) /\ ToSet(rest) = ToSet(paths) \ {n}
      BY <1>3, <3>1, PathDroppedIs
    <3>3. paths' = <<n>> \o rest
      BY <1>5, <2>1
    <3>4. PathsInv' /\ ToSet(paths') = ToSet(paths) \cup {n}
      BY <1>5, <1>6, <2>1, <3>2, <3>3, PathsFirst
    <3> QED BY <3>4
  <2>2. CASE node[n].state # "present"
    <3>1. paths' = PathDropped(n)
      BY <1>3, <1>5, <2>2
    <3>2. PathsInv' /\ ToSet(paths') = ToSet(paths) \ {n}
      BY <1>5, <3>1, PathsDropped
    <3> QED BY <2>2, <3>2
  <2> QED BY <2>1, <2>2
<1>15. \A k \in Listed(c) : c.device[k].node = n => n \in ToSet(paths')
  BY <1>10, <1>14
<1>16. PlacesInv' /\ MonitorInv'
  BY <1>5, <1>10, <1>12, <1>14, <1>15, PathPlaces
<1>17. PhaseInv' /\ BatchInv'
  BY <1>5 DEF PhaseInv, BatchInv
<1> QED BY <1>11, <1>12, <1>13, <1>14, <1>16, <1>17

LEMMA SetSeatKeeps ==
  ASSUME ContextInv, NEW h \in Handles, NEW s \in Seats, SetSeat(h, s)
  PROVE  ContextInv' /\ QueueStep
<1>1. backend \in {"udev", "path"}
  BY ContextAssumption DEF ContextInv, KernelInv, backend
<1> QED BY <1>1, SetSeatUdev, SetSeatPath

-----------------------------------------------------------------------------
(* Every step.                                                                 *)

LEMMA StutterKeeps ==
  ASSUME ContextInv, UNCHANGED vars
  PROVE  ContextInv' /\ QueueStep
<1> USE DEF ContextInv
<1>1. UNCHANGED <<scene, phase, monitor, paths, batch, client, objects>> /\ node' = node
  BY DEF vars
<1>2. /\ ClientInv' /\ ObjectsInv' /\ PhaseInv' /\ BatchInv' /\ QueueStep
      /\ Objects' = Objects /\ device' = device /\ backend' = backend
      /\ \A said, m : Waits(said, m)' <=> Waits(said, m)
  BY <1>1, WorldParts
<1>3. UNCHANGED world /\ UNCHANGED <<world, monitor, phase>> /\ UNCHANGED <<world, paths>>
  BY <1>1 DEF world
<1>4. KernelInv' /\ MonitorInv' /\ PathsInv'
  BY <1>3, KernelSame, MonitorSame, PathsSame
<1>5. PlacesInv'
  <2>1. Objects.device = device
    BY ObjectsAre
  <2> QED BY <1>1, <1>2, <1>3, <2>1, PlacesKept
<1> QED BY <1>2, <1>4, <1>5

LEMMA ContextStep ==
  ASSUME ContextInv, [Next]_vars
  PROVE  ContextInv' /\ QueueStep
<1>1. ASSUME NEW n \in Nodes, World(n) \/ PathAdd(n) PROVE ContextInv' /\ QueueStep
  BY <1>1, PlugKeeps, UnplugKeeps, ToggleKeyKeeps, AnnounceKeeps, PathAddKeeps DEF World
<1>2. CASE Dispatch
  BY <1>2, DispatchKeeps
<1>3. CASE HandleMonitor
  BY <1>3, HandleMonitorKeeps
<1>4. CASE GetNext
  BY <1>4, GetNextKeeps
<1>5. CASE DestroyEvent
  BY <1>5, DestroyEventKeeps
<1>6. CASE Resume
  BY <1>6, ResumeKeeps
<1>7. CASE Suspend
  BY <1>7, SuspendKeeps
<1>8. CASE Close
  BY <1>8, CloseKeeps
<1>9. ASSUME NEW h \in Handles, HandleDevice(h) \/ Hold(h) \/ Configure(h) \/ PathRemove(h)
      PROVE  ContextInv' /\ QueueStep
  <2>1. CASE HandleDevice(h)
    BY <2>1, HandleDeviceKeeps
  <2>2. CASE Hold(h)
    BY <2>2, RefDeviceKeeps, UnrefDeviceKeeps, RefSeatKeeps DEF Hold
  <2>3. CASE Configure(h)
    BY <2>3, DisableKeeps, EnableKeeps, SetSeatKeeps DEF Configure
  <2>4. CASE PathRemove(h)
    BY <2>4, PathRemoveKeeps
  <2> QED BY <1>9, <2>1, <2>2, <2>3, <2>4
<1>10. ASSUME NEW s \in Seats, UnrefSeat(s) PROVE ContextInv' /\ QueueStep
  BY <1>10, UnrefSeatKeeps
<1>11. CASE UNCHANGED vars
  BY <1>11, StutterKeeps
<1> QED BY <1>1, <1>2, <1>3, <1>4, <1>5, <1>6, <1>7, <1>8, <1>9, <1>10, <1>11 DEF Next

LEMMA NothingCounts ==
  ASSUME NEW c, c.ring = InitialRing, c.device = [h \in Handles |-> NoDevice],
         c.seat = [s \in Seats |-> NoSeat], c.group = 0, c.shown = [h \in Handles |-> "none"],
         c = [ring |-> c.ring, device |-> c.device, seat |-> c.seat, group |-> c.group,
              shown |-> c.shown],
         NEW grip \in [Handles -> Nat], \A h \in Handles : grip[h] = 0,
         NEW keep \in [Seats -> Nat], \A s \in Seats : keep[s] = 0
  PROVE  Sound(c, grip, keep) /\ Live(c) = {}
<1>1. RingInv(c.ring) /\ Told(c) = <<>>
  BY InitialRingInv DEF Told
<1>2. c.ring \in Rings
  BY <1>1 DEF RingInv
<1>3. NoDevice \in Devices /\ NoSeat \in [refs : Nat, count : Nat] /\ NoDevice.refs = 0
  BY DEF NoDevice, NoSeat, Devices, None
<1>4. c \in Contexts
  BY <1>2, <1>3 DEF Contexts
<1>5. Live(c) = {}
  BY <1>3 DEF Live
<1>6. \A h \in Handles : Owed(c, grip)[h] = 0
  <2> SUFFICES ASSUME NEW h \in Handles PROVE Cardinality(Queued(Told(c), h)) + grip[h] = 0
    BY DEF Owed
  <2>1. Queued(Told(c), h) = {}
    BY <1>1 DEF Queued
  <2> QED BY <2>1, FS_EmptySet
<1>7. Owed(c, grip) \in [Handles -> Nat]
  BY <1>1, OwedType
<1>8. \A h \in Handles : Fits(c.device[h], c.shown[h], Owed(c, grip)[h])
  BY <1>6 DEF Fits
<1>9. \A s \in Seats : SeatFits(c, s, keep[s])
  <2> SUFFICES ASSUME NEW s \in Seats PROVE SeatFits(c, s, keep[s])
    OBVIOUS
  <2>1. On(c, s) = {} /\ Down(c, s) = {}
    BY <1>5 DEF On, Down
  <2>2. c.seat[s].refs = 0 /\ c.seat[s].count = 0
    BY DEF NoSeat
  <2> QED BY <2>1, <2>2, FS_EmptySet DEF SeatFits
<1>10. Counts(c, Owed(c, grip), keep)
  BY <1>4, <1>5, <1>7, <1>8, <1>9, FS_EmptySet DEF Counts
<1>11. \A i \in 1..Len(Told(c)) : Told(c)[i].device \in Handles
  BY <1>1
<1> QED BY <1>1, <1>5, <1>10, <1>11 DEF Sound

LEMMA ContextInit ==
  ASSUME Init
  PROVE  ContextInv /\ Unread(ring) = <<>>
<1> USE DEF Init
<1>1. ClientInv /\ client.event = None /\ client.devices = {} /\ client.seats = {}
  BY FS_EmptySet DEF ClientInv
<1>2. /\ Grip \in [Handles -> Nat] /\ SeatGrip \in [Seats -> Nat]
      /\ (\A h \in Handles : Grip[h] = 0) /\ \A s \in Seats : SeatGrip[s] = 0
  BY <1>1, ContextAssumption DEF Grip, SeatGrip
<1>3. Sound(Objects, Grip, SeatGrip) /\ Live(Objects) = {}
  <2>1. PICK c : c = Objects
    OBVIOUS
  <2>2. /\ c.ring = InitialRing /\ c.device = [h \in Handles |-> NoDevice]
        /\ c.seat = [s \in Seats |-> NoSeat] /\ c.group = 0
        /\ c.shown = [h \in Handles |-> "none"]
    BY <2>1, ObjectsAre
  <2>3. c = [ring |-> c.ring, device |-> c.device, seat |-> c.seat, group |-> c.group,
             shown |-> c.shown]
    BY <2>1, ObjectsAre DEF Objects
  <2>4. Sound(c, Grip, SeatGrip) /\ Live(c) = {}
    BY <1>2, <2>2, <2>3, NothingCounts
  <2> QED BY <2>1, <2>4
<1>4. Listed(Objects) = {}
  BY <1>3, Sets
<1>5. KernelInv
  <2>1. scene \in Scenes /\ scene.nodes \in Nat
    BY ContextAssumption
  <2>2. Arrived = {}
    BY DEF Arrived
  <2>3. node \in [Nodes -> NodeRecords]
    BY DEF NodeRecords
  <2> QED BY <2>1, <2>2, <2>3, FS_EmptySet DEF KernelInv
<1>6. MonitorInv
  <2>1. /\ monitor \in [on : BOOLEAN, messages : Seq(Messages)] /\ monitor.messages = <<>>
        /\ monitor.on = FALSE
    OBVIOUS
  <2>2. \A said, n : ~Waits(said, n)
    BY <2>1 DEF Waits, ToSet
  <2> QED BY <2>1, <2>2 DEF MonitorInv
<1>7. PathsInv
  <2>1. paths \in Seq(Nodes) /\ Len(paths) = 0
    OBVIOUS
  <2> QED BY <2>1 DEF PathsInv
<1>8. PhaseInv /\ BatchInv
  BY <1>3, <1>4 DEF PhaseInv, BatchInv
<1>9. PlacesInv
  BY <1>4 DEF PlacesInv, Unique, OnPaths, AtHome, Heard
<1>10. Unread(ring) = <<>>
  BY InitialRingInv
<1> QED BY <1>1, <1>3, <1>5, <1>6, <1>7, <1>8, <1>9, <1>10 DEF ContextInv, ObjectsInv

\* Every reference is counted and every device is in its place, in every state
\* of a context (libinput.c, udev-seat.c, path-seat.c).
THEOREM ContextInvariance == Spec => []ContextInv
<1>1. Init => ContextInv
  BY ContextInit
<1>2. ContextInv /\ [Next]_vars => ContextInv'
  BY ContextStep
<1> QED BY <1>1, <1>2, PTL DEF Spec

\* Whatever adds and removes the devices, the client reads the events in the
\* order in which they were posted, and each once (libinput_post_event,
\* libinput_get_event, libinput_unref).
THEOREM EventsInOrder == Spec => InOrder
<1>1. Init => Queue!Init
  BY ContextInit DEF Queue!Init
<1>2. ContextInv /\ [Next]_vars => [Queue!Next]_(Unread(ring))
  BY ContextStep DEF QueueStep
<1> QED BY <1>1, <1>2, ContextInvariance, PTL DEF Spec, InOrder, Queue!Spec

-----------------------------------------------------------------------------
(* What it says.                                                               *)

\* One more if it is one of them.
LEMMA OneIf ==
  ASSUME NEW S, IsFiniteSet(S), NEW x, x \notin S, NEW P \in BOOLEAN
  PROVE  LET T == IF P THEN S \cup {x} ELSE S
         IN  IsFiniteSet(T) /\ Cardinality(T) = Cardinality(S) + (IF P THEN 1 ELSE 0)
<1>1. Cardinality(S) \in Nat
  BY FS_CardinalityType
<1>2. IsFiniteSet(S \cup {x}) /\ Cardinality(S \cup {x}) = Cardinality(S) + 1
  BY FS_AddElement
<1> QED BY <1>1, <1>2

LEMMA HoldersCounted ==
  ASSUME NEW P \in BOOLEAN, NEW Q \in BOOLEAN, NEW R \in BOOLEAN
  PROVE  Cardinality({holder \in {"list", "event", "client"} :
                        CASE holder = "list" -> P
                          [] holder = "event" -> Q
                          [] holder = "client" -> R}) =
           (IF P THEN 1 ELSE 0) + (IF Q THEN 1 ELSE 0) + (IF R THEN 1 ELSE 0)
<1> DEFINE A == IF P THEN {} \cup {"list"} ELSE {}
           B == IF Q THEN A \cup {"event"} ELSE A
           C == IF R THEN B \cup {"client"} ELSE B
<1>1. IsFiniteSet(A) /\ Cardinality(A) = (IF P THEN 1 ELSE 0)
  <2>1. IsFiniteSet({}) /\ Cardinality({}) = 0
    BY FS_EmptySet
  <2>2. IsFiniteSet(A) /\ Cardinality(A) = Cardinality({}) + (IF P THEN 1 ELSE 0)
    BY <2>1, OneIf
  <2> HIDE DEF A
  <2> QED BY <2>1, <2>2
<1>2. "event" \notin A /\ "client" \notin A /\ A = {x \in {"list"} : P}
  OBVIOUS
<1> HIDE DEF A
<1>3. IsFiniteSet(B) /\ Cardinality(B) = Cardinality(A) + (IF Q THEN 1 ELSE 0)
  BY <1>1, <1>2, OneIf
<1>4. "client" \notin B /\ B = A \cup {x \in {"event"} : Q}
  BY <1>2
<1> HIDE DEF B
<1>5. IsFiniteSet(C) /\ Cardinality(C) = Cardinality(B) + (IF R THEN 1 ELSE 0)
  BY <1>3, <1>4, OneIf
<1>6. C = B \cup {x \in {"client"} : R}
  OBVIOUS
<1> HIDE DEF C
<1>7. C = {holder \in {"list", "event", "client"} :
             CASE holder = "list" -> P
               [] holder = "event" -> Q
               [] holder = "client" -> R}
  <2>1. C = {x \in {"list"} : P} \cup {x \in {"event"} : Q} \cup {x \in {"client"} : R}
    BY <1>2, <1>4, <1>6
  <2> QED BY <2>1
<1> QED BY <1>1, <1>3, <1>5, <1>7

LEMMA RefsCountedFollows ==
  ASSUME ContextInv
  PROVE  RefsCounted
<1>1. /\ Sound(Objects, Grip, SeatGrip) /\ RingInv(ring) /\ Told(Objects) = Unread(ring)
      /\ Counts(Objects, Owed(Objects, Grip), SeatGrip)
  BY ObjectsAre, SoundRing DEF ContextInv, ObjectsInv, Told
<1>2. ASSUME NEW h \in Handles
      PROVE  device[h].refs = Cardinality(Queued(Unread(ring), h)) +
               ((IF h \in Listed(Objects) THEN 1 ELSE 0) + (IF h = client.event THEN 1 ELSE 0) +
                (IF h \in client.devices THEN 1 ELSE 0))
  <2> DEFINE queued == Cardinality(Queued(Unread(ring), h))
             owed == Owed(Objects, Grip)[h]
  <2>1. queued \in Nat
    BY <1>1, UnreadAt, QueuedFinite
  <2>2. owed = queued + ((IF h = client.event THEN 1 ELSE 0) +
                         (IF h \in client.devices THEN 1 ELSE 0))
    BY <1>1 DEF Owed, Grip
  <2> HIDE DEF queued, owed
  <2>3. device[h].refs = owed + (IF h \in Listed(Objects) THEN 1 ELSE 0)
    <3>1. CASE h \in Live(Objects)
      <4>1. device[h].refs = owed + (IF device[h].removed THEN 0 ELSE 1)
        BY <1>1, <3>1, LiveFits, ObjectsAre DEF owed
      <4>2. h \in Listed(Objects) <=> ~device[h].removed
        BY <3>1, ObjectsAre DEF Listed
      <4> QED BY <4>1, <4>2
    <3>2. CASE h \notin Live(Objects)
      <4>1. device[h] = NoDevice /\ owed = 0
        BY <1>1, <3>2, DeadFits, ObjectsAre DEF owed
      <4>2. h \notin Listed(Objects)
        BY <3>2, Sets
      <4> QED BY <4>1, <4>2 DEF NoDevice
    <3> QED BY <3>1, <3>2
  <2>4. device[h].refs = queued + ((IF h \in Listed(Objects) THEN 1 ELSE 0) +
          (IF h = client.event THEN 1 ELSE 0) + (IF h \in client.devices THEN 1 ELSE 0))
    BY <2>1, <2>2, <2>3
  <2> QED BY <2>4 DEF queued
<1>3. ASSUME NEW h \in Handles
      PROVE  device[h].refs = Cardinality({i \in DOMAIN Unread(ring) : Unread(ring)[i].device = h}) +
               Cardinality({holder \in {"list", "event", "client"} :
                 CASE holder = "list" -> h \in Listed(Objects)
                   [] holder = "event" -> h = client.event
                   [] holder = "client" -> h \in client.devices})
  <2>1. PICK P \in BOOLEAN, Q \in BOOLEAN, R \in BOOLEAN :
          /\ P <=> h \in Listed(Objects)
          /\ Q <=> h = client.event
          /\ R <=> h \in client.devices
    OBVIOUS
  <2>2. {holder \in {"list", "event", "client"} :
           CASE holder = "list" -> h \in Listed(Objects)
             [] holder = "event" -> h = client.event
             [] holder = "client" -> h \in client.devices} =
        {holder \in {"list", "event", "client"} :
           CASE holder = "list" -> P
             [] holder = "event" -> Q
             [] holder = "client" -> R}
    BY <2>1
  <2>3. Cardinality({holder \in {"list", "event", "client"} :
           CASE holder = "list" -> P
             [] holder = "event" -> Q
             [] holder = "client" -> R}) =
          (IF P THEN 1 ELSE 0) + (IF Q THEN 1 ELSE 0) + (IF R THEN 1 ELSE 0)
    BY HoldersCounted
  <2>4. device[h].refs = Cardinality(Queued(Unread(ring), h)) +
          ((IF P THEN 1 ELSE 0) + (IF Q THEN 1 ELSE 0) + (IF R THEN 1 ELSE 0))
    BY <1>2, <2>1
  <2> QED BY <2>2, <2>3, <2>4 DEF Queued
<1>4. ASSUME NEW s \in Seats
      PROVE  seat[s].refs = Cardinality({h \in Live(Objects) : device[h].seat = s}) +
                            Cardinality(client.seats \cap {s})
  <2>1. seat[s].refs = Cardinality(On(Objects, s)) + SeatGrip[s]
    BY <1>1, ObjectsAre DEF Counts, SeatFits
  <2>2. On(Objects, s) = {h \in Live(Objects) : device[h].seat = s}
    BY ObjectsAre DEF On
  <2>3. Cardinality(client.seats \cap {s}) = SeatGrip[s]
    <3>1. CASE s \in client.seats
      <4>1. client.seats \cap {s} = {s}
        BY <3>1
      <4> QED BY <3>1, <4>1, FS_Singleton DEF SeatGrip
    <3>2. CASE s \notin client.seats
      <4>1. client.seats \cap {s} = {}
        BY <3>2
      <4> QED BY <3>2, <4>1, FS_EmptySet DEF SeatGrip
    <3> QED BY <3>1, <3>2
  <2> QED BY <2>1, <2>2, <2>3
<1>5. group = Cardinality(Live(Objects))
  BY <1>1, ObjectsAre DEF Counts
<1>6. /\ batch \subseteq Live(Objects) \cup {Monitor}
      /\ phase = "closed" => Live(Objects) = {}
  BY DEF ContextInv, BatchInv, PhaseInv
<1> QED BY <1>3, <1>4, <1>5, <1>6 DEF RefsCounted

LEMMA EventsWellFormedFollows ==
  ASSUME ContextInv
  PROVE  EventsWellFormed
<1>1. Counts(Objects, Owed(Objects, Grip), SeatGrip)
  BY SoundRing DEF ContextInv, ObjectsInv
<1>2. ASSUME NEW h \in Handles
      PROVE  /\ shown[h] # "wrong"
             /\ h \in Live(Objects) => (device[h].removed <=> shown[h] = "removed")
             /\ device[h].open => h \in Listed(Objects)
  <2>1. CASE h \in Live(Objects)
    <3>1. /\ shown[h] \in {"up", "down", "removed"} /\ (device[h].removed <=> shown[h] = "removed")
          /\ (device[h].open => ~device[h].removed)
      BY <1>1, <2>1, LiveFits, ObjectsAre
    <3> QED BY <2>1, <3>1, ObjectsAre DEF Listed
  <2>2. CASE h \notin Live(Objects)
    <3>1. device[h] = NoDevice /\ shown[h] = "none"
      BY <1>1, <2>2, DeadFits, ObjectsAre
    <3> QED BY <2>2, <3>1 DEF NoDevice
  <2> QED BY <2>1, <2>2
<1>3. \A s \in Seats :
        seat[s].count = Cardinality({h \in Handles : device[h].seat = s /\ shown[h] = "down"})
  <2> SUFFICES ASSUME NEW s \in Seats
               PROVE  seat[s].count = Cardinality({h \in Handles : device[h].seat = s /\ shown[h] = "down"})
    OBVIOUS
  <2>1. seat[s].count = Cardinality(Down(Objects, s))
    BY <1>1, ObjectsAre DEF Counts, SeatFits
  <2>2. Down(Objects, s) = {h \in Handles : device[h].seat = s /\ shown[h] = "down"}
    BY ObjectsAre DEF Down
  <2> QED BY <2>1, <2>2
<1>4. Live(Objects) \subseteq Handles
  BY Sets
<1> QED BY <1>2, <1>3, <1>4 DEF EventsWellFormed

LEMMA OneDevicePerNodeFollows ==
  ASSUME ContextInv
  PROVE  OneDevicePerNode
<1> SUFFICES ASSUME NEW n \in Nodes, NEW here, here = {h \in Listed(Objects) : device[h].node = n},
                    NEW settled, settled = (monitor.on /\ monitor.messages = <<>> /\ batch = {})
             PROVE  /\ Cardinality(here) <= 1
                    /\ backend = "path" /\ here # {} => n \in ToSet(paths)
                    /\ settled /\ node[n].said = "add" /\ node[n].state = "present" => here # {}
                    /\ settled /\ node[n].said = "remove" => here = {}
  BY DEF OneDevicePerNode
<1>1. Cardinality(here) <= 1
  <2>1. CASE here = {}
    BY <2>1, FS_EmptySet
  <2>2. CASE here # {}
    <3>1. PICK h : h \in here
      BY <2>2
    <3>2. here = {h}
      BY <3>1 DEF ContextInv, PlacesInv, Unique
    <3>3. Cardinality(here) = 1
      BY <3>2, FS_Singleton
    <3> QED BY <3>3
  <2> QED BY <2>1, <2>2
<1>2. backend = "path" /\ here # {} => n \in ToSet(paths)
  BY DEF ContextInv, PlacesInv, OnPaths
<1>3. ASSUME settled
      PROVE  /\ node[n].said = "add" /\ node[n].state = "present" => here # {}
             /\ node[n].said = "remove" => here = {}
  <2>1. monitor.on /\ monitor.messages = <<>>
    BY <1>3
  <2>2. ToSet(monitor.messages) = {}
    BY <2>1 DEF ToSet
  <2>3. ~Waits("add", n) /\ ~Waits("remove", n)
    BY <2>2 DEF Waits
  <2> QED BY <2>1, <2>3 DEF ContextInv, PlacesInv, Heard
<1> QED BY <1>1, <1>2, <1>3

\* Every object is freed with its last reference and not before, for any
\* devices, seats and calls of the client (libinput_device_unref,
\* libinput_seat_unref).
THEOREM ReferencesCounted == Spec => []RefsCounted
<1>1. ContextInv => RefsCounted
  BY RefsCountedFollows
<1> QED BY <1>1, ContextInvariance, PTL

\* The events of each device say what it does, from its arrival to its removal
\* (evdev_device_remove, update_seat_key_count).
THEOREM EventsAreWellFormed == Spec => []EventsWellFormed
<1>1. ContextInv => EventsWellFormed
  BY EventsWellFormedFollows
<1> QED BY <1>1, ContextInvariance, PTL

\* No node has two devices, and when udev was heard each has the one it should
\* have (device_added, path_input_enable).
THEOREM OneDevicePerNodeHolds == Spec => []OneDevicePerNode
<1>1. ContextInv => OneDevicePerNode
  BY OneDevicePerNodeFollows
<1> QED BY <1>1, ContextInvariance, PTL
==============================================================================
