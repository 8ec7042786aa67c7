------------------------ MODULE TouchpadScrollProofs ------------------------
(***************************************************************************)
(* Proofs about TouchpadScroll, for every touchpad of up to three touches, *)
(* with any points, scroll methods and equipment.                          *)
(*                                                                         *)
(* The invariant ScrollInv says of the record s what holds between two     *)
(* frames (Good): each touch is gone or down, one that is gone has no edge *)
(* to scroll, one that is down has a state of the edge machine, and no     *)
(* timer runs for a touch that already scrolls.  Where EdgeScrollsHaveTouch*)
(* is claimed it also says who scrolls (Posted): a touch with a direction  *)
(* is down, in the one edge that this direction belongs to, under the      *)
(* method of edges, with no pen about; and the axes the client believes to *)
(* be scrolling are directions of touches.                                 *)
(*                                                                         *)
(* Within a frame that does not hold, and the proof follows the frame      *)
(* through its phases: Start as the kernel reports it, Processed and       *)
(* Judged after palms and thumbs, Handled after the edges, Answered after  *)
(* the events are posted, Closes and Ended when the frame is over.  What   *)
(* makes it work is Ready: at the time of posting a touch that is a palm   *)
(* does not begin to scroll, and one that lifts is neither palm nor thumb, *)
(* so that its scroll is not skipped but stopped.                          *)
(***************************************************************************)
EXTENDS TouchpadScroll, FiniteSetTheorems, TLAPS

-----------------------------------------------------------------------------
(* The types in the middle of a frame.                                     *)

Touch == [state : {"none", "begin", "update", "end"}, dirty : BOOLEAN,
          at : [x : 0..Width, y : 0..Height], age : 0..1, fast : 0..2, palm : Palms,
          edge_state : {"none", "edge_new", "edge", "area"}, edge : SUBSET Edges,
          direction : Axes \cup {"none"}, timer : BOOLEAN,
          ring : {"none", "inner", "ring"}, angle : BOOLEAN]
ThumbRecord == [state : Thumbs, index : Touches \cup {Nobody}, eligible : BOOLEAN]
Scroll == [touch : [Touches -> Touch], thumb : ThumbRecord, method : pad.methods,
           arbitration : {"off", "on", "ending"}, scrolling : SUBSET Axes,
           bugs : SUBSET KnownEdgeBugs]

PadOK == pad \in Pads

LEMMA TouchesAre ==
  ASSUME PadOK
  PROVE  pad.touches \in 1..3 /\ Touches \subseteq 1..3 /\ Nobody \notin Touches
  BY ScrollAssumption DEF PadOK, Touches, Nobody

-----------------------------------------------------------------------------
(* Thumbs.  An operator on the thumb leaves everything else alone.         *)

Thumbed(r, u) ==
  /\ u \in Scroll
  /\ u.touch = r.touch /\ u.method = r.method /\ u.arbitration = r.arbitration
  /\ u.scrolling = r.scrolling /\ u.bugs = r.bugs

LEMMA ThumbedIs ==
  ASSUME NEW r \in Scroll, NEW t \in ThumbRecord
  PROVE  Thumbed(r, [r EXCEPT !.thumb = t]) /\ [r EXCEPT !.thumb = t].thumb = t
<1>1. [r EXCEPT !.thumb = t] \in Scroll BY Zenon DEF Scroll
<1>2. QED BY <1>1 DEF Thumbed, Scroll

LEMMA SetThumbIs ==
  ASSUME NEW r \in Scroll, NEW i \in Touches \cup {Nobody}, NEW v \in Thumbs
  PROVE  /\ Thumbed(r, SetThumb(r, i, v))
         /\ SetThumb(r, i, v).thumb.index = i /\ SetThumb(r, i, v).thumb.state = v
<1> DEFINE t == [[r.thumb EXCEPT !.state = v] EXCEPT !.index = i]
<1>1. t \in ThumbRecord BY Zenon DEF Scroll, ThumbRecord
<1>2. t.index = i /\ t.state = v BY DEF Scroll, ThumbRecord
<1>3. SetThumb(r, i, v) = [r EXCEPT !.thumb = t] BY DEF SetThumb, Scroll
<1> HIDE DEF t
<1>4. QED BY <1>1, <1>2, <1>3, ThumbedIs

LEMMA ResetThumbIs ==
  ASSUME NEW r \in Scroll
  PROVE  Thumbed(r, ResetThumb(r)) /\ ResetThumb(r).thumb.index = Nobody
         /\ ResetThumb(r).thumb.state = "finger"
<1> DEFINE t == [state |-> "finger", index |-> Nobody, eligible |-> TRUE]
<1>1. t \in ThumbRecord /\ t.index = Nobody /\ t.state = "finger" BY DEF ThumbRecord, Thumbs
<1>2. ResetThumb(r) = [r EXCEPT !.thumb = t] BY DEF ResetThumb
<1> HIDE DEF t
<1>3. QED BY <1>1, <1>2, ThumbedIs

LEMMA LiftThumbIs ==
  ASSUME NEW r \in Scroll
  PROVE  Thumbed(r, LiftThumb(r)) /\ LiftThumb(r).thumb.index = Nobody
         /\ LiftThumb(r).thumb.state = "finger"
<1>1. LiftThumb(r) = SetThumb(r, Nobody, "finger") BY DEF LiftThumb, SetThumb
<1>2. QED BY <1>1, SetThumbIs DEF Thumbs

\* The thumb is put aside until it is the only finger.
Aside(r, i) == r.thumb.index = i /\ r.thumb.state \in {"pinch", "suppressed"}

\* Of the fingers other than j none becomes an ignored thumb.
Spares(r, u, j) ==
  \A i \in Touches \ {j} : /\ ThumbIgnored(u, i) => ThumbIgnored(r, i)
                           /\ Aside(u, i) => Aside(r, i)

Steers(r, u, j) == Thumbed(r, u) /\ Spares(r, u, j)

LEMMA SteersSet ==
  ASSUME NEW r \in Scroll, NEW j \in Touches, NEW v \in Thumbs
  PROVE  Steers(r, SetThumb(r, j, v), j)
<1> DEFINE u == SetThumb(r, j, v)
<1>1. Thumbed(r, u) /\ u.thumb.index = j BY SetThumbIs
<1> HIDE DEF u
<1>2. Spares(r, u, j) BY <1>1 DEF Spares, ThumbIgnored, IsThumb, Aside
<1>3. QED BY <1>1, <1>2 DEF Steers, u

LEMMA SteersSelf ==
  ASSUME NEW r \in Scroll, NEW j
  PROVE  Steers(r, r, j)
  BY DEF Steers, Spares, Thumbed

LEMMA SteersOn ==
  ASSUME NEW r, NEW u, NEW v, NEW j, Steers(r, u, j), Steers(u, v, j)
  PROVE  Steers(r, v, j)
<1>1. Thumbed(r, v) BY DEF Steers, Thumbed
<1>2. Spares(r, v, j) BY DEF Steers, Spares
<1>3. QED BY <1>1, <1>2 DEF Steers

LEMMA SuppressSteers ==
  ASSUME NEW r \in Scroll, NEW j \in Touches
  PROVE  Steers(r, Suppress(r, j), j)
  BY SteersSet DEF Suppress, Thumbs

LEMMA PinchSteers ==
  ASSUME NEW r \in Scroll, NEW j \in Touches
  PROVE  Steers(r, Pinch(r, j), j)
<1>1. "pinch" \in Thumbs BY DEF Thumbs
<1>2. QED BY <1>1, SteersSet, SuppressSteers, SteersSelf DEF Pinch

LEMMA ReviveSteers ==
  ASSUME NEW r \in Scroll, NEW j \in Touches
  PROVE  Steers(r, Revive(r, j), j) /\ ~Aside(Revive(r, j), j)
<1> DEFINE v == IF NeedsJail(r, j) THEN "revived_jailed" ELSE "revived"
<1>1. v \in Thumbs /\ v \notin {"pinch", "suppressed"} BY DEF Thumbs
<1>2. CASE Aside(r, j)
  <2>1. Revive(r, j) = SetThumb(r, j, v) BY <1>2 DEF Revive, Aside
  <2> HIDE DEF v
  <2>2. QED BY <1>1, <2>1, SteersSet, SetThumbIs DEF Aside
<1>3. CASE ~Aside(r, j)
  <2>1. Revive(r, j) = r BY <1>3 DEF Revive, Aside
  <2>2. QED BY <1>3, <2>1, SteersSelf
<1>4. QED BY <1>2, <1>3

\* A finger that was no thumb stays one that is none.
LEMMA TooFastSteers ==
  ASSUME NEW r \in Scroll, NEW j, NEW calm, NEW k
  PROVE  Steers(r, TooFast(r, j, calm), k) /\ TooFast(r, j, calm).thumb.index = r.thumb.index
         /\ (r.thumb.state = "finger" => TooFast(r, j, calm).thumb.state = "finger")
<1> DEFINE x == IF r.thumb.state = "pinch" /\ r.thumb.index \in Touches THEN "suppressed"
                ELSE r.thumb.state
           t == [[r.thumb EXCEPT !.eligible = FALSE] EXCEPT !.state = x]
           u == [r EXCEPT !.thumb = t]
<1>1. r.thumb \in ThumbRecord BY DEF Scroll
<1>2. x \in Thumbs BY <1>1 DEF Thumbs, ThumbRecord
<1>3. TooFast(r, j, calm) = u \/ TooFast(r, j, calm) = r BY Zenon DEF TooFast, Scroll
<1>4. /\ x \in {"pinch", "suppressed"} => r.thumb.state \in {"pinch", "suppressed"}
      /\ x = r.thumb.state \/ (x = "suppressed" /\ r.thumb.state = "pinch")
      /\ r.thumb.state = "finger" => x = "finger"
  OBVIOUS
<1> HIDE DEF x
<1>5. t \in ThumbRecord /\ t.index = r.thumb.index /\ t.state = x
  BY <1>1, <1>2 DEF ThumbRecord
<1> HIDE DEF t
<1>6. Thumbed(r, u) /\ u.thumb = t BY <1>5, ThumbedIs
<1> HIDE DEF u
<1>7. Spares(r, u, k) BY <1>4, <1>5, <1>6 DEF Spares, ThumbIgnored, IsThumb, Aside
<1>8. Steers(r, u, k) BY <1>6, <1>7 DEF Steers
<1>9. QED BY <1>3, <1>4, <1>5, <1>6, <1>8, SteersSelf

LEMMA EscapeSteers ==
  ASSUME NEW r \in Scroll, NEW j \in Touches
  PROVE  /\ Steers(r, Escape(r, j), j)
         /\ Aside(Escape(r, j), j) => Aside(r, j)
         /\ ThumbIgnored(Escape(r, j), j) => ThumbIgnored(r, j)
<1>1. \/ Escape(r, j) = r
      \/ Escape(r, j) = SetThumb(r, j, "finger")
      \/ Escape(r, j) = SetThumb(r, j, "revived")
  BY Zenon DEF Escape
<1>2. \A v \in {"finger", "revived"} :
        LET u == SetThumb(r, j, v)
        IN  Steers(r, u, j) /\ ~Aside(u, j) /\ ~ThumbIgnored(u, j)
  BY SteersSet, SetThumbIs DEF Aside, ThumbIgnored, IsThumb, Thumbs
<1>3. QED BY <1>1, <1>2, SteersSelf

\* tp_thumb_update_touch: the finger that lifts is no thumb any more, the only
\* one that is left is not put aside.
Updates(r, u, j) ==
  /\ Steers(r, u, j)
  /\ ~pad.thumbs => u = r
  /\ r.touch[j].state = "end" => ~ThumbIgnored(u, j)
  /\ pad.thumbs /\ Down(r) = {j} /\ r.touch[j].state = "update" => ~Aside(u, j)

LEMMA UpdateThumbIs ==
  ASSUME PadOK, NEW r \in Scroll, NEW j \in Touches, NEW calm
  PROVE  Updates(r, UpdateThumb(r, j, calm), j)
<1> DEFINE checked == TooFast(r, j, calm)
           back == Revive(checked, j)
           u == UpdateThumb(r, j, calm)
<1>1. Steers(r, checked, j) /\ checked.thumb.index = r.thumb.index BY TooFastSteers
<1>2. checked \in Scroll /\ checked.touch = r.touch BY <1>1 DEF Steers, Thumbed
<1>3. Steers(checked, back, j) /\ ~Aside(back, j) BY <1>2, ReviveSteers
<1>4. back \in Scroll /\ back.touch = r.touch BY <1>2, <1>3 DEF Steers, Thumbed
<1>5. Steers(r, back, j) BY <1>1, <1>3, SteersOn
<1>6. CASE ~pad.thumbs
  <2>1. u = r BY <1>6 DEF UpdateThumb
  <2>2. QED BY <1>6, <2>1, SteersSelf DEF Updates, ThumbIgnored, IsThumb
<1>7. CASE pad.thumbs /\ r.touch[j].state = "end" /\ j = r.thumb.index
  <2>1. u = LiftThumb(checked) BY <1>7 DEF UpdateThumb
  <2>2. Thumbed(checked, u) /\ u.thumb.index = Nobody /\ u.thumb.state = "finger"
    BY <1>2, <2>1, LiftThumbIs
  <2>3. Thumbed(r, u) BY <1>1, <2>2 DEF Steers, Thumbed
  <2> HIDE DEF u
  <2>4. \A i \in Touches : ~ThumbIgnored(u, i) /\ ~Aside(u, i)
    BY <2>2, TouchesAre DEF ThumbIgnored, IsThumb, Aside
  <2>5. Steers(r, u, j) BY <2>3, <2>4 DEF Steers, Spares
  <2>6. QED BY <1>7, <2>4, <2>5 DEF Updates, u
<1>8. CASE /\ pad.thumbs /\ ~(r.touch[j].state = "end" /\ j = r.thumb.index)
           /\ Cardinality(Down(r)) > 1
  <2>1. u = checked BY <1>8 DEF UpdateThumb
  <2>2. r.touch[j].state = "end" => ~ThumbIgnored(u, j)
    BY <1>1, <1>8, <2>1 DEF ThumbIgnored, IsThumb
  <2>3. Down(r) # {j}
    <3>1. Cardinality({j}) = 1 BY FS_Singleton
    <3>2. QED BY <1>8, <3>1
  <2>4. QED BY <1>1, <1>8, <2>1, <2>2, <2>3 DEF Updates
<1>9. CASE /\ pad.thumbs /\ ~(r.touch[j].state = "end" /\ j = r.thumb.index)
           /\ ~(Cardinality(Down(r)) > 1)
  <2>1. CASE r.touch[j].state = "begin" /\ NeedsJail(r, j)
    <3>1. u = SetThumb(back, j, "jailed") BY <1>9, <2>1 DEF UpdateThumb
    <3>2. Steers(back, u, j) BY <1>4, <3>1, SteersSet DEF Thumbs
    <3>3. QED BY <1>5, <1>9, <2>1, <3>2, SteersOn DEF Updates
  <2>2. CASE ~(r.touch[j].state = "begin" /\ NeedsJail(r, j))
    <3>1. u = Escape(back, j) BY <1>9, <2>2, Zenon DEF UpdateThumb
    <3>2. Steers(back, u, j) /\ ~Aside(u, j) /\ (ThumbIgnored(u, j) => ThumbIgnored(back, j))
      BY <1>3, <1>4, <3>1, EscapeSteers
    <3>3. r.touch[j].state = "end" => ~ThumbIgnored(back, j)
      <4>1. SUFFICES ASSUME r.touch[j].state = "end" PROVE ~ThumbIgnored(back, j) OBVIOUS
      <4>2. checked.thumb.index # j BY <1>1, <1>9, <4>1
      <4>3. back = checked BY <4>2 DEF Revive
      <4>4. QED BY <4>2, <4>3 DEF ThumbIgnored, IsThumb
    <3>4. Steers(r, u, j) BY <1>5, <3>2, SteersOn
    <3>5. QED BY <1>9, <3>2, <3>3, <3>4 DEF Updates
  <2>3. QED BY <2>1, <2>2
<1>10. QED BY <1>6, <1>7, <1>8, <1>9

\* The extremes of a few touches.
LEMMA LowestIs ==
  ASSUME PadOK, NEW r \in Scroll, NEW these \in SUBSET Touches, these # {}
  PROVE  Lowest(r, these) \in these
<1> DEFINE Y(i) == r.touch[i].at.y
           First(i) == \A j \in these : Y(i) > Y(j) \/ (Y(i) = Y(j) /\ i <= j)
<1>1. these \subseteq {1, 2, 3} BY TouchesAre
<1>2. \A i \in these : Y(i) \in Int BY DEF Scroll, Touch, Height
<1>3. \E i \in these : First(i)
  <2> DEFINE B(i, j) == Y(i) > Y(j) \/ (Y(i) = Y(j) /\ i <= j)
  <2>1. \A i \in these : i \in Int BY <1>1
  <2>2. \A i, j \in these : B(i, j) \/ B(j, i)
    <3> HIDE DEF Y
    <3>1. QED BY <1>2, <2>1
  <2>3. \A i, j, k \in these : B(i, j) /\ B(j, k) => B(i, k)
    <3> HIDE DEF Y
    <3>1. QED BY <1>2, <2>1
  <2>4. PICK a \in these : TRUE OBVIOUS
  <2> DEFINE At(n) == IF n \in these THEN n ELSE a
  <2>5. At(1) \in these /\ At(2) \in these /\ At(3) \in these BY <2>4
  <2>6. \A j \in these : j = At(1) \/ j = At(2) \/ j = At(3) BY <1>1
  <2> HIDE DEF B, At, Y
  <2>7. \E m \in these : B(m, At(1)) /\ B(m, At(2)) /\ B(m, At(3)) BY <2>2, <2>3, <2>5
  <2>8. PICK m \in these : \A j \in these : B(m, j) BY <2>6, <2>7
  <2>9. QED BY <2>8 DEF B
<1>4. Lowest(r, these) = CHOOSE i \in these : First(i) BY DEF Lowest
<1>5. QED BY <1>3, <1>4

LEMMA MaxIs ==
  ASSUME PadOK, NEW these \in SUBSET Touches, these # {}
  PROVE  Max(these) \in these
<1>1. these \subseteq {1, 2, 3} BY TouchesAre
<1>2. \E i \in these : \A j \in these : i >= j
  <2>1. CASE 3 \in these BY <1>1, <2>1
  <2>2. CASE 3 \notin these /\ 2 \in these BY <1>1, <2>2
  <2>3. CASE 3 \notin these /\ 2 \notin these
    <3>1. these = {1} BY <1>1, <2>3
    <3>2. 1 >= 1 OBVIOUS
    <3>3. QED BY <3>1, <3>2, Zenon
  <2>4. QED BY <2>1, <2>2, <2>3
<1>3. QED BY <1>2 DEF Max

LEMMA MinIs ==
  ASSUME PadOK, NEW these \in SUBSET Touches, these # {}
  PROVE  Min(these) \in these
<1>1. these \subseteq {1, 2, 3} BY TouchesAre
<1>2. \E i \in these : \A j \in these : i <= j
  <2>1. CASE 1 \in these BY <1>1, <2>1
  <2>2. CASE 1 \notin these /\ 2 \in these BY <1>1, <2>2
  <2>3. CASE 1 \notin these /\ 2 \notin these
    <3>1. these = {3} BY <1>1, <2>3
    <3>2. 3 <= 3 OBVIOUS
    <3>3. QED BY <3>1, <3>2, Zenon
  <2>4. QED BY <2>1, <2>2, <2>3
<1>3. QED BY <1>2 DEF Min

LEMMA FewTouches ==
  ASSUME PadOK, NEW these \in SUBSET Touches
  PROVE  /\ IsFiniteSet(these) /\ Cardinality(these) \in Nat
         /\ Cardinality(these) >= 2 => \A i : these \ {i} # {}
         /\ Cardinality(these) >= 2 /\ pad.touches < 3 => these = Touches
<1>1. IsFiniteSet(these) /\ IsFiniteSet(Touches) /\ Touches \subseteq 1..3
      /\ pad.touches \in 1..3
  <2>1. pad.touches \in Int /\ 1 \in Int /\ Touches \subseteq 1..3 /\ pad.touches \in 1..3
    BY TouchesAre
  <2>2. IsFiniteSet(Touches) BY <2>1, FS_Interval DEF Touches
  <2>3. QED BY <2>1, <2>2, FS_Subset
<1>2. Cardinality(these) \in Nat BY <1>1, FS_CardinalityType
<1>3. Cardinality(these) >= 2 => \A i : these \ {i} # {}
  <2>1. SUFFICES ASSUME Cardinality(these) >= 2, NEW i, these \ {i} = {} PROVE FALSE OBVIOUS
  <2>2. these \subseteq {i} BY <2>1
  <2>3. IsFiniteSet({i}) /\ Cardinality({i}) = 1 BY FS_Singleton
  <2>4. Cardinality(these) <= 1 BY <2>2, <2>3, FS_Subset
  <2>5. QED BY <1>2, <2>1, <2>4
<1>4. Cardinality(these) >= 2 /\ pad.touches < 3 => these = Touches
  <2>1. SUFFICES ASSUME Cardinality(these) >= 2, pad.touches < 3, NEW j \in Touches, j \notin these
                 PROVE FALSE
    OBVIOUS
  <2>2. pad.touches \in Int /\ 1 \in Int BY <1>1
  <2>3. Cardinality(Touches) = pad.touches BY <1>1, <2>2, FS_Interval DEF Touches
  <2>4. Cardinality(Touches \ {j}) = Cardinality(Touches) - 1 BY <1>1, <2>1, FS_RemoveElement
  <2>5. these \subseteq Touches \ {j} /\ IsFiniteSet(Touches \ {j}) BY <1>1, <2>1, FS_Subset
  <2>6. Cardinality(these) <= Cardinality(Touches \ {j}) BY <2>5, FS_Subset
  <2>7. QED BY <1>1, <1>2, <2>1, <2>3, <2>4, <2>6
<1>5. QED BY <1>1, <1>2, <1>3, <1>4

\* tp_thumb_update_multifinger
LEMMA MultifingerThumbed ==
  ASSUME PadOK, NEW r \in Scroll, Landed(r)
  PROVE  Thumbed(r, UpdateMultifinger(r))
<1> DEFINE first == Lowest(r, There(r))
           newest == Max({i \in Touches : r.touch[i].state = "begin"})
           u == UpdateMultifinger(r)
<1>1. first \in Touches
  <2>1. There(r) \in SUBSET Touches /\ There(r) # {} BY DEF There, Landed
  <2>2. QED BY <2>1, LowestIs
<1>2. newest \in Touches
  <2>1. {i \in Touches : r.touch[i].state = "begin"} # {} BY DEF Landed
  <2>2. QED BY <2>1, MaxIs
<1>3. u \in {Suppress(r, newest), LiftThumb(r), Pinch(r, first), Suppress(r, first)}
  BY Zenon DEF UpdateMultifinger
<1> HIDE DEF first, newest, u
<1>4. QED BY <1>1, <1>2, <1>3, SuppressSteers, PinchSteers, LiftThumbIs DEF u, Steers

LEMMA NewThumbIs ==
  ASSUME PadOK, NEW r \in Scroll
  PROVE  /\ Thumbed(r, NewThumb(r))
         /\ ~pad.thumbs => NewThumb(r) = r
         /\ \A i : Down(r) = {i} => NewThumb(r) = r
         /\ (pad.thumbs => pad.touches < 3) /\ (\E i \in Touches : r.touch[i].state = "end")
              => NewThumb(r) = r
<1>1. Thumbed(r, NewThumb(r)) BY MultifingerThumbed DEF NewThumb, Thumbed
<1>2. ASSUME NEW i, Down(r) = {i} PROVE NewThumb(r) = r
  <2>1. Cardinality(Down(r)) = 1 BY <1>2, FS_Singleton
  <2>2. QED BY <2>1 DEF NewThumb
<1>3. ASSUME pad.touches < 3, NEW i \in Touches, r.touch[i].state = "end"
      PROVE  NewThumb(r) = r
  <2>1. Down(r) \in SUBSET Touches /\ Down(r) # Touches BY <1>3 DEF Down
  <2>2. ~(Cardinality(Down(r)) >= 2) BY <1>3, <2>1, FewTouches
  <2>3. QED BY <2>2 DEF NewThumb
<1>4. ~pad.thumbs => NewThumb(r) = r BY DEF NewThumb
<1>5. QED BY <1>1, <1>2, <1>3, <1>4

\* The hints of the gestures; of a single finger they make no thumb.
LEMMA HintsAre ==
  ASSUME PadOK, NEW r \in Scroll, NEW v \in Hints(r)
  PROVE  /\ Thumbed(r, v)
         /\ ~pad.thumbs => v = r
         /\ \A i \in Touches : Down(r) = {i} /\ Aside(v, i) => Aside(r, i)
<1> DEFINE active == {i \in Touches : ActiveForGesture(r, i)}
           first == Min(active)
           second == Min(active \ {first})
           lower == IF r.touch[first].at.y > r.touch[second].at.y THEN first ELSE second
<1>1. active \in SUBSET Touches /\ active \subseteq Down(r) BY DEF ActiveForGesture, Down
<1>2. \/ v = r
      \/ Cardinality(active) >= 2 /\ v = Suppress(r, lower) /\ pad.thumbs
      \/ v = ResetThumb(r) /\ pad.thumbs
  BY Zenon DEF Hints
<1>3. CASE v = r BY <1>3, SteersSelf DEF Steers
<1>4. CASE Cardinality(active) >= 2 /\ v = Suppress(r, lower) /\ pad.thumbs
  <2> HIDE DEF active
  <2>1. \A i : active \ {i} # {} BY <1>1, <1>4, FewTouches
  <2>2. first \in Touches /\ second \in Touches
    <3>1. active # {} BY <2>1
    <3>2. first \in active BY <1>1, <3>1, MinIs
    <3>3. second \in active \ {first} BY <1>1, <2>1, MinIs
    <3>4. QED BY <1>1, <3>2, <3>3
  <2>3. lower \in Touches BY <2>2
  <2>4. Thumbed(r, v) BY <1>4, <2>3, SuppressSteers DEF Steers
  <2>5. \A i : Down(r) # {i} BY <1>1, <2>1
  <2>6. QED BY <1>4, <2>4, <2>5
<1>5. CASE v = ResetThumb(r) /\ pad.thumbs BY <1>5, ResetThumbIs DEF Aside
<1>6. QED BY <1>2, <1>3, <1>4, <1>5

-----------------------------------------------------------------------------
(* tp_process_state, touch by touch: palms and speeds, and the thumb.      *)

\* The same touch but for its palm and its speed.
Like(t, u) ==
  /\ u \in Touch
  /\ u.state = t.state /\ (u.dirty <=> t.dirty) /\ u.at = t.at /\ u.age = t.age
  /\ u.edge_state = t.edge_state /\ u.edge = t.edge /\ u.direction = t.direction
  /\ (u.timer <=> t.timer) /\ u.ring = t.ring /\ (u.angle <=> t.angle)

LikeAll(r, v) ==
  /\ v \in Scroll
  /\ \A i \in Touches : Like(r.touch[i], v.touch[i])
  /\ v.method = r.method /\ v.arbitration = r.arbitration
  /\ v.scrolling = r.scrolling /\ v.bugs = r.bugs

LEMMA TouchIs == ASSUME NEW r \in Scroll, NEW i \in Touches PROVE r.touch[i] \in Touch
  BY DEF Scroll

LEMMA SetTouchIs ==
  ASSUME NEW r \in Scroll, NEW i \in Touches, NEW t \in Touch
  PROVE  /\ SetTouch(r, i, t) \in Scroll
         /\ SetTouch(r, i, t).touch[i] = t
         /\ \A j \in Touches \ {i} : SetTouch(r, i, t).touch[j] = r.touch[j]
         /\ SetTouch(r, i, t).method = r.method /\ SetTouch(r, i, t).thumb = r.thumb
         /\ SetTouch(r, i, t).arbitration = r.arbitration
         /\ SetTouch(r, i, t).scrolling = r.scrolling /\ SetTouch(r, i, t).bugs = r.bugs
<1> DEFINE f == [j \in Touches |-> IF j = i THEN t ELSE r.touch[j]]
<1>1. f \in [Touches -> Touch] BY TouchIs
<1>2. f[i] = t /\ \A j \in Touches \ {i} : f[j] = r.touch[j] OBVIOUS
<1>3. SetTouch(r, i, t) = [r EXCEPT !.touch = f] BY DEF SetTouch
<1> HIDE DEF f
<1>4. [r EXCEPT !.touch = f] \in Scroll BY <1>1, Zenon DEF Scroll
<1>5. QED BY <1>2, <1>3, <1>4 DEF Scroll

LEMMA LikeSelf ==
  ASSUME NEW r \in Scroll
  PROVE  LikeAll(r, r)
  BY TouchIs DEF LikeAll, Like

LEMMA SetLike ==
  ASSUME NEW r \in Scroll, NEW i \in Touches, NEW t, Like(r.touch[i], t)
  PROVE  LikeAll(r, SetTouch(r, i, t))
<1>1. t \in Touch BY DEF Like
<1> DEFINE v == SetTouch(r, i, t)
<1>2. /\ v \in Scroll /\ v.touch[i] = t /\ \A j \in Touches \ {i} : v.touch[j] = r.touch[j]
      /\ v.method = r.method /\ v.arbitration = r.arbitration
      /\ v.scrolling = r.scrolling /\ v.bugs = r.bugs
  BY <1>1, SetTouchIs
<1> HIDE DEF v
<1>3. \A j \in Touches : Like(r.touch[j], v.touch[j])
  <2>1. \A j \in Touches : Like(r.touch[j], r.touch[j]) BY LikeSelf DEF LikeAll
  <2>2. QED BY <1>2, <2>1
<1>4. QED BY <1>2, <1>3 DEF LikeAll, v

LEMMA LikeOn ==
  ASSUME NEW r, NEW u, NEW v, LikeAll(r, u), LikeAll(u, v)
  PROVE  LikeAll(r, v)
  BY DEF LikeAll, Like

LEMMA LikeDown ==
  ASSUME NEW r, NEW v, LikeAll(r, v)
  PROVE  Down(v) = Down(r)
  BY DEF LikeAll, Like, Down

\* tp_palm_detect, where nothing but a tablet's pen makes palms
LEMMA PalmIs ==
  ASSUME NEW r \in Scroll, NEW i \in Touches, NEW hard \in PalmInput, NEW out \in PalmInput
  PROVE  /\ PalmOf(r, i, hard, out) \in Palms
         /\ r.arbitration # "off" => PalmOf(r, i, hard, out) = "arbitration"
         /\ ~pad.palms /\ r.arbitration = "off" /\ r.touch[i].palm = "none"
              /\ r.touch[i].state = "end" => PalmOf(r, i, hard, out) = "none"
<1>1. hard \in BOOLEAN BY DEF PalmInput
<1>2. r.touch[i].palm \in Palms BY TouchIs DEF Touch
<1>3. PalmOf(r, i, hard, out) \in Palms BY <1>2, Zenon DEF PalmOf, Palms
<1>4. r.arbitration # "off" => PalmOf(r, i, hard, out) = "arbitration" BY DEF PalmOf
<1>5. ASSUME ~pad.palms, r.arbitration = "off", r.touch[i].palm = "none", r.touch[i].state = "end"
      PROVE  PalmOf(r, i, hard, out) = "none"
  <2>1. hard = FALSE BY <1>5 DEF PalmInput
  <2>2. QED BY <1>5, <2>1 DEF PalmOf
<1>6. QED BY <1>3, <1>4, <1>5

\* What is known of a touch once it has been looked at.
Judged(r, v, i) ==
  /\ r.touch[i].dirty /\ r.arbitration # "off" => v.touch[i].palm = "arbitration"
  /\ r.touch[i].dirty /\ r.touch[i].state = "end" =>
       /\ ~ThumbIgnored(v, i)
       /\ ~pad.palms /\ r.arbitration = "off" /\ r.touch[i].palm = "none"
            => v.touch[i].palm = "none"
  /\ pad.thumbs /\ Down(r) = {i} /\ r.touch[i].dirty /\ r.touch[i].state = "update"
       => ~Aside(v, i)

Unjudged(r, v, i) == v.touch[i] = r.touch[i]

\* One touch is judged, the others keep what they have.
Judges(r, v, i) ==
  /\ LikeAll(r, v) /\ Judged(r, v, i) /\ Spares(r, v, i)
  /\ ~pad.thumbs => v.thumb = r.thumb
  /\ \A j \in Touches \ {i} : v.touch[j] = r.touch[j]

LEMMA ProcessTouchIs ==
  ASSUME PadOK, NEW r \in Scroll, NEW i \in Touches, NEW calm,
         r.touch[i].state = "none" => ~r.touch[i].dirty, NEW v \in ProcessTouch(r, i, calm)
  PROVE  Judges(r, v, i)
<1> DEFINE t == r.touch[i]
<1>0. t \in Touch BY TouchIs
<1>1. CASE t.state = "none"
  <2>1. v = r BY <1>1 DEF ProcessTouch
  <2>2. QED BY <1>1, <2>1, LikeSelf DEF Judges, Judged, Spares
<1>2. CASE t.state # "none" /\ ~t.dirty
  <2>1. PICK f \in Speeds(t) : v = SetTouch(r, i, [t EXCEPT !.fast = f]) BY <1>2 DEF ProcessTouch
  <2>2. f \in 0..2 BY DEF Speeds
  <2>3. Like(t, [t EXCEPT !.fast = f])
    <3>1. [t EXCEPT !.fast = f] \in Touch BY <1>0, <2>2, Zenon DEF Touch
    <3>2. QED BY <1>0, <3>1 DEF Touch, Like
  <2>4. LikeAll(r, v) BY <2>1, <2>3, SetLike
  <2>5. v.thumb = r.thumb /\ \A j \in Touches \ {i} : v.touch[j] = r.touch[j]
    BY <2>1, <2>3, SetTouchIs DEF Like
  <2>6. QED BY <1>2, <2>4, <2>5 DEF Judges, Judged, Spares, ThumbIgnored, IsThumb, Aside
<1>3. CASE t.state # "none" /\ t.dirty
  <2> DEFINE u == UpdateThumb(r, i, calm)
  <2>1. PICK hard \in PalmInput, out \in PalmInput, f \in Speeds(t) :
          v = SetTouch(u, i, [u.touch[i] EXCEPT !.palm = PalmOf(u, i, hard, out), !.fast = f])
    <3>1. v \in {Judge(x, i, hard, out, f) : x \in {UpdateThumb(r, i, calm)}, hard \in PalmInput,
                                            out \in PalmInput, f \in Speeds(r.touch[i])}
      BY <1>3 DEF ProcessTouch
    <3>2. \E hard \in PalmInput, out \in PalmInput, f \in Speeds(t) :
               v = Judge(UpdateThumb(r, i, calm), i, hard, out, f)
      BY <3>1
    <3>3. QED BY <3>2 DEF Judge
  <2>2. Updates(r, u, i) BY UpdateThumbIs
  <2> HIDE DEF u
  <2>3. /\ u \in Scroll /\ u.touch = r.touch /\ u.method = r.method
        /\ u.arbitration = r.arbitration /\ u.scrolling = r.scrolling /\ u.bugs = r.bugs
    BY <2>2 DEF Updates, Steers, Thumbed
  <2> DEFINE p == PalmOf(u, i, hard, out)
             w == [t EXCEPT !.palm = p, !.fast = f]
  <2>4. /\ p \in Palms
        /\ r.arbitration # "off" => p = "arbitration"
        /\ ~pad.palms /\ r.arbitration = "off" /\ t.palm = "none" /\ t.state = "end" => p = "none"
    BY <2>3, PalmIs
  <2>5. v = SetTouch(u, i, w) BY <2>1, <2>3
  <2> HIDE DEF p
  <2>6. f \in 0..2 BY DEF Speeds
  <2>7. w \in Touch BY <1>0, <2>4, <2>6, Zenon DEF Touch
  <2>8. Like(t, w) /\ w.palm = p BY <1>0, <2>7 DEF Touch, Like
  <2> HIDE DEF w
  <2>9. LikeAll(u, v) BY <2>3, <2>5, <2>8, SetLike
  <2>10. LikeAll(r, v) BY <2>3, <2>9 DEF LikeAll
  <2>11. v.touch[i] = w /\ v.thumb = u.thumb /\ \A j \in Touches \ {i} : v.touch[j] = r.touch[j]
    BY <2>3, <2>5, <2>7, SetTouchIs
  <2>12. \A j : (ThumbIgnored(v, j) <=> ThumbIgnored(u, j)) /\ (Aside(v, j) <=> Aside(u, j))
    BY <2>11 DEF ThumbIgnored, IsThumb, Aside
  <2>13. Spares(r, v, i) BY <2>2, <2>12 DEF Updates, Steers, Spares
  <2>14. Judged(r, v, i) BY <2>2, <2>4, <2>8, <2>11, <2>12 DEF Updates, Judged
  <2>15. ~pad.thumbs => v.thumb = r.thumb BY <2>2, <2>11 DEF Updates
  <2>16. QED BY <2>10, <2>11, <2>13, <2>14, <2>15 DEF Judges
<1>4. QED BY <1>1, <1>2, <1>3

\* The walk of tp_process_state has come to the k-th touch.
Walked(r, v, k) ==
  /\ LikeAll(r, v)
  /\ \A i \in Touches : i <= k => Judged(r, v, i)
  /\ \A i \in Touches : i > k => v.touch[i] = r.touch[i]
  /\ ~pad.thumbs => v.thumb = r.thumb

LEMMA WalkOn ==
  ASSUME PadOK, NEW r \in Scroll, NEW k \in 0..2, k + 1 \in Touches, NEW calm,
         \A i \in Touches : r.touch[i].state = "none" => ~r.touch[i].dirty,
         NEW u, Walked(r, u, k), NEW v \in ProcessTouch(u, k + 1, calm)
  PROVE  Walked(r, v, k + 1)
<1> DEFINE i == k + 1
<1>1. u \in Scroll /\ u.touch[i] = r.touch[i] /\ u.arbitration = r.arbitration
      /\ Down(u) = Down(r) /\ LikeAll(r, u)
  BY LikeDown DEF Walked, LikeAll
<1>2. Judges(u, v, i) BY <1>1, ProcessTouchIs
<1>3. LikeAll(r, v) BY <1>1, <1>2, LikeOn DEF Judges
<1>4. Judged(r, v, i)
  <2>1. Judged(u, v, i) BY <1>2 DEF Judges
  <2> HIDE DEF i
  <2>2. QED BY <1>1, <2>1 DEF Judged
<1>5. \A j \in Touches : j <= k => Judged(r, v, j)
  <2>1. SUFFICES ASSUME NEW j \in Touches, j <= k PROVE Judged(r, v, j) OBVIOUS
  <2>2. j # i /\ Judged(r, u, j) BY <2>1, TouchesAre DEF Walked
  <2>3. v.touch[j] = u.touch[j] /\ (ThumbIgnored(v, j) => ThumbIgnored(u, j))
        /\ (Aside(v, j) => Aside(u, j))
    BY <1>2, <2>2 DEF Judges, Spares
  <2>4. QED BY <2>2, <2>3 DEF Judged
<1>6. \A j \in Touches : j > i => v.touch[j] = r.touch[j]
  <2>1. \A j \in Touches : j > i => j # i /\ j > k BY TouchesAre
  <2>2. QED BY <1>2, <2>1 DEF Judges, Walked
<1>7. \A j \in Touches : j <= i => j <= k \/ j = i BY TouchesAre
<1>8. ~pad.thumbs => v.thumb = r.thumb BY <1>2 DEF Judges, Walked
<1> HIDE DEF i
<1>9. Walked(r, v, i) BY <1>3, <1>4, <1>5, <1>6, <1>7, <1>8 DEF Walked
<1>10. QED BY <1>9 DEF i

\* All touches have been judged.
Processed(r, v) ==
  /\ LikeAll(r, v)
  /\ \A i \in Touches : Judged(r, v, i)
  /\ ~pad.thumbs => v.thumb = r.thumb

LEMMA ProcessTouchesIs ==
  ASSUME PadOK, NEW r \in Scroll, NEW calm,
         \A i \in Touches : r.touch[i].state = "none" => ~r.touch[i].dirty,
         NEW v \in ProcessTouches(r, calm)
  PROVE  Processed(r, v)
<1> DEFINE one   == ProcessTouch(r, 1, calm)
           two   == IF pad.touches < 2 THEN one ELSE UNION {ProcessTouch(u, 2, calm) : u \in one}
           three == IF pad.touches < 3 THEN two ELSE UNION {ProcessTouch(u, 3, calm) : u \in two}
<1>0. pad.touches \in 1..3 BY TouchesAre
<1>1. \A w \in one : Walked(r, w, 1)
  <2>1. Walked(r, r, 0) BY LikeSelf, TouchesAre DEF Walked
  <2>2. 0 \in 0..2 /\ 0 + 1 = 1 /\ 1 \in Touches BY <1>0 DEF Touches
  <2>3. QED BY <2>1, <2>2, WalkOn
<1> HIDE DEF one
<1>2. /\ pad.touches < 2 => \A w \in two : Walked(r, w, 1)
      /\ pad.touches >= 2 => \A w \in two : Walked(r, w, 2)
  <2>1. CASE pad.touches < 2 BY <1>0, <1>1, <2>1
  <2>2. CASE pad.touches >= 2
    <3>1. two = UNION {ProcessTouch(u, 2, calm) : u \in one} BY <1>0, <2>2
    <3>2. 1 \in 0..2 /\ 1 + 1 = 2 /\ 2 \in Touches BY <1>0, <2>2 DEF Touches
    <3>3. QED BY <1>0, <1>1, <2>2, <3>1, <3>2, WalkOn
  <2>3. QED BY <1>0, <2>1, <2>2
<1> HIDE DEF two
<1>3. Walked(r, v, pad.touches)
  <2>1. v \in three BY DEF ProcessTouches, one, two
  <2>2. CASE pad.touches < 3
    <3>1. v \in two BY <2>1, <2>2
    <3>2. pad.touches = 1 \/ pad.touches = 2 BY <1>0, <2>2
    <3>3. QED BY <1>2, <3>1, <3>2
  <2>3. CASE pad.touches >= 3
    <3>1. v \in UNION {ProcessTouch(u, 3, calm) : u \in two} BY <1>0, <2>1, <2>3
    <3>2. 2 \in 0..2 /\ 2 + 1 = 3 /\ 3 \in Touches /\ pad.touches = 3 BY <1>0, <2>3 DEF Touches
    <3>3. QED BY <1>2, <3>1, <3>2, WalkOn
  <2>4. QED BY <1>0, <2>2, <2>3
<1>4. \A i \in Touches : i <= pad.touches BY DEF Touches
<1>5. QED BY <1>3, <1>4 DEF Walked, Processed

-----------------------------------------------------------------------------
(* Edges.                                                                  *)

Fields(r, v) == v.thumb = r.thumb /\ v.method = r.method /\ v.arbitration = r.arbitration

Puts(r, v, f, a) == v \in Scroll /\ Fields(r, v) /\ v.touch = f /\ v.scrolling = a

LEMMA PutIs ==
  ASSUME NEW r \in Scroll, NEW f \in [Touches -> Touch], NEW a \in SUBSET Axes,
         NEW b \in SUBSET KnownEdgeBugs
  PROVE  /\ Puts(r, [r EXCEPT !.touch = f], f, r.scrolling)
         /\ Puts(r, [r EXCEPT !.touch = f, !.bugs = b], f, r.scrolling)
         /\ Puts(r, [r EXCEPT !.touch = f, !.scrolling = a], f, a)
         /\ Puts(r, [r EXCEPT !.touch = f, !.scrolling = a, !.bugs = b], f, a)
<1>1. /\ [r EXCEPT !.touch = f] \in Scroll
      /\ [r EXCEPT !.touch = f, !.bugs = b] \in Scroll
      /\ [r EXCEPT !.touch = f, !.scrolling = a] \in Scroll
      /\ [r EXCEPT !.touch = f, !.scrolling = a, !.bugs = b] \in Scroll
  BY Zenon DEF Scroll
<1>2. QED BY <1>1 DEF Puts, Fields, Scroll

\* The same touch but for its edge.
SameButEdge(t, u) ==
  /\ u \in Touch
  /\ u.state = t.state /\ (u.dirty <=> t.dirty) /\ u.at = t.at /\ u.age = t.age
  /\ u.fast = t.fast /\ u.palm = t.palm /\ u.direction = t.direction
  /\ u.ring = t.ring /\ (u.angle <=> t.angle)

EdgeEvents == {"touch", "release", "motion", "timeout", "posted"}

LEMMA EdgeStateIs ==
  ASSUME NEW r, NEW t \in Touch, NEW x \in {"none", "edge_new", "edge", "area"}
  PROVE  /\ SameButEdge(t, EdgeState(r, t, x))
         /\ EdgeState(r, t, x).edge_state = x
         /\ EdgeState(r, t, x).timer => x = "edge_new"
         /\ x \in {"none", "area"} => EdgeState(r, t, x).edge = {}
         /\ x = "edge" => EdgeState(r, t, x).edge = t.edge
<1> DEFINE timed == x = "edge_new" /\ ~pad.areas
           edge == IF x = "edge_new" THEN EdgesAt(r, t.at) ELSE IF x = "edge" THEN t.edge ELSE {}
           u == [t EXCEPT !.edge_state = x, !.timer = timed, !.edge = edge]
<1>1. timed \in BOOLEAN /\ (timed => x = "edge_new") OBVIOUS
<1>2. edge \in SUBSET Edges BY DEF EdgesAt, Touch
<1>3. (x \in {"none", "area"} => edge = {}) /\ (x = "edge" => edge = t.edge) OBVIOUS
<1>4. EdgeState(r, t, x) = u BY DEF EdgeState, Touch
<1> HIDE DEF timed, edge
<1>5. u \in Touch BY <1>1, <1>2, Zenon DEF Touch
<1>6. QED BY <1>1, <1>3, <1>4, <1>5 DEF SameButEdge, Touch

\* Scrolling along one edge.
EdgeOf(t) ==
  /\ t.edge_state \in {"edge", "area"}
  /\ \E e \in Edges : t.edge = {e} /\ t.direction = AxisOf[e]

Timely(t) == t.timer => t.edge_state # "edge"

LEMMA EdgeEventIs ==
  ASSUME NEW r, NEW t \in Touch, NEW e \in EdgeEvents
  PROVE  /\ SameButEdge(t, EdgeEvent(r, t, e))
         /\ Timely(t) => Timely(EdgeEvent(r, t, e))
         /\ e = "touch" => EdgeEvent(r, t, e).edge_state # "none"
         /\ e = "release" /\ t.edge_state # "none"
              => EdgeEvent(r, t, e).edge_state = "none" /\ EdgeEvent(r, t, e).edge = {}
         /\ e # "release" /\ t.edge_state # "none" => EdgeEvent(r, t, e).edge_state # "none"
         /\ e \in {"timeout", "posted"} =>
              /\ EdgeEvent(r, t, e).edge = t.edge
              /\ EdgeEvent(r, t, e).edge_state =
                   IF t.edge_state = "edge_new" THEN "edge" ELSE t.edge_state
         /\ e \in {"timeout", "posted", "motion"} /\ EdgeOf(t) => EdgeEvent(r, t, e) = t
<1> DEFINE u == EdgeEvent(r, t, e)
<1>0. SameButEdge(t, t) /\ t.edge_state \in {"none", "edge_new", "edge", "area"}
  BY DEF SameButEdge, Touch
<1>1. CASE Unexpected(t, e)
  <2>1. u = t BY <1>1 DEF EdgeEvent
  <2>2. QED BY <1>0, <1>1, <2>1 DEF Unexpected
<1>2. CASE ~Unexpected(t, e) /\ e = "touch"
  <2>1. \E x \in {"edge_new", "area"} : u = EdgeState(r, t, x) BY <1>2 DEF EdgeEvent
  <2>2. QED BY <1>2, <2>1, EdgeStateIs DEF Timely
<1>3. CASE ~Unexpected(t, e) /\ e = "release"
  <2>1. u = EdgeState(r, t, "none") BY <1>3 DEF EdgeEvent
  <2>2. QED BY <1>3, <2>1, EdgeStateIs DEF Timely
<1>4. CASE ~Unexpected(t, e) /\ e = "motion"
  <2> DEFINE kept == t.edge \cap EdgesAt(r, t.at)
  <2>1. \/ u = t
        \/ u = EdgeState(r, t, "area")
        \/ u = [t EXCEPT !.edge = kept]
    BY <1>4, Zenon DEF EdgeEvent, Narrowed
  <2>2. EdgeOf(t) => u = t
    <3>1. EdgeOf(t) => t.edge_state # "edge_new" /\ t.edge # Edges BY DEF EdgeOf, Edges
    <3>2. QED BY <1>4, <3>1 DEF EdgeEvent
  <2>3. kept \in SUBSET Edges BY DEF Touch
  <2> HIDE DEF kept
  <2>4. [t EXCEPT !.edge = kept] \in Touch BY <2>3, Zenon DEF Touch
  <2>5. /\ SameButEdge(t, [t EXCEPT !.edge = kept])
        /\ [t EXCEPT !.edge = kept].edge_state = t.edge_state
        /\ [t EXCEPT !.edge = kept].timer <=> t.timer
    BY <2>4 DEF SameButEdge, Touch
  <2> HIDE DEF u
  <2>6. /\ SameButEdge(t, u)
        /\ Timely(t) => Timely(u)
        /\ t.edge_state # "none" => u.edge_state # "none"
    <3>1. CASE u = t BY <1>0, <3>1
    <3>2. CASE u = EdgeState(r, t, "area") BY <3>2, EdgeStateIs DEF Timely
    <3>3. CASE u = [t EXCEPT !.edge = kept] BY <2>5, <3>3 DEF Timely
    <3>4. QED BY <2>1, <3>1, <3>2, <3>3
  <2>7. QED BY <1>4, <2>2, <2>6 DEF u
<1>5. CASE ~Unexpected(t, e) /\ e \in {"timeout", "posted"}
  <2>1. u = IF t.edge_state = "edge_new" THEN EdgeState(r, t, "edge") ELSE t
    BY <1>5 DEF EdgeEvent
  <2>2. EdgeOf(t) => t.edge_state # "edge_new" BY DEF EdgeOf
  <2> HIDE DEF u
  <2>3. QED BY <1>0, <1>5, <2>1, <2>2, EdgeStateIs DEF Timely, u
<1>6. QED BY <1>1, <1>2, <1>3, <1>4, <1>5 DEF EdgeEvents

LEMMA BugKnown ==
  ASSUME NEW r \in Scroll, NEW i \in Touches, NEW e \in EdgeEvents,
         e = "touch" => r.touch[i].edge_state \in {"none", "area"},
         e \in {"motion", "release", "posted"} => r.touch[i].edge_state # "none",
         e = "timeout" => r.touch[i].edge_state # "edge"
  PROVE  Bug(r, i, e) \subseteq KnownEdgeBugs
<1>1. r.touch[i].edge_state \in {"none", "edge_new", "edge", "area"} BY TouchIs DEF Touch
<1>2. QED BY <1>1 DEF Bug, Unexpected, KnownEdgeBugs, EdgeEvents

-----------------------------------------------------------------------------
(* The phases of a frame, for one touch.                                   *)

\* As the kernel reports it.
Landing(t) ==
  /\ t.state = "none" => ~t.dirty
  /\ t.state \in {"begin", "end"} => t.dirty
  /\ t.state \in {"none", "begin"} => t.edge_state \in {"none", "area"}
  /\ t.state \in {"update", "end"} => t.edge_state # "none"
  /\ Timely(t)

\* Once its edge has been looked at.
Handled(r, t) ==
  /\ t.state = "none" => ~t.dirty
  /\ t.state \in {"begin", "end"} => t.dirty
  /\ t.state \in {"none", "end"} => t.edge_state \in {"none", "area"}
  /\ t.state \in {"begin", "update"} => t.edge_state # "none"
  /\ t.state = "end" /\ r.method = "edge" => t.edge = {}
  /\ Timely(t)

\* Who scrolls, on the touchpads for which that is claimed.
MayScroll(r) == r.method = "edge" /\ r.arbitration = "off" /\ ~suspended

Scrolling(r, t) ==
  t.direction # "none" =>
    MayScroll(r) /\ t.state \in {"update", "end"} /\ EdgeOf(t)
Scrolled(r, t) ==
  t.direction # "none" =>
    /\ MayScroll(r)
    /\ \/ t.state = "update" /\ EdgeOf(t)
       \/ t.state = "end" /\ t.edge = {}

\* tp_edge_scroll_handle_state of one touch
EdgeTouch(r, t) ==
  IF r.method # "edge"
  THEN [t EXCEPT !.edge_state = CASE t.state = "begin" -> "area"
                                  [] t.state = "end" -> "none"
                                  [] OTHER -> @]
  ELSE IF Concerned(t) THEN EdgeEvent(r, t, EventOf[t.state]) ELSE t

LEMMA EventIs ==
  ASSUME NEW t \in Touch, t.state # "none"
  PROVE  /\ EventOf[t.state] \in EdgeEvents
         /\ t.state = "begin" => EventOf[t.state] = "touch"
         /\ t.state = "update" => EventOf[t.state] = "motion"
         /\ t.state = "end" => EventOf[t.state] = "release"
  BY DEF Touch, EventOf, EdgeEvents

LEMMA EdgeTouchIs ==
  ASSUME NEW r \in Scroll, NEW t \in Touch, Landing(t)
  PROVE  /\ SameButEdge(t, EdgeTouch(r, t))
         /\ Handled(r, EdgeTouch(r, t))
         /\ Scrolling(r, t) => Scrolled(r, EdgeTouch(r, t))
<1> DEFINE u == EdgeTouch(r, t)
<1>0. t.state \in {"none", "begin", "update", "end"} BY DEF Touch
<1>1. CASE r.method # "edge"
  <2> DEFINE x == CASE t.state = "begin" -> "area"
                    [] t.state = "end" -> "none"
                    [] OTHER -> t.edge_state
  <2>1. u = [t EXCEPT !.edge_state = x] BY <1>1 DEF EdgeTouch, Touch
  <2>2. x \in {"none", "edge_new", "edge", "area"} BY <1>0 DEF Touch
  <2>3. /\ t.state = "begin" => x = "area"
        /\ t.state = "end" => x = "none"
        /\ t.state \in {"none", "update"} => x = t.edge_state
    BY <1>0
  <2> HIDE DEF x
  <2>4. [t EXCEPT !.edge_state = x] \in Touch BY <2>2, Zenon DEF Touch
  <2>5. SameButEdge(t, u) /\ u.edge_state = x /\ (u.timer <=> t.timer)
    BY <2>1, <2>4 DEF SameButEdge, Touch
  <2> HIDE DEF u
  <2>6. Handled(r, u) BY <1>0, <1>1, <2>3, <2>5 DEF Handled, Landing, Timely, SameButEdge
  <2>7. Scrolling(r, t) => Scrolled(r, u)
    BY <1>1, <2>5 DEF Scrolling, Scrolled, SameButEdge, MayScroll
  <2>8. QED BY <2>5, <2>6, <2>7 DEF u
<1>2. CASE r.method = "edge" /\ ~Concerned(t)
  <2>1. u = t BY <1>2 DEF EdgeTouch
  <2>2. SameButEdge(t, t) BY DEF SameButEdge
  <2>3. t.state \in {"none", "update"} BY <1>0, <1>2 DEF Landing, Concerned
  <2>4. QED BY <1>2, <2>1, <2>2, <2>3 DEF Handled, Landing, Scrolling, Scrolled
<1>3. CASE r.method = "edge" /\ Concerned(t)
  <2> DEFINE e == EventOf[t.state]
  <2>1. /\ e \in EdgeEvents /\ t.state \in {"begin", "update", "end"}
        /\ t.state = "begin" => e = "touch"
        /\ t.state = "update" => e = "motion"
        /\ t.state = "end" => e = "release"
    BY <1>0, <1>3, EventIs DEF Concerned
  <2>2. u = EdgeEvent(r, t, e) BY <1>3 DEF EdgeTouch
  <2> HIDE DEF e, u
  <2>3. /\ SameButEdge(t, u) /\ Timely(u)
        /\ t.state = "begin" => u.edge_state # "none"
        /\ t.state = "end" => u.edge_state = "none" /\ u.edge = {}
        /\ t.state = "update" => u.edge_state # "none"
        /\ t.state = "update" /\ EdgeOf(t) => u = t
    BY <2>1, <2>2, EdgeEventIs DEF Landing
  <2>4. Handled(r, u) BY <1>3, <2>1, <2>3 DEF Handled, Landing, SameButEdge
  <2>5. Scrolling(r, t) => Scrolled(r, u)
    BY <2>1, <2>3 DEF Scrolling, Scrolled, SameButEdge
  <2>6. QED BY <2>3, <2>4, <2>5 DEF u
<1>4. QED BY <1>1, <1>2, <1>3

\* What no step after tp_process_state's touches changes of a touch.
Kin(t, u) ==
  /\ u \in Touch
  /\ u.state = t.state /\ (u.dirty <=> t.dirty) /\ u.at = t.at /\ u.palm = t.palm

KinAll(r, v) ==
  /\ v \in Scroll /\ v.method = r.method /\ v.arbitration = r.arbitration
  /\ \A i \in Touches : Kin(r.touch[i], v.touch[i])

LEMMA KinSelf ==
  ASSUME NEW r \in Scroll
  PROVE  KinAll(r, r)
  BY TouchIs DEF KinAll, Kin

LEMMA KinOn ==
  ASSUME NEW r, NEW u, NEW v, KinAll(r, u), KinAll(u, v)
  PROVE  KinAll(r, v)
  BY DEF KinAll, Kin

LEMMA KinDown ==
  ASSUME NEW r, NEW v, KinAll(r, v)
  PROVE  Down(v) = Down(r)
  BY DEF KinAll, Kin, Down

\* The touches have been looked at.
AllHandled(r) == r \in Scroll /\ \A i \in Touches : Handled(r, r.touch[i])

Claimed == ~pad.palms /\ "circular" \notin pad.methods /\ (pad.thumbs => pad.touches < 3)

\* The axes that scroll have a touch that scrolls them.
Linked(r) == r.scrolling \subseteq {r.touch[i].direction : i \in Touches}

Busy(r) == Linked(r) /\ \A i \in Touches : Scrolled(r, r.touch[i])
Posted(r) ==
  /\ Linked(r)
  /\ \A i \in Touches : r.touch[i].direction # "none" =>
       MayScroll(r) /\ r.touch[i].state = "update" /\ EdgeOf(r.touch[i])
Silent(r) == r.scrolling = {} /\ \A i \in Touches : r.touch[i].direction = "none"

LEMMA SilentIs ==
  ASSUME NEW r, Silent(r)
  PROVE  Posted(r) /\ Busy(r)
  BY DEF Silent, Posted, Busy, Linked, Scrolled

LEMMA PostedBusy ==
  ASSUME NEW r, Posted(r)
  PROVE  Busy(r)
  BY DEF Posted, Busy, Scrolled

\* A palm does not scroll, and a finger that lifts is not ignored.
Ready(r) ==
  \A i \in Touches :
    /\ r.touch[i].dirty /\ r.arbitration # "off" => r.touch[i].palm = "arbitration"
    /\ Claimed /\ r.touch[i].state = "end" /\ r.arbitration = "off" =>
         r.touch[i].palm = "none" /\ ~ThumbIgnored(r, i)

LEMMA ReadyKin ==
  ASSUME NEW r, NEW v, KinAll(r, v), v.thumb = r.thumb, Ready(r)
  PROVE  Ready(v)
<1>1. \A i \in Touches : ThumbIgnored(v, i) <=> ThumbIgnored(r, i) BY DEF ThumbIgnored, IsThumb
<1>2. QED BY <1>1 DEF Ready, KinAll, Kin

-----------------------------------------------------------------------------
(* tp_edge_scroll_handle_state and tp_circular_scroll_handle_state         *)

Handles(r, v) ==
  /\ v.scrolling = r.scrolling /\ v.thumb = r.thumb
  /\ KinAll(r, v) /\ AllHandled(v)
  /\ \A i \in Touches : v.touch[i].direction = r.touch[i].direction
  /\ (\A i \in Touches : Scrolling(r, r.touch[i])) => \A i \in Touches : Scrolled(v, v.touch[i])

LEMMA HandledIn ==
  ASSUME NEW r, NEW v, NEW t, v.method = r.method, v.arbitration = r.arbitration
  PROVE  (Handled(r, t) => Handled(v, t)) /\ (Scrolled(r, t) => Scrolled(v, t))
  BY DEF Handled, Scrolled, MayScroll

LEMMA HandleEdgesIs ==
  ASSUME NEW r \in Scroll, \A i \in Touches : Landing(r.touch[i])
  PROVE  Handles(r, HandleEdges(r))
<1> DEFINE f == [i \in Touches |-> EdgeTouch(r, r.touch[i])]
           v == HandleEdges(r)
<1>1. \A i \in Touches : /\ SameButEdge(r.touch[i], f[i]) /\ Handled(r, f[i])
                         /\ Scrolling(r, r.touch[i]) => Scrolled(r, f[i])
  BY TouchIs, EdgeTouchIs
<1>2. f \in [Touches -> Touch]
  <2>1. \A i \in Touches : EdgeTouch(r, r.touch[i]) \in Touch BY <1>1 DEF SameButEdge
  <2>2. QED BY <2>1
<1>3. Puts(r, v, f, r.scrolling)
  <2>1. CASE r.method # "edge"
    <3> DEFINE g == [i \in Touches |->
                       [r.touch[i] EXCEPT !.edge_state = CASE r.touch[i].state = "begin" -> "area"
                                                           [] r.touch[i].state = "end" -> "none"
                                                           [] OTHER -> @]]
    <3>1. v = [r EXCEPT !.touch = g] BY <2>1 DEF HandleEdges
    <3>2. g = f
      <4>1. \A i \in Touches : g[i] = EdgeTouch(r, r.touch[i]) BY <2>1 DEF EdgeTouch
      <4>2. QED BY <4>1
    <3> HIDE DEF f, g, v
    <3>3. QED BY <1>2, <3>1, <3>2, PutIs DEF Scroll
  <2>2. CASE r.method = "edge"
    <3> DEFINE g == [i \in Touches |->
                       IF Concerned(r.touch[i])
                       THEN EdgeEvent(r, r.touch[i], EventOf[r.touch[i].state])
                       ELSE r.touch[i]]
               b == r.bugs \cup UNION {Bug(r, i, EventOf[r.touch[i].state]) :
                                         i \in {j \in Touches : Concerned(r.touch[j])}}
    <3>1. v = [r EXCEPT !.touch = g, !.bugs = b] BY <2>2 DEF HandleEdges, Scroll
    <3>2. g = f
      <4>1. \A i \in Touches : g[i] = EdgeTouch(r, r.touch[i]) BY <2>2 DEF EdgeTouch
      <4>2. QED BY <4>1
    <3>3. b \in SUBSET KnownEdgeBugs
      <4>1. ASSUME NEW i \in Touches, Concerned(r.touch[i])
            PROVE  Bug(r, i, EventOf[r.touch[i].state]) \subseteq KnownEdgeBugs
        <5> DEFINE e == EventOf[r.touch[i].state]
        <5>1. r.touch[i].state \in {"begin", "update", "end"} /\ r.touch[i] \in Touch
          BY <4>1, TouchIs DEF Concerned, Touch
        <5>2. /\ e \in EdgeEvents
              /\ r.touch[i].state = "begin" => e = "touch"
              /\ r.touch[i].state = "update" => e = "motion"
              /\ r.touch[i].state = "end" => e = "release"
          BY <5>1, EventIs
        <5> HIDE DEF e
        <5>3. Landing(r.touch[i]) OBVIOUS
        <5>4. /\ e = "touch" => r.touch[i].edge_state \in {"none", "area"}
              /\ e \in {"motion", "release", "posted"} => r.touch[i].edge_state # "none"
              /\ e # "timeout"
          BY <5>1, <5>2, <5>3 DEF Landing
        <5>5. Bug(r, i, e) \subseteq KnownEdgeBugs BY <5>2, <5>4, BugKnown
        <5>6. QED BY <5>5 DEF e
      <4>2. r.bugs \subseteq KnownEdgeBugs BY DEF Scroll
      <4>3. QED BY <4>1, <4>2
    <3> HIDE DEF f, g, v, b
    <3>4. QED BY <1>2, <3>1, <3>2, <3>3, PutIs DEF Scroll
  <2>3. QED BY <2>1, <2>2
<1>4. v \in Scroll /\ v.method = r.method /\ v.arbitration = r.arbitration /\ v.thumb = r.thumb
      /\ v.scrolling = r.scrolling /\ v.touch = f
  BY <1>3 DEF Puts, Fields
<1> HIDE DEF f, v
<1>5. \A i \in Touches : Kin(r.touch[i], v.touch[i]) /\ v.touch[i].direction = r.touch[i].direction
  BY <1>1, <1>4 DEF Kin, SameButEdge
<1>6. \A i \in Touches : /\ Handled(v, v.touch[i])
                         /\ Scrolling(r, r.touch[i]) => Scrolled(v, v.touch[i])
  BY <1>1, <1>4, HandledIn
<1>7. Handles(r, v) BY <1>4, <1>5, <1>6 DEF Handles, KinAll, AllHandled
<1>8. QED BY <1>7 DEF v

\* Only the circles change.
SameButRing(t, u) ==
  /\ Kin(t, u)
  /\ u.edge_state = t.edge_state /\ u.edge = t.edge /\ u.direction = t.direction
  /\ (u.timer <=> t.timer)

LEMMA RingIs ==
  ASSUME NEW t \in Touch, NEW x \in {"none", "inner", "ring"}, NEW a \in BOOLEAN
  PROVE  /\ SameButRing(t, [t EXCEPT !.ring = x, !.angle = a])
         /\ SameButRing(t, [t EXCEPT !.angle = a])
         /\ SameButRing(t, t)
<1>1. [t EXCEPT !.ring = x, !.angle = a] \in Touch /\ [t EXCEPT !.angle = a] \in Touch
  BY Zenon DEF Touch
<1>2. QED BY <1>1 DEF SameButRing, Kin, Touch

LEMMA SameHandled ==
  ASSUME NEW r, NEW t, NEW u, SameButRing(t, u)
  PROVE  (Handled(r, t) => Handled(r, u)) /\ (Scrolled(r, t) => Scrolled(r, u))
  BY DEF SameButRing, Kin, Handled, Scrolled, Timely, EdgeOf

\* The same state but for its circles, and in the end for what scrolls.
Rings(r, v) ==
  /\ v \in Scroll /\ Fields(r, v)
  /\ \A i \in Touches : SameButRing(r.touch[i], v.touch[i])

LEMMA RingsKeep ==
  ASSUME NEW r, NEW v, Rings(r, v), AllHandled(r)
  PROVE  KinAll(r, v) /\ AllHandled(v)
<1>1. \A i \in Touches : Handled(v, v.touch[i])
  <2>1. v.method = r.method /\ v.arbitration = r.arbitration BY DEF Rings, Fields
  <2>2. QED BY <2>1, HandledIn, SameHandled DEF Rings, AllHandled
<1>2. QED BY <1>1 DEF Rings, Fields, KinAll, AllHandled, SameButRing

LEMMA HandleRingsIs ==
  ASSUME NEW r \in Scroll
  PROVE  Rings(r, HandleRings(r)) /\ HandleRings(r).scrolling = r.scrolling
<1>1. CASE r.method # "circular"
  <2>1. HandleRings(r) = r BY <1>1 DEF HandleRings
  <2>2. \A i \in Touches : SameButRing(r.touch[i], r.touch[i]) BY TouchIs DEF SameButRing, Kin
  <2>3. QED BY <2>1, <2>2 DEF Rings, Fields
<1>2. CASE r.method = "circular"
  <2> DEFINE f == [i \in Touches |-> HandleRing(r.touch[i])]
  <2>1. ASSUME NEW t \in Touch PROVE SameButRing(t, HandleRing(t))
    <3>1. CASE t.dirty /\ t.state = "begin"
      <4> DEFINE x == IF OnRing(t.at) THEN "ring" ELSE "inner"
                 a == t.angle \/ OnRing(t.at)
      <4>1. HandleRing(t) = [t EXCEPT !.ring = x, !.angle = a] BY <3>1 DEF HandleRing, Touch
      <4>2. x \in {"none", "inner", "ring"} /\ a \in BOOLEAN BY DEF Touch, OnRing
      <4> HIDE DEF x, a
      <4>3. QED BY <4>1, <4>2, RingIs, ZenonT(60)
    <3>2. CASE ~(t.dirty /\ t.state = "begin") /\ t.dirty /\ t.state = "end"
      <4>1. HandleRing(t) = [t EXCEPT !.ring = "none", !.angle = FALSE]
        BY <3>2 DEF HandleRing, ResetRing
      <4>2. QED BY <4>1, RingIs
    <3>3. CASE ~(t.dirty /\ t.state = "begin") /\ ~(t.dirty /\ t.state = "end")
      <4>1. HandleRing(t) = t BY <3>3 DEF HandleRing
      <4>2. QED BY <4>1 DEF SameButRing, Kin
    <3>4. QED BY <3>1, <3>2, <3>3
  <2>2. \A i \in Touches : SameButRing(r.touch[i], f[i]) BY <2>1, TouchIs
  <2>3. f \in [Touches -> Touch]
    <3>1. \A i \in Touches : HandleRing(r.touch[i]) \in Touch BY <2>1, TouchIs DEF SameButRing, Kin
    <3>2. QED BY <3>1
  <2>4. HandleRings(r) = [r EXCEPT !.touch = f] BY <1>2 DEF HandleRings
  <2> HIDE DEF f
  <2>5. Puts(r, HandleRings(r), f, r.scrolling) BY <2>3, <2>4, PutIs DEF Scroll
  <2>6. QED BY <2>2, <2>5 DEF Puts, Rings
<1>3. QED BY <1>1, <1>2

-----------------------------------------------------------------------------
(* tp_edge_scroll_stop_events and tp_circular_scroll_stop_events           *)

\* What the stop does to a touch.
Stops(t, u) ==
  /\ Kin(t, u) /\ u.direction = "none" /\ (u.timer <=> t.timer)
  /\ \/ u.edge_state = t.edge_state /\ u.edge = t.edge
     \/ u.edge_state = "area" /\ u.edge = {}

StopTouch(t) ==
  IF t.direction = "none" THEN t
  ELSE [t EXCEPT !.direction = "none", !.edge = {}, !.edge_state = "area"]

LEMMA StopTouchIs ==
  ASSUME NEW t \in Touch
  PROVE  Stops(t, StopTouch(t))
<1> DEFINE u == [t EXCEPT !.direction = "none", !.edge = {}, !.edge_state = "area"]
<1>1. u \in Touch BY Zenon DEF Touch
<1>2. Stops(t, u) BY <1>1 DEF Stops, Kin, Touch
<1>3. t.direction = "none" => Stops(t, t) BY DEF Stops, Kin
<1>4. QED BY <1>2, <1>3 DEF StopTouch

Stopped(r, v) ==
  /\ v \in Scroll /\ Fields(r, v)
  /\ \A i \in Touches : Stops(r.touch[i], v.touch[i])
  /\ v.scrolling \subseteq r.scrolling
  /\ Linked(r) => v.scrolling = {}

LEMMA StopEdgesIs ==
  ASSUME NEW r \in Scroll
  PROVE  Stopped(r, StopEdges(r))
<1> DEFINE f == [i \in Touches |-> StopTouch(r.touch[i])]
           a == r.scrolling \ {r.touch[i].direction : i \in Touches}
           v == StopEdges(r)
<1>1. \A i \in Touches : Stops(r.touch[i], f[i]) BY TouchIs, StopTouchIs
<1>2. f \in [Touches -> Touch]
  <2>1. \A i \in Touches : StopTouch(r.touch[i]) \in Touch BY TouchIs, StopTouchIs DEF Stops, Kin
  <2>2. QED BY <2>1
<1>3. a \in SUBSET Axes /\ a \subseteq r.scrolling /\ (Linked(r) => a = {})
  BY DEF Scroll, Linked
<1>4. v = [r EXCEPT !.touch = f, !.scrolling = a]
  <2> DEFINE g == [i \in Touches |->
                     IF r.touch[i].direction = "none" THEN r.touch[i]
                     ELSE [r.touch[i] EXCEPT !.direction = "none", !.edge = {},
                                             !.edge_state = "area"]]
  <2>1. v = [r EXCEPT !.touch = g, !.scrolling = a] BY DEF StopEdges, Scroll
  <2>2. g = f BY DEF StopTouch
  <2>3. QED BY <2>1, <2>2
<1> HIDE DEF f, a, v
<1>5. Puts(r, v, f, a) BY <1>2, <1>3, <1>4, PutIs
<1>6. Stopped(r, v) BY <1>1, <1>3, <1>5 DEF Puts, Stopped
<1>7. QED BY <1>6 DEF v

LEMMA StopIs ==
  ASSUME NEW r \in Scroll
  PROVE  Stopped(r, Stop(r))
<1> DEFINE u == StopEdges(r)
           v == Stop(r)
<1>1. Stopped(r, u) BY StopEdgesIs
<1>2. u \in Scroll BY <1>1 DEF Stopped
<1>3. v = StopRings(u) BY DEF Stop
<1> HIDE DEF u, v
<1>4. CASE u.method # "circular"
  <2>1. v = u BY <1>3, <1>4 DEF StopRings
  <2>2. QED BY <1>1, <2>1 DEF v
<1>5. CASE u.method = "circular"
  <2> DEFINE f == [i \in Touches |-> ResetRing(u.touch[i])]
             a == u.scrolling \ IF \E i \in Touches : u.touch[i].ring = "ring"
                                THEN {"vertical"} ELSE {}
  <2>1. v = [u EXCEPT !.touch = f, !.scrolling = a]
    <3>1. v = [u EXCEPT !.scrolling = a, !.touch = f] BY <1>2, <1>3, <1>5 DEF StopRings, Scroll
    <3>2. QED BY <3>1
  <2>2. \A i \in Touches : SameButRing(u.touch[i], f[i])
    <3>1. \A i \in Touches : u.touch[i] \in Touch BY <1>2, TouchIs
    <3>2. QED BY <3>1, RingIs DEF ResetRing
  <2>3. f \in [Touches -> Touch]
    <3>1. \A i \in Touches : ResetRing(u.touch[i]) \in Touch BY <2>2 DEF SameButRing, Kin
    <3>2. QED BY <3>1
  <2>4. a \in SUBSET Axes /\ a \subseteq u.scrolling BY <1>2 DEF Scroll
  <2> HIDE DEF f, a
  <2>5. Puts(u, v, f, a) BY <1>2, <2>1, <2>3, <2>4, PutIs
  <2>6. \A i \in Touches : Stops(r.touch[i], v.touch[i])
    BY <1>1, <2>2, <2>5 DEF Puts, Stopped, Stops, SameButRing, Kin
  <2>7. Stopped(r, v) BY <1>1, <2>4, <2>5, <2>6 DEF Puts, Fields, Stopped
  <2>8. QED BY <2>7 DEF v
<1>6. QED BY <1>4, <1>5

LEMMA StopsHandled ==
  ASSUME NEW r, NEW t, NEW u, Stops(t, u), Handled(r, t)
  PROVE  Handled(r, u)
  BY DEF Stops, Kin, Handled, Timely

LEMMA StopKeeps ==
  ASSUME NEW r, AllHandled(r)
  PROVE  /\ KinAll(r, Stop(r)) /\ AllHandled(Stop(r)) /\ Stop(r).thumb = r.thumb
         /\ Linked(r) => Silent(Stop(r))
<1> DEFINE v == Stop(r)
<1>1. Stopped(r, v) BY StopIs DEF AllHandled
<1> HIDE DEF v
<1>2. \A i \in Touches : Handled(v, v.touch[i])
  <2>1. v.method = r.method /\ v.arbitration = r.arbitration BY <1>1 DEF Stopped, Fields
  <2>2. QED BY <1>1, <2>1, HandledIn, StopsHandled DEF Stopped, AllHandled
<1>3. KinAll(r, v) /\ AllHandled(v) /\ v.thumb = r.thumb
  BY <1>1, <1>2 DEF KinAll, AllHandled, Stopped, Fields, Stops
<1>4. Linked(r) => Silent(v) BY <1>1 DEF Stopped, Stops, Silent
<1>5. QED BY <1>3, <1>4 DEF v

-----------------------------------------------------------------------------
(* tp_edge_scroll_post_events                                              *)

LEMMA AxisIs ==
  ASSUME NEW t \in Touch, t.edge # {}, t.edge # Edges
  PROVE  Axis(t) \in Axes /\ \E e \in Edges : t.edge = {e} /\ Axis(t) = AxisOf[e]
<1>1. PICK e \in Edges : t.edge = {e} BY DEF Touch, Edges
<1>2. (CHOOSE x \in t.edge : TRUE) = e BY <1>1
<1>3. AxisOf[e] \in Axes BY DEF AxisOf, Axes, Edges
<1>4. QED BY <1>1, <1>2, <1>3 DEF Axis

LEMMA AnyAxis ==
  ASSUME NEW t \in Touch, t.edge # {}
  PROVE  Axis(t) \in Axes
<1> DEFINE e == CHOOSE x \in t.edge : TRUE
<1>1. e \in t.edge OBVIOUS
<1>2. e \in Edges BY <1>1 DEF Touch
<1> HIDE DEF e
<1>3. AxisOf[e] \in Axes BY <1>2 DEF AxisOf, Axes, Edges
<1>4. QED BY <1>3 DEF Axis, e

\* What is asked of the touches that may scroll.
FarOf(r, far) == far \in {Moving(r), {}}

\* Who scrolls now.
Acts(r, i, far) ==
  Scrolls(r, i, far) =>
    /\ r.touch[i].dirty /\ r.touch[i].state = "update" /\ r.touch[i].palm = "none"
    /\ r.touch[i].edge # {} /\ r.touch[i].edge # Edges /\ r.method = "edge"

LEMMA ScrollsIs ==
  ASSUME NEW r \in Scroll, NEW far, FarOf(r, far), NEW i \in Touches
  PROVE  Acts(r, i, far)
<1>1. SUFFICES ASSUME Scrolls(r, i, far)
               PROVE  /\ r.touch[i].dirty /\ r.touch[i].state = "update" /\ r.touch[i].palm = "none"
                      /\ r.touch[i].edge # {} /\ r.touch[i].edge # Edges /\ r.method = "edge"
  BY DEF Acts
<1>2. i \in far /\ r.touch[i].edge # {} /\ ~Skipped(r, i) BY <1>1 DEF Scrolls
<1>3. r.touch[i].dirty /\ r.touch[i].state = "update" BY <1>2 DEF FarOf, Moving
<1>4. r.touch[i].palm = "none" /\ r.touch[i].edge # Edges BY <1>2 DEF Skipped
<1>5. r.method = "edge"
  <2>1. r.touch[i].edge \cap EdgesAt(r, r.touch[i].at) # {} BY <1>2 DEF Skipped
  <2>2. QED BY <2>1 DEF EdgesAt
<1>6. QED BY <1>2, <1>3, <1>4, <1>5

\* What the post does to a touch.
Posts(r, i, far, u) ==
  /\ Kin(r.touch[i], u) /\ Handled(r, u)
  /\ Ends(r, i) => u.direction = "none"
  /\ Scrolls(r, i, far) => u.direction = Axis(r.touch[i]) /\ u.edge = r.touch[i].edge
                           /\ u.edge_state \in {"edge", "area"}
  /\ ~Ends(r, i) /\ ~Scrolls(r, i, far) => u = r.touch[i]

LEMMA PostedEdgeIs ==
  ASSUME NEW r \in Scroll, NEW far, FarOf(r, far), NEW i \in Touches, Handled(r, r.touch[i])
  PROVE  Posts(r, i, far, PostedEdge(r, i, far))
<1> DEFINE t == r.touch[i]
           u == PostedEdge(r, i, far)
<1>0. t \in Touch BY TouchIs
<1>1. ~(Ends(r, i) /\ Scrolls(r, i, far)) BY DEF Ends, Scrolls
<1>2. CASE Ends(r, i)
  <2>1. u = [t EXCEPT !.direction = "none"] BY <1>2 DEF PostedEdge
  <2>2. [t EXCEPT !.direction = "none"] \in Touch BY <1>0, Zenon DEF Touch
  <2>3. /\ Kin(t, u) /\ u.direction = "none" /\ u.edge_state = t.edge_state /\ u.edge = t.edge
        /\ (u.timer <=> t.timer)
    BY <1>0, <2>1, <2>2 DEF Kin, Touch
  <2> HIDE DEF u
  <2>4. Handled(r, u) BY <2>3 DEF Handled, Timely, Kin
  <2>5. QED BY <1>1, <1>2, <2>3, <2>4 DEF Posts, u
<1>3. CASE Scrolls(r, i, far)
  <2> DEFINE x == EdgeEvent(r, t, "posted")
             d == Axis(t)
  <2>1. u = [x EXCEPT !.direction = d] BY <1>1, <1>3 DEF PostedEdge
  <2>2. t.state = "update" /\ t.edge # {} /\ t.edge_state # "none"
    BY <1>3, ScrollsIs DEF Acts, Handled
  <2>3. d \in Axes BY <1>0, <2>2, AnyAxis
  <2>4. "posted" \in EdgeEvents BY DEF EdgeEvents
  <2>5. /\ SameButEdge(t, x) /\ (Timely(t) => Timely(x)) /\ x.edge = t.edge
        /\ x.edge_state = IF t.edge_state = "edge_new" THEN "edge" ELSE t.edge_state
    BY <1>0, <2>4, EdgeEventIs
  <2>6. t.edge_state \in {"edge_new", "edge", "area"} BY <1>0, <2>2 DEF Touch
  <2> HIDE DEF x, d
  <2>7. x \in Touch BY <2>5 DEF SameButEdge
  <2>8. [x EXCEPT !.direction = d] \in Touch BY <2>3, <2>7, Zenon DEF Touch
  <2>9. /\ Kin(t, u) /\ u.direction = d /\ u.edge_state = x.edge_state /\ u.edge = t.edge
        /\ (u.timer <=> x.timer)
    BY <2>1, <2>5, <2>7, <2>8 DEF Kin, SameButEdge, Touch
  <2> HIDE DEF u
  <2>10. Handled(r, u) BY <2>2, <2>5, <2>6, <2>9 DEF Handled, Timely, Kin
  <2>11. QED BY <1>1, <1>3, <2>5, <2>6, <2>9, <2>10 DEF Posts, u, d
<1>4. CASE ~Ends(r, i) /\ ~Scrolls(r, i, far)
  <2>1. u = t BY <1>4 DEF PostedEdge
  <2>2. Kin(t, t) BY <1>0 DEF Kin
  <2>3. QED BY <1>4, <2>1, <2>2 DEF Posts
<1>5. QED BY <1>2, <1>3, <1>4

\* A touch that scrolls has an axis, and keeps it; one that lifts has none.
LEMMA PostedTouch ==
  ASSUME NEW r \in Scroll, NEW far, FarOf(r, far), NEW i \in Touches, NEW u,
         Posts(r, i, far, u), Handled(r, r.touch[i]), Ready(r), Claimed, ~suspended,
         Scrolled(r, r.touch[i]), u.direction # "none"
  PROVE  MayScroll(r) /\ u.state = "update" /\ EdgeOf(u)
<1> DEFINE t == r.touch[i]
<1>0. t \in Touch BY TouchIs
<1>1. ~Ends(r, i) BY DEF Posts
<1>2. CASE Scrolls(r, i, far)
  <2>1. /\ t.dirty /\ t.state = "update" /\ t.palm = "none"
        /\ t.edge # {} /\ t.edge # Edges /\ r.method = "edge"
    BY <1>2, ScrollsIs DEF Acts
  <2>2. r.arbitration = "off" BY <2>1 DEF Ready
  <2>3. \E e \in Edges : t.edge = {e} /\ Axis(t) = AxisOf[e] BY <1>0, <2>1, AxisIs
  <2>4. u.direction = Axis(t) /\ u.edge = t.edge /\ u.edge_state \in {"edge", "area"} /\ Kin(t, u)
    BY <1>2 DEF Posts
  <2> HIDE DEF t
  <2>5. QED BY <2>1, <2>2, <2>3, <2>4 DEF MayScroll, EdgeOf, Kin
<1>3. CASE ~Scrolls(r, i, far)
  <2>1. u = t BY <1>1, <1>3 DEF Posts
  <2>2. MayScroll(r) /\ ((t.state = "update" /\ EdgeOf(t)) \/ (t.state = "end" /\ t.edge = {}))
    <3>1. t.direction # "none" BY <2>1
    <3> HIDE DEF t
    <3>2. Scrolled(r, t) BY DEF t
    <3>3. QED BY <3>1, <3>2, Zenon DEF Scrolled
  <2>3. ~(t.state = "end" /\ t.edge = {})
    <3>1. SUFFICES ASSUME t.state = "end", t.edge = {} PROVE Ends(r, i) BY <1>1
    <3>2. t.dirty BY <3>1 DEF Handled
    <3>3. t.palm = "none" /\ ~ThumbIgnored(r, i) BY <2>2, <3>1 DEF Ready, MayScroll
    <3>4. t.edge # Edges BY <3>1 DEF Edges
    <3>5. QED BY <3>1, <3>2, <3>3, <3>4 DEF Ends, Skipped
  <2>4. QED BY <2>1, <2>2, <2>3
<1>4. QED BY <1>2, <1>3

\* The client is told of the axes that scroll, and of no other.
LEMMA LastWordIs ==
  ASSUME PadOK, NEW r \in Scroll, NEW far, FarOf(r, far), NEW axis \in Axes, Claimed,
         AllHandled(r), Busy(r), LastWord(r, axis, far), ~suspended,
         NEW f, \A i \in Touches : Posts(r, i, far, f[i])
  PROVE  \E i \in Touches : f[i].direction = axis
<1> DEFINE said == {i \in Touches : \/ Ends(r, i) /\ r.touch[i].direction = axis
                                    \/ Scrolls(r, i, far) /\ Axis(r.touch[i]) = axis}
<1>1. CASE said = {}
  <2>1. axis \in r.scrolling BY <1>1 DEF LastWord
  <2>2. PICK i \in Touches : r.touch[i].direction = axis BY <2>1 DEF Busy, Linked
  <2>3. ~Ends(r, i) /\ ~(Scrolls(r, i, far) /\ Axis(r.touch[i]) = axis) BY <1>1, <2>2
  <2>4. ~Scrolls(r, i, far)
    <3>1. SUFFICES ASSUME Scrolls(r, i, far) PROVE Axis(r.touch[i]) = axis BY <2>3
    <3>2. r.touch[i].edge # {} /\ r.touch[i].edge # Edges BY <3>1, ScrollsIs DEF Acts
    <3>3. PICK e \in Edges : r.touch[i].edge = {e} /\ Axis(r.touch[i]) = AxisOf[e]
      BY <3>2, TouchIs, AxisIs
    <3>4. axis # "none" BY DEF Axes
    <3>5. EdgeOf(r.touch[i]) BY <2>2, <3>2, <3>4 DEF Busy, Scrolled
    <3>6. QED BY <2>2, <3>3, <3>5 DEF EdgeOf
  <2>5. f[i] = r.touch[i] BY <2>3, <2>4 DEF Posts
  <2>6. QED BY <2>2, <2>5
<1>2. CASE said # {}
  <2> DEFINE m == Max(said)
  <2>1. said \in SUBSET Touches OBVIOUS
  <2>2. m \in said BY <1>2, <2>1, MaxIs
  <2>3. Scrolls(r, m, far) BY <1>2 DEF LastWord
  <2> HIDE DEF m
  <2>4. ~Ends(r, m) BY <2>3 DEF Scrolls, Ends
  <2>5. m \in Touches /\ Axis(r.touch[m]) = axis BY <2>2, <2>4
  <2>6. f[m].direction = axis BY <2>3, <2>5 DEF Posts
  <2>7. QED BY <2>5, <2>6
<1>3. QED BY <1>1, <1>2

\* The bugs of the post.
LEMMA PostBugs ==
  ASSUME NEW r \in Scroll, NEW far, FarOf(r, far), AllHandled(r), NEW i \in Touches
  PROVE  /\ Scrolls(r, i, far) => Bug(r, i, "posted") \subseteq KnownEdgeBugs
         /\ Leftover(r, i) => <<r.touch[i].edge_state, "edge">> \in KnownEdgeBugs
<1>0. Handled(r, r.touch[i]) /\ r.touch[i] \in Touch BY TouchIs DEF AllHandled
<1>1. ASSUME Scrolls(r, i, far) PROVE Bug(r, i, "posted") \subseteq KnownEdgeBugs
  <2>1. r.touch[i].state = "update" BY <1>1, ScrollsIs DEF Acts
  <2>2. r.touch[i].edge_state # "none" BY <1>0, <2>1 DEF Handled
  <2>3. "posted" \in EdgeEvents BY DEF EdgeEvents
  <2>4. QED BY <2>2, <2>3, BugKnown
<1>2. ASSUME Leftover(r, i) PROVE <<r.touch[i].edge_state, "edge">> \in KnownEdgeBugs
  <2> DEFINE t == r.touch[i]
  <2>1. ~Skipped(r, i) /\ t.edge # {} /\ t.edge_state \in {"none", "area"} BY <1>2 DEF Leftover
  <2>2. t.dirty /\ t.edge \cap EdgesAt(r, t.at) # {} BY <2>1 DEF Skipped
  <2>3. r.method = "edge" BY <2>2 DEF EdgesAt
  <2> HIDE DEF t
  <2>4. t.state \in {"begin", "update"} BY <1>0, <2>1, <2>2, <2>3 DEF Handled, Touch, t
  <2>5. t.edge_state = "area" BY <1>0, <2>1, <2>4 DEF Handled, t
  <2>6. QED BY <2>5 DEF KnownEdgeBugs, t
<1>3. QED BY <1>1, <1>2

\* What follows tp_process_state leaves behind.
Poststate(r, v) ==
  /\ KinAll(r, v) /\ AllHandled(v) /\ v.thumb = r.thumb
  /\ Claimed => Posted(v)

LEMMA PostEdgesIs ==
  ASSUME PadOK, NEW r, NEW far, FarOf(r, far), AllHandled(r), Ready(r), ~suspended,
         Claimed => Busy(r)
  PROVE  Poststate(r, PostEdges(r, far))
<1> DEFINE f == [i \in Touches |-> PostedEdge(r, i, far)]
           a == {x \in Axes : LastWord(r, x, far)}
           b == r.bugs
                \cup (UNION {Bug(r, i, "posted") : i \in {j \in Touches : Scrolls(r, j, far)}})
                \cup {<<r.touch[i].edge_state, "edge">> : i \in {j \in Touches : Leftover(r, j)}}
           v == PostEdges(r, far)
<1>0. r \in Scroll /\ \A i \in Touches : Handled(r, r.touch[i]) BY DEF AllHandled
<1>1. v = [r EXCEPT !.touch = f, !.scrolling = a, !.bugs = b] BY <1>0 DEF PostEdges, Scroll
<1>2. \A i \in Touches : Posts(r, i, far, f[i]) BY <1>0, PostedEdgeIs
<1>3. f \in [Touches -> Touch]
  <2>1. \A i \in Touches : PostedEdge(r, i, far) \in Touch BY <1>2 DEF Posts, Kin
  <2>2. QED BY <2>1
<1>4. b \in SUBSET KnownEdgeBugs
  <2>1. r.bugs \subseteq KnownEdgeBugs BY <1>0 DEF Scroll
  <2>2. \A j \in Touches : /\ Scrolls(r, j, far) => Bug(r, j, "posted") \subseteq KnownEdgeBugs
                           /\ Leftover(r, j) => <<r.touch[j].edge_state, "edge">> \in KnownEdgeBugs
    BY <1>0, PostBugs
  <2> DEFINE scroll == {j \in Touches : Scrolls(r, j, far)}
             left   == {j \in Touches : Leftover(r, j)}
             Old(i) == <<r.touch[i].edge_state, "edge">>
             New(i) == Bug(r, i, "posted")
  <2>3. \A i \in scroll : New(i) \subseteq KnownEdgeBugs BY <2>2
  <2>4. \A i \in left : Old(i) \in KnownEdgeBugs BY <2>2
  <2>5. b = r.bugs \cup (UNION {New(i) : i \in scroll}) \cup {Old(i) : i \in left} OBVIOUS
  <2> HIDE DEF scroll, left, Old, New, b
  <2>6. QED BY <2>1, <2>3, <2>4, <2>5
<1>5. a \in SUBSET Axes OBVIOUS
<1>6. Claimed => \A x \in a : \E i \in Touches : f[i].direction = x
  <2> HIDE DEF f
  <2>1. QED BY <1>0, <1>2, LastWordIs
<1> HIDE DEF f, a, b, v
<1>7. Puts(r, v, f, a) BY <1>0, <1>1, <1>3, <1>4, <1>5, PutIs
<1>8. KinAll(r, v) /\ v.thumb = r.thumb
  BY <1>2, <1>7 DEF Puts, Fields, KinAll, Posts
<1>9. \A i \in Touches : Handled(v, v.touch[i])
  <2>1. v.method = r.method /\ v.arbitration = r.arbitration BY <1>8 DEF KinAll
  <2>2. QED BY <1>2, <1>7, <2>1, HandledIn DEF Puts, Posts
<1>10. ASSUME Claimed PROVE Posted(v)
  <2>1. Linked(v) BY <1>6, <1>7, <1>10 DEF Linked, Puts
  <2>2. \A i \in Touches : v.touch[i].direction # "none" =>
          MayScroll(r) /\ v.touch[i].state = "update" /\ EdgeOf(v.touch[i])
    <3>1. \A i \in Touches : Posts(r, i, far, v.touch[i]) /\ Scrolled(r, r.touch[i])
      BY <1>2, <1>7, <1>10 DEF Puts, Busy
    <3>2. QED BY <1>0, <1>10, <3>1, PostedTouch
  <2>3. MayScroll(r) => MayScroll(v) BY <1>8 DEF MayScroll, KinAll
  <2>4. QED BY <2>1, <2>2, <2>3 DEF Posted
<1>11. Poststate(r, v) BY <1>7, <1>8, <1>9, <1>10 DEF Poststate, AllHandled, Puts
<1>12. QED BY <1>11 DEF v

LEMMA PostRingsIs ==
  ASSUME PadOK, NEW r, NEW far, AllHandled(r), Claimed => Posted(r)
  PROVE  Poststate(r, PostRings(r, far))
<1>0. r \in Scroll BY DEF AllHandled
<1>1. CASE r.method # "circular"
  <2>1. PostRings(r, far) = r BY <1>1 DEF PostRings
  <2>2. QED BY <1>0, <2>1, KinSelf DEF Poststate
<1>2. CASE r.method = "circular"
  <2> DEFINE f == [i \in Touches |-> IF Turns(r, i)
                    THEN [r.touch[i] EXCEPT !.angle = ~InMiddle(r.touch[i].at)] ELSE r.touch[i]]
             a == r.scrolling \cup IF \E i \in far : Turns(r, i) /\ r.touch[i].angle
                                                     /\ ~InMiddle(r.touch[i].at)
                                   THEN {"vertical"} ELSE {}
             v == PostRings(r, far)
  <2>1. v = [r EXCEPT !.touch = f, !.scrolling = a] BY <1>0, <1>2 DEF PostRings, Scroll
  <2>2. \A i \in Touches : SameButRing(r.touch[i], f[i])
    <3>1. SUFFICES ASSUME NEW i \in Touches PROVE SameButRing(r.touch[i], f[i]) OBVIOUS
    <3>2. DEFINE x == ~InMiddle(r.touch[i].at)
    <3>3. x \in BOOLEAN BY DEF InMiddle
    <3>4. f[i] = IF Turns(r, i) THEN [r.touch[i] EXCEPT !.angle = x] ELSE r.touch[i] OBVIOUS
    <3> HIDE DEF f, x
    <3>5. QED BY <1>0, <3>3, <3>4, TouchIs, RingIs
  <2>3. f \in [Touches -> Touch]
    <3>1. \A i \in Touches : f[i] \in Touch BY <2>2 DEF SameButRing, Kin
    <3>2. QED BY <3>1
  <2>4. a \in SUBSET Axes BY <1>0 DEF Scroll, Axes
  <2> HIDE DEF f, a, v
  <2>5. Puts(r, v, f, a) BY <1>0, <2>1, <2>3, <2>4, PutIs
  <2>6. Rings(r, v) BY <2>2, <2>5 DEF Puts, Rings
  <2>7. ~Claimed
    <3>1. r.method \in pad.methods BY <1>0 DEF Scroll
    <3>2. QED BY <1>2, <3>1 DEF Claimed
  <2>8. Poststate(r, v) BY <2>5, <2>6, <2>7, RingsKeep DEF Poststate, Puts, Fields
  <2>9. QED BY <2>8 DEF v
<1>3. QED BY <1>1, <1>2

LEMMA PoststateOn ==
  ASSUME NEW r, NEW u, NEW v, KinAll(r, u), u.thumb = r.thumb, Poststate(u, v)
  PROVE  Poststate(r, v)
  BY KinOn DEF Poststate

LEMMA PostIs ==
  ASSUME PadOK, NEW r, AllHandled(r), Ready(r), ~suspended, Claimed => Busy(r), NEW v \in Post(r)
  PROVE  Poststate(r, v)
<1>1. PICK far \in {Moving(r), {}} : v = PostRings(PostEdges(r, far), far) BY DEF Post
<1> DEFINE u == PostEdges(r, far)
<1>2. Poststate(r, u) BY PostEdgesIs DEF FarOf
<1> HIDE DEF u
<1>3. Poststate(u, v) BY <1>1, <1>2, PostRingsIs DEF Poststate, u
<1>4. QED BY <1>2, <1>3, PoststateOn DEF Poststate

-----------------------------------------------------------------------------
(* tp_post_events                                                          *)

\* What a frame leaves behind; a hint makes no thumb of the only finger.
Answered(r, v) ==
  /\ KinAll(r, v) /\ AllHandled(v)
  /\ Claimed => Posted(v)
  /\ ~pad.thumbs => v.thumb = r.thumb
  /\ \A i \in Touches : Down(r) = {i} /\ Aside(v, i) => Aside(r, i)

LEMMA PoststateAnswers ==
  ASSUME NEW r, NEW v, Poststate(r, v)
  PROVE  Answered(r, v)
  BY DEF Poststate, Answered, Aside

LEMMA HintsAnswer ==
  ASSUME PadOK, NEW r, NEW u, Poststate(r, u), NEW v \in Hints(u)
  PROVE  Answered(r, v)
<1>1. u \in Scroll /\ AllHandled(u) BY DEF Poststate, AllHandled
<1>2. /\ Thumbed(u, v)
      /\ ~pad.thumbs => v = u
      /\ \A i \in Touches : Down(u) = {i} /\ Aside(v, i) => Aside(u, i)
  BY <1>1, HintsAre
<1>3. KinAll(u, v) BY <1>1, <1>2, TouchIs DEF Thumbed, KinAll, Kin
<1>4. KinAll(r, v) BY <1>3, KinOn DEF Poststate
<1>5. AllHandled(v) BY <1>1, <1>2, HandledIn DEF Thumbed, AllHandled
<1>6. Claimed => Posted(v)
  <2>1. MayScroll(u) => MayScroll(v) BY <1>2 DEF Thumbed, MayScroll
  <2>2. QED BY <1>2, <2>1 DEF Poststate, Posted, Linked, Thumbed
<1>7. Down(u) = Down(r) BY KinDown DEF Poststate
<1>8. \A i \in Touches : Down(r) = {i} /\ Aside(v, i) => Aside(r, i)
  <2>1. \A i : Aside(u, i) <=> Aside(r, i) BY DEF Poststate, Aside
  <2>2. QED BY <1>2, <1>7, <2>1
<1>9. QED BY <1>2, <1>4, <1>5, <1>6, <1>8 DEF Answered, Poststate

LEMMA PostEventsIs ==
  ASSUME PadOK, NEW r, AllHandled(r), Ready(r), Claimed => Busy(r), NEW v \in PostEvents(r)
  PROVE  Answered(r, v)
<1>0. r \in Scroll BY DEF AllHandled
<1>1. CASE suspended
  <2>1. v = r BY <1>1 DEF PostEvents
  <2>2. Claimed => Posted(r)
    BY <1>1 DEF Busy, Posted, Scrolled, MayScroll
  <2>3. QED BY <1>0, <2>1, <2>2, KinSelf DEF Answered
<1>2. CASE ~suspended
  <2> DEFINE stopped == Stop(r)
             posted == Post(r)
  <2>1. v \in posted \cup (UNION {Post(u) : u \in {stopped} \ {r}})
              \cup (UNION {Hints(u) : u \in {stopped} \cup posted})
    BY <1>2 DEF PostEvents
  <2>2. /\ KinAll(r, stopped) /\ AllHandled(stopped) /\ stopped.thumb = r.thumb
        /\ Linked(r) => Silent(stopped)
    BY StopKeeps
  <2>3. Claimed => Posted(stopped) /\ Busy(stopped) BY <2>2, SilentIs DEF Busy
  <2>4. Poststate(r, stopped) BY <2>2, <2>3 DEF Poststate
  <2>5. \A u \in posted : Poststate(r, u) BY <1>2, PostIs
  <2>6. Ready(stopped) BY <2>2, ReadyKin
  <2>7. \A u \in Post(stopped) : Poststate(r, u)
    BY <1>2, <2>2, <2>3, <2>6, PostIs, PoststateOn
  <2> HIDE DEF stopped, posted
  <2>8. CASE v \in posted BY <2>5, <2>8, PoststateAnswers
  <2>9. CASE v \in Post(stopped) BY <2>7, <2>9, PoststateAnswers
  <2>10. CASE \E u \in {stopped} \cup posted : v \in Hints(u) BY <2>4, <2>5, <2>10, HintsAnswer
  <2>11. \/ v \in posted
         \/ \E u \in {stopped} \ {r} : v \in Post(u)
         \/ \E u \in {stopped} \cup posted : v \in Hints(u)
    BY <2>1
  <2>12. QED BY <2>8, <2>9, <2>10, <2>11
<1>3. QED BY <1>1, <1>2

-----------------------------------------------------------------------------
(* A whole frame.                                                          *)

\* The frame as the kernel reports it.
Start(r) ==
  /\ r \in Scroll /\ \A i \in Touches : Landing(r.touch[i])
  /\ Claimed => /\ Linked(r)
                /\ \A i \in Touches : /\ Scrolling(r, r.touch[i])
                                      /\ r.touch[i].state = "end" => r.touch[i].palm = "none"

\* The same touches; the only finger, if it moves, is not put aside.
Alone(r, v) ==
  \A i \in Touches : pad.thumbs /\ Down(r) = {i} /\ r.touch[i].dirty /\ r.touch[i].state = "update"
                       => ~Aside(v, i)
Prepared(r, v) ==
  /\ AllHandled(v) /\ Ready(v) /\ v.method = r.method /\ v.arbitration = r.arbitration
  /\ Claimed => Busy(v)
  /\ \A i \in Touches : v.touch[i].state = r.touch[i].state /\ v.touch[i].at = r.touch[i].at
  /\ ~pad.thumbs => v.thumb = r.thumb
  /\ Alone(r, v)

LEMMA LikeLands ==
  ASSUME NEW r, NEW v, NEW t, NEW u, Like(t, u), v.method = r.method, v.arbitration = r.arbitration
  PROVE  (Landing(t) => Landing(u)) /\ (Scrolling(r, t) => Scrolling(v, u))
  BY DEF Like, Landing, Timely, Scrolling, MayScroll, EdgeOf

LEMMA ProcessStateIs ==
  ASSUME PadOK, NEW r, Start(r), NEW calm, NEW v \in ProcessState(r, calm)
  PROVE  Prepared(r, v)
<1>1. PICK x \in ProcessTouches(r, calm) : v = HandleRings(HandleEdges(NewThumb(x)))
  BY DEF ProcessState
<1> DEFINE y == NewThumb(x)
           z == HandleEdges(y)
<1>2. Processed(r, x)
  <2>1. \A i \in Touches : r.touch[i].state = "none" => ~r.touch[i].dirty BY DEF Start, Landing
  <2>2. QED BY <2>1, ProcessTouchesIs DEF Start
<1>3. LikeAll(r, x) /\ x \in Scroll BY <1>2 DEF Processed, LikeAll
<1>4. /\ Thumbed(x, y)
      /\ ~pad.thumbs => y = x
      /\ \A i : Down(x) = {i} => y = x
      /\ (pad.thumbs => pad.touches < 3) /\ (\E i \in Touches : x.touch[i].state = "end") => y = x
  BY <1>3, NewThumbIs
<1> HIDE DEF y
<1>5. y \in Scroll /\ y.touch = x.touch /\ y.method = r.method /\ y.arbitration = r.arbitration
      /\ y.scrolling = r.scrolling
  BY <1>3, <1>4 DEF Thumbed, LikeAll
<1>6. \A i \in Touches : Like(r.touch[i], y.touch[i]) BY <1>3, <1>5 DEF LikeAll
<1>7. \A i \in Touches : Landing(y.touch[i]) BY <1>6, LikeLands DEF Start
<1>8. Handles(y, z) BY <1>5, <1>7, HandleEdgesIs
<1> HIDE DEF z
<1>9. z \in Scroll /\ AllHandled(z) BY <1>8 DEF Handles, AllHandled
<1>10. Rings(z, v) /\ v.scrolling = z.scrolling BY <1>1, <1>9, HandleRingsIs DEF y, z
<1>11. KinAll(z, v) /\ AllHandled(v) BY <1>9, <1>10, RingsKeep
<1>12. KinAll(y, v) /\ v.thumb = y.thumb /\ v.scrolling = r.scrolling
  BY <1>5, <1>8, <1>10, <1>11, KinOn DEF Handles, Rings, Fields
<1>13. Ready(y)
  <2>1. SUFFICES ASSUME NEW i \in Touches
                 PROVE  /\ y.touch[i].dirty /\ y.arbitration # "off" =>
                             y.touch[i].palm = "arbitration"
                        /\ Claimed /\ y.touch[i].state = "end" /\ y.arbitration = "off" =>
                             y.touch[i].palm = "none" /\ ~ThumbIgnored(y, i)
    BY DEF Ready
  <2>2. Judged(r, x, i) BY <1>2 DEF Processed
  <2>3. y.touch[i] = x.touch[i] /\ Like(r.touch[i], y.touch[i]) BY <1>5, <1>6
  <2>4. y.touch[i].dirty /\ y.arbitration # "off" => y.touch[i].palm = "arbitration"
    BY <1>5, <2>2, <2>3 DEF Judged, Like
  <2>5. ASSUME Claimed, y.touch[i].state = "end", y.arbitration = "off"
        PROVE  y.touch[i].palm = "none" /\ ~ThumbIgnored(y, i)
    <3>1. r.touch[i].state = "end" BY <2>3, <2>5 DEF Like
    <3>2. r.touch[i].palm = "none" /\ r.touch[i].dirty BY <2>5, <3>1 DEF Start, Landing
    <3>3. y = x BY <1>4, <2>3, <2>5 DEF Claimed
    <3>4. QED BY <1>5, <2>2, <2>3, <2>5, <3>1, <3>2, <3>3 DEF Judged, Claimed
  <2>6. QED BY <2>4, <2>5
<1>14. Ready(v) BY <1>12, <1>13, ReadyKin
<1>15. ASSUME Claimed PROVE Busy(v)
  <2>1. \A i \in Touches : Scrolling(y, y.touch[i])
    BY <1>5, <1>6, <1>15, LikeLands DEF Start
  <2>2. \A i \in Touches : Scrolled(z, z.touch[i]) BY <1>8, <2>1 DEF Handles
  <2>3. v.method = z.method /\ v.arbitration = z.arbitration BY <1>10 DEF Rings, Fields
  <2>4. \A i \in Touches : Scrolled(v, v.touch[i])
    BY <1>10, <2>2, <2>3, SameHandled, HandledIn DEF Rings
  <2>5. \A i \in Touches : v.touch[i].direction = r.touch[i].direction
    BY <1>6, <1>8, <1>10 DEF Like, Handles, Rings, SameButRing
  <2>6. Linked(v) BY <1>12, <1>15, <2>5 DEF Start, Linked
  <2>7. QED BY <2>4, <2>6 DEF Busy
<1>16. \A i \in Touches : v.touch[i].state = r.touch[i].state /\ v.touch[i].at = r.touch[i].at
  BY <1>6, <1>12 DEF KinAll, Kin, Like
<1>17. ~pad.thumbs => v.thumb = r.thumb BY <1>2, <1>4, <1>12 DEF Processed
<1>18. Alone(r, v)
  <2>1. SUFFICES ASSUME NEW i \in Touches, pad.thumbs, Down(r) = {i}, r.touch[i].dirty,
                        r.touch[i].state = "update"
                 PROVE  ~Aside(v, i)
    BY DEF Alone
  <2>2. ~Aside(x, i) BY <1>2, <2>1 DEF Processed, Judged
  <2>3. Down(x) = {i} BY <1>3, <2>1, LikeDown
  <2>4. v.thumb = x.thumb BY <1>4, <1>12, <2>3
  <2>5. QED BY <2>2, <2>4 DEF Aside
<1>19. v.method = r.method /\ v.arbitration = r.arbitration BY <1>5, <1>12 DEF KinAll
<1>20. QED BY <1>11, <1>14, <1>15, <1>16, <1>17, <1>18, <1>19 DEF Prepared

-----------------------------------------------------------------------------
(* tp_post_process_state                                                   *)

\* A touch between two frames.
Resting(t) ==
  /\ ~t.dirty /\ t.state \in {"none", "update"}
  /\ t.state = "none" => t.edge_state \in {"none", "area"}
  /\ t.state = "update" => t.edge_state # "none"
  /\ Timely(t)

Settles(t, u) ==
  /\ u \in Touch /\ ~u.dirty
  /\ t.state \in {"none", "end"} => u.state = "none"
  /\ t.state \in {"begin", "update"} => u.state = "update"
  /\ u.edge_state = t.edge_state /\ u.edge = t.edge /\ u.direction = t.direction
  /\ (u.timer <=> t.timer)
  /\ pad.thumbs /\ t.state # "end" => u.at = t.at

LEMMA ForgetIs ==
  ASSUME NEW t \in Touch
  PROVE  /\ Forget(t) \in Touch /\ Forget(t).state = t.state
         /\ Forget(t).edge_state = t.edge_state /\ Forget(t).edge = t.edge
         /\ Forget(t).direction = t.direction /\ (Forget(t).timer <=> t.timer)
         /\ Forget(t).dirty <=> t.dirty
<1> DEFINE p == NoTouch.at
           u == [t EXCEPT !.at = p, !.age = 0]
<1>1. p \in [x : 0..Width, y : 0..Height]
  <2>1. p = [x |-> 0, y |-> 0] BY DEF NoTouch
  <2>2. QED BY <2>1 DEF Width, Height
<1>2. Forget(t) = u BY DEF Forget
<1> HIDE DEF p
<1>3. 0 \in 0..1 OBVIOUS
<1>4. u \in Touch BY <1>1, <1>3, Zenon DEF Touch
<1>5. QED BY <1>2, <1>4 DEF Touch

LEMMA SettledIs ==
  ASSUME NEW t \in Touch
  PROVE  Settles(t, Settled(t))
<1> DEFINE old == IF pad.thumbs THEN t ELSE Forget(t)
           clean == [old EXCEPT !.dirty = FALSE]
           gone == Forget(clean)
           u == Settled(t)
<1>0. t.state \in {"none", "begin", "update", "end"} BY DEF Touch
<1>1. /\ old \in Touch /\ old.state = t.state /\ old.edge_state = t.edge_state
      /\ old.edge = t.edge /\ old.direction = t.direction /\ (old.timer <=> t.timer)
      /\ pad.thumbs => old.at = t.at
  BY ForgetIs
<1> HIDE DEF old
<1>2. clean \in Touch BY <1>1, Zenon DEF Touch
<1>3. /\ ~clean.dirty /\ clean.state = t.state /\ clean.edge_state = t.edge_state
      /\ clean.edge = t.edge /\ clean.direction = t.direction /\ (clean.timer <=> t.timer)
      /\ pad.thumbs => clean.at = t.at
  BY <1>1, <1>2 DEF Touch
<1>4. /\ t.state = "end" => u = [gone EXCEPT !.state = "none", !.palm = "none"]
      /\ t.state = "begin" => u = [clean EXCEPT !.state = "update"]
      /\ t.state \in {"none", "update"} => u = clean
  BY DEF Settled, old
<1> HIDE DEF clean
<1>5. /\ gone \in Touch /\ gone.edge_state = t.edge_state
      /\ gone.edge = t.edge /\ gone.direction = t.direction /\ (gone.timer <=> t.timer)
      /\ ~gone.dirty
  BY <1>2, <1>3, ForgetIs
<1> HIDE DEF gone, u
<1>6. CASE t.state = "end"
  <2>1. "none" \in Palms BY DEF Palms
  <2>2. [gone EXCEPT !.state = "none", !.palm = "none"] \in Touch BY <1>5, <2>1, Zenon DEF Touch
  <2> DEFINE x == [gone EXCEPT !.state = "none", !.palm = "none"]
  <2>3. x \in Touch /\ x.state = "none" /\ x.edge_state = gone.edge_state
        /\ x.edge = gone.edge /\ x.direction = gone.direction /\ x.timer = gone.timer
        /\ x.dirty = gone.dirty
    BY <1>5, <2>2 DEF Touch
  <2>4. u = x BY <1>4, <1>6
  <2> HIDE DEF x
  <2>5. QED BY <1>5, <1>6, <2>3, <2>4 DEF Settles, u
<1>7. CASE t.state = "begin"
  <2>1. [clean EXCEPT !.state = "update"] \in Touch BY <1>2, Zenon DEF Touch
  <2>2. u \in Touch /\ u.state = "update" /\ u.edge_state = t.edge_state
        /\ u.edge = t.edge /\ u.direction = t.direction /\ (u.timer <=> t.timer) /\ ~u.dirty
        /\ (pad.thumbs => u.at = t.at)
    BY <1>2, <1>3, <1>4, <1>7, <2>1 DEF Touch
  <2>3. QED BY <1>7, <2>2 DEF Settles, u
<1>8. CASE t.state \in {"none", "update"} BY <1>2, <1>3, <1>4, <1>8 DEF Settles, u
<1>9. QED BY <1>0, <1>6, <1>7, <1>8

\* The touchpad between two frames.
Good(r) ==
  /\ r \in Scroll /\ \A i \in Touches : Resting(r.touch[i])
  /\ ~pad.thumbs => r.thumb.state = "finger"
  /\ Claimed => Posted(r)

\* What tp_post_process_state keeps of the state it finds.
Closes(r, v) ==
  /\ v \in Scroll /\ \A i \in Touches : Resting(v.touch[i])
  /\ Claimed => Posted(v)
  /\ ~pad.thumbs /\ r.thumb.state = "finger" => v.thumb.state = "finger"
  /\ Down(v) = Down(r)
  /\ pad.thumbs => \A i \in Down(r) : v.touch[i].at = r.touch[i].at
  /\ \A i \in Touches : Down(r) = {i} /\ Aside(v, i) => Aside(r, i)
  /\ v.method = r.method /\ v.arbitration = r.arbitration

LEMMA PostProcessIs ==
  ASSUME NEW r, AllHandled(r), Claimed => Posted(r)
  PROVE  Closes(r, PostProcess(r))
<1> DEFINE f == [i \in Touches |-> Settled(r.touch[i])]
           w == [r EXCEPT !.touch = f]
           v == PostProcess(r)
<1>0. r \in Scroll BY DEF AllHandled
<1>1. \A i \in Touches : Settles(r.touch[i], f[i]) BY <1>0, TouchIs, SettledIs
<1>2. f \in [Touches -> Touch]
  <2>1. \A i \in Touches : Settled(r.touch[i]) \in Touch BY <1>1 DEF Settles
  <2>2. QED BY <2>1
<1> HIDE DEF f
<1>3. Puts(r, w, f, r.scrolling) BY <1>0, <1>2, PutIs DEF Scroll
<1>4. v = IF Down(r) = {} THEN ResetThumb(w) ELSE w BY DEF PostProcess, f
<1> HIDE DEF w, v
<1>5. w \in Scroll BY <1>3 DEF Puts
<1>6. /\ v \in Scroll /\ v.touch = w.touch /\ v.method = w.method
      /\ v.arbitration = w.arbitration /\ v.scrolling = w.scrolling
      /\ v.thumb.state = "finger" \/ v.thumb = w.thumb
      /\ Down(r) # {} => v.thumb = w.thumb
  BY <1>4, <1>5, ResetThumbIs DEF Thumbed
<1>7. v.method = r.method /\ v.arbitration = r.arbitration /\ v.scrolling = r.scrolling
      /\ w.thumb = r.thumb /\ v.touch = f
  BY <1>3, <1>6 DEF Puts, Fields
<1>8. \A i \in Touches :
        Settles(r.touch[i], v.touch[i]) /\ Handled(r, r.touch[i]) /\ r.touch[i] \in Touch
  BY <1>0, <1>1, <1>7, TouchIs DEF AllHandled
<1>9. \A i \in Touches : Resting(v.touch[i])
  <2>1. ASSUME NEW t \in Touch, NEW u, Settles(t, u), Handled(r, t) PROVE Resting(u)
    <3>1. t.state \in {"none", "begin", "update", "end"} BY DEF Touch
    <3>2. QED BY <2>1, <3>1 DEF Settles, Handled, Resting, Timely
  <2>2. QED BY <1>8, <2>1
<1>10. Down(v) = Down(r)
  <2>1. \A i \in Touches : v.touch[i].state \in {"begin", "update"}
                             <=> r.touch[i].state \in {"begin", "update"}
    BY <1>8 DEF Settles, Touch
  <2>2. QED BY <2>1 DEF Down
<1>11. ASSUME Claimed PROVE Posted(v)
  <2>1. Posted(r) BY <1>11
  <2>2. Linked(v) BY <1>7, <1>8, <2>1 DEF Posted, Linked, Settles
  <2>3. MayScroll(r) => MayScroll(v) BY <1>7 DEF MayScroll
  <2>4. QED BY <1>8, <2>1, <2>2, <2>3 DEF Posted, Settles, EdgeOf
<1>12. pad.thumbs => \A i \in Down(r) : v.touch[i].at = r.touch[i].at
  BY <1>8 DEF Settles, Down
<1>13. \A i \in Touches : Down(r) = {i} /\ Aside(v, i) => Aside(r, i)
  BY <1>6, <1>7 DEF Aside
<1>14. ~pad.thumbs /\ r.thumb.state = "finger" => v.thumb.state = "finger" BY <1>6, <1>7
<1>15. Closes(r, v) BY <1>6, <1>7, <1>9, <1>10, <1>11, <1>12, <1>13, <1>14 DEF Closes
<1>16. QED BY <1>15 DEF v

-----------------------------------------------------------------------------
(* tp_handle_state                                                         *)

Ended(r, v) ==
  /\ v \in Scroll /\ \A i \in Touches : Resting(v.touch[i])
  /\ Claimed => Posted(v)
  /\ ~pad.thumbs /\ r.thumb.state = "finger" => v.thumb.state = "finger"
  /\ Down(v) = Down(r)
  /\ pad.thumbs => \A i \in Down(r) : v.touch[i].at = r.touch[i].at
  /\ Alone(r, v)
  /\ v.method = r.method /\ v.arbitration = r.arbitration

LEMMA HandleStateIs ==
  ASSUME PadOK, NEW r, Start(r), NEW calm, NEW v \in HandleState(r, calm)
  PROVE  Ended(r, v)
<1>1. PICK x \in ProcessState(r, calm) : \E y \in PostEvents(x) : v = PostProcess(y)
  BY DEF HandleState
<1>2. PICK y \in PostEvents(x) : v = PostProcess(y) BY <1>1
<1>3. Prepared(r, x) BY ProcessStateIs
<1>4. Answered(x, y) BY <1>3, PostEventsIs DEF Prepared
<1>5. Closes(y, v) BY <1>2, <1>4, PostProcessIs DEF Answered
<1>6. Down(x) = Down(r) BY <1>3 DEF Prepared, Down
<1>7. Down(y) = Down(x) BY <1>4, KinDown DEF Answered
<1>8. Down(v) = Down(r) BY <1>5, <1>6, <1>7 DEF Closes
<1>9. \A i \in Touches : y.touch[i].at = r.touch[i].at
  BY <1>3, <1>4 DEF Prepared, Answered, KinAll, Kin
<1>10. pad.thumbs => \A i \in Down(r) : v.touch[i].at = r.touch[i].at
  BY <1>5, <1>6, <1>7, <1>9 DEF Closes, Down
<1>11. Alone(r, v)
  <2>1. SUFFICES ASSUME NEW i \in Touches, pad.thumbs, Down(r) = {i}, r.touch[i].dirty,
                        r.touch[i].state = "update"
                 PROVE  ~Aside(v, i)
    BY DEF Alone
  <2>2. ~Aside(x, i) BY <1>3, <2>1 DEF Prepared, Alone
  <2>3. ~Aside(y, i) BY <1>4, <1>6, <2>1, <2>2 DEF Answered
  <2>4. QED BY <1>5, <1>6, <1>7, <2>1, <2>3 DEF Closes
<1>12. ~pad.thumbs /\ r.thumb.state = "finger" => v.thumb.state = "finger"
  BY <1>3, <1>4, <1>5 DEF Prepared, Answered, Closes
<1>13. v.method = r.method /\ v.arbitration = r.arbitration
  BY <1>3, <1>4, <1>5 DEF Prepared, Answered, Closes, KinAll
<1>14. QED BY <1>5, <1>8, <1>10, <1>11, <1>12, <1>13 DEF Ended, Closes

-----------------------------------------------------------------------------
(* What the kernel reports.                                                *)

Reports(t, u) ==
  /\ u \in Touch /\ Landing(u)
  /\ u.edge_state = t.edge_state /\ u.edge = t.edge /\ u.direction = t.direction
  /\ t.state = "update" => u.state \in {"update", "end"}
  /\ t.state = "none" => u.state \in {"none", "begin"}
  /\ u.state = "end" => u.palm = "none"
  /\ t.state = "update" /\ u.state = "update" /\ u.at # t.at => u.dirty

LEMMA OlderIs ==
  ASSUME NEW a \in 0..1, NEW passed \in 0..1
  PROVE  Min({1, a + passed}) \in 0..1
<1> DEFINE these == {1, a + passed}
<1>1. a + passed \in 0..2 OBVIOUS
<1>2. \E x \in these : \A y \in these : x <= y
  <2>1. CASE a + passed <= 1 BY <1>1, <2>1
  <2>2. CASE ~(a + passed <= 1) BY <1>1, <2>2
  <2>3. QED BY <2>1, <2>2
<1>3. Min(these) \in these /\ \A y \in these : Min(these) <= y BY <1>2 DEF Min
<1>4. QED BY <1>1, <1>3

LEMMA ReportedIs ==
  ASSUME PadOK, NEW t \in Touch, Resting(t), NEW c \in pad.points \cup {Keep, Lift},
         NEW passed \in 0..1, c = Lift => t.state # "none"
  PROVE  Reports(t, Reported(t, c, passed))
<1> DEFINE age == IF t.state = "none" THEN 0 ELSE Min({1, t.age + passed})
           older == [t EXCEPT !.age = age]
           u == Reported(t, c, passed)
<1>0. t.state \in {"none", "update"} /\ ~t.dirty BY DEF Resting
<1>1. age \in 0..1
  <2>1. t.age \in 0..1 BY DEF Touch
  <2>2. QED BY <2>1, OlderIs
<1> HIDE DEF age
<1>2. older \in Touch BY <1>1, Zenon DEF Touch
<1>3. /\ older.state = t.state /\ (older.dirty <=> t.dirty) /\ older.at = t.at
      /\ older.edge_state = t.edge_state /\ older.edge = t.edge /\ older.direction = t.direction
      /\ (older.timer <=> t.timer)
  BY <1>2 DEF Touch
<1>4. Keep # Lift BY DEF Keep, Lift, Width
<1>5. CASE c = Keep
  <2>1. u = older BY <1>4, <1>5 DEF Reported, age
  <2> HIDE DEF older, u
  <2>2. Landing(u) BY <1>0, <1>3, <2>1 DEF Landing, Resting, Timely
  <2>3. QED BY <1>0, <1>2, <1>3, <2>1, <2>2 DEF Reports, u
<1>6. CASE c = Lift
  <2> DEFINE x == [older EXCEPT !.state = "end", !.dirty = TRUE, !.palm = "none", !.fast = 0]
  <2>1. u = x BY <1>4, <1>6 DEF Reported, age
  <2> HIDE DEF older, u
  <2>2. "none" \in Palms /\ 0 \in 0..2 BY DEF Palms
  <2>3. x \in Touch BY <1>2, <2>2, Zenon DEF Touch
  <2>4. /\ x.state = "end" /\ x.dirty /\ x.palm = "none" /\ x.edge_state = older.edge_state
        /\ x.edge = older.edge /\ x.direction = older.direction /\ (x.timer <=> older.timer)
    BY <1>2, <2>3 DEF Touch
  <2> HIDE DEF x
  <2>5. t.state = "update" /\ t.edge_state # "none" BY <1>0, <1>6 DEF Resting
  <2>6. Landing(u) BY <1>3, <2>1, <2>4, <2>5 DEF Landing, Resting, Timely
  <2>7. QED BY <1>3, <2>1, <2>3, <2>4, <2>5, <2>6 DEF Reports, u
<1>7. CASE c \notin {Keep, Lift}
  <2>1. c \in [x : 0..Width, y : 0..Height]
    <3>1. c \in pad.points BY <1>7
    <3>2. QED BY <3>1, ScrollAssumption DEF PadOK
  <2>2. CASE t.state = "none"
    <3> DEFINE x == [t EXCEPT !.state = "begin", !.dirty = TRUE, !.at = c, !.palm = "none",
                              !.age = 0, !.fast = 0]
    <3>1. u = x BY <1>7, <2>2 DEF Reported
    <3> HIDE DEF u
    <3>2. "none" \in Palms /\ 0 \in 0..2 /\ 0 \in 0..1 BY DEF Palms
    <3>3. x \in Touch BY <2>1, <3>2, Zenon DEF Touch
    <3>4. /\ x.state = "begin" /\ x.dirty /\ x.edge_state = t.edge_state
          /\ x.edge = t.edge /\ x.direction = t.direction /\ (x.timer <=> t.timer)
      BY <3>3 DEF Touch
    <3> HIDE DEF x
    <3>5. Landing(u) BY <2>2, <3>1, <3>4 DEF Landing, Resting, Timely
    <3>6. QED BY <2>2, <3>1, <3>3, <3>4, <3>5 DEF Reports, u
  <2>3. CASE t.state = "update"
    <3> DEFINE x == [older EXCEPT !.dirty = TRUE, !.at = c]
    <3>1. u = x BY <1>7, <2>3 DEF Reported, age
    <3> HIDE DEF u, older
    <3>2. x \in Touch BY <1>2, <2>1, Zenon DEF Touch
    <3>3. /\ x.state = "update" /\ x.dirty /\ x.edge_state = t.edge_state
          /\ x.edge = t.edge /\ x.direction = t.direction /\ (x.timer <=> t.timer)
      BY <1>2, <1>3, <2>3, <3>2 DEF Touch
    <3> HIDE DEF x
    <3>4. Landing(u) BY <2>3, <3>1, <3>3 DEF Landing, Resting, Timely
    <3>5. QED BY <2>3, <3>1, <3>2, <3>3, <3>4 DEF Reports, u
  <2>4. QED BY <1>0, <2>2, <2>3
<1>8. QED BY <1>5, <1>6, <1>7

LEMMA ReportScrolls ==
  ASSUME NEW r, NEW t, NEW u, Reports(t, u),
         t.direction # "none" => MayScroll(r) /\ t.state = "update" /\ EdgeOf(t)
  PROVE  Scrolling(r, u)
  BY DEF Reports, Scrolling, EdgeOf

\* Reports of all touches make a frame.
LEMMA StartIs ==
  ASSUME PadOK, NEW r, Good(r), NEW f, \A i \in Touches : Reports(r.touch[i], f[i]),
         f = [i \in Touches |-> f[i]], NEW v, v = [r EXCEPT !.touch = f]
  PROVE  Start(v) /\ Fields(r, v) /\ v.touch = f
<1>1. r \in Scroll /\ r.scrolling \in SUBSET Axes BY DEF Good, Scroll
<1>2. f \in [Touches -> Touch]
  <2>1. \A i \in Touches : f[i] \in Touch BY DEF Reports
  <2>2. QED BY <2>1
<1>3. Puts(r, v, f, r.scrolling) BY <1>1, <1>2, PutIs
<1>4. \A i \in Touches : Landing(v.touch[i]) BY <1>3 DEF Puts, Reports
<1>5. ASSUME Claimed
      PROVE  /\ Linked(v)
             /\ \A i \in Touches : /\ Scrolling(v, v.touch[i])
                                   /\ v.touch[i].state = "end" => v.touch[i].palm = "none"
  <2>1. Posted(r) BY <1>5 DEF Good
  <2>2. Linked(v) BY <1>3, <2>1 DEF Linked, Posted, Puts, Reports
  <2>3. MayScroll(r) => MayScroll(v) BY <1>3 DEF Puts, Fields, MayScroll
  <2>4. \A i \in Touches : Scrolling(v, v.touch[i])
    BY <1>3, <2>1, <2>3, ReportScrolls DEF Posted, Puts
  <2>5. QED BY <1>3, <2>2, <2>4 DEF Puts, Reports
<1>6. QED BY <1>3, <1>4, <1>5 DEF Start, Puts

\* The state after tp_clear_state: no touch is left.
Still(r) ==
  /\ r \in Scroll /\ \A i \in Touches : Resting(r.touch[i])
  /\ ~pad.thumbs => r.thumb.state = "finger"
  /\ Claimed => Silent(r)

LEMMA ResetStart ==
  ASSUME NEW r, Start(r)
  PROVE  Start(ResetThumb(r)) /\ ResetThumb(r).touch = r.touch
         /\ ResetThumb(r).thumb.state = "finger"
<1> DEFINE v == ResetThumb(r)
<1>1. Thumbed(r, v) /\ v.thumb.state = "finger" BY ResetThumbIs DEF Start
<1> HIDE DEF v
<1>2. \A t : Scrolling(r, t) => Scrolling(v, t)
  BY <1>1 DEF Thumbed, Scrolling, MayScroll
<1>3. Start(v) BY <1>1, <1>2 DEF Start, Thumbed, Linked
<1>4. QED BY <1>1, <1>3 DEF Thumbed, v

LEMMA ClearedIs ==
  ASSUME PadOK, NEW r, Good(r), NEW v \in Cleared(r)
  PROVE  Still(v) /\ Down(v) = {}
<1> DEFINE f == [i \in Touches |-> IF r.touch[i].state = "none" THEN r.touch[i]
                                   ELSE Reported(r.touch[i], Lift, 0)]
           lifted == [r EXCEPT !.touch = f]
           x == ResetThumb(lifted)
<1>0. r \in Scroll /\ \A i \in Touches : r.touch[i] \in Touch /\ Resting(r.touch[i])
  BY TouchIs DEF Good
<1>1. v \in HandleState(x, TRUE) BY DEF Cleared
<1>2. \A i \in Touches : Reports(r.touch[i], f[i]) /\ f[i].state \in {"none", "end"}
  <2>1. SUFFICES ASSUME NEW i \in Touches
                 PROVE  Reports(r.touch[i], f[i]) /\ f[i].state \in {"none", "end"}
    OBVIOUS
  <2>2. CASE r.touch[i].state = "none"
    <3>1. f[i] = r.touch[i] BY <2>2
    <3>2. Reports(r.touch[i], r.touch[i]) BY <1>0, <2>2 DEF Reports, Landing, Resting
    <3>3. QED BY <2>2, <3>1, <3>2
  <2>3. CASE r.touch[i].state # "none"
    <3>1. f[i] = Reported(r.touch[i], Lift, 0) BY <2>3
    <3>2. Reports(r.touch[i], Reported(r.touch[i], Lift, 0))
      <4>1. 0 \in 0..1 /\ Lift \in pad.points \cup {Keep, Lift} OBVIOUS
      <4>2. QED BY <1>0, <2>3, <4>1, ReportedIs
    <3>3. Reported(r.touch[i], Lift, 0).state = "end"
      <4>1. Keep # Lift BY DEF Keep, Lift, Width
      <4>2. QED BY <1>0, <4>1 DEF Reported, Touch
    <3>4. QED BY <3>1, <3>2, <3>3
  <2>4. QED BY <2>2, <2>3
<1>3. f = [i \in Touches |-> f[i]] OBVIOUS
<1> HIDE DEF f
<1>4. Start(lifted) /\ lifted.touch = f BY <1>2, <1>3, StartIs
<1> HIDE DEF lifted
<1>5. Start(x) /\ x.touch = f /\ x.thumb.state = "finger" BY <1>4, ResetStart
<1> HIDE DEF x
<1>6. Ended(x, v) BY <1>1, <1>5, HandleStateIs
<1>7. Down(x) = {} BY <1>2, <1>5 DEF Down
<1>8. Down(v) = {} BY <1>6, <1>7 DEF Ended
<1>9. Claimed => Silent(v)
  <2>1. SUFFICES ASSUME Claimed PROVE Silent(v) OBVIOUS
  <2>2. Posted(v) BY <1>6, <2>1 DEF Ended
  <2>3. \A i \in Touches : v.touch[i].state # "update" BY <1>8 DEF Down
  <2>4. \A i \in Touches : v.touch[i].direction = "none" BY <2>2, <2>3 DEF Posted
  <2>5. v.scrolling \subseteq Axes BY <1>6 DEF Ended, Scroll
  <2>6. v.scrolling = {} BY <2>2, <2>4, <2>5 DEF Posted, Linked, Axes
  <2>7. QED BY <2>4, <2>6 DEF Silent
<1>10. QED BY <1>5, <1>6, <1>8, <1>9 DEF Ended, Still

-----------------------------------------------------------------------------
(* The actions.                                                            *)

ScrollInv == PadOK /\ suspended \in BOOLEAN /\ pen \in BOOLEAN /\ Good(s)

\* The touchpad is the same, but for being suspended.
LEMMA Primed ==
  ASSUME pad' = pad
  PROVE  /\ Touches' = Touches /\ Scroll' = Scroll /\ (Claimed' <=> Claimed)
  BY DEF Touches, Scroll, ThumbRecord, Touch, Claimed, Axes, Thumbs, Palms, Edges, KnownEdgeBugs

LEMMA PrimedGood ==
  ASSUME pad' = pad, suspended' = suspended, Good(s')
  PROVE  Good(s)'
<1>1. Posted(s') => Posted(s)'
  BY Primed DEF Posted, Linked, MayScroll, EdgeOf
<1>2. QED BY <1>1, Primed DEF Good, Resting, Timely

LEMMA PrimedStill ==
  ASSUME pad' = pad, Still(s')
  PROVE  Good(s)'
<1>1. Silent(s') => Posted(s)' BY Primed DEF Silent, Posted, Linked
<1>2. QED BY <1>1, Primed DEF Still, Good, Resting, Timely

\* A finger that is alone, moves, and was there before.
Back(i) == Down(s') = {i} /\ i \in Down(s) /\ s'.touch[i].at # s.touch[i].at
Revived == \A i \in Touches : Back(i) => ~Aside(s', i)

LEMMA FrameReports ==
  ASSUME ScrollInv, NEW c \in [Touches -> pad.points \cup {Keep, Lift}],
         \A i \in Touches : c[i] = Lift => s.touch[i].state # "none", NEW passed \in 0..1,
         NEW f, f = [i \in Touches |-> Reported(s.touch[i], c[i], passed)],
         NEW r, r = [s EXCEPT !.touch = f]
  PROVE  /\ Start(r) /\ Fields(s, r) /\ r.touch = f
         /\ \A i \in Touches : Reports(s.touch[i], f[i])
<1>0. PadOK /\ Good(s) BY DEF ScrollInv
<1>1. \A i \in Touches : s.touch[i] \in Touch /\ Resting(s.touch[i]) BY <1>0, TouchIs DEF Good
<1>2. ASSUME NEW i \in Touches PROVE Reports(s.touch[i], f[i])
  <2>1. c[i] \in pad.points \cup {Keep, Lift} OBVIOUS
  <2>2. Reports(s.touch[i], Reported(s.touch[i], c[i], passed)) BY <1>0, <1>1, <2>1, ReportedIs
  <2>3. QED BY <2>2
<1>3. f = [i \in Touches |-> f[i]] OBVIOUS
<1>4. Start(r) /\ Fields(s, r) /\ r.touch = f BY <1>0, <1>2, <1>3, StartIs
<1>5. QED BY <1>2, <1>4

LEMMA FrameIs ==
  ASSUME ScrollInv, Frame
  PROVE  Good(s)' /\ Revived
<1>0. PadOK /\ Good(s) BY DEF ScrollInv
<1>1. PICK c \in [Touches -> pad.points \cup {Keep, Lift}] :
        /\ \A i \in Touches : c[i] = Lift => s.touch[i].state # "none"
        /\ \E r \in {[s EXCEPT !.touch = [i \in Touches |-> Reported(s.touch[i], c[i], passed)]] :
                      passed \in IF pad.thumbs /\ Young THEN 0..1 ELSE {0}},
              calm \in IF Fast THEN BOOLEAN ELSE {TRUE} :
             s' \in HandleState(r, calm)
  BY DEF Frame
<1>2. PICK passed \in (IF pad.thumbs /\ Young THEN 0..1 ELSE {0}),
           calm \in (IF Fast THEN BOOLEAN ELSE {TRUE}) :
        s' \in HandleState([s EXCEPT !.touch =
                              [i \in Touches |-> Reported(s.touch[i], c[i], passed)]], calm)
  BY <1>1
<1>3. passed \in 0..1 OBVIOUS
<1> DEFINE f == [i \in Touches |-> Reported(s.touch[i], c[i], passed)]
           r == [s EXCEPT !.touch = f]
<1>4. s' \in HandleState(r, calm) BY <1>2
<1>4a. /\ f = [i \in Touches |-> Reported(s.touch[i], c[i], passed)]
      /\ r = [s EXCEPT !.touch = f]
  OBVIOUS
<1>4b. \A i \in Touches : c[i] = Lift => s.touch[i].state # "none" BY <1>1
<1> HIDE DEF f, r
<1>5. /\ Start(r) /\ Fields(s, r) /\ r.touch = f
      /\ \A i \in Touches : Reports(s.touch[i], f[i])
  BY <1>4a, <1>4b, <1>3, FrameReports
<1>6. Ended(r, s') BY <1>0, <1>4, <1>5, HandleStateIs
<1>7. Good(s')
  <2>1. ~pad.thumbs => s'.thumb.state = "finger"
    BY <1>0, <1>5, <1>6 DEF Good, Fields, Ended
  <2>2. QED BY <1>6, <2>1 DEF Ended, Good
<1>8. pad' = pad /\ suspended' = suspended BY DEF Frame
<1>9. Good(s)' BY <1>7, <1>8, PrimedGood
<1>10. Revived
  <2>1. SUFFICES ASSUME NEW i \in Touches, Back(i) PROVE ~Aside(s', i) BY DEF Revived
  <2>2. Down(r) = {i} /\ s.touch[i].state = "update" /\ s'.touch[i].at # s.touch[i].at
    BY <1>0, <1>6, <2>1 DEF Back, Ended, Down, Good, Resting
  <2>3. CASE ~pad.thumbs BY <1>7, <2>3 DEF Good, Aside
  <2>4. CASE pad.thumbs
    <3>1. s'.touch[i].at = r.touch[i].at BY <1>6, <2>2, <2>4 DEF Ended
    <3>2. r.touch[i].state \in {"begin", "update"} BY <2>2 DEF Down
    <3>3. r.touch[i].state = "update" /\ r.touch[i].dirty
      BY <1>5, <2>2, <3>1, <3>2 DEF Reports
    <3>4. QED BY <1>6, <2>2, <2>4, <3>3 DEF Ended, Alone
  <2>5. QED BY <2>3, <2>4
<1>11. QED BY <1>9, <1>10

\* Of the other actions none moves a finger.
Unmoved == \A i \in Touches : ~Back(i)

LEMMA UnmovedRevived ==
  ASSUME Unmoved
  PROVE  Revived
  BY DEF Unmoved, Revived

LEMMA NobodyBack ==
  ASSUME Down(s') = {}
  PROVE  Unmoved
  BY DEF Unmoved, Back

LEMMA KinUnmoved ==
  ASSUME \A i \in Touches : s'.touch[i].at = s.touch[i].at
  PROVE  Unmoved
  BY DEF Unmoved, Back

LEMMA SuspendIs ==
  ASSUME ScrollInv, Suspend
  PROVE  Good(s)' /\ Unmoved
<1>1. Still(s') /\ Down(s') = {} BY ClearedIs DEF ScrollInv, Suspend
<1>2. QED BY <1>1, PrimedStill, NobodyBack DEF Suspend

LEMMA ResumeIs ==
  ASSUME ScrollInv, Resume
  PROVE  Good(s)' /\ Unmoved
<1>1. CASE pad.open
  <2>1. s' \in Cleared(s) BY <1>1 DEF Resume
  <2>2. Still(s') /\ Down(s') = {} BY <2>1, ClearedIs DEF ScrollInv
  <2>3. QED BY <2>2, PrimedStill, NobodyBack DEF Resume
<1>2. CASE ~pad.open
  <2>1. s' = s BY <1>2 DEF Resume
  <2>2. Claimed => Silent(s)
    <3>1. SUFFICES ASSUME Claimed PROVE Silent(s) OBVIOUS
    <3>2. Posted(s) /\ s.scrolling \subseteq Axes BY <3>1 DEF ScrollInv, Good, Scroll
    <3>3. \A i \in Touches : s.touch[i].direction = "none" BY <3>2 DEF Posted, MayScroll, Resume
    <3>4. QED BY <3>2, <3>3 DEF Posted, Linked, Silent, Axes
  <2>3. Still(s') BY <2>1, <2>2 DEF ScrollInv, Good, Still
  <2>4. QED BY <2>1, <2>3, PrimedStill, KinUnmoved DEF Resume
<1>3. QED BY <1>1, <1>2

\* Only the arbitration changes, or the method.
LEMMA ArbitrateIs ==
  ASSUME NEW r \in Scroll, NEW a \in {"off", "on", "ending"}, NEW m \in pad.methods
  PROVE  /\ [r EXCEPT !.arbitration = a] \in Scroll
         /\ [r EXCEPT !.arbitration = a].touch = r.touch
         /\ [r EXCEPT !.arbitration = a].thumb = r.thumb
         /\ [r EXCEPT !.arbitration = a].scrolling = r.scrolling
         /\ [r EXCEPT !.method = m] \in Scroll
         /\ [r EXCEPT !.method = m].touch = r.touch
         /\ [r EXCEPT !.method = m].thumb = r.thumb
         /\ [r EXCEPT !.method = m].scrolling = r.scrolling
<1>1. [r EXCEPT !.arbitration = a] \in Scroll /\ [r EXCEPT !.method = m] \in Scroll
  BY Zenon DEF Scroll
<1>2. QED BY <1>1 DEF Scroll

LEMMA PenInIs ==
  ASSUME ScrollInv, PenIn
  PROVE  Good(s)' /\ Unmoved
<1>0. PadOK /\ Good(s) /\ pad' = pad /\ suspended' = suspended BY DEF ScrollInv, PenIn
<1>1. CASE s.arbitration # "off"
  <2>1. s' = s BY <1>1 DEF PenIn
  <2>2. QED BY <1>0, <2>1, PrimedGood, KinUnmoved
<1>2. CASE s.arbitration = "off"
  <2>1. PICK u \in Cleared(s) : s' = [u EXCEPT !.arbitration = "on"] BY <1>2 DEF PenIn
  <2>2. Still(u) /\ Down(u) = {} BY <1>0, ClearedIs
  <2>3. u \in Scroll BY <2>2 DEF Still
  <2>4. s' \in Scroll /\ s'.touch = u.touch /\ s'.thumb = u.thumb /\ s'.scrolling = u.scrolling
    <3>1. u.method \in pad.methods BY <2>3 DEF Scroll
    <3>2. QED BY <2>1, <2>3, <3>1, ArbitrateIs
  <2>5. Still(s') BY <2>2, <2>4 DEF Still, Silent
  <2>6. Down(s') = {} BY <2>2, <2>4 DEF Down
  <2>7. QED BY <1>0, <2>5, <2>6, PrimedStill, NobodyBack
<1>3. QED BY <1>1, <1>2

\* While the arbitration is not off, nobody scrolls.
LEMMA ArbitratedStill ==
  ASSUME Good(s), s.arbitration # "off"
  PROVE  Still(s)
<1>1. ASSUME Claimed PROVE Silent(s)
  <2>1. Posted(s) /\ s.scrolling \subseteq Axes BY <1>1 DEF Good, Scroll
  <2>2. \A i \in Touches : s.touch[i].direction = "none" BY <2>1 DEF Posted, MayScroll
  <2>3. QED BY <2>1, <2>2 DEF Posted, Linked, Silent, Axes
<1>2. QED BY <1>1 DEF Good, Still

LEMMA ArbitrationIs ==
  ASSUME ScrollInv, NEW a \in {"off", "ending"}, s.arbitration # "off",
         s' = [s EXCEPT !.arbitration = a], pad' = pad
  PROVE  Good(s)' /\ Unmoved
<1>1. Still(s) /\ s \in Scroll BY ArbitratedStill DEF ScrollInv, Good
<1>2. s.method \in pad.methods BY <1>1 DEF Scroll
<1>3. s' \in Scroll /\ s'.touch = s.touch /\ s'.thumb = s.thumb /\ s'.scrolling = s.scrolling
  BY <1>1, <1>2, ArbitrateIs
<1>4. Still(s') BY <1>1, <1>3 DEF Still, Silent
<1>5. QED BY <1>3, <1>4, PrimedStill, KinUnmoved

LEMMA PenOutIs ==
  ASSUME ScrollInv, PenOut
  PROVE  Good(s)' /\ Unmoved
<1>0. s \in Scroll /\ pad' = pad /\ suspended' = suspended BY DEF ScrollInv, Good, PenOut
<1>1. CASE s.arbitration # "off"
  <2>1. s' = [s EXCEPT !.arbitration = "ending"] BY <1>1 DEF PenOut
  <2>2. QED BY <1>0, <1>1, <2>1, ArbitrationIs
<1>2. CASE s.arbitration = "off"
  <2>1. s' = [s EXCEPT !.arbitration = "off"] BY <1>2 DEF PenOut
  <2>2. s' = s BY <1>0, <1>2, <2>1 DEF Scroll
  <2>3. QED BY <1>0, <2>2, PrimedGood, KinUnmoved DEF ScrollInv
<1>3. QED BY <1>1, <1>2

LEMMA ArbitrationTimeoutIs ==
  ASSUME ScrollInv, ArbitrationTimeout
  PROVE  Good(s)' /\ Unmoved
  BY ArbitrationIs DEF ArbitrationTimeout

LEMMA EdgeTimeoutIs ==
  ASSUME ScrollInv, NEW i \in Touches, EdgeTimeout(i)
  PROVE  Good(s)' /\ Unmoved
<1> DEFINE t == s.touch[i]
           fired == [t EXCEPT !.timer = FALSE]
           u == EdgeEvent(s, fired, "timeout")
           f == [s.touch EXCEPT ![i] = u]
           b == s.bugs \cup Bug(s, i, "timeout")
<1>0. /\ PadOK /\ Good(s) /\ s \in Scroll /\ t \in Touch /\ Resting(t) /\ t.timer
      /\ pad' = pad /\ suspended' = suspended
  BY TouchIs DEF ScrollInv, Good, EdgeTimeout
<1>1. fired \in Touch BY <1>0, Zenon DEF Touch
<1>2. /\ fired.state = t.state /\ (fired.dirty <=> t.dirty) /\ fired.at = t.at
      /\ fired.edge_state = t.edge_state /\ fired.edge = t.edge /\ fired.direction = t.direction
      /\ ~fired.timer
  BY <1>0, <1>1 DEF Touch
<1>3. "timeout" \in EdgeEvents BY DEF EdgeEvents
<1> HIDE DEF fired
<1>4. /\ SameButEdge(fired, u) /\ Timely(u) /\ u.edge = t.edge
      /\ u.edge_state = IF t.edge_state = "edge_new" THEN "edge" ELSE t.edge_state
  BY <1>1, <1>2, <1>3, EdgeEventIs DEF Timely
<1> HIDE DEF u
<1>5. /\ u \in Touch /\ u.state = t.state /\ (u.dirty <=> t.dirty) /\ u.at = t.at
      /\ u.direction = t.direction
  BY <1>2, <1>4 DEF SameButEdge
<1>6. f \in [Touches -> Touch] /\ f[i] = u /\ \A j \in Touches \ {i} : f[j] = s.touch[j]
  BY <1>0, <1>5 DEF Scroll
<1>7. b \in SUBSET KnownEdgeBugs
  <2>1. t.edge_state # "edge" BY <1>0 DEF Resting, Timely
  <2>2. Bug(s, i, "timeout") \subseteq KnownEdgeBugs BY <1>0, <1>3, <2>1, BugKnown
  <2>3. QED BY <1>0, <2>2 DEF Scroll
<1>8. s' = [s EXCEPT !.touch = f, !.bugs = b] BY <1>0 DEF EdgeTimeout, fired, u, Scroll
<1> HIDE DEF f, b
<1>9. Puts(s, s', f, s.scrolling) BY <1>0, <1>6, <1>7, <1>8, PutIs DEF Scroll
<1>10. Resting(u) BY <1>0, <1>4, <1>5 DEF Resting
<1>11. \A j \in Touches : Resting(s'.touch[j]) BY <1>0, <1>6, <1>9, <1>10 DEF Good, Puts
<1>12. \A j \in Touches :
         s'.touch[j].at = s.touch[j].at /\ s'.touch[j].direction = s.touch[j].direction
  BY <1>5, <1>6, <1>9 DEF Puts
<1>13. ASSUME Claimed PROVE Posted(s')
  <2>1. Posted(s) BY <1>0, <1>13 DEF Good
  <2>2. Linked(s') BY <1>9, <1>12, <2>1 DEF Puts, Posted, Linked
  <2>3. MayScroll(s) => MayScroll(s') BY <1>9 DEF Puts, Fields, MayScroll
  <2>4. EdgeOf(t) => EdgeOf(u) BY <1>4, <1>5 DEF EdgeOf
  <2>5. \A j \in Touches : /\ EdgeOf(s.touch[j]) => EdgeOf(s'.touch[j])
                           /\ s'.touch[j].state = s.touch[j].state
    BY <1>5, <1>6, <1>9, <2>4 DEF Puts
  <2>6. QED BY <1>12, <2>1, <2>2, <2>3, <2>5 DEF Posted
<1>14. Good(s') BY <1>0, <1>9, <1>11, <1>13 DEF Puts, Fields, Good
<1>15. QED BY <1>0, <1>12, <1>14, PrimedGood, KinUnmoved

\* A stop between two frames.
LEMMA StopGood ==
  ASSUME Good(s)
  PROVE  Still(Stop(s)) /\ \A i \in Touches : Stop(s).touch[i].at = s.touch[i].at
<1> DEFINE v == Stop(s)
<1>1. Stopped(s, v) BY StopIs DEF Good
<1> HIDE DEF v
<1>2. \A i \in Touches : Resting(v.touch[i])
  <2>1. ASSUME NEW t, NEW u, Stops(t, u), Resting(t) PROVE Resting(u)
    BY <2>1 DEF Stops, Kin, Resting, Timely
  <2>2. QED BY <1>1, <2>1 DEF Stopped, Good
<1>3. Claimed => Silent(v)
  BY <1>1 DEF Stopped, Stops, Silent, Good, Posted
<1>4. Still(v) BY <1>1, <1>2, <1>3 DEF Still, Stopped, Fields, Good
<1>5. \A i \in Touches : v.touch[i].at = s.touch[i].at BY <1>1 DEF Stopped, Stops, Kin
<1>6. QED BY <1>4, <1>5 DEF v

LEMMA StopActionsIs ==
  ASSUME ScrollInv, StopActions
  PROVE  Good(s)' /\ Unmoved
  BY StopGood, PrimedStill, KinUnmoved DEF ScrollInv, StopActions

LEMMA SetMethodIs ==
  ASSUME ScrollInv, SetMethod
  PROVE  Good(s)' /\ Unmoved
<1> DEFINE u == Stop(s)
<1>1. PICK m \in pad.methods : s' = [u EXCEPT !.method = m] BY DEF SetMethod
<1>2. Still(u) /\ \A i \in Touches : u.touch[i].at = s.touch[i].at BY StopGood DEF ScrollInv
<1> HIDE DEF u
<1>3. u \in Scroll BY <1>2 DEF Still
<1>4. s' \in Scroll /\ s'.touch = u.touch /\ s'.thumb = u.thumb /\ s'.scrolling = u.scrolling
  BY <1>1, <1>3, ArbitrateIs
<1>5. Still(s') BY <1>2, <1>4 DEF Still, Silent
<1>6. QED BY <1>2, <1>4, <1>5, PrimedStill, KinUnmoved DEF SetMethod

LEMMA InitInv ==
  ASSUME Init
  PROVE  ScrollInv
<1>1. pad \in Pads /\ suspended = FALSE /\ pen = FALSE BY DEF Init
<1>2. PICK m \in pad.methods :
        s = [touch |-> [i \in Touches |-> NoTouch],
             thumb |-> [state |-> "finger", index |-> Nobody, eligible |-> TRUE],
             method |-> m, arbitration |-> "off", scrolling |-> {}, bugs |-> {}]
  BY DEF Init
<1>3. NoTouch \in Touch /\ Resting(NoTouch) /\ NoTouch.direction = "none"
  <2>1. NoTouch.at \in [x : 0..Width, y : 0..Height]
    <3>1. NoTouch.at = [x |-> 0, y |-> 0] BY DEF NoTouch
    <3>2. QED BY <3>1 DEF Width, Height
  <2>2. NoTouch \in Touch BY DEF NoTouch, Touch, Palms, Width, Height
  <2>3. QED BY <2>2 DEF NoTouch, Resting, Timely
<1>4. [state |-> "finger", index |-> Nobody, eligible |-> TRUE] \in ThumbRecord
  BY DEF ThumbRecord, Thumbs
<1>5. s \in Scroll
  <2> DEFINE f == [i \in Touches |-> NoTouch]
             th == [state |-> "finger", index |-> Nobody, eligible |-> TRUE]
  <2>1. f \in [Touches -> Touch] /\ th \in ThumbRecord BY <1>3, <1>4
  <2> HIDE DEF f, th
  <2>2. s = [touch |-> f, thumb |-> th, method |-> m, arbitration |-> "off",
             scrolling |-> {}, bugs |-> {}]
    BY <1>2 DEF f, th
  <2>3. QED BY <2>1, <2>2 DEF Scroll
<1>6. \A i \in Touches : s.touch[i] = NoTouch BY <1>2
<1>7. s.scrolling = {} /\ s.thumb.state = "finger" BY <1>2
<1>8. Posted(s) BY <1>3, <1>6, <1>7 DEF Posted, Linked
<1>9. QED BY <1>1, <1>3, <1>5, <1>6, <1>7, <1>8 DEF ScrollInv, Good, PadOK

LEMMA NextInv ==
  ASSUME ScrollInv, Next
  PROVE  Good(s)' /\ Revived
<1>1. CASE Frame BY <1>1, FrameIs
<1>2. CASE Suspend BY <1>2, SuspendIs, UnmovedRevived
<1>3. CASE Resume BY <1>3, ResumeIs, UnmovedRevived
<1>4. CASE PenIn BY <1>4, PenInIs, UnmovedRevived
<1>5. CASE PenOut BY <1>5, PenOutIs, UnmovedRevived
<1>6. CASE ArbitrationTimeout BY <1>6, ArbitrationTimeoutIs, UnmovedRevived
<1>7. CASE SetMethod BY <1>7, SetMethodIs, UnmovedRevived
<1>8. CASE StopActions BY <1>8, StopActionsIs, UnmovedRevived
<1>9. CASE \E i \in Touches : EdgeTimeout(i) BY <1>9, EdgeTimeoutIs, UnmovedRevived
<1>10. QED BY <1>1, <1>2, <1>3, <1>4, <1>5, <1>6, <1>7, <1>8, <1>9 DEF Next

LEMMA RestIs ==
  ASSUME ScrollInv, Next
  PROVE  pad' = pad /\ suspended' \in BOOLEAN /\ pen' \in BOOLEAN
<1> USE DEF ScrollInv
<1>1. CASE Frame BY <1>1 DEF Frame
<1>2. CASE Suspend BY <1>2 DEF Suspend
<1>3. CASE Resume BY <1>3 DEF Resume
<1>4. CASE PenIn BY <1>4 DEF PenIn
<1>5. CASE PenOut BY <1>5 DEF PenOut
<1>6. CASE ArbitrationTimeout BY <1>6 DEF ArbitrationTimeout
<1>7. CASE SetMethod BY <1>7 DEF SetMethod
<1>8. CASE StopActions BY <1>8 DEF StopActions
<1>9. CASE \E i \in Touches : EdgeTimeout(i) BY <1>9 DEF EdgeTimeout
<1>10. QED BY <1>1, <1>2, <1>3, <1>4, <1>5, <1>6, <1>7, <1>8, <1>9 DEF Next

-----------------------------------------------------------------------------
(* The theorems.                                                           *)

\* Whatever frames, timers, pens, stops and settings the touchpad meets, between
\* two frames its touches, the edge machine, the thumb and the axes that scroll
\* agree as ScrollInv says (tp_handle_state, tp_clear_state, tp_stop_actions).
THEOREM ScrollInvariance == Spec => []ScrollInv
<1>1. Init => ScrollInv BY InitInv
<1>2. ScrollInv /\ [Next]_vars => ScrollInv'
  <2>1. SUFFICES ASSUME ScrollInv, [Next]_vars PROVE ScrollInv' OBVIOUS
  <2>2. CASE Next
    <3>1. Good(s)' BY <2>1, <2>2, NextInv
    <3>2. pad' = pad /\ suspended' \in BOOLEAN /\ pen' \in BOOLEAN BY <2>1, <2>2, RestIs
    <3>3. QED BY <2>1, <3>1, <3>2 DEF ScrollInv, PadOK
  <2>3. CASE UNCHANGED vars
    <3>1. pad' = pad /\ suspended' = suspended /\ pen' = pen /\ s' = s BY <2>3 DEF vars
    <3>2. Good(s') BY <2>1, <3>1 DEF ScrollInv
    <3>3. Good(s)' BY <3>1, <3>2, PrimedGood
    <3>4. QED BY <2>1, <3>1, <3>3 DEF ScrollInv, PadOK
  <2>4. QED BY <2>1, <2>2, <2>3
<1>3. QED BY <1>1, <1>2, PTL DEF Spec

\* An axis that the client believes to be scrolling has a finger on the touchpad
\* that scrolls it: a lift, a click, typing, a pen, another method or the
\* suspension ends the scroll (tp_edge_scroll_post_events,
\* tp_edge_scroll_stop_events).
THEOREM EdgeScrollsStop == Spec => []EdgeScrollsHaveTouch
<1>1. ScrollInv => EdgeScrollsHaveTouch
  <2>1. SUFFICES ASSUME ScrollInv, Claimed
                 PROVE  s.scrolling \subseteq {s.touch[i].direction : i \in Down(s)}
    BY DEF EdgeScrollsHaveTouch, Claimed
  <2>2. Posted(s) /\ s.scrolling \subseteq Axes BY <2>1 DEF ScrollInv, Good, Scroll
  <2>3. ASSUME NEW a \in s.scrolling PROVE \E i \in Down(s) : s.touch[i].direction = a
    <3>1. PICK i \in Touches : s.touch[i].direction = a BY <2>2, <2>3 DEF Posted, Linked
    <3>2. a # "none" BY <2>2, <2>3 DEF Axes
    <3>3. s.touch[i].state = "update" BY <2>2, <3>1, <3>2 DEF Posted
    <3>4. QED BY <3>1, <3>3 DEF Down
  <2>4. QED BY <2>3
<1>2. QED BY <1>1, ScrollInvariance, PTL

\* The edge machines log no unexpected event (tp_edge_scroll_handle_*) but the
\* five that are known.
THEOREM EdgeBugsAreKnown == Spec => []OnlyKnownEdgeBugs
<1>1. ScrollInv => OnlyKnownEdgeBugs
  <2>1. SUFFICES ASSUME ScrollInv PROVE OnlyKnownEdgeBugs OBVIOUS
  <2>2. s \in Scroll /\ suspended \in BOOLEAN /\ pen \in BOOLEAN
        /\ \A i \in Touches : Resting(s.touch[i])
    BY <2>1 DEF ScrollInv, Good
  <2> DEFINE Rest == [state : {"none", "update"}, dirty : {FALSE},
                      at : [x : 0..Width, y : 0..Height], age : 0..1, fast : 0..2, palm : Palms,
                      edge_state : {"none", "edge_new", "edge", "area"}, edge : SUBSET Edges,
                      direction : Axes \cup {"none"}, timer : BOOLEAN,
                      ring : {"none", "inner", "ring"}, angle : BOOLEAN]
  <2>3. \A t \in Touch : Resting(t) => t \in Rest BY DEF Touch, Resting
  <2>4. s.touch \in [Touches -> Rest]
    <3>1. s.touch \in [Touches -> Touch] BY <2>2 DEF Scroll
    <3>2. \A i \in Touches : s.touch[i] \in Rest BY <2>2, <2>3, TouchIs
    <3> HIDE DEF Rest
    <3>3. QED BY <3>1, <3>2
  <2>5. /\ s.thumb \in [state : Thumbs, index : Touches \cup {Nobody}, eligible : BOOLEAN]
        /\ s.method \in pad.methods /\ s.arbitration \in {"off", "on", "ending"}
        /\ s.scrolling \subseteq Axes /\ s.bugs \subseteq KnownEdgeBugs
    BY <2>2 DEF Scroll, ThumbRecord
  <2>6. TypeOK BY <2>2, <2>4, <2>5 DEF TypeOK
  <2>7. QED BY <2>5, <2>6 DEF OnlyKnownEdgeBugs
<1>2. QED BY <1>1, ScrollInvariance, PTL

\* A pinching or suppressed thumb that is the only finger and moves is put aside
\* no more (tp_thumb_update_touch, tp_thumb_revive).
THEOREM ThumbIsRevived == Spec => ThumbRevives
<1>1. ScrollInv /\ [Next]_vars =>
        [\A i \in Touches : Down(s') = {i} /\ i \in Down(s) /\ s'.touch[i].at # s.touch[i].at
           => ~(s'.thumb.index = i /\ s'.thumb.state \in {"pinch", "suppressed"})]_vars
  <2>1. SUFFICES ASSUME ScrollInv, Next
                 PROVE  \A i \in Touches : Down(s') = {i} /\ i \in Down(s)
                          /\ s'.touch[i].at # s.touch[i].at
                          => ~(s'.thumb.index = i /\ s'.thumb.state \in {"pinch", "suppressed"})
    OBVIOUS
  <2>2. Revived BY <2>1, NextInv
  <2>3. QED BY <2>2 DEF Revived, Back, Aside
<1>2. QED BY <1>1, ScrollInvariance, PTL DEF Spec, ThumbRevives
=============================================================================
