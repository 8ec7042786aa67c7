------------------------- MODULE TouchpadClicksProofs -------------------------
(***************************************************************************)
(* Proofs about TouchpadTouches and about TouchpadClicks, which extends it *)
(* by the buttons.                                                         *)
(*                                                                         *)
(* The touches, for every touchpad the assumption allows: the count of the *)
(* fingers that are down is right after every event.  A touch that is not  *)
(* dirty is settled; each operator of the module keeps that, the types and *)
(* the count, whatever set of touches it works on.                         *)
(*                                                                         *)
(* What is left of them (NothingIsLeft): once the fingers are gone their   *)
(* touches are Lifted, tp_handle_state ends each of those, and no other    *)
(* operator of the frame takes it up again.  What there is of them         *)
(* (FingersAreTheSurface): a finger in a slot stays an active touch (Kept) *)
(* through a frame, or is lost where a Synaptics touchpad took its touch   *)
(* back and its contact ends it (Gone); with those that only the count     *)
(* knows there are enough active touches (EnoughTouches), and the loops    *)
(* that begin and end some of them stop at the count (RaiseIs, LowerIs).   *)
(*                                                                         *)
(* The clicks, for every clickpad the assumptions allow, while no          *)
(* trackpoint comes or goes in the middle of a click of a suspended        *)
(* touchpad (Rare): the client's buttons, the click and the touches stay   *)
(* in step.  The argument has two halves.  The state machines: a machine   *)
(* runs exactly for a touch that was down after the last frame (Waiting),  *)
(* and tp_handle_state finds each touch in a state its machine expects     *)
(* (Coming) and leaves it so (Follow).  The click: the button of the last  *)
(* post decides what the client holds down (Told, Synced), through the     *)
(* three arms of tp_post_clickpadbutton_buttons.                           *)
(***************************************************************************)
EXTENDS TouchpadClicks, FiniteSetTheorems, TLAPS

-----------------------------------------------------------------------------
(* The touches and their count.                                            *)

Settling == {"NONE", "HOVERING", "UPDATE"}

\* What every operator on a pad keeps.
Counted(r) ==
  /\ r \in Pad
  /\ r.nfingers = Cardinality(Down(r))
  /\ \A i \in Index : r.touch[i].dirty \/ r.touch[i].state \in Settling

Rests(r) == \A i \in Index : ~r.touch[i].dirty /\ r.touch[i].state \in Settling

ModelOK == model \in Models

LEMMA SlotsAreTouches ==
  ASSUME ModelOK
  PROVE  /\ model \in AllModels /\ ntouches \in Nat
         /\ Slots \subseteq Index /\ (~model.has_mt => 0 \in Slots)
         /\ IsFiniteSet(Index) /\ IsFiniteSet(Slots)
<1>1. /\ model \in AllModels /\ 1 <= model.real /\ model.real <= model.num_slots
      /\ 1 <= model.fingers /\ model.num_slots \in Nat /\ model.fingers \in Nat
      /\ model.real \in Nat
  BY TouchesAssumption DEF ModelOK, AllModels
<1>2. ntouches \in Nat /\ model.num_slots <= ntouches
  BY <1>1 DEF ntouches
<1>3. Slots \subseteq Index /\ 0 \in Slots
  BY <1>1, <1>2 DEF Slots, Index
<1>4. IsFiniteSet(Index) /\ IsFiniteSet(Slots)
  <2>1. ntouches - 1 \in Int /\ model.real - 1 \in Int /\ 0 \in Int
    BY <1>1, <1>2
  <2> QED
    BY <2>1, FS_Interval DEF Index, Slots
<1> QED
  BY <1>1, <1>2, <1>3, <1>4

LEMMA DownFinite ==
  ASSUME ModelOK, NEW r, NEW S, NEW X \in SUBSET TouchStates
  PROVE  /\ In(r, X) \subseteq Index /\ IsFiniteSet(In(r, X)) /\ IsFiniteSet(S \cap In(r, X))
         /\ Cardinality(In(r, X)) \in Nat /\ Cardinality(S \cap In(r, X)) \in Nat
<1>1. In(r, X) \subseteq Index
  BY DEF In
<1>2. IsFiniteSet(In(r, X)) /\ IsFiniteSet(S \cap In(r, X))
  <2>1. S \cap In(r, X) \subseteq Index
    BY <1>1
  <2> QED
    BY <1>1, <2>1, SlotsAreTouches, FS_Subset
<1> QED
  BY <1>1, <1>2, FS_CardinalityType

-----------------------------------------------------------------------------
(* Operators on touches                                                    *)

\* What the operators leave alone.
SamePad(r, new) ==
  /\ new.nactive = r.nactive /\ new.num_slots = r.num_slots
  /\ new.fake = r.fake /\ new.open = r.open /\ new.suspended = r.suspended

\* A function of touches and a count, put in a pad.
LEMMA PadUpdated ==
  ASSUME NEW r \in Pad, NEW touch \in [Index -> Touch], NEW k \in Nat
  PROVE  LET new == [r EXCEPT !.touch = touch, !.nfingers = k]
         IN  new \in Pad /\ new.touch = touch /\ new.nfingers = k /\ SamePad(r, new)
<1> DEFINE new == [r EXCEPT !.touch = touch, !.nfingers = k]
<1>1. new \in Pad
  BY Zenon DEF Pad
<1>2. new.touch = touch /\ new.nfingers = k /\ SamePad(r, new)
  BY DEF Pad, SamePad
<1> QED
  BY <1>1, <1>2

LEMMA NewTouchTyped ==
  ASSUME NEW t \in Touch
  PROVE  /\ NewTouch(t) \in Touch
         /\ (t.dirty \/ t.state \in Settling) => NewTouch(t).dirty \/ NewTouch(t).state \in Settling
         /\ NewTouch(t).state \in DownStates <=> t.state \in DownStates \cup {"MAYBE_END"}
<1>1. CASE t.state \in {"NONE", "END"}
  <2> DEFINE new == [t EXCEPT !.state = "HOVERING", !.has_ended = FALSE, !.dirty = TRUE]
  <2>1. new \in Touch
    <3>1. "HOVERING" \in TouchStates
      BY DEF TouchStates
    <3> QED
      BY <3>1, Zenon DEF Touch
  <2>2. NewTouch(t) = new
    BY <1>1 DEF NewTouch
  <2>3. new.dirty /\ new.state = "HOVERING"
    BY DEF Touch
  <2> HIDE DEF new
  <2> QED
    BY <1>1, <2>1, <2>2, <2>3 DEF DownStates
<1>2. CASE t.state = "MAYBE_END"
  <2> DEFINE new == [t EXCEPT !.state = "UPDATE", !.has_ended = FALSE]
  <2>1. new \in Touch
    <3>1. "UPDATE" \in TouchStates
      BY DEF TouchStates
    <3> QED
      BY <3>1, Zenon DEF Touch
  <2>2. NewTouch(t) = new
    BY <1>2 DEF NewTouch
  <2>3. new.dirty = t.dirty /\ new.state = "UPDATE"
    BY DEF Touch
  <2> HIDE DEF new
  <2> QED
    BY <1>2, <2>1, <2>2, <2>3 DEF DownStates, Settling
<1>3. CASE t.state \notin {"NONE", "END", "MAYBE_END"}
  BY <1>3 DEF NewTouch
<1> QED
  BY <1>1, <1>2, <1>3

LEMMA MaybeEndTouchTyped ==
  ASSUME NEW t \in Touch
  PROVE  /\ MaybeEndTouch(t) \in Touch
         /\ (t.dirty \/ t.state \in Settling)
              => MaybeEndTouch(t).dirty \/ MaybeEndTouch(t).state \in Settling
         /\ MaybeEndTouch(t).state \notin DownStates
<1>1. CASE t.state \in DownStates
  <2> DEFINE new == [t EXCEPT !.state = "MAYBE_END", !.dirty = TRUE]
  <2>1. new \in Touch
    <3>1. "MAYBE_END" \in TouchStates
      BY DEF TouchStates
    <3> QED
      BY <3>1, Zenon DEF Touch
  <2>2. MaybeEndTouch(t) = new
    BY <1>1 DEF MaybeEndTouch, DownStates
  <2>3. new.dirty /\ new.state = "MAYBE_END"
    BY DEF Touch
  <2> HIDE DEF new
  <2> QED
    BY <2>1, <2>2, <2>3 DEF DownStates
<1>2. CASE t.state = "HOVERING"
  <2> DEFINE new == [t EXCEPT !.state = "NONE", !.dirty = TRUE]
  <2>1. new \in Touch
    <3>1. "NONE" \in TouchStates
      BY DEF TouchStates
    <3> QED
      BY <3>1, Zenon DEF Touch
  <2>2. MaybeEndTouch(t) = new
    BY <1>2 DEF MaybeEndTouch, DownStates
  <2>3. new.dirty /\ new.state = "NONE"
    BY DEF Touch
  <2> HIDE DEF new
  <2> QED
    BY <2>1, <2>2, <2>3 DEF DownStates
<1>3. CASE t.state \notin DownStates \cup {"HOVERING"}
  BY <1>3 DEF MaybeEndTouch, DownStates
<1> QED
  BY <1>1, <1>2, <1>3

LEMMA NewTouchesCounted ==
  ASSUME ModelOK, NEW r, Counted(r), NEW S \in SUBSET Index
  PROVE  Counted(NewTouches(r, S)) /\ SamePad(r, NewTouches(r, S))
<1> DEFINE touch == [i \in Index |-> IF i \in S THEN NewTouch(r.touch[i]) ELSE r.touch[i]]
           back == S \cap In(r, {"MAYBE_END"})
           k == r.nfingers + Cardinality(back)
           new == [r EXCEPT !.touch = touch, !.nfingers = k]
<1>1. NewTouches(r, S) = new
  BY DEF NewTouches
<1>2. r \in Pad /\ r.touch \in [Index -> Touch] /\ r.nfingers = Cardinality(Down(r))
  BY DEF Counted, Pad
<1>3. IsFiniteSet(back) /\ Cardinality(back) \in Nat
  BY DownFinite DEF TouchStates
<1>4. IsFiniteSet(Down(r)) /\ Cardinality(Down(r)) \in Nat
  BY DownFinite DEF TouchStates, DownStates, Down
<1>5. touch \in [Index -> Touch] /\ k \in Nat
  BY <1>2, <1>3, <1>4, NewTouchTyped
<1>6. \A i \in Index : /\ touch[i].dirty \/ touch[i].state \in Settling
                       /\ touch[i].state \in DownStates <=> i \in Down(r) \cup back
  BY <1>2, NewTouchTyped DEF Counted, Down, In, DownStates
<1> HIDE DEF touch, k
<1>7. new \in Pad /\ new.touch = touch /\ new.nfingers = k /\ SamePad(r, new)
  BY <1>2, <1>5, PadUpdated, Zenon
<1> HIDE DEF new
<1>8. Down(new) = Down(r) \cup back /\ Down(r) \cap back = {}
  BY <1>6, <1>7 DEF Down, In, DownStates
<1>9. Cardinality(Down(new)) = k
  <2>1. Cardinality(Down(r) \cap back) = 0
    BY <1>8, FS_EmptySet
  <2> HIDE DEF back
  <2>2. Cardinality(Down(r) \cup back) =
          Cardinality(Down(r)) + Cardinality(back) - Cardinality(Down(r) \cap back)
    BY <1>3, <1>4, FS_Union
  <2> QED
    BY <1>2, <1>3, <1>4, <1>8, <2>1, <2>2 DEF k
<1> QED
  BY <1>1, <1>6, <1>7, <1>9 DEF Counted

LEMMA BeginTouchesCounted ==
  ASSUME ModelOK, NEW r, Counted(r), NEW S \in SUBSET Hovering(r)
  PROVE  Counted(BeginTouches(r, S)) /\ SamePad(r, BeginTouches(r, S))
<1> DEFINE begun(t) == [t EXCEPT !.state = "BEGIN", !.dirty = TRUE]
           touch == [i \in Index |-> IF i \in S THEN begun(r.touch[i]) ELSE r.touch[i]]
           k == r.nfingers + Cardinality(S)
           new == [r EXCEPT !.touch = touch, !.nfingers = k]
<1>1. BeginTouches(r, S) = new
  BY DEF BeginTouches
<1>2. r \in Pad /\ r.touch \in [Index -> Touch] /\ r.nfingers = Cardinality(Down(r))
  BY DEF Counted, Pad
<1>3. IsFiniteSet(S) /\ Cardinality(S) \in Nat /\ S \subseteq Index
  <2>1. IsFiniteSet(Hovering(r)) /\ Hovering(r) \subseteq Index
    BY DownFinite DEF TouchStates, Hovering
  <2> QED
    BY <2>1, FS_Subset, FS_CardinalityType
<1>4. IsFiniteSet(Down(r)) /\ Cardinality(Down(r)) \in Nat
  BY DownFinite DEF TouchStates, DownStates, Down
<1>5. \A t \in Touch : begun(t) \in Touch /\ begun(t).dirty /\ begun(t).state = "BEGIN"
  <2> TAKE t \in Touch
  <2>1. "BEGIN" \in TouchStates
    BY DEF TouchStates
  <2>2. begun(t) \in Touch
    BY <2>1, Zenon DEF Touch
  <2>3. begun(t).dirty /\ begun(t).state = "BEGIN"
    BY DEF Touch
  <2> QED
    BY <2>2, <2>3
<1> HIDE DEF begun
<1>6. touch \in [Index -> Touch] /\ k \in Nat
  BY <1>2, <1>3, <1>4, <1>5
<1>7. \A i \in Index : /\ touch[i].dirty \/ touch[i].state \in Settling
                       /\ touch[i].state \in DownStates <=> i \in Down(r) \cup S
  BY <1>2, <1>3, <1>5 DEF Counted, Down, In, DownStates
<1> HIDE DEF touch, k
<1>8. new \in Pad /\ new.touch = touch /\ new.nfingers = k /\ SamePad(r, new)
  BY <1>2, <1>6, PadUpdated, Zenon
<1> HIDE DEF new
<1>9. Down(new) = Down(r) \cup S /\ Down(r) \cap S = {}
  BY <1>3, <1>7, <1>8 DEF Down, In, Hovering, DownStates
<1>10. Cardinality(Down(new)) = k
  <2>1. Cardinality(Down(r) \cap S) = 0
    BY <1>9, FS_EmptySet
  <2>2. Cardinality(Down(r) \cup S) =
          Cardinality(Down(r)) + Cardinality(S) - Cardinality(Down(r) \cap S)
    BY <1>3, <1>4, FS_Union
  <2> QED
    BY <1>2, <1>3, <1>4, <1>9, <2>1, <2>2 DEF k
<1> QED
  BY <1>1, <1>7, <1>8, <1>10 DEF Counted

LEMMA MaybeEndTouchesCounted ==
  ASSUME ModelOK, NEW r, Counted(r), NEW S \in SUBSET Index
  PROVE  Counted(MaybeEndTouches(r, S)) /\ SamePad(r, MaybeEndTouches(r, S))
<1> DEFINE touch == [i \in Index |-> IF i \in S THEN MaybeEndTouch(r.touch[i]) ELSE r.touch[i]]
           k == r.nfingers - Cardinality(S \cap Down(r))
           new == [r EXCEPT !.touch = touch, !.nfingers = k]
<1>1. MaybeEndTouches(r, S) = new
  BY DEF MaybeEndTouches
<1>2. r \in Pad /\ r.touch \in [Index -> Touch] /\ r.nfingers = Cardinality(Down(r))
  BY DEF Counted, Pad
<1>3. IsFiniteSet(Down(r)) /\ Cardinality(Down(r)) \in Nat
  BY DownFinite DEF TouchStates, DownStates, Down
<1>4. /\ Cardinality(Down(r) \ S) = k
      /\ k \in Nat
  <2>1. /\ IsFiniteSet(Down(r) \ S)
        /\ Cardinality(Down(r) \ S) = Cardinality(Down(r)) - Cardinality(Down(r) \cap S)
    BY <1>3, FS_Difference
  <2>2. Down(r) \cap S = S \cap Down(r)
    OBVIOUS
  <2>3. Cardinality(Down(r) \ S) \in Nat
    BY <2>1, FS_CardinalityType
  <2> QED
    BY <1>2, <2>1, <2>2, <2>3
<1>5. touch \in [Index -> Touch] /\ k \in Nat
  BY <1>2, <1>4, MaybeEndTouchTyped
<1>6. \A i \in Index : /\ touch[i].dirty \/ touch[i].state \in Settling
                       /\ touch[i].state \in DownStates <=> i \in Down(r) \ S
  BY <1>2, MaybeEndTouchTyped DEF Counted, Down, In
<1> HIDE DEF touch, k
<1>7. new \in Pad /\ new.touch = touch /\ new.nfingers = k /\ SamePad(r, new)
  BY <1>2, <1>5, PadUpdated, Zenon
<1> HIDE DEF new
<1>8. Down(new) = Down(r) \ S
  BY <1>6, <1>7 DEF Down, In
<1> QED
  BY <1>1, <1>4, <1>6, <1>7, <1>8 DEF Counted

\* A change to touches that leaves their state alone and dirties none less.
LEMMA SameStatesCounted ==
  ASSUME ModelOK, NEW r, Counted(r), NEW touch \in [Index -> Touch],
         \A i \in Index : /\ touch[i].state = r.touch[i].state
                          /\ r.touch[i].dirty => touch[i].dirty
  PROVE  LET new == [r EXCEPT !.touch = touch]
         IN  Counted(new) /\ SamePad(r, new)
<1> DEFINE new == [r EXCEPT !.touch = touch]
<1>1. r \in Pad
  BY DEF Counted
<1>2. new \in Pad
  BY <1>1, Zenon DEF Pad
<1>3. new.touch = touch /\ new.nfingers = r.nfingers /\ SamePad(r, new)
  BY <1>1 DEF Pad, SamePad
<1> HIDE DEF new
<1>4. Down(new) = Down(r)
  BY <1>3 DEF Down, In
<1>5. Counted(new)
  BY <1>2, <1>3, <1>4 DEF Counted
<1> QED
  BY <1>3, <1>5 DEF new

LEMMA EndSequencesCounted ==
  ASSUME ModelOK, NEW r, Counted(r), NEW S \in SUBSET Index
  PROVE  Counted(EndSequences(r, S)) /\ SamePad(r, EndSequences(r, S))
<1> DEFINE touch == [i \in Index |-> IF i \in S THEN [r.touch[i] EXCEPT !.has_ended = TRUE]
                                    ELSE r.touch[i]]
           new == [r EXCEPT !.touch = touch]
<1>1. EndSequences(r, S) = MaybeEndTouches(new, S)
  BY DEF EndSequences
<1>2. r.touch \in [Index -> Touch]
  BY DEF Counted, Pad
<1>3. \A t \in Touch : /\ [t EXCEPT !.has_ended = TRUE] \in Touch
                       /\ [t EXCEPT !.has_ended = TRUE].state = t.state
                       /\ [t EXCEPT !.has_ended = TRUE].dirty = t.dirty
  <2> TAKE t \in Touch
  <2>1. [t EXCEPT !.has_ended = TRUE] \in Touch
    BY Zenon DEF Touch
  <2> QED
    BY <2>1 DEF Touch
<1>4. /\ touch \in [Index -> Touch]
      /\ \A i \in Index : touch[i].state = r.touch[i].state /\ touch[i].dirty = r.touch[i].dirty
  BY <1>2, <1>3
<1> HIDE DEF touch
<1>5. Counted(new) /\ SamePad(r, new)
  BY <1>4, SameStatesCounted
<1> HIDE DEF new
<1>6. Counted(MaybeEndTouches(new, S)) /\ SamePad(new, MaybeEndTouches(new, S))
  BY <1>5, MaybeEndTouchesCounted
<1> QED
  BY <1>1, <1>5, <1>6 DEF SamePad

-----------------------------------------------------------------------------
(* A frame                                                                 *)

LEMMA RestoreCounted ==
  ASSUME ModelOK, NEW r, Counted(r)
  PROVE  Counted(RestoreTouches(r)) /\ SamePad(r, RestoreTouches(r))
<1> DEFINE n == FingerCount(r)
           zombies == {i \in In(r, {"MAYBE_END"}) : i < r.num_slots}
           back(t) == [t EXCEPT !.state = "UPDATE", !.dirty = TRUE]
           touch == [i \in Index |-> IF i \in zombies THEN back(r.touch[i]) ELSE r.touch[i]]
           k == r.nfingers + Cardinality(zombies)
           new == [r EXCEPT !.touch = touch, !.nfingers = k]
<1>1. RestoreTouches(r) = r \/ RestoreTouches(r) = new
  BY DEF RestoreTouches
<1>2. r \in Pad /\ r.touch \in [Index -> Touch] /\ r.nfingers = Cardinality(Down(r))
  BY DEF Counted, Pad
<1>3. IsFiniteSet(zombies) /\ Cardinality(zombies) \in Nat /\ zombies \subseteq Index
  <2>1. IsFiniteSet(In(r, {"MAYBE_END"})) /\ In(r, {"MAYBE_END"}) \subseteq Index
    BY DownFinite DEF TouchStates
  <2> QED
    BY <2>1, FS_Subset, FS_CardinalityType
<1>4. IsFiniteSet(Down(r)) /\ Cardinality(Down(r)) \in Nat
  BY DownFinite DEF TouchStates, DownStates, Down
<1>5. \A t \in Touch : back(t) \in Touch /\ back(t).dirty /\ back(t).state = "UPDATE"
  <2> TAKE t \in Touch
  <2>1. "UPDATE" \in TouchStates
    BY DEF TouchStates
  <2>2. back(t) \in Touch
    BY <2>1, Zenon DEF Touch
  <2>3. back(t).dirty /\ back(t).state = "UPDATE"
    BY DEF Touch
  <2> QED
    BY <2>2, <2>3
<1> HIDE DEF back
<1>6. touch \in [Index -> Touch] /\ k \in Nat
  BY <1>2, <1>3, <1>4, <1>5
<1>7. zombies \cap Down(r) = {}
  BY DEF Down, In, DownStates
<1> HIDE DEF zombies
<1>8. \A i \in Index : /\ touch[i].dirty \/ touch[i].state \in Settling
                       /\ touch[i].state \in DownStates <=> i \in Down(r) \cup zombies
  BY <1>2, <1>3, <1>5 DEF Counted, Down, In, DownStates
<1> HIDE DEF touch, k
<1>9. new \in Pad /\ new.touch = touch /\ new.nfingers = k /\ SamePad(r, new)
  BY <1>2, <1>6, PadUpdated, Zenon
<1> HIDE DEF new
<1>10. Down(new) = Down(r) \cup zombies
  BY <1>3, <1>8, <1>9 DEF Down, In
<1>11. Cardinality(Down(new)) = k
  <2>1. Cardinality(Down(r) \cap zombies) = 0
    BY <1>7, FS_EmptySet
  <2>2. Cardinality(Down(r) \cup zombies) =
          Cardinality(Down(r)) + Cardinality(zombies) - Cardinality(Down(r) \cap zombies)
    BY <1>3, <1>4, FS_Union
  <2> QED
    BY <1>2, <1>3, <1>4, <1>10, <2>1, <2>2 DEF k
<1>12. Counted(new)
  BY <1>8, <1>9, <1>11 DEF Counted
<1> QED
  BY <1>1, <1>9, <1>12 DEF SamePad

\* What a frame may change besides the touches: num_slots of an ALPS touchpad.
KeepsOpen(r, new) ==
  /\ new.open = r.open /\ new.suspended = r.suspended /\ new.nactive = r.nactive
  /\ new.fake = r.fake

LEMMA FakeTouchesCounted ==
  ASSUME ModelOK, NEW r, Counted(r)
  PROVE  Counted(FakeTouches(r)) /\ KeepsOpen(r, FakeTouches(r))
<1> DEFINE q == CASE model.quirk = "synaptics" -> RestoreTouches(r)
                  [] model.quirk = "alps" -> ReduceSlots(r)
                  [] OTHER -> r
           fakes == {i \in Index : model.has_mt => i >= q.num_slots}
           counted == {i \in fakes : i < FingerCount(q)}
<1>1. ReduceSlots(r) = r \/ ReduceSlots(r) = [r EXCEPT !.num_slots = r.nactive]
  BY DEF ReduceSlots
<1>2. /\ Counted([r EXCEPT !.num_slots = r.nactive])
      /\ KeepsOpen(r, [r EXCEPT !.num_slots = r.nactive])
  <2> DEFINE new == [r EXCEPT !.num_slots = r.nactive]
  <2>1. r \in Pad /\ r.nactive \in Nat
    BY DEF Counted, Pad
  <2>2. new \in Pad
    BY <2>1, Zenon DEF Pad
  <2>3. new.touch = r.touch /\ new.nfingers = r.nfingers /\ KeepsOpen(r, new)
    BY <2>1 DEF Pad, KeepsOpen
  <2> HIDE DEF new
  <2>4. Down(new) = Down(r)
    BY <2>3 DEF Down, In
  <2>5. Counted(new)
    BY <2>2, <2>3, <2>4 DEF Counted
  <2> QED
    BY <2>3, <2>5 DEF new
<1>3. Counted(q) /\ KeepsOpen(r, q)
  <2>1. Counted(ReduceSlots(r)) /\ KeepsOpen(r, ReduceSlots(r))
    <3>1. KeepsOpen(r, r)
      BY DEF KeepsOpen
    <3> QED
      BY <1>1, <1>2, <3>1
  <2>2. Counted(RestoreTouches(r)) /\ KeepsOpen(r, RestoreTouches(r))
    BY RestoreCounted DEF SamePad, KeepsOpen
  <2>3. Counted(r) /\ KeepsOpen(r, r)
    BY DEF KeepsOpen
  <2> QED
    BY <2>1, <2>2, <2>3
<1> HIDE DEF q
<1>4. counted \in SUBSET Index /\ (fakes \ counted) \in SUBSET Index
  OBVIOUS
<1>5. FakeTouches(r) = r \/ FakeTouches(r) = EndSequences(NewTouches(q, counted), fakes \ counted)
  BY DEF FakeTouches, q
<1> HIDE DEF counted, fakes
<1>6. Counted(NewTouches(q, counted)) /\ SamePad(q, NewTouches(q, counted))
  BY <1>3, <1>4, NewTouchesCounted
<1>7. /\ Counted(EndSequences(NewTouches(q, counted), fakes \ counted))
      /\ SamePad(NewTouches(q, counted), EndSequences(NewTouches(q, counted), fakes \ counted))
  BY <1>4, <1>6, EndSequencesCounted
<1> QED
  BY <1>3, <1>5, <1>6, <1>7 DEF SamePad, KeepsOpen

LEMMA RaiseToCounted ==
  ASSUME ModelOK, NEW r, Counted(r), NEW n
  PROVE  Counted(RaiseTo(r, n)) /\ SamePad(r, RaiseTo(r, n))
<1> DEFINE k == IF r.nfingers < n THEN n - r.nfingers ELSE 1
<1>1. First(Hovering(r), k) \subseteq Hovering(r)
  BY DEF First
<1> QED
  BY <1>1, BeginTouchesCounted DEF RaiseTo

LEMMA DownIsSubset ==
  ASSUME NEW r
  PROVE  Down(r) \in SUBSET Index /\ Light(r) \in SUBSET Index /\ Firm(r) \in SUBSET Hovering(r)
  BY DEF Down, Light, Firm, In

LEMMA LowerToCounted ==
  ASSUME ModelOK, NEW r, Counted(r), NEW n
  PROVE  Counted(LowerTo(r, n)) /\ SamePad(r, LowerTo(r, n))
<1>1. Last(Down(r), r.nfingers - n) \in SUBSET Index
  BY DownIsSubset DEF Last
<1> QED
  BY <1>1, MaybeEndTouchesCounted DEF LowerTo

LEMMA UnhoverCounted ==
  ASSUME ModelOK, NEW r, Counted(r)
  PROVE  Counted(Unhover(r)) /\ SamePad(r, Unhover(r))
<1> DEFINE Fine(p) == Counted(p) /\ SamePad(r, p)
<1>1. \A p : Fine(p) => \A S \in SUBSET Index : Fine(MaybeEndTouches(p, S))
  BY MaybeEndTouchesCounted DEF SamePad
<1>2. \A p, n : Fine(p) => Fine(RaiseTo(p, n)) /\ Fine(LowerTo(p, n))
  BY RaiseToCounted, LowerToCounted DEF SamePad
<1>3. Fine(BeginTouches(r, Firm(r)))
  BY DownIsSubset, BeginTouchesCounted
<1>4. Fine(r)
  BY DEF SamePad
<1> HIDE DEF Fine
<1>5. Fine(UnhoverPressure(r))
  <2> DEFINE n == IF IsOverflow(r) THEN 0 ELSE FingerCount(r)
             light == IF n <= r.num_slots \/ r.num_slots = 1 THEN Light(r) ELSE {}
             q == MaybeEndTouches(BeginTouches(r, Firm(r)), light)
             real == {i \in Down(q) : i < q.num_slots}
             raised == RaiseTo(q, n)
  <2>1. light \in SUBSET Index
    BY DownIsSubset
  <2>2. UnhoverPressure(r) \in {q, MaybeEndTouches(q, Down(q)), LowerTo(raised, n), raised}
    BY DEF UnhoverPressure
  <2>3. Fine(q)
    BY <1>1, <1>3, <2>1
  <2> HIDE DEF q, n
  <2>4. Fine(MaybeEndTouches(q, Down(q))) /\ Fine(raised)
    BY <1>1, <1>2, <2>3, DownIsSubset
  <2> HIDE DEF raised
  <2> QED
    BY <1>2, <2>2, <2>3, <2>4
<1>6. Fine(UnhoverSize(r))
  BY <1>1, <1>3, DownIsSubset DEF UnhoverSize
<1>7. Fine(UnhoverFake(r))
  <2> DEFINE n == FingerCount(r)
  <2>1. UnhoverFake(r) \in {r, MaybeEndTouches(r, Down(r)), RaiseTo(r, n), LowerTo(r, n)}
    BY DEF UnhoverFake
  <2> HIDE DEF n
  <2> QED
    BY <1>1, <1>2, <1>4, <2>1, DownIsSubset
<1>8. Unhover(r) \in {UnhoverPressure(r), UnhoverSize(r), UnhoverFake(r)}
  BY DEF Unhover
<1>9. Fine(Unhover(r))
  BY <1>5, <1>6, <1>7, <1>8
<1> QED
  BY <1>9 DEF Fine

LEMMA EndTouchesCounted ==
  ASSUME ModelOK, NEW r, Counted(r)
  PROVE  /\ Counted(EndTouches(r)) /\ SamePad(r, EndTouches(r))
         /\ \A i \in Index : EndTouches(r).touch[i].state # "MAYBE_END"
<1> DEFINE ended(t) == [t EXCEPT !.state = "END", !.dirty = TRUE]
           touch == [i \in Index |-> IF r.touch[i].state = "MAYBE_END" THEN ended(r.touch[i])
                                    ELSE r.touch[i]]
           new == [r EXCEPT !.touch = touch]
<1>1. EndTouches(r) = new
  BY DEF EndTouches
<1>2. r \in Pad /\ r.touch \in [Index -> Touch] /\ r.nfingers = Cardinality(Down(r))
  BY DEF Counted, Pad
<1>3. \A t \in Touch : ended(t) \in Touch /\ ended(t).dirty /\ ended(t).state = "END"
  <2> TAKE t \in Touch
  <2>1. "END" \in TouchStates
    BY DEF TouchStates
  <2>2. ended(t) \in Touch
    BY <2>1, Zenon DEF Touch
  <2>3. ended(t).dirty /\ ended(t).state = "END"
    BY DEF Touch
  <2> QED
    BY <2>2, <2>3
<1> HIDE DEF ended
<1>4. touch \in [Index -> Touch]
  BY <1>2, <1>3
<1>5. \A i \in Index : /\ touch[i].dirty \/ touch[i].state \in Settling
                       /\ touch[i].state \in DownStates <=> r.touch[i].state \in DownStates
                       /\ touch[i].state # "MAYBE_END"
  BY <1>2, <1>3 DEF Counted, DownStates
<1> HIDE DEF touch
<1>6. new \in Pad
  BY <1>2, <1>4, Zenon DEF Pad
<1>7. new.touch = touch /\ new.nfingers = r.nfingers /\ SamePad(r, new)
  BY <1>2 DEF Pad, SamePad
<1> HIDE DEF new
<1>8. Down(new) = Down(r)
  BY <1>5, <1>7 DEF Down, In
<1> QED
  BY <1>1, <1>2, <1>5, <1>6, <1>7, <1>8 DEF Counted

LEMMA PostProcessCounted ==
  ASSUME ModelOK, NEW r, Counted(r), \A i \in Index : r.touch[i].state # "MAYBE_END"
  PROVE  /\ Counted(PostProcess(r)) /\ SamePad(r, PostProcess(r)) /\ Rests(PostProcess(r))
<1> DEFINE contact(i) == IF Unused(i, Settled(r.touch[i])) THEN 0 ELSE r.touch[i].contact
           after(i) == [r.touch[i] EXCEPT !.state = Settled(r.touch[i]), !.dirty = FALSE,
                                          !.contact = contact(i)]
           touch == [i \in Index |-> IF ~r.touch[i].dirty THEN r.touch[i] ELSE after(i)]
           new == [r EXCEPT !.touch = touch]
<1>1. PostProcess(r) = new
  <2>1. \A i \in Index :
          after(i) = [r.touch[i] EXCEPT !.state = Settled(r.touch[i]), !.dirty = FALSE,
                        !.contact = IF Unused(i, Settled(r.touch[i])) THEN 0 ELSE @]
    OBVIOUS
  <2> HIDE DEF after
  <2> QED
    BY <2>1, Zenon DEF PostProcess
<1>2. r \in Pad /\ r.touch \in [Index -> Touch] /\ r.nfingers = Cardinality(Down(r))
  BY DEF Counted, Pad
<1>3. \A i \in Index : r.touch[i] \in Touch /\ r.touch[i].state # "MAYBE_END"
  BY <1>2
<1>4. \A t \in Touch : t.state # "MAYBE_END" =>
        /\ Settled(t) \in Settling
        /\ Settled(t) \in DownStates <=> t.state \in DownStates
  BY DEF Settled, Settling, DownStates, Touch, TouchStates
<1>5. \A i \in Index : /\ after(i) \in Touch
                       /\ after(i).state = Settled(r.touch[i]) /\ ~after(i).dirty
  <2> TAKE i \in Index
  <2> DEFINE t == r.touch[i]
             s == Settled(t)
             c == contact(i)
  <2>1. t \in Touch /\ s \in TouchStates
    BY <1>3, <1>4 DEF Settling, TouchStates
  <2>2. c \in 0..2
    BY <2>1 DEF Touch
  <2>3. after(i) = [t EXCEPT !.state = s, !.dirty = FALSE, !.contact = c]
    OBVIOUS
  <2> HIDE DEF t, s, c, after, contact
  <2>4. [t EXCEPT !.state = s, !.dirty = FALSE, !.contact = c] \in Touch
    BY <2>1, <2>2, Zenon DEF Touch
  <2>5. /\ [t EXCEPT !.state = s, !.dirty = FALSE, !.contact = c].state = s
        /\ ~[t EXCEPT !.state = s, !.dirty = FALSE, !.contact = c].dirty
    BY <2>1 DEF Touch
  <2> QED
    BY <2>3, <2>4, <2>5 DEF s, t
<1> HIDE DEF after
<1>6. touch \in [Index -> Touch]
  BY <1>3, <1>5
<1>7. \A i \in Index : /\ ~touch[i].dirty /\ touch[i].state \in Settling
                       /\ touch[i].state \in DownStates <=> r.touch[i].state \in DownStates
  BY <1>3, <1>4, <1>5 DEF Counted
<1> HIDE DEF touch
<1>8. new \in Pad
  BY <1>2, <1>6, Zenon DEF Pad
<1>9. new.touch = touch /\ new.nfingers = r.nfingers /\ SamePad(r, new)
  BY <1>2 DEF Pad, SamePad
<1> HIDE DEF new
<1>10. Down(new) = Down(r)
  BY <1>7, <1>9 DEF Down, In
<1> QED
  BY <1>1, <1>2, <1>7, <1>8, <1>9, <1>10 DEF Counted, Rests

LEMMA HandleStateCounted ==
  ASSUME ModelOK, NEW r, Counted(r)
  PROVE  /\ Counted(HandleState(r)) /\ KeepsOpen(r, HandleState(r)) /\ Rests(HandleState(r))
<1>1. Counted(FakeTouches(r)) /\ KeepsOpen(r, FakeTouches(r))
  BY FakeTouchesCounted
<1>2. Counted(Unhover(FakeTouches(r))) /\ SamePad(FakeTouches(r), Unhover(FakeTouches(r)))
  BY <1>1, UnhoverCounted
<1>3. /\ Counted(PreProcess(r)) /\ SamePad(Unhover(FakeTouches(r)), PreProcess(r))
      /\ \A i \in Index : PreProcess(r).touch[i].state # "MAYBE_END"
  BY <1>2, EndTouchesCounted DEF PreProcess
<1>4. /\ Counted(HandleState(r)) /\ SamePad(PreProcess(r), HandleState(r))
      /\ Rests(HandleState(r))
  BY <1>3, PostProcessCounted DEF HandleState
<1> QED
  BY <1>1, <1>2, <1>3, <1>4 DEF SamePad, KeepsOpen

\* The fields that are not touches, set one at a time.
LEMMA OtherFieldsCounted ==
  ASSUME NEW r, Counted(r), NEW new \in Pad, new.touch = r.touch, new.nfingers = r.nfingers
  PROVE  Counted(new) /\ (Rests(r) => Rests(new))
<1>1. Down(new) = Down(r)
  BY DEF Down, In
<1> QED
  BY <1>1 DEF Counted, Rests

LEMMA ClearStateCounted ==
  ASSUME ModelOK, NEW r, Counted(r)
  PROVE  Counted(ClearState(r)) /\ Rests(ClearState(r)) /\ ClearState(r).nactive = r.nactive
<1> DEFINE q == EndSequences(r, Index)
           new == [q EXCEPT !.fake = {}]
<1>1. Counted(q) /\ SamePad(r, q)
  BY EndSequencesCounted
<1> HIDE DEF q
<1>2. q \in Pad
  BY <1>1 DEF Counted
<1>3. new \in Pad
  BY <1>2, Zenon DEF Pad
<1>4. new.touch = q.touch /\ new.nfingers = q.nfingers /\ new.nactive = q.nactive
  BY <1>2 DEF Pad
<1>5. Unrolled(r) = new
  BY DEF Unrolled, q
<1> HIDE DEF new
<1>6. Counted(new)
  BY <1>1, <1>3, <1>4, OtherFieldsCounted
<1>7. Counted(HandleState(new)) /\ Rests(HandleState(new)) /\ KeepsOpen(new, HandleState(new))
  BY <1>6, HandleStateCounted
<1> QED
  BY <1>1, <1>4, <1>5, <1>7 DEF ClearState, SamePad, KeepsOpen

-----------------------------------------------------------------------------
(* The invariant                                                           *)

\* Between frames, and while the device is closed, every touch is at rest.
Inv ==
  /\ ModelOK
  /\ kernel \in Kernel
  /\ Counted(pad)
  /\ Between \/ ~pad.open => Rests(pad)

\* The axes of a touch come.
LEMMA AxesCounted ==
  ASSUME ModelOK, NEW q, Counted(q), NEW s \in Index, NEW contact \in 0..2
  PROVE  LET new == [q EXCEPT !.touch[s].dirty = TRUE, !.touch[s].contact = contact]
         IN  Counted(new) /\ SamePad(q, new)
<1> DEFINE heard(t) == [t EXCEPT !.dirty = TRUE, !.contact = contact]
           touch == [q.touch EXCEPT ![s] = heard(q.touch[s])]
           new == [q EXCEPT !.touch[s].dirty = TRUE, !.touch[s].contact = contact]
<1>1. q \in Pad /\ q.touch \in [Index -> Touch] /\ q.touch[s] \in Touch
  BY DEF Counted, Pad
<1>2. /\ heard(q.touch[s]) \in Touch /\ heard(q.touch[s]).dirty
      /\ heard(q.touch[s]).state = q.touch[s].state
  <2> DEFINE t == q.touch[s]
  <2>1. t \in Touch
    BY <1>1
  <2> HIDE DEF t
  <2>2. heard(t) \in Touch
    BY <2>1, Zenon DEF Touch
  <2>3. heard(t).dirty /\ heard(t).state = t.state
    BY <2>1 DEF Touch
  <2> QED
    BY <2>2, <2>3 DEF t
<1>3. new = [q EXCEPT !.touch = touch]
  <2>1. touch = [q.touch EXCEPT ![s].dirty = TRUE, ![s].contact = contact]
    BY <1>1 DEF Touch
  <2> HIDE DEF touch, heard
  <2> QED
    BY <1>1, <2>1 DEF Pad
<1> HIDE DEF heard
<1>4. /\ touch \in [Index -> Touch]
      /\ \A i \in Index : /\ touch[i].state = q.touch[i].state
                          /\ q.touch[i].dirty => touch[i].dirty
  BY <1>1, <1>2
<1> HIDE DEF touch
<1>5. Counted([q EXCEPT !.touch = touch]) /\ SamePad(q, [q EXCEPT !.touch = touch])
  BY <1>4, SameStatesCounted
<1> QED
  BY <1>3, <1>5

LEMMA NActiveSet ==
  ASSUME NEW r, Counted(r), NEW k \in Nat
  PROVE  LET new == [r EXCEPT !.nactive = k]
         IN  Counted(new) /\ new.open = r.open /\ new.nactive = k
<1> DEFINE new == [r EXCEPT !.nactive = k]
<1>1. new \in Pad
  BY Zenon DEF Counted, Pad
<1>2. new.touch = r.touch /\ new.nfingers = r.nfingers /\ new.open = r.open /\ new.nactive = k
  BY DEF Counted, Pad
<1> HIDE DEF new
<1>3. Counted(new)
  BY <1>1, <1>2, OtherFieldsCounted
<1> QED
  BY <1>2, <1>3 DEF new

LEMMA ChangedTyped ==
  ASSUME kernel \in Kernel, NEW s \in Slots, NEW tracked \in SUBSET Slots
  PROVE  /\ Changed(s) \in Kernel /\ Changed(s).changed # {}
         /\ [Changed(s) EXCEPT !.tracked = tracked] \in Kernel
         /\ [Changed(s) EXCEPT !.tracked = tracked].changed # {}
<1> DEFINE k == [kernel EXCEPT !.changed = kernel.changed \cup {s}]
<1>1. kernel.changed \cup {s} \in SUBSET Slots
  BY DEF Kernel
<1>2. k \in Kernel
  BY <1>1, Zenon DEF Kernel
<1>3. k.changed = kernel.changed \cup {s}
  BY DEF Kernel
<1>4. Changed(s) = k
  BY DEF Changed
<1> HIDE DEF k
<1>5. [k EXCEPT !.tracked = tracked] \in Kernel
  BY <1>2, Zenon DEF Kernel
<1>6. [k EXCEPT !.tracked = tracked].changed = k.changed
  BY <1>2 DEF Kernel
<1>7. k.changed # {}
  BY <1>3
<1> QED
  BY <1>2, <1>4, <1>5, <1>6, <1>7

\* The touchpad stays the same, so what is said of the next pad is said with
\* the touches of this one.
LEMMA PrimedInv ==
  ASSUME ModelOK, UNCHANGED model, kernel' \in Kernel, Counted(pad'),
         Between' \/ ~pad'.open => Rests(pad')
  PROVE  Inv'
<1>1. Index' = Index /\ Slots' = Slots
  BY DEF Index, Slots, ntouches
<1>2. Pad' = Pad /\ Kernel' = Kernel
  BY <1>1, Zenon DEF Pad, Kernel
<1>3. (Down(pad))' = Down(pad')
  BY <1>1, Zenon DEF Down, In
<1>4. (Counted(pad))'
  BY <1>1, <1>2, <1>3, Zenon DEF Counted
<1>5. Rests(pad') => (Rests(pad))'
  BY <1>1, Zenon DEF Rests
<1> QED
  BY <1>2, <1>4, <1>5 DEF Inv, ModelOK

LEMMA InFrame ==
  ASSUME ModelOK, UNCHANGED model, kernel' \in Kernel, Counted(pad'),
         kernel'.changed # {} \/ kernel'.keyed, ~pad'.open => Rests(pad')
  PROVE  Inv'
  BY PrimedInv DEF Between

LEMMA SlotBeginsInv ==
  ASSUME Inv, NEW s \in Slots, NEW contact \in ContactValues, SlotBegins(s, contact)
  PROVE  Inv'
<1>1. kernel' \in Kernel /\ kernel'.changed # {}
  <2>1. kernel.tracked \cup {s} \in SUBSET Slots
    BY DEF Inv, Kernel
  <2>2. kernel' = [Changed(s) EXCEPT !.tracked = kernel.tracked \cup {s}]
    BY DEF SlotBegins, Changed, Inv, Kernel
  <2> QED
    BY <2>1, <2>2, ChangedTyped DEF Inv
<1>2. UNCHANGED model /\ s \in Index /\ {s} \in SUBSET Index /\ contact \in 0..2
  BY SlotsAreTouches DEF SlotBegins, Inv, ContactValues
<1>3. CASE ~pad.open
  BY <1>1, <1>2, <1>3, InFrame DEF Inv, SlotBegins
<1>4. CASE pad.open
  <2> DEFINE r == [pad EXCEPT !.nactive = pad.nactive + 1]
             q == NewTouches(r, {s})
  <2>1. pad' = [q EXCEPT !.touch[s].dirty = TRUE, !.touch[s].contact = contact]
    BY <1>4 DEF SlotBegins
  <2>2. pad.nactive + 1 \in Nat
    BY DEF Inv, Counted, Pad
  <2>3. Counted(r) /\ r.open
    BY <1>4, <2>2, NActiveSet DEF Inv
  <2> HIDE DEF r
  <2>4. Counted(q) /\ q.open
    BY <1>2, <2>3, NewTouchesCounted DEF Inv, SamePad
  <2> HIDE DEF q
  <2>5. Counted(pad') /\ SamePad(q, pad')
    BY <1>2, <2>1, <2>4, AxesCounted, Zenon DEF Inv
  <2>6. pad'.open
    BY <2>4, <2>5 DEF SamePad
  <2> QED
    BY <1>1, <1>2, <2>5, <2>6, InFrame DEF Inv
<1> QED
  BY <1>3, <1>4

LEMMA SlotEndsInv ==
  ASSUME Inv, NEW s \in Slots, SlotEnds(s)
  PROVE  Inv'
<1>1. kernel' \in Kernel /\ kernel'.changed # {}
  <2>1. kernel.tracked \ {s} \in SUBSET Slots
    BY DEF Inv, Kernel
  <2>2. kernel' = [Changed(s) EXCEPT !.tracked = kernel.tracked \ {s}]
    BY DEF SlotEnds, Changed, Inv, Kernel
  <2> QED
    BY <2>1, <2>2, ChangedTyped DEF Inv
<1>2. UNCHANGED model /\ s \in Index /\ {s} \in SUBSET Index
  BY SlotsAreTouches DEF SlotEnds, Inv
<1>3. CASE ~pad.open \/ pad.nactive = 0
  BY <1>1, <1>2, <1>3, InFrame DEF Inv, SlotEnds
<1>4. CASE pad.open /\ pad.nactive # 0
  <2> DEFINE r == [pad EXCEPT !.nactive = pad.nactive - 1]
  <2>1. pad' = EndSequences(r, {s})
    BY <1>4 DEF SlotEnds
  <2>2. pad.nactive - 1 \in Nat
    BY <1>4 DEF Inv, Counted, Pad
  <2>3. Counted(r) /\ r.open
    BY <1>4, <2>2, NActiveSet DEF Inv
  <2> HIDE DEF r
  <2>4. Counted(pad') /\ pad'.open
    BY <1>2, <2>1, <2>3, EndSequencesCounted DEF Inv, SamePad
  <2> QED
    BY <1>1, <1>2, <2>4, InFrame DEF Inv
<1> QED
  BY <1>3, <1>4

LEMMA MovesInv ==
  ASSUME Inv, NEW s \in Slots, NEW contact \in ContactValues, Moves(s, contact)
  PROVE  Inv'
<1>1. kernel' \in Kernel /\ kernel'.changed # {}
  <2>1. kernel' = Changed(s)
    BY DEF Moves
  <2> QED
    BY <2>1, ChangedTyped DEF Inv
<1>2. UNCHANGED model /\ s \in Index /\ contact \in 0..2
  BY SlotsAreTouches DEF Moves, Inv, ContactValues
<1>3. CASE ~pad.open
  BY <1>1, <1>2, <1>3, InFrame DEF Inv, Moves
<1>4. CASE pad.open
  <2>1. pad' = [pad EXCEPT !.touch[s].dirty = TRUE, !.touch[s].contact = contact]
    BY <1>4 DEF Moves
  <2>2. Counted(pad') /\ SamePad(pad, pad')
    BY <1>2, <2>1, AxesCounted, Zenon DEF Inv
  <2>3. pad'.open
    BY <1>4, <2>2 DEF SamePad
  <2> QED
    BY <1>1, <1>2, <2>2, <2>3, InFrame DEF Inv
<1> QED
  BY <1>3, <1>4

LEMMA KeySetsTyped ==
  ASSUME ModelOK, NEW keys \in KeySets
  PROVE  keys \in SUBSET AllKeys
<1>1. model.fingers \in Nat /\ model.fingers <= 5
  BY TouchesAssumption DEF ModelOK, AllModels
<1> QED
  BY <1>1 DEF KeySets, AllKeys, BTN_TOUCH

LEMMA KeysInv ==
  ASSUME Inv, NEW keys \in KeySets, Keys(keys)
  PROVE  Inv'
<1>1. keys \in SUBSET AllKeys
  BY KeySetsTyped DEF Inv
<1>2. kernel' \in Kernel /\ kernel'.keyed
  <2> DEFINE up == KeyCount(keys) > KeyCount(kernel.keys)
  <2>1. kernel' = [kernel EXCEPT !.keys = keys, !.keyed = TRUE, !.up = up]
    BY DEF Keys
  <2>2. up \in BOOLEAN
    OBVIOUS
  <2> HIDE DEF up
  <2>3. kernel \in Kernel
    BY DEF Inv
  <2>4. kernel' \in Kernel
    BY <1>1, <2>1, <2>2, <2>3, Zenon DEF Kernel
  <2>5. kernel'.keyed
    BY <2>1, <2>3 DEF Kernel
  <2> QED
    BY <2>4, <2>5
<1>3. CASE ~pad.open
  BY <1>2, <1>3, InFrame DEF Inv, Keys
<1>4. CASE pad.open
  <2>1. PICK fake \in SUBSET AllKeys : pad' = [pad EXCEPT !.fake = fake]
    <3>1. pad' = FakeFingers(pad, keys \ kernel.keys, kernel.keys \ keys)
      BY <1>4 DEF Keys
    <3>2. pad.fake \in SUBSET AllKeys
      BY DEF Inv, Counted, Pad
    <3> QED
      BY <1>1, <3>1, <3>2 DEF FakeFingers, AllKeys, OVERFLOW
  <2> DEFINE new == [pad EXCEPT !.fake = fake]
  <2>2. pad \in Pad
    BY DEF Inv, Counted
  <2>3. new \in Pad
    BY <2>2, Zenon DEF Pad
  <2>4. new.touch = pad.touch /\ new.nfingers = pad.nfingers /\ new.open = pad.open
    BY <2>2 DEF Pad
  <2> HIDE DEF new
  <2>5. Counted(new)
    BY <2>3, <2>4, OtherFieldsCounted DEF Inv
  <2>6. pad' = new
    BY <2>1 DEF new
  <2> QED
    BY <1>2, <1>4, <2>4, <2>5, <2>6, InFrame DEF Inv, Keys
<1> QED
  BY <1>3, <1>4

LEMMA ReportInv ==
  ASSUME Inv, Report
  PROVE  Inv'
<1>1. kernel' \in Kernel
  <2> DEFINE short == /\ model.has_mt /\ BTN_TOUCH \in kernel.keys
                      /\ Cardinality(kernel.tracked)
                           < Least(KeyCount(kernel.keys), model.real)
             heard == kernel.heard \/ (pad.open /\ kernel.keys = {})
             new == [kernel EXCEPT !.changed = {}, !.keyed = FALSE, !.up = FALSE,
                                   !.short = short, !.heard = heard]
  <2>1. kernel' = new
    BY DEF Report, Sent
  <2>2. kernel \in Kernel /\ pad \in Pad /\ model \in AllModels
    BY SlotsAreTouches DEF Inv, Counted
  <2>3. short \in BOOLEAN
    OBVIOUS
  <2>4. heard \in BOOLEAN
    OBVIOUS
  <2>5. {} \in SUBSET Slots
    OBVIOUS
  <2> HIDE DEF short, heard
  <2> QED
    BY <2>1, <2>2, <2>3, <2>4, <2>5, Zenon DEF Kernel
<1>2. CASE ~pad.open
  BY <1>1, <1>2, PrimedInv DEF Inv, Report
<1>3. CASE pad.open
  <2>1. Counted(HandleState(pad)) /\ Rests(HandleState(pad))
    BY HandleStateCounted DEF Inv
  <2>2. pad' = HandleState(pad) /\ UNCHANGED model
    BY <1>3 DEF Report
  <2>3. Counted(pad') /\ Rests(pad')
    BY <2>1, <2>2, Zenon
  <2> QED
    BY <1>1, <2>2, <2>3, PrimedInv DEF Inv
<1> QED
  BY <1>2, <1>3

LEMMA SuspendInv ==
  ASSUME Inv, Suspend
  PROVE  Inv'
<1> DEFINE q == ClearState(pad)
           new == [q EXCEPT !.suspended = TRUE, !.open = model.topbuttons]
<1>1. pad' = new /\ UNCHANGED model
  BY DEF Suspend
<1>2. Counted(q) /\ Rests(q)
  BY ClearStateCounted DEF Inv
<1> HIDE DEF q
<1>3. q \in Pad /\ model.topbuttons \in BOOLEAN
  BY <1>2, SlotsAreTouches DEF Counted, Inv, AllModels
<1>4. new \in Pad
  BY <1>3, Zenon DEF Pad
<1>5. new.touch = q.touch /\ new.nfingers = q.nfingers
  BY <1>3 DEF Pad
<1> HIDE DEF new
<1>6. Counted(new) /\ Rests(new)
  BY <1>2, <1>4, <1>5, OtherFieldsCounted
<1>7. kernel' \in Kernel
  <2>1. kernel \in Kernel /\ kernel' = [kernel EXCEPT !.heard = FALSE]
    BY DEF Inv, Suspend
  <2> QED
    BY <2>1, Zenon DEF Kernel
<1> QED
  BY <1>1, <1>6, <1>7, PrimedInv DEF Inv

LEMMA ResumeInv ==
  ASSUME Inv, Resume
  PROVE  Inv'
<1> DEFINE q == IF model.topbuttons THEN ClearState(pad) ELSE pad
           n == q.nactive + Cardinality(kernel.tracked)
           new == [q EXCEPT !.suspended = FALSE, !.open = TRUE, !.nactive = n]
<1>1. pad' = new /\ UNCHANGED model
  BY DEF Resume
<1>2. Counted(q) /\ Rests(q)
  BY ClearStateCounted DEF Inv, Resume
<1> HIDE DEF q
<1>3. q \in Pad
  BY <1>2 DEF Counted
<1>4. n \in Nat
  <2>1. kernel.tracked \subseteq Slots /\ IsFiniteSet(Slots)
    BY SlotsAreTouches DEF Inv, Kernel
  <2>2. Cardinality(kernel.tracked) \in Nat
    BY <2>1, FS_Subset, FS_CardinalityType
  <2> QED
    BY <1>3, <2>2 DEF Pad
<1> HIDE DEF n
<1>5. new \in Pad
  BY <1>3, <1>4, Zenon DEF Pad
<1>6. new.touch = q.touch /\ new.nfingers = q.nfingers
  BY <1>3 DEF Pad
<1> HIDE DEF new
<1>7. Counted(new) /\ Rests(new)
  BY <1>2, <1>5, <1>6, OtherFieldsCounted
<1>8. kernel' \in Kernel
  <2> DEFINE heard == kernel.keys = {}
  <2>1. kernel \in Kernel /\ kernel' = [kernel EXCEPT !.heard = heard]
    BY DEF Inv, Resume
  <2>2. heard \in BOOLEAN
    OBVIOUS
  <2> HIDE DEF heard
  <2> QED
    BY <2>1, <2>2, Zenon DEF Kernel
<1> QED
  BY <1>1, <1>7, <1>8, PrimedInv DEF Inv

LEMMA InitInv == TouchesInit => Inv
<1> SUFFICES ASSUME TouchesInit PROVE Inv
  OBVIOUS
<1>1. ModelOK
  BY DEF TouchesInit, ModelOK
<1>2. PICK tracked \in SUBSET Slots, keys \in KeySets :
        /\ kernel = [tracked |-> tracked, keys |-> keys, changed |-> {},
                     keyed |-> FALSE, up |-> FALSE, short |-> FALSE,
                     heard |-> keys = {}]
        /\ pad = [touch |-> [i \in Index |-> NoTouch], nfingers |-> 0,
                  nactive |-> Cardinality(tracked), num_slots |-> model.num_slots,
                  fake |-> keys \cap {1}, open |-> TRUE, suspended |-> FALSE]
  BY DEF TouchesInit
<1>3. keys \in SUBSET AllKeys /\ keys \cap {1} \in SUBSET AllKeys
  BY <1>1, KeySetsTyped
<1>4. kernel \in Kernel
  BY <1>2, <1>3 DEF Kernel
<1>5. NoTouch \in Touch /\ NoTouch.state = "NONE" /\ ~NoTouch.dirty
  BY DEF NoTouch, Touch, TouchStates
<1>6. Cardinality(tracked) \in Nat /\ model.num_slots \in Nat
  <2>1. IsFiniteSet(Slots) /\ model \in AllModels
    BY <1>1, SlotsAreTouches
  <2> QED
    BY <2>1, FS_Subset, FS_CardinalityType DEF AllModels
<1> DEFINE touch == [i \in Index |-> NoTouch]
<1>7. touch \in [Index -> Touch] /\ \A i \in Index : touch[i] = NoTouch
  BY <1>5
<1> HIDE DEF touch
<1>8. pad \in Pad
  BY <1>2, <1>3, <1>6, <1>7 DEF Pad, touch
<1>9. pad.touch = touch /\ pad.nfingers = 0
  BY <1>2 DEF touch
<1>10. Rests(pad)
  BY <1>5, <1>7, <1>9 DEF Rests, Settling
<1>11. Cardinality(Down(pad)) = 0
  <2>1. Down(pad) = {}
    BY <1>5, <1>7, <1>9 DEF Down, In, DownStates
  <2> QED
    BY <2>1, FS_EmptySet
<1> QED
  BY <1>1, <1>4, <1>8, <1>9, <1>10, <1>11 DEF Inv, Counted, Rests

LEMMA StepInv == Inv /\ [TouchesNext]_touchVars => Inv'
<1> SUFFICES ASSUME Inv, [TouchesNext]_touchVars PROVE Inv'
  OBVIOUS
<1>1. ASSUME NEW s \in Slots, NEW contact \in ContactValues, SlotBegins(s, contact)
      PROVE  Inv'
  BY <1>1, SlotBeginsInv
<1>2. ASSUME NEW s \in Slots, SlotEnds(s) PROVE Inv'
  BY <1>2, SlotEndsInv
<1>3. ASSUME NEW s \in Slots, NEW contact \in ContactValues, Moves(s, contact)
      PROVE  Inv'
  BY <1>3, MovesInv
<1>4. ASSUME NEW keys \in KeySets, Keys(keys) PROVE Inv'
  BY <1>4, KeysInv
<1>5. CASE Report
  BY <1>5, ReportInv
<1>6. CASE Suspend
  BY <1>6, SuspendInv
<1>7. CASE Resume
  BY <1>7, ResumeInv
<1>8. CASE UNCHANGED touchVars
  <2>1. UNCHANGED <<model, kernel, pad>> /\ Between' = Between
    BY <1>8 DEF touchVars, Between
  <2> QED
    BY <2>1, PrimedInv DEF Inv
<1> QED
  BY <1>1, <1>2, <1>3, <1>4, <1>5, <1>6, <1>7, <1>8 DEF TouchesNext

-----------------------------------------------------------------------------

\* The pad is always of its type, its count of fingers that of the touches that
\* are down, its touches settled unless a frame is open that dirtied them.
THEOREM TouchesInvariance == TouchesSpec => []Inv
BY InitInv, StepInv, PTL DEF TouchesSpec

\* nfingers_down is the number of touches in BEGIN or UPDATE after every event,
\* in the middle of a frame too, whatever the slots, the count keys, the
\* pressure and the suspensions are (tp_begin_touch, tp_maybe_end_touch,
\* tp_recover_ended_touch, tp_restore_synaptics_touches).
THEOREM FingersAreCounted == TouchesSpec => []FingersCounted
<1>1. Inv => FingersCounted
  <2> SUFFICES ASSUME Inv PROVE FingersCounted
    OBVIOUS
  <2>1. Between => AtRest
    BY DEF Inv, Rests, AtRest, Settling
  <2> QED
    BY <2>1 DEF Inv, ModelOK, Counted, FingersCounted, TouchesTypeOK
<1> QED
  BY <1>1, TouchesInvariance, PTL

-----------------------------------------------------------------------------
(* The state machine of a touch.                                           *)

Areas == TopSpots \cup BottomSpots \cup {"area"}
Undecided == {"TOP_NEW", "TOP_TO_IGNORE"}

\* The area and the timer of a state machine fit its state.
Fitting(b) ==
  /\ b \in Btn
  /\ b.timer <=> b.state \in Undecided
  /\ b.state = "NONE" => b.current = None
  /\ b.state \notin {"NONE", "IGNORE"} => b.current # None
  /\ b.state \in {"TOP", "TOP_NEW", "TOP_TO_IGNORE"} => b.current \in TopSpots

\* tp_button_*_handle_event, read as facts.
IsMove(m, from, on, to) == m[1] = from /\ m[2] = on /\ m[3] = to

LEMMA MovesAre ==
  ASSUME NEW m \in Moved
  PROVE  /\ m[3] \in ButtonStates \ {"NONE"}
         /\ m[3] = "BOTTOM" => m[2] \in {"bottom", "other bottom"}
         /\ m[3] = "TOP_NEW" => m[2] \in {"top", "other top"}
         /\ m[3] \in {"TOP", "TOP_TO_IGNORE"} => m[1] \in {"TOP", "TOP_NEW", "TOP_TO_IGNORE"}
         /\ m[1] = "NONE" => m[2] # "press"
         /\ m[2] = "timeout" => m[3] \in {"TOP", "IGNORE"}
<1>1. \/ m = <<"NONE", "top", "TOP_NEW">>
      \/ m = <<"NONE", "bottom", "BOTTOM">>
      \/ m = <<"NONE", "area", "AREA">>
      \/ m = <<"BOTTOM", "other bottom", "BOTTOM">>
      \/ m = <<"BOTTOM", "top", "AREA">>
      \/ m = <<"BOTTOM", "area", "AREA">>
      \/ m = <<"TOP", "other top", "TOP_NEW">>
      \/ m = <<"TOP", "bottom", "TOP_TO_IGNORE">>
      \/ m = <<"TOP", "area", "TOP_TO_IGNORE">>
      \/ m = <<"TOP_NEW", "other top", "TOP_NEW">>
      \/ m = <<"TOP_NEW", "bottom", "AREA">>
      \/ m = <<"TOP_NEW", "area", "AREA">>
      \/ m = <<"TOP_NEW", "press", "TOP">>
      \/ m = <<"TOP_NEW", "timeout", "TOP">>
      \/ m = <<"TOP_TO_IGNORE", "same top", "TOP">>
      \/ m = <<"TOP_TO_IGNORE", "other top", "TOP_NEW">>
      \/ m = <<"TOP_TO_IGNORE", "timeout", "IGNORE">>
  BY Zenon DEF Moved
<1>2. \A from, on, to : m = <<from, on, to>> => IsMove(m, from, on, to)
  BY DEF IsMove
<1>3. \/ IsMove(m, "NONE", "top", "TOP_NEW")
      \/ IsMove(m, "NONE", "bottom", "BOTTOM")
      \/ IsMove(m, "NONE", "area", "AREA")
      \/ IsMove(m, "BOTTOM", "other bottom", "BOTTOM")
      \/ IsMove(m, "BOTTOM", "top", "AREA")
      \/ IsMove(m, "BOTTOM", "area", "AREA")
      \/ IsMove(m, "TOP", "other top", "TOP_NEW")
      \/ IsMove(m, "TOP", "bottom", "TOP_TO_IGNORE")
      \/ IsMove(m, "TOP", "area", "TOP_TO_IGNORE")
      \/ IsMove(m, "TOP_NEW", "other top", "TOP_NEW")
      \/ IsMove(m, "TOP_NEW", "bottom", "AREA")
      \/ IsMove(m, "TOP_NEW", "area", "AREA")
      \/ IsMove(m, "TOP_NEW", "press", "TOP")
      \/ IsMove(m, "TOP_NEW", "timeout", "TOP")
      \/ IsMove(m, "TOP_TO_IGNORE", "same top", "TOP")
      \/ IsMove(m, "TOP_TO_IGNORE", "other top", "TOP_NEW")
      \/ IsMove(m, "TOP_TO_IGNORE", "timeout", "IGNORE")
  BY <1>1, <1>2, Zenon
<1> QED
  BY <1>3 DEF IsMove, ButtonStates

LEMMA SetStateFitting ==
  ASSUME NEW b \in Btn, NEW state \in ButtonStates, NEW event,
         state = "BOTTOM" => event \in BottomSpots,
         state = "TOP_NEW" => event \in TopSpots,
         state \in {"TOP", "TOP_TO_IGNORE"} => b.current \in TopSpots
  PROVE  Fitting(SetState(b, state, event)) /\ SetState(b, state, event).state = state
<1> DEFINE current == CASE state \in {"NONE", "IGNORE"} -> None
                        [] state = "AREA" -> "area"
                        [] state \in {"BOTTOM", "TOP_NEW"} -> event
                        [] OTHER -> b.current
           timer == state \in {"TOP_NEW", "TOP_TO_IGNORE"}
           new == [state |-> state, current |-> current, timer |-> timer]
<1>1. SetState(b, state, event) = new
  BY DEF SetState
<1>2. /\ current \in Zones \cup {None}
      /\ state = "NONE" => current = None
      /\ state \notin {"NONE", "IGNORE"} => current # None
      /\ state \in {"TOP", "TOP_NEW", "TOP_TO_IGNORE"} => current \in TopSpots
  BY DEF ButtonStates, Zones, TopSpots, BottomSpots, None
<1>3. timer \in BOOLEAN
  OBVIOUS
<1> HIDE DEF current
<1>4. new \in Btn
  BY <1>2, <1>3 DEF Btn
<1>5. new.state = state /\ new.current = current /\ new.timer = timer
  OBVIOUS
<1> HIDE DEF new
<1> QED
  BY <1>1, <1>2, <1>4, <1>5 DEF Fitting, Undecided

\* What the events of a touch do to its machine; "up" ends it.
LEMMA HandledFitting ==
  ASSUME NEW b, Fitting(b), NEW event \in Areas \cup {"press"}
  PROVE  /\ Fitting(Handled(b, event))
         /\ b.state = "NONE" /\ event \in Areas => Handled(b, event).state # "NONE"
         /\ b.state = "NONE" /\ event = "press" => Handled(b, event).state = "NONE"
         /\ b.state # "NONE" => Handled(b, event).state # "NONE"
<1> DEFINE to == {m \in Moved : m[1] = b.state /\ m[2] \in Kinds(b, event)}
           next == (CHOOSE m \in to : TRUE)[3]
<1>1. b \in Btn /\ b.state \in ButtonStates
  BY DEF Fitting, Btn
<1>2. event # "up" /\ event # "timeout"
  BY DEF Areas, TopSpots, BottomSpots
<1>3. /\ event \in TopSpots => Kinds(b, event) \subseteq {"top", "same top", "other top"}
                               /\ "top" \in Kinds(b, event)
      /\ event \in BottomSpots =>
           Kinds(b, event) \subseteq {"bottom", "same bottom", "other bottom"}
                               /\ "bottom" \in Kinds(b, event)
      /\ event \in {"area", "press"} => Kinds(b, event) = {event}
  BY DEF Kinds, TopSpots, BottomSpots
<1>4. ASSUME to # {}
      PROVE  /\ next \in ButtonStates \ {"NONE"}
             /\ next = "BOTTOM" => event \in BottomSpots
             /\ next = "TOP_NEW" => event \in TopSpots
             /\ next \in {"TOP", "TOP_TO_IGNORE"} => b.current \in TopSpots
             /\ b.state = "NONE" => event # "press"
  <2>1. PICK m \in to : m = CHOOSE x \in to : TRUE
    BY <1>4
  <2>2. m \in Moved /\ m[1] = b.state /\ m[2] \in Kinds(b, event) /\ next = m[3]
    BY <2>1
  <2> HIDE DEF to, next
  <2>3. /\ m[3] \in ButtonStates \ {"NONE"}
        /\ m[3] = "BOTTOM" => m[2] \in {"bottom", "other bottom"}
        /\ m[3] = "TOP_NEW" => m[2] \in {"top", "other top"}
        /\ m[3] \in {"TOP", "TOP_TO_IGNORE"} => m[1] \in {"TOP", "TOP_NEW", "TOP_TO_IGNORE"}
        /\ m[1] = "NONE" => m[2] # "press"
    BY <2>2, MovesAre
  <2>4. b.state \in {"TOP", "TOP_NEW", "TOP_TO_IGNORE"} => b.current \in TopSpots
    BY DEF Fitting
  <2>5. event \in TopSpots \/ event \in BottomSpots \/ event \in {"area", "press"}
    BY DEF Areas
  <2>6. /\ m[2] \in {"bottom", "other bottom"} => event \in BottomSpots
        /\ m[2] \in {"top", "other top"} => event \in TopSpots
    BY <2>2, <2>5, <1>3
  <2>7. m[1] = "NONE" => event # "press"
    BY <2>2, <2>3, <1>3
  <2> QED
    BY <2>2, <2>3, <2>4, <2>6, <2>7
<1>5. b.state = "NONE" /\ event \in Areas => to # {}
  <2> SUFFICES ASSUME b.state = "NONE", event \in Areas PROVE to # {}
    OBVIOUS
  <2>1. <<"NONE", "top", "TOP_NEW">> \in Moved /\ <<"NONE", "bottom", "BOTTOM">> \in Moved
        /\ <<"NONE", "area", "AREA">> \in Moved
    BY DEF Moved
  <2>2. CASE event \in TopSpots
    <3>1. <<"NONE", "top", "TOP_NEW">> \in to
      BY <1>3, <2>1, <2>2
    <3> QED BY <3>1
  <2>3. CASE event \in BottomSpots
    <3>1. <<"NONE", "bottom", "BOTTOM">> \in to
      BY <1>3, <2>1, <2>3
    <3> QED BY <3>1
  <2>4. CASE event = "area"
    <3>1. <<"NONE", "area", "AREA">> \in to
      BY <1>3, <2>1, <2>4
    <3> QED BY <3>1
  <2> QED BY <2>2, <2>3, <2>4 DEF Areas
<1>6. CASE event = "press" /\ b.state = "IGNORE"
  <2> DEFINE new == [b EXCEPT !.current = "area"]
  <2>1. Handled(b, event) = new
    BY <1>6 DEF Handled
  <2>2. new \in Btn
    <3>1. "area" \in Zones
      BY DEF Zones
    <3> QED BY <1>1, <3>1, Zenon DEF Btn
  <2>3. new.state = "IGNORE" /\ new.timer = b.timer /\ new.current = "area"
    BY <1>1, <1>6 DEF Btn
  <2> HIDE DEF new
  <2> QED
    BY <1>6, <2>1, <2>2, <2>3 DEF Fitting, Undecided
<1>7. CASE ~(event = "press" /\ b.state = "IGNORE") /\ to = {}
  <2>1. Handled(b, event) = b
    BY <1>2, <1>7 DEF Handled
  <2> HIDE DEF to
  <2> QED
    BY <1>5, <1>7, <2>1
<1>8. CASE ~(event = "press" /\ b.state = "IGNORE") /\ to # {}
  <2>1. Handled(b, event) = SetState(b, next, event)
    BY <1>2, <1>8 DEF Handled
  <2> HIDE DEF to, next
  <2>2. /\ next \in ButtonStates \ {"NONE"}
        /\ next = "BOTTOM" => event \in BottomSpots
        /\ next = "TOP_NEW" => event \in TopSpots
        /\ next \in {"TOP", "TOP_TO_IGNORE"} => b.current \in TopSpots
        /\ b.state = "NONE" => event # "press"
    BY <1>4, <1>8
  <2>3. Fitting(SetState(b, next, event)) /\ SetState(b, next, event).state = next
    BY <1>1, <2>2, SetStateFitting
  <2> QED
    BY <2>1, <2>2, <2>3
<1> QED
  BY <1>6, <1>7, <1>8

LEMMA UpFitting ==
  ASSUME NEW b, Fitting(b)
  PROVE  Fitting(Handled(b, "up")) /\ Handled(b, "up").state = "NONE"
<1>1. Handled(b, "up") = SetState(b, "NONE", "up")
  BY DEF Handled
<1> QED
  BY <1>1, SetStateFitting DEF Fitting, ButtonStates

\* The timer decides, and nothing is left to be decided.
LEMMA TimeoutFitting ==
  ASSUME NEW b, Fitting(b), b.timer
  PROVE  LET new == Handled([b EXCEPT !.timer = FALSE], "timeout")
         IN  Fitting(new) /\ new.state # "NONE" /\ b.state # "NONE"
<1> DEFINE c == [b EXCEPT !.timer = FALSE]
           to == {m \in Moved : m[1] = c.state /\ m[2] \in Kinds(c, "timeout")}
           next == (CHOOSE m \in to : TRUE)[3]
<1>1. c \in Btn /\ c.state = b.state /\ c.current = b.current
  <2>1. b \in Btn
    BY DEF Fitting
  <2> QED
    BY <2>1 DEF Btn
<1>2. b.state \in Undecided /\ b.current \in TopSpots
  BY DEF Fitting, Undecided
<1> HIDE DEF c
<1>3. Kinds(c, "timeout") = {"timeout"}
  BY DEF Kinds, TopSpots, BottomSpots
<1>4. to # {} /\ \A m \in to : m[3] \in {"TOP", "IGNORE"}
  <2>1. /\ <<"TOP_NEW", "timeout", "TOP">> \in Moved
        /\ <<"TOP_TO_IGNORE", "timeout", "IGNORE">> \in Moved
    BY DEF Moved
  <2>2. to # {}
    <3>1. CASE c.state = "TOP_NEW"
      <4>1. <<"TOP_NEW", "timeout", "TOP">> \in to
        BY <1>3, <2>1, <3>1
      <4> QED BY <4>1
    <3>2. CASE c.state = "TOP_TO_IGNORE"
      <4>1. <<"TOP_TO_IGNORE", "timeout", "IGNORE">> \in to
        BY <1>3, <2>1, <3>2
      <4> QED BY <4>1
    <3> QED BY <1>1, <1>2, <3>1, <3>2 DEF Undecided
  <2>3. \A m \in to : m[3] \in {"TOP", "IGNORE"}
    BY <1>3, MovesAre
  <2> QED BY <2>2, <2>3
<1>5. next \in {"TOP", "IGNORE"}
  <2>1. (CHOOSE m \in to : TRUE) \in to
    BY <1>4
  <2> QED BY <1>4, <2>1
<1>6. Handled(c, "timeout") = SetState(c, next, "timeout")
  BY <1>4 DEF Handled
<1> HIDE DEF next, to
<1>7. Fitting(SetState(c, next, "timeout")) /\ SetState(c, next, "timeout").state = next
  BY <1>1, <1>2, <1>5, SetStateFitting DEF ButtonStates
<1> QED
  BY <1>2, <1>5, <1>6, <1>7 DEF c, Undecided

-----------------------------------------------------------------------------
(* The touches and the machines that follow them.                          *)

\* A touch in the middle of a frame, and once it is known what the frame says
\* of it; running: it has a state machine.
WaitsAs(t, running) ==
  /\ t.state \in {"NONE", "HOVERING", "UPDATE", "MAYBE_END"}
  /\ t.state \in {"UPDATE", "MAYBE_END"} <=> running
ComesAs(t, running) ==
  /\ t.state = "UPDATE" => running
  /\ t.state \in {"NONE", "HOVERING"} => ~running
  /\ t.state \in {"BEGIN", "END"} => t.dirty

\* The machines b and the touches of a pad, before a frame is handled and then.
Waiting(r, b) == \A i \in Index : WaitsAs(r.touch[i], b[i].state # "NONE")
Coming(r, b) == \A i \in Index : ComesAs(r.touch[i], b[i].state # "NONE")

LEMMA TouchWaits ==
  ASSUME NEW t \in Touch, NEW running \in BOOLEAN
  PROVE  /\ WaitsAs(t, running) => /\ WaitsAs(NewTouch(t), running)
                                   /\ WaitsAs(MaybeEndTouch(t), running)
                                   /\ ComesAs(t, running)
         /\ ComesAs(t, running) => ComesAs(MaybeEndTouch(t), running)
<1>1. /\ t.state \in {"NONE", "END"} => NewTouch(t).state = "HOVERING"
      /\ t.state = "MAYBE_END" => NewTouch(t).state = "UPDATE"
      /\ t.state \notin {"NONE", "END", "MAYBE_END"} => NewTouch(t) = t
  BY DEF NewTouch, Touch
<1>2. /\ t.state \in DownStates => MaybeEndTouch(t).state = "MAYBE_END"
      /\ t.state = "HOVERING" => MaybeEndTouch(t).state = "NONE"
      /\ t.state \notin DownStates \cup {"HOVERING"} => MaybeEndTouch(t) = t
  BY DEF MaybeEndTouch, Touch, DownStates
<1> QED
  BY <1>1, <1>2 DEF WaitsAs, ComesAs, DownStates

\* A touch of BeginTouches.
Begun(t) == [t EXCEPT !.state = "BEGIN", !.dirty = TRUE]

\* What becomes of a touch.
LEMMA TouchBecomes ==
  ASSUME NEW r \in Pad, NEW S, NEW i \in Index
  PROVE  /\ r.touch[i] \in Touch
         /\ NewTouches(r, S).touch[i] \in {r.touch[i], NewTouch(r.touch[i])}
         /\ MaybeEndTouches(r, S).touch[i] \in {r.touch[i], MaybeEndTouch(r.touch[i])}
         /\ BeginTouches(r, S).touch[i] \in {r.touch[i], Begun(r.touch[i])}
<1>1. r.touch \in [Index -> Touch]
  BY DEF Pad
<1>2. \A touch, k : [r EXCEPT !.touch = touch, !.nfingers = k].touch = touch
  BY DEF Pad
<1>3. NewTouches(r, S).touch =
        [j \in Index |-> IF j \in S THEN NewTouch(r.touch[j]) ELSE r.touch[j]]
  BY <1>2 DEF NewTouches
<1>4. MaybeEndTouches(r, S).touch =
        [j \in Index |-> IF j \in S THEN MaybeEndTouch(r.touch[j]) ELSE r.touch[j]]
  BY <1>2 DEF MaybeEndTouches
<1>5. BeginTouches(r, S).touch =
        [j \in Index |-> IF j \in S THEN Begun(r.touch[j]) ELSE r.touch[j]]
  BY <1>2 DEF BeginTouches, Begun
<1>6. NewTouches(r, S).touch[i] = IF i \in S THEN NewTouch(r.touch[i]) ELSE r.touch[i]
  BY <1>3
<1>7. MaybeEndTouches(r, S).touch[i] = IF i \in S THEN MaybeEndTouch(r.touch[i]) ELSE r.touch[i]
  BY <1>4
<1>8. BeginTouches(r, S).touch[i] = IF i \in S THEN Begun(r.touch[i]) ELSE r.touch[i]
  BY <1>5
<1> QED
  BY <1>1, <1>6, <1>7, <1>8

LEMMA NewTouchesWait ==
  ASSUME NEW r \in Pad, NEW b, Waiting(r, b), NEW S
  PROVE  Waiting(NewTouches(r, S), b)
<1> SUFFICES ASSUME NEW i \in Index
             PROVE  WaitsAs(NewTouches(r, S).touch[i], b[i].state # "NONE")
  BY DEF Waiting
<1> DEFINE t == r.touch[i]
           running == b[i].state # "NONE"
<1>1. t \in Touch /\ NewTouches(r, S).touch[i] \in {t, NewTouch(t)}
  BY TouchBecomes
<1>2. WaitsAs(t, running) /\ running \in BOOLEAN
  BY DEF Waiting
<1> HIDE DEF t, running
<1>3. WaitsAs(NewTouch(t), running)
  BY <1>1, <1>2, TouchWaits
<1> QED
  BY <1>1, <1>2, <1>3 DEF running

LEMMA MaybeEndTouchesWait ==
  ASSUME NEW r \in Pad, NEW b, NEW S
  PROVE  /\ Waiting(r, b) => Waiting(MaybeEndTouches(r, S), b)
         /\ Coming(r, b) => Coming(MaybeEndTouches(r, S), b)
         /\ Waiting(r, b) => Coming(r, b)
<1> SUFFICES ASSUME NEW i \in Index
             PROVE  LET t == r.touch[i]
                        new == MaybeEndTouches(r, S).touch[i]
                        running == b[i].state # "NONE"
                    IN  /\ WaitsAs(t, running) => WaitsAs(new, running) /\ ComesAs(t, running)
                        /\ ComesAs(t, running) => ComesAs(new, running)
  BY DEF Waiting, Coming
<1> DEFINE t == r.touch[i]
           running == b[i].state # "NONE"
<1>1. t \in Touch /\ MaybeEndTouches(r, S).touch[i] \in {t, MaybeEndTouch(t)}
  BY TouchBecomes
<1>2. running \in BOOLEAN
  OBVIOUS
<1> HIDE DEF t, running
<1>3. /\ WaitsAs(t, running) => WaitsAs(MaybeEndTouch(t), running) /\ ComesAs(t, running)
      /\ ComesAs(t, running) => ComesAs(MaybeEndTouch(t), running)
  BY <1>1, <1>2, TouchWaits
<1> QED
  BY <1>1, <1>3 DEF t, running

LEMMA BeginTouchesCome ==
  ASSUME NEW r \in Pad, NEW b, Coming(r, b), NEW S
  PROVE  Coming(BeginTouches(r, S), b)
<1>1. \A t \in Touch : Begun(t).state = "BEGIN" /\ Begun(t).dirty
  BY DEF Begun, Touch
<1> SUFFICES ASSUME NEW i \in Index
             PROVE  ComesAs(BeginTouches(r, S).touch[i], b[i].state # "NONE")
  BY DEF Coming
<1>2. r.touch[i] \in Touch /\ BeginTouches(r, S).touch[i] \in {r.touch[i], Begun(r.touch[i])}
  BY TouchBecomes
<1>3. ComesAs(r.touch[i], b[i].state # "NONE")
  BY DEF Coming
<1>4. ComesAs(Begun(r.touch[i]), b[i].state # "NONE")
  BY <1>1, <1>2 DEF ComesAs
<1> QED
  BY <1>2, <1>3, <1>4

\* A change to touches that leaves their states alone.
LEMMA SameStatesWait ==
  ASSUME NEW r \in Pad, NEW new, NEW b,
         \A i \in Index : new.touch[i].state = r.touch[i].state
  PROVE  Waiting(r, b) => Waiting(new, b)
  BY DEF Waiting, WaitsAs

LEMMA EndSequencesWait ==
  ASSUME ModelOK, NEW r, Counted(r), NEW b, Waiting(r, b), NEW S \in SUBSET Index
  PROVE  Waiting(EndSequences(r, S), b)
<1> DEFINE touch == [i \in Index |-> IF i \in S THEN [r.touch[i] EXCEPT !.has_ended = TRUE]
                                    ELSE r.touch[i]]
           new == [r EXCEPT !.touch = touch]
<1>1. EndSequences(r, S) = MaybeEndTouches(new, S)
  BY DEF EndSequences
<1>2. r \in Pad /\ r.touch \in [Index -> Touch]
  BY DEF Counted, Pad
<1>3. \A t \in Touch : /\ [t EXCEPT !.has_ended = TRUE] \in Touch
                       /\ [t EXCEPT !.has_ended = TRUE].state = t.state
  <2> TAKE t \in Touch
  <2>1. [t EXCEPT !.has_ended = TRUE] \in Touch
    BY Zenon DEF Touch
  <2> QED
    BY <2>1 DEF Touch
<1>4. /\ touch \in [Index -> Touch]
      /\ \A i \in Index : touch[i].state = r.touch[i].state
  BY <1>2, <1>3
<1> HIDE DEF touch
<1>5. new \in Pad
  BY <1>2, <1>4, Zenon DEF Pad
<1>6. new.touch = touch
  BY <1>2 DEF Pad
<1> HIDE DEF new
<1>7. Waiting(new, b)
  BY <1>2, <1>4, <1>6, SameStatesWait
<1> QED
  BY <1>1, <1>5, <1>7, MaybeEndTouchesWait

LEMMA RestoreWaits ==
  ASSUME NEW r \in Pad, NEW b, Waiting(r, b)
  PROVE  Waiting(RestoreTouches(r), b)
<1> DEFINE zombies == {i \in In(r, {"MAYBE_END"}) : i < r.num_slots}
           back(t) == [t EXCEPT !.state = "UPDATE", !.dirty = TRUE]
           touch == [i \in Index |-> IF i \in zombies THEN back(r.touch[i]) ELSE r.touch[i]]
           k == r.nfingers + Cardinality(zombies)
           new == [r EXCEPT !.touch = touch, !.nfingers = k]
<1>1. RestoreTouches(r) = r \/ RestoreTouches(r) = new
  BY DEF RestoreTouches
<1>2. \A i \in zombies : r.touch[i].state = "MAYBE_END"
  BY DEF In
<1>3. \A i \in Index : r.touch[i] \in Touch
  BY TouchBecomes
<1>4. \A t \in Touch : back(t).state = "UPDATE"
  BY DEF Touch
<1>5. new.touch = touch
  BY DEF Pad
<1> HIDE DEF zombies, back
<1>6. \A i \in Index : \/ touch[i] = r.touch[i]
                       \/ r.touch[i].state = "MAYBE_END" /\ touch[i].state = "UPDATE"
  BY <1>2, <1>3, <1>4
<1> HIDE DEF new, touch
<1>7. Waiting(new, b)
  BY <1>5, <1>6 DEF Waiting, WaitsAs
<1> QED
  BY <1>1, <1>7

LEMMA FakeTouchesWait ==
  ASSUME ModelOK, NEW r, Counted(r), NEW b, Waiting(r, b)
  PROVE  Waiting(FakeTouches(r), b)
<1> DEFINE q == CASE model.quirk = "synaptics" -> RestoreTouches(r)
                  [] model.quirk = "alps" -> ReduceSlots(r)
                  [] OTHER -> r
           fakes == {i \in Index : model.has_mt => i >= q.num_slots}
           counted == {i \in fakes : i < FingerCount(q)}
<1>1. r \in Pad
  BY DEF Counted
<1>2. Counted(q)
  <2>1. CASE model.quirk = "synaptics"
    BY <2>1, RestoreCounted
  <2>2. CASE model.quirk = "alps"
    <3>1. ReduceSlots(r) = r \/ ReduceSlots(r) = [r EXCEPT !.num_slots = r.nactive]
      BY DEF ReduceSlots
    <3> DEFINE new == [r EXCEPT !.num_slots = r.nactive]
    <3>2. r.nactive \in Nat
      BY <1>1 DEF Pad
    <3>3. new \in Pad
      BY <1>1, <3>2, Zenon DEF Pad
    <3>4. new.touch = r.touch /\ new.nfingers = r.nfingers
      BY <1>1 DEF Pad
    <3> HIDE DEF new
    <3>5. Counted(new)
      BY <3>3, <3>4, OtherFieldsCounted
    <3>6. q = r \/ q = new
      BY <2>2, <3>1 DEF new
    <3> QED
      BY <3>5, <3>6
  <2>3. CASE model.quirk \notin {"synaptics", "alps"}
    BY <2>3
  <2> QED
    BY <2>1, <2>2, <2>3
<1>3. Waiting(q, b)
  <2>1. CASE model.quirk = "synaptics"
    BY <1>1, <2>1, RestoreWaits
  <2>2. CASE model.quirk = "alps"
    <3>1. ReduceSlots(r) = r \/ ReduceSlots(r) = [r EXCEPT !.num_slots = r.nactive]
      BY DEF ReduceSlots
    <3>2. [r EXCEPT !.num_slots = r.nactive].touch = r.touch
      BY <1>1 DEF Pad
    <3>3. Waiting([r EXCEPT !.num_slots = r.nactive], b)
      BY <3>2 DEF Waiting
    <3> QED
      BY <2>2, <3>1, <3>3
  <2>3. CASE model.quirk \notin {"synaptics", "alps"}
    BY <2>3
  <2> QED
    BY <2>1, <2>2, <2>3
<1> HIDE DEF q
<1>4. counted \in SUBSET Index /\ (fakes \ counted) \in SUBSET Index
  OBVIOUS
<1>5. FakeTouches(r) = r \/ FakeTouches(r) = EndSequences(NewTouches(q, counted), fakes \ counted)
  BY DEF FakeTouches, q
<1> HIDE DEF counted, fakes
<1>6. Counted(NewTouches(q, counted)) /\ Waiting(NewTouches(q, counted), b)
  BY <1>2, <1>3, <1>4, NewTouchesCounted, NewTouchesWait DEF Counted
<1>7. Waiting(EndSequences(NewTouches(q, counted), fakes \ counted), b)
  BY <1>4, <1>6, EndSequencesWait
<1> QED
  BY <1>5, <1>7

LEMMA UnhoverComes ==
  ASSUME ModelOK, NEW r, Counted(r), NEW b, Coming(r, b)
  PROVE  Coming(Unhover(r), b)
<1> DEFINE Fine(p) == Counted(p) /\ Coming(p, b)
<1>1. \A p : Fine(p) => \A S \in SUBSET Index : Fine(MaybeEndTouches(p, S))
  BY MaybeEndTouchesCounted, MaybeEndTouchesWait DEF Counted
<1>2. \A p : Fine(p) => \A S \in SUBSET Hovering(p) : Fine(BeginTouches(p, S))
  BY BeginTouchesCounted, BeginTouchesCome DEF Counted
<1> HIDE DEF Fine
<1>3. \A p, n : Fine(p) => Fine(RaiseTo(p, n)) /\ Fine(LowerTo(p, n))
  <2> SUFFICES ASSUME NEW p, NEW n, Fine(p)
               PROVE  Fine(RaiseTo(p, n)) /\ Fine(LowerTo(p, n))
    OBVIOUS
  <2>1. \A k : First(Hovering(p), k) \subseteq Hovering(p)
    BY DEF First
  <2>2. \A k : Last(Down(p), k) \in SUBSET Index
    BY DownIsSubset DEF Last
  <2>3. Fine(RaiseTo(p, n))
    BY <1>2, <2>1 DEF RaiseTo
  <2>4. Fine(LowerTo(p, n))
    BY <1>1, <2>2 DEF LowerTo
  <2> QED
    BY <2>3, <2>4
<1>4. Fine(r)
  BY DEF Fine
<1>5. Fine(BeginTouches(r, Firm(r)))
  BY <1>2, <1>4, DownIsSubset
<1>6. Fine(UnhoverPressure(r))
  <2> DEFINE n == IF IsOverflow(r) THEN 0 ELSE FingerCount(r)
             light == IF n <= r.num_slots \/ r.num_slots = 1 THEN Light(r) ELSE {}
             q == MaybeEndTouches(BeginTouches(r, Firm(r)), light)
             raised == RaiseTo(q, n)
  <2>1. light \in SUBSET Index
    BY DownIsSubset
  <2>2. UnhoverPressure(r) \in {q, MaybeEndTouches(q, Down(q)), LowerTo(raised, n), raised}
    BY DEF UnhoverPressure
  <2>3. Fine(q)
    BY <1>1, <1>5, <2>1
  <2> HIDE DEF q, n
  <2>4. Fine(MaybeEndTouches(q, Down(q))) /\ Fine(raised)
    BY <1>1, <1>3, <2>3, DownIsSubset
  <2> HIDE DEF raised
  <2> QED
    BY <1>3, <2>2, <2>3, <2>4
<1>7. Fine(UnhoverSize(r))
  BY <1>1, <1>5, DownIsSubset DEF UnhoverSize
<1>8. Fine(UnhoverFake(r))
  <2> DEFINE n == FingerCount(r)
  <2>1. UnhoverFake(r) \in {r, MaybeEndTouches(r, Down(r)), RaiseTo(r, n), LowerTo(r, n)}
    BY DEF UnhoverFake
  <2> HIDE DEF n
  <2> QED
    BY <1>1, <1>3, <1>4, <2>1, DownIsSubset
<1>9. Unhover(r) \in {UnhoverPressure(r), UnhoverSize(r), UnhoverFake(r)}
  BY DEF Unhover
<1>10. Fine(Unhover(r))
  BY <1>6, <1>7, <1>8, <1>9
<1> QED
  BY <1>10 DEF Fine

\* The touches that the button machines look at in a frame.
LEMMA PreProcessComes ==
  ASSUME ModelOK, NEW r, Counted(r), NEW b, Waiting(r, b)
  PROVE  /\ Counted(PreProcess(r)) /\ KeepsOpen(r, PreProcess(r)) /\ Coming(PreProcess(r), b)
         /\ \A i \in Index : PreProcess(r).touch[i].state # "MAYBE_END"
<1> DEFINE f == FakeTouches(r)
           u == Unhover(f)
<1>1. Counted(f) /\ KeepsOpen(r, f) /\ Waiting(f, b)
  BY FakeTouchesCounted, FakeTouchesWait
<1> HIDE DEF f
<1>2. Coming(f, b)
  BY <1>1, MaybeEndTouchesWait DEF Counted
<1>3. Counted(u) /\ SamePad(f, u) /\ Coming(u, b)
  BY <1>1, <1>2, UnhoverCounted, UnhoverComes
<1>4. PreProcess(r) = EndTouches(u)
  BY DEF PreProcess, u, f
<1> HIDE DEF u
<1>5. /\ Counted(EndTouches(u)) /\ SamePad(u, EndTouches(u))
      /\ \A i \in Index : EndTouches(u).touch[i].state # "MAYBE_END"
  BY <1>3, EndTouchesCounted
<1>6. Coming(EndTouches(u), b)
  <2> DEFINE ended(t) == [t EXCEPT !.state = "END", !.dirty = TRUE]
             touch == [i \in Index |-> IF u.touch[i].state = "MAYBE_END" THEN ended(u.touch[i])
                                      ELSE u.touch[i]]
  <2>1. u \in Pad /\ \A i \in Index : u.touch[i] \in Touch
    BY <1>3, TouchBecomes DEF Counted
  <2>2. EndTouches(u).touch = touch
    BY <2>1 DEF EndTouches, Pad
  <2>3. \A t \in Touch : ended(t).state = "END" /\ ended(t).dirty
    BY DEF Touch
  <2> HIDE DEF ended
  <2>4. \A i \in Index : \/ touch[i] = u.touch[i]
                         \/ touch[i].state = "END" /\ touch[i].dirty
    BY <2>1, <2>3
  <2> HIDE DEF touch
  <2> QED
    BY <1>3, <2>2, <2>4 DEF Coming, ComesAs
<1> QED
  BY <1>1, <1>3, <1>4, <1>5, <1>6 DEF SamePad, KeepsOpen

-----------------------------------------------------------------------------
(* The frame of a touch.                                                   *)

\* The machines after a frame that p is about: a touch has one while it is down.
Follow(p, b) ==
  /\ b \in [Index -> Btn]
  /\ \A i \in Index : /\ Fitting(b[i])
                      /\ p.touch[i].state \in DownStates <=> b[i].state # "NONE"

LEMMA ButtonsHandledFollow ==
  ASSUME NEW p \in Pad, NEW at \in [Index -> AllSpots], NEW queued,
         \A i \in Index : Fitting(btn[i]), Coming(p, btn),
         \A i \in Index : p.touch[i].state # "MAYBE_END"
  PROVE  Follow(p, ButtonsHandled(p, at, queued))
<1> DEFINE up(i) == Handled(btn[i], "up")
           in(i) == Handled(btn[i], Zone(at[i]))
           was(i) == IF p.touch[i].state = "END" THEN up(i)
                     ELSE IF p.touch[i].dirty THEN in(i) ELSE btn[i]
           now(i) == IF p.touch[i].state \notin {"NONE", "HOVERING"} /\ "press" \in queued
                     THEN Handled(was(i), "press") ELSE was(i)
           after(i) == IF p.touch[i].state \in {"NONE", "HOVERING"} THEN btn[i] ELSE now(i)
           b == ButtonsHandled(p, at, queued)
<1>1. \A i \in Index : Zone(at[i]) \in Areas
  <2> TAKE i \in Index
  <2>1. at[i] \in AllSpots
    OBVIOUS
  <2> QED
    BY <2>1 DEF Zone, Areas, AllSpots, TopSpots, BottomSpots
<1>2. b = [i \in Index |-> after(i)]
  BY DEF ButtonsHandled
<1>3. \A i \in Index : /\ Fitting(btn[i])
                       /\ Fitting(up(i)) /\ up(i).state = "NONE"
                       /\ Fitting(in(i)) /\ in(i).state # "NONE"
  <2> TAKE i \in Index
  <2>1. Fitting(btn[i]) /\ Fitting(up(i)) /\ up(i).state = "NONE"
    BY UpFitting
  <2>2. Fitting(in(i)) /\ in(i).state # "NONE"
    BY <1>1, <2>1, HandledFitting
  <2> QED
    BY <2>1, <2>2
<1> HIDE DEF up, in
<1>4. \A i \in Index : /\ p.touch[i] \in Touch /\ p.touch[i].state # "MAYBE_END"
                       /\ ComesAs(p.touch[i], btn[i].state # "NONE")
  BY DEF Coming, Pad
<1>5. \A i \in Index : p.touch[i].state \notin {"NONE", "HOVERING"} =>
        Fitting(was(i)) /\ (was(i).state # "NONE" <=> p.touch[i].state # "END")
  BY <1>3, <1>4 DEF ComesAs, Touch, TouchStates
<1> HIDE DEF was
<1>6. \A i \in Index : p.touch[i].state \notin {"NONE", "HOVERING"} =>
        Fitting(now(i)) /\ (now(i).state # "NONE" <=> was(i).state # "NONE")
  <2> SUFFICES ASSUME NEW i \in Index, p.touch[i].state \notin {"NONE", "HOVERING"}
               PROVE  Fitting(now(i)) /\ (now(i).state # "NONE" <=> was(i).state # "NONE")
    OBVIOUS
  <2> DEFINE c == was(i)
  <2>1. Fitting(c)
    BY <1>5
  <2>2. now(i) = c \/ now(i) = Handled(c, "press")
    OBVIOUS
  <2> HIDE DEF c, now
  <2>3. Fitting(Handled(c, "press")) /\ (Handled(c, "press").state # "NONE" <=> c.state # "NONE")
    BY <2>1, HandledFitting
  <2> QED
    BY <2>1, <2>2, <2>3 DEF c
<1> HIDE DEF now
<1>7. \A i \in Index : /\ Fitting(after(i))
                       /\ p.touch[i].state \in DownStates <=> after(i).state # "NONE"
  BY <1>3, <1>4, <1>5, <1>6 DEF ComesAs, Touch, TouchStates, DownStates
<1> HIDE DEF after
<1>8. b \in [Index -> Btn] /\ \A i \in Index : b[i] = after(i)
  BY <1>2, <1>7 DEF Fitting
<1> HIDE DEF b
<1> QED
  BY <1>7, <1>8 DEF Follow, b

\* Fake touches move with the topmost touch.
LEMMA PositionedCome ==
  ASSUME ModelOK, NEW p, Counted(p), NEW top \in Index, NEW b, Coming(p, b),
         \A i \in Index : p.touch[i].state # "MAYBE_END"
  PROVE  LET q == PositionedTouches(p, top)
         IN  /\ Counted(q) /\ SamePad(p, q) /\ Coming(q, b)
             /\ \A i \in Index : q.touch[i].state = p.touch[i].state
<1> DEFINE moved(i) == [p.touch[i] EXCEPT !.dirty = p.touch[i].dirty \/ p.touch[top].dirty]
           touch == [i \in Index |-> IF i \in Fakes(p) THEN moved(i) ELSE p.touch[i]]
           q == [p EXCEPT !.touch = touch]
<1>1. PositionedTouches(p, top) = q
  <2>1. \A i \in Index : moved(i) = [p.touch[i] EXCEPT !.dirty = @ \/ p.touch[top].dirty]
    OBVIOUS
  <2> HIDE DEF moved
  <2> QED
    BY <2>1 DEF PositionedTouches
<1>2. p \in Pad /\ \A i \in Index : p.touch[i] \in Touch
  BY DEF Counted, Pad
<1>3. \A i \in Index : /\ moved(i) \in Touch /\ moved(i).state = p.touch[i].state
                       /\ p.touch[i].dirty => moved(i).dirty
  <2> TAKE i \in Index
  <2> DEFINE t == p.touch[i]
             dirty == t.dirty \/ p.touch[top].dirty
  <2>1. t \in Touch
    BY <1>2
  <2>2. dirty \in BOOLEAN /\ (t.dirty => dirty)
    OBVIOUS
  <2>3. moved(i) = [t EXCEPT !.dirty = dirty]
    OBVIOUS
  <2> HIDE DEF t, dirty, moved
  <2>4. [t EXCEPT !.dirty = dirty] \in Touch
    BY <2>1, <2>2, Zenon DEF Touch
  <2>5. [t EXCEPT !.dirty = dirty].state = t.state /\ [t EXCEPT !.dirty = dirty].dirty = dirty
    BY <2>1 DEF Touch
  <2> QED
    BY <2>2, <2>3, <2>4, <2>5 DEF t
<1> HIDE DEF moved
<1>4. /\ touch \in [Index -> Touch]
      /\ \A i \in Index : /\ touch[i].state = p.touch[i].state
                          /\ p.touch[i].dirty => touch[i].dirty
  BY <1>2, <1>3
<1> HIDE DEF touch
<1>5. Counted(q) /\ SamePad(p, q)
  BY <1>4, SameStatesCounted
<1>6. q.touch = touch
  BY <1>2 DEF Pad
<1> HIDE DEF q
<1>7. Coming(q, b)
  BY <1>4, <1>6 DEF Coming, ComesAs
<1> QED
  BY <1>1, <1>4, <1>5, <1>6, <1>7

\* Where the frame leaves the touches.
LEMMA HandledWaits ==
  ASSUME ModelOK, NEW r, Counted(r), NEW b, Waiting(r, b), NEW new, Follow(PreProcess(r), new)
  PROVE  Waiting(HandleState(r), new)
<1> DEFINE p == PreProcess(r)
<1>1. /\ p \in Pad /\ Coming(p, b) /\ \A i \in Index : p.touch[i].state # "MAYBE_END"
  BY PreProcessComes DEF Counted
<1>2. Follow(p, new) /\ HandleState(r) = PostProcess(p)
  BY DEF HandleState
<1> HIDE DEF p
<1> SUFFICES Waiting(PostProcess(p), new)
  BY <1>2
<1>3. \A i \in Index : LET t == p.touch[i]
                           now == PostProcess(p).touch[i]
                       IN  now.state = IF t.dirty THEN Settled(t) ELSE t.state
  <2> TAKE i \in Index
  <2> DEFINE t == p.touch[i]
             state == Settled(t)
             contact == IF Unused(i, state) THEN 0 ELSE t.contact
             after == [t EXCEPT !.state = state, !.dirty = FALSE, !.contact = contact]
  <2>1. t \in Touch
    BY <1>1 DEF Pad
  <2>2. PostProcess(p).touch[i] = IF ~t.dirty THEN t
          ELSE [t EXCEPT !.state = Settled(t), !.dirty = FALSE,
                         !.contact = IF Unused(i, Settled(t)) THEN 0 ELSE @]
    BY <1>1 DEF PostProcess, Pad
  <2>3. after = [t EXCEPT !.state = Settled(t), !.dirty = FALSE,
                         !.contact = IF Unused(i, Settled(t)) THEN 0 ELSE @]
    OBVIOUS
  <2>4. PostProcess(p).touch[i] = IF ~t.dirty THEN t ELSE after
    BY <2>2, <2>3, Zenon
  <2> HIDE DEF t, contact
  <2>5. after.state = state
    BY <2>1 DEF Touch
  <2> HIDE DEF after
  <2> QED
    BY <2>4, <2>5 DEF t
<1> SUFFICES ASSUME NEW i \in Index
             PROVE  WaitsAs(PostProcess(p).touch[i], new[i].state # "NONE")
  BY DEF Waiting
<1> DEFINE t == p.touch[i]
           now == PostProcess(p).touch[i]
<1>4. /\ t \in Touch /\ t.state # "MAYBE_END" /\ ComesAs(t, b[i].state # "NONE")
      /\ t.state \in DownStates <=> new[i].state # "NONE"
  BY <1>1, <1>2 DEF Coming, Follow, Pad
<1>5. now.state = IF t.dirty THEN Settled(t) ELSE t.state
  BY <1>3
<1> HIDE DEF t, now
<1>6. WaitsAs(now, new[i].state # "NONE")
  BY <1>4, <1>5 DEF WaitsAs, ComesAs, Settled, Touch, TouchStates, DownStates
<1> QED
  BY <1>6 DEF now

-----------------------------------------------------------------------------
(* What the client knows.                                                  *)

\* What the client holds down, of the touchpad and of the trackpoint.
Holds(k, pads, trackpoints) ==
  k \in Client /\ ~k.wrong /\ k.pad = pads /\ k.trackpoint = trackpoints

LEMMA ButtonPressed ==
  ASSUME NEW k, Holds(k, {}, {}), NEW b \in Buttons
  PROVE  Holds(Press(k, b), {b}, {}) /\ Holds(ViaTrackpoint(k, b, TRUE), {}, {b})
<1> DEFINE pads == k.pad \cup {b}
           trackpoints == k.trackpoint \cup {b}
           double == k.wrong \/ b \in k.pad
           press == [k EXCEPT !.pad = pads, !.wrong = double]
           via == [k EXCEPT !.trackpoint = trackpoints]
<1>1. /\ pads \in SUBSET Buttons /\ pads = {b} /\ trackpoints \in SUBSET Buttons
      /\ trackpoints = {b} /\ ~double
  BY DEF Holds, Client
<1>2. double \in BOOLEAN /\ k \in Client
  BY DEF Holds
<1>3. Press(k, b) = press /\ ViaTrackpoint(k, b, TRUE) = via
  BY DEF Press, ViaTrackpoint
<1> HIDE DEF pads, trackpoints, double
<1>4. press \in Client /\ via \in Client
  BY <1>1, <1>2, Zenon DEF Client
<1>5. press.pad = pads /\ press.trackpoint = k.trackpoint /\ press.wrong = double
  BY <1>2 DEF Client
<1>6. via.pad = k.pad /\ via.trackpoint = trackpoints /\ via.wrong = k.wrong
  BY <1>2 DEF Client
<1> HIDE DEF press, via
<1>7. Holds(press, {b}, {})
  BY <1>1, <1>4, <1>5 DEF Holds
<1>8. Holds(via, {}, {b})
  BY <1>1, <1>4, <1>6 DEF Holds
<1> QED
  BY <1>3, <1>7, <1>8

LEMMA ButtonReleased ==
  ASSUME NEW k, NEW b \in Buttons
  PROVE  /\ Holds(k, {b}, {}) => Holds(Release(k, b), {}, {})
         /\ Holds(k, {}, {b}) => Holds(ViaTrackpoint(k, b, FALSE), {}, {})
<1>1. ASSUME Holds(k, {b}, {}) PROVE Holds(Release(k, b), {}, {})
  <2> DEFINE pads == k.pad \ {b}
             missing == k.wrong \/ b \notin k.pad
             new == [k EXCEPT !.pad = pads, !.wrong = missing]
  <2>1. pads \in SUBSET Buttons /\ pads = {} /\ ~missing
    BY <1>1 DEF Holds, Client
  <2>2. missing \in BOOLEAN /\ k \in Client
    BY <1>1 DEF Holds
  <2>3. Release(k, b) = new
    BY DEF Release
  <2> HIDE DEF pads, missing
  <2>4. new \in Client
    BY <2>1, <2>2, Zenon DEF Client
  <2>5. new.pad = pads /\ new.trackpoint = k.trackpoint /\ new.wrong = missing
    BY <2>2 DEF Client
  <2> HIDE DEF new
  <2> QED
    BY <1>1, <2>1, <2>3, <2>4, <2>5 DEF Holds
<1>2. ASSUME Holds(k, {}, {b}) PROVE Holds(ViaTrackpoint(k, b, FALSE), {}, {})
  <2> DEFINE trackpoints == k.trackpoint \ {b}
             new == [k EXCEPT !.trackpoint = trackpoints]
  <2>1. trackpoints \in SUBSET Buttons /\ trackpoints = {} /\ k \in Client
    BY <1>2 DEF Holds, Client
  <2>2. ViaTrackpoint(k, b, FALSE) = new
    BY DEF ViaTrackpoint
  <2> HIDE DEF trackpoints
  <2>3. new \in Client
    BY <2>1, Zenon DEF Client
  <2>4. new.pad = k.pad /\ new.trackpoint = trackpoints /\ new.wrong = k.wrong
    BY <2>1 DEF Client
  <2> HIDE DEF new
  <2> QED
    BY <1>2, <2>1, <2>2, <2>3, <2>4 DEF Holds
<1> QED
  BY <1>1, <1>2

\* d is c with the click decided.
IsDecided(d, c, is_top, active) ==
  /\ d \in Clicks /\ ~d.pending /\ d.is_top = is_top /\ d.active = active
  /\ d.state = c.state /\ d.trackpoint = c.trackpoint

LEMMA DecidedIs ==
  ASSUME NEW c \in Clicks, NEW is_top \in BOOLEAN, NEW active \in Buttons \cup {None}
  PROVE  IsDecided(Decided(c, is_top, active), c, is_top, active)
<1>1. Decided(c, is_top, active) \in Clicks
  BY Zenon DEF Decided, Clicks
<1> QED
  BY <1>1 DEF Decided, Clicks, IsDecided

\* The click with another button, as tp_clickfinger_set_button leaves it.
WithButton(c, button) == [c EXCEPT !.active = button]

LEMMA WithButtonIs ==
  ASSUME NEW d, NEW c, NEW is_top, NEW old, IsDecided(d, c, is_top, old),
         NEW active \in Buttons \cup {None}
  PROVE  IsDecided(WithButton(d, active), c, is_top, active)
<1>1. d \in Clicks
  BY DEF IsDecided
<1>2. WithButton(d, active) \in Clicks
  BY <1>1, Zenon DEF WithButton, Clicks
<1> QED
  BY <1>1, <1>2 DEF WithButton, Clicks, IsDecided

\* The three ways a button may take: the trackpoint's, none, and its own.
ByTrackpoint(c, is_top) == c.trackpoint /\ is_top
Swallowed(c, is_top) == c.trackpoint /\ ~is_top /\ pad.suspended
ByItself(c, is_top) == ~ByTrackpoint(c, is_top) /\ ~Swallowed(c, is_top)

\* tp_notify_clickpadbutton for the press and the release of a click.
Pressed(c, k, button, is_top, fingers) ==
  Notify([c |-> c, k |-> k], button, is_top, TRUE, fingers)
Released(c, k, button, is_top) ==
  Notify([c |-> c, k |-> k], button, is_top, FALSE, None)
ButtonOf(c, button, fingers) == IF c.method = "clickfinger" THEN fingers ELSE button

IsPressed(r, c, k, button, is_top, b) ==
  /\ ByTrackpoint(c, is_top) => r.c = c /\ r.k = ViaTrackpoint(k, button, TRUE)
  /\ Swallowed(c, is_top) => r.c = c /\ r.k = k
  /\ ByItself(c, is_top) => /\ r.c = WithButton(c, b)
                            /\ r.k = IF b = None THEN k ELSE Press(k, b)
IsReleased(r, c, k, button, is_top) ==
  /\ r.c = c
  /\ ByTrackpoint(c, is_top) => r.k = ViaTrackpoint(k, button, FALSE)
  /\ Swallowed(c, is_top) => r.k = k
  /\ ByItself(c, is_top) => r.k = Release(k, button)

LEMMA PressedIs ==
  ASSUME NEW c \in Clicks, NEW k, NEW button \in Buttons, NEW is_top \in BOOLEAN,
         NEW fingers \in Buttons \cup {None}, c.active = button
  PROVE  IsPressed(Pressed(c, k, button, is_top, fingers), c, k, button, is_top,
                   ButtonOf(c, button, fingers))
<1> DEFINE start == [c |-> c, k |-> k]
           r == Notify(start, button, is_top, TRUE, fingers)
           counted == c.method = "clickfinger"
           b == IF counted THEN fingers ELSE button
           q == IF counted THEN [start EXCEPT !.c.active = fingers] ELSE start
<1>1. q.k = k /\ q.c = IF counted THEN [c EXCEPT !.active = fingers] ELSE c
  OBVIOUS
<1>2. q.c = WithButton(c, b)
  <2>1. CASE counted
    BY <1>1, <2>1 DEF WithButton
  <2>2. CASE ~counted
    <3>1. WithButton(c, button) = c
      BY DEF WithButton, Clicks
    <3> QED
      BY <1>1, <2>2, <3>1
  <2> QED
    BY <2>1, <2>2
<1>3. DOMAIN q = {"c", "k"} /\ DOMAIN start = {"c", "k"}
  OBVIOUS
<1>4. \A x : /\ [start EXCEPT !.k = x].c = c /\ [start EXCEPT !.k = x].k = x
             /\ [q EXCEPT !.k = x].c = q.c /\ [q EXCEPT !.k = x].k = x
  BY <1>3
<1>5. start.c = c /\ start.k = k
  OBVIOUS
<1>6. r = CASE ByTrackpoint(c, is_top) -> [start EXCEPT !.k = ViaTrackpoint(k, button, TRUE)]
            [] Swallowed(c, is_top) -> start
            [] OTHER -> IF b = None THEN q ELSE [q EXCEPT !.k = Press(k, b)]
  BY <1>5 DEF Notify, ByTrackpoint, Swallowed
<1>7. b = ButtonOf(c, button, fingers) /\ r = Pressed(c, k, button, is_top, fingers)
  BY DEF ButtonOf, Pressed
<1>8. ~(ByTrackpoint(c, is_top) /\ Swallowed(c, is_top))
  BY DEF ByTrackpoint, Swallowed
<1> HIDE DEF r, start, q, counted, b
<1>9. IsPressed(r, c, k, button, is_top, b)
  BY <1>1, <1>2, <1>4, <1>5, <1>6, <1>8 DEF IsPressed, ByItself
<1> QED
  BY <1>7, <1>9

LEMMA ReleasedIs ==
  ASSUME NEW c \in Clicks, NEW k, NEW button \in Buttons, NEW is_top \in BOOLEAN
  PROVE  IsReleased(Released(c, k, button, is_top), c, k, button, is_top)
<1> DEFINE start == [c |-> c, k |-> k]
           r == Released(c, k, button, is_top)
<1>1. DOMAIN start = {"c", "k"} /\ start.c = c /\ start.k = k
  OBVIOUS
<1>2. \A x : [start EXCEPT !.k = x].c = c /\ [start EXCEPT !.k = x].k = x
  BY <1>1
<1>3. button # None
  BY DEF Buttons, None
<1>4. r = CASE ByTrackpoint(c, is_top) -> [start EXCEPT !.k = ViaTrackpoint(k, button, FALSE)]
            [] Swallowed(c, is_top) -> start
            [] OTHER -> [start EXCEPT !.k = Release(k, button)]
  BY <1>1, <1>3 DEF Notify, Released, ByTrackpoint, Swallowed
<1>5. ~(ByTrackpoint(c, is_top) /\ Swallowed(c, is_top))
  BY DEF ByTrackpoint, Swallowed
<1> HIDE DEF r, start
<1>6. IsReleased(r, c, k, button, is_top)
  BY <1>1, <1>2, <1>4, <1>5 DEF IsReleased, ByItself
<1> QED
  BY <1>6 DEF r

\* What the client was told of a click: the button of the device whose it is,
\* or nothing, where the touchpad swallows it.
Told(c, k) ==
  /\ c.active = None => Holds(k, {}, {})
  /\ c.active # None /\ ByTrackpoint(c, c.is_top) => Holds(k, {}, {c.active})
  /\ c.active # None /\ Swallowed(c, c.is_top) => Holds(k, {}, {})
  /\ c.active # None /\ ByItself(c, c.is_top) => Holds(k, {c.active}, {})

\* A button is the one of the last click that was posted, and there is none
\* while a click waits or when it had no button to begin with.
Synced(c, k) ==
  /\ c \in Clicks /\ Told(c, k)
  /\ c.pending \/ ~c.old_state => c.active = None
  /\ c.pending => c.old_state
  /\ c.old_state /\ ~c.pending /\ c.active = None => model.topbuttons \/ ntouches > 3
  /\ c.trackpoint => model.topbuttons

\* Only four fingers or more have no button of their own.
LEMMA FingerButtonIs ==
  ASSUME ModelOK, NEW p, NEW near \in BOOLEAN
  PROVE  /\ FingerButton(p, near) \in Buttons \cup {None}
         /\ FingerButton(p, near) = None => ntouches > 3
<1> DEFINE n == Cardinality(Down(p))
<1>1. Down(p) \subseteq Index
  BY DEF Down, In
<1>2. ntouches \in Nat /\ IsFiniteSet(Index)
  BY SlotsAreTouches
<1>3. n \in Nat /\ n <= Cardinality(Index)
  BY <1>1, <1>2, FS_Subset, FS_CardinalityType
<1>4. Cardinality(Index) = ntouches
  <2>1. ntouches - 1 \in Int /\ 0 \in Int
    BY <1>2
  <2>2. Cardinality(0 .. (ntouches - 1)) =
          IF 0 > ntouches - 1 THEN 0 ELSE ntouches - 1 - 0 + 1
    BY <2>1, FS_Interval
  <2> QED
    BY <1>2, <2>2 DEF Index
<1>5. FingerButton(p, near) =
        CASE n <= 1 \/ (n = 2 /\ ~near) -> "left"
          [] n = 2 /\ near -> "right"
          [] n = 3 -> "middle"
          [] OTHER -> None
  BY DEF FingerButton
<1> HIDE DEF n
<1>6. FingerButton(p, near) = None => n > 3
  BY <1>3, <1>5 DEF None
<1>7. FingerButton(p, near) \in Buttons \cup {None}
  BY <1>5 DEF Buttons
<1> QED
  BY <1>2, <1>3, <1>4, <1>6, <1>7

LEMMA AreaButtonIs ==
  ASSUME NEW zones, NEW is_top
  PROVE  AreaButton(zones, is_top) \in Buttons
BY DEF AreaButton, Buttons

\* What tp_post_clickpadbutton_buttons leaves: as Synced will be once the frame
\* is over.
PostedAs(c, d, k) ==
  /\ d \in Clicks /\ Told(d, k)
  /\ d.state = c.state /\ d.trackpoint = c.trackpoint
  /\ d.pending \/ ~d.state => d.active = None
  /\ d.pending => d.state
  /\ d.state /\ ~d.pending /\ d.active = None => model.topbuttons \/ ntouches > 3

LEMMA DecidedPosted ==
  ASSUME NEW c, NEW d, NEW k, NEW is_top, NEW b, IsDecided(d, c, is_top, b), Told(d, k),
         c.state => b # None \/ ntouches > 3, ~c.state => b = None
  PROVE  PostedAs(c, d, k) /\ ~d.pending
BY DEF PostedAs, IsDecided

LEMMA PressPosted ==
  ASSUME NEW c, NEW k, Synced(c, k), c.state, c.active = None,
         NEW button \in Buttons, NEW is_top \in BOOLEAN, NEW fingers \in Buttons \cup {None},
         fingers = None => ntouches > 3,
         NEW r, r = Pressed(Decided(c, is_top, button), k, button, is_top, fingers)
  PROVE  PostedAs(c, r.c, r.k) /\ ~r.c.pending
<1> DEFINE d == Decided(c, is_top, button)
           b == ButtonOf(d, button, fingers)
           e == WithButton(d, b)
<1>1. c \in Clicks /\ Holds(k, {}, {})
  BY DEF Synced, Told
<1>2. IsDecided(d, c, is_top, button)
  BY <1>1, DecidedIs
<1> HIDE DEF d
<1>3. d \in Clicks /\ d.active = button /\ d.is_top = is_top
  BY <1>2 DEF IsDecided
<1>4. IsPressed(r, d, k, button, is_top, b)
  BY <1>3, PressedIs DEF d
<1>5. b \in Buttons \cup {None} /\ (b = None => ntouches > 3)
  BY DEF ButtonOf, None, Buttons
<1>6. button # None
  BY DEF None, Buttons
<1> HIDE DEF b
<1>7. IsDecided(e, c, is_top, b)
  BY <1>2, <1>5, WithButtonIs
<1> HIDE DEF e
<1>8. CASE ByTrackpoint(d, is_top)
  <2>1. r.c = d /\ Holds(r.k, {}, {button})
    BY <1>1, <1>4, <1>8, ButtonPressed DEF IsPressed
  <2>2. Told(d, r.k)
    BY <1>3, <1>6, <1>8, <2>1 DEF Told, ByTrackpoint, Swallowed, ByItself
  <2> QED
    BY <1>2, <1>6, <2>1, <2>2, DecidedPosted
<1>9. CASE Swallowed(d, is_top)
  <2>1. r.c = d /\ r.k = k
    BY <1>4, <1>9 DEF IsPressed
  <2>2. Told(d, r.k)
    BY <1>1, <1>3, <1>6, <1>9, <2>1 DEF Told, ByTrackpoint, Swallowed, ByItself
  <2> QED
    BY <1>2, <1>6, <2>1, <2>2, DecidedPosted
<1>10. CASE ByItself(d, is_top)
  <2>1. r.c = e /\ r.k = IF b = None THEN k ELSE Press(k, b)
    BY <1>4, <1>10 DEF IsPressed, e
  <2>2. e.is_top = is_top /\ e.active = b /\ ByItself(e, is_top)
    BY <1>2, <1>7, <1>10 DEF IsDecided, ByItself, ByTrackpoint, Swallowed
  <2>3. IF b = None THEN Holds(r.k, {}, {}) ELSE Holds(r.k, {b}, {})
    BY <1>1, <1>5, <2>1, ButtonPressed
  <2>4. Told(e, r.k)
    BY <2>2, <2>3 DEF Told, ByItself
  <2> QED
    BY <1>5, <1>7, <2>1, <2>4, DecidedPosted
<1> QED
  BY <1>8, <1>9, <1>10 DEF ByItself

LEMMA ReleasePosted ==
  ASSUME NEW c, NEW k, Synced(c, k), ~c.state, c.active # None,
         NEW r, r = Released(Decided(c, FALSE, None), k, c.active, c.is_top)
  PROVE  PostedAs(c, r.c, r.k) /\ ~r.c.pending
<1> DEFINE d == Decided(c, FALSE, None)
           button == c.active
           is_top == c.is_top
<1>1. c \in Clicks /\ Told(c, k) /\ button \in Buttons /\ is_top \in BOOLEAN
  BY DEF Synced, Clicks
<1>2. IsDecided(d, c, FALSE, None)
  BY <1>1, DecidedIs
<1> HIDE DEF d
<1>3. /\ ByTrackpoint(d, is_top) => Holds(k, {}, {button})
      /\ Swallowed(d, is_top) => Holds(k, {}, {})
      /\ ByItself(d, is_top) => Holds(k, {button}, {})
  BY <1>1, <1>2 DEF IsDecided, ByTrackpoint, Swallowed, ByItself, Told
<1>4. d \in Clicks
  BY <1>2 DEF IsDecided
<1> HIDE DEF button, is_top
<1>5. IsReleased(r, d, k, button, is_top)
  BY <1>1, <1>4, ReleasedIs DEF d, button, is_top
<1>6. r.c = d /\ Holds(r.k, {}, {})
  BY <1>1, <1>3, <1>5, ButtonReleased DEF IsReleased, ByItself
<1>7. Told(d, r.k)
  BY <1>2, <1>6 DEF Told, IsDecided
<1> QED
  BY <1>2, <1>6, <1>7, DecidedPosted

-----------------------------------------------------------------------------
(* The click that is posted.                                               *)

\* The areas that the touches say, and the two reasons for a click to wait.
ZonesOf(b) == {b[i].current : i \in Index} \ {None}
IsTop(b) == ZonesOf(b) \cap TopSpots # {}
Waits(c, p, b) ==
  \/ features.phantom /\ p.nactive = 0
  \/ ZonesOf(b) = {} /\ c.method # "clickfinger"

\* The three arms of tp_post_clickpadbutton_buttons.
Arms(r, c, k, p, b, button, fingers) ==
  /\ ~c.pending /\ c.state = c.old_state => r.c = c /\ r.k = k
  /\ (c.pending \/ c.state # c.old_state) /\ c.state =>
       IF Waits(c, p, b) THEN r.c = [c EXCEPT !.pending = TRUE] /\ r.k = k
       ELSE r = Pressed(Decided(c, IsTop(b), button), k, button, IsTop(b), fingers)
  /\ (c.pending \/ c.state # c.old_state) /\ ~c.state =>
       IF c.active = None THEN r.c = Decided(c, FALSE, None) /\ r.k = k
       ELSE r = Released(Decided(c, FALSE, None), k, c.active, c.is_top)

LEMMA PostIs ==
  ASSUME NEW c \in Clicks, NEW k, NEW p, NEW b, NEW near
  PROVE  Arms(Post([c |-> c, k |-> k], p, b, near), c, k, p, b,
              AreaButton(ZonesOf(b), IsTop(b)), FingerButton(p, near))
<1> DEFINE fingers == FingerButton(p, near)
           button == AreaButton(ZonesOf(b), IsTop(b))
           r == Post([c |-> c, k |-> k], p, b, near)
           start == [c |-> c, k |-> k]
           d == Decided(c, IsTop(b), button)
           e == Decided(c, FALSE, None)
           waiting == [start EXCEPT !.c.pending = TRUE]
<1>1. start.c = c /\ start.k = k
  OBVIOUS
<1>2. \A x : [start EXCEPT !.c = x] = [c |-> x, k |-> k]
  OBVIOUS
<1>3. waiting.c = [c EXCEPT !.pending = TRUE] /\ waiting.k = k
  OBVIOUS
<1>4. d.active = button
  BY DEF Decided, Clicks
<1>5. [start EXCEPT !.c = d].c = d
  <2> HIDE DEF d
  <2> QED
    OBVIOUS
<1>6. r = CASE ~c.pending /\ c.state = c.old_state -> start
            [] (c.pending \/ c.state # c.old_state) /\ c.state ->
                 IF Waits(c, p, b) THEN waiting
                 ELSE Notify([start EXCEPT !.c = d], button, IsTop(b), TRUE, fingers)
            [] OTHER -> IF c.active = None THEN [start EXCEPT !.c = e]
                        ELSE Notify([start EXCEPT !.c = e], c.active, c.is_top, FALSE, None)
  <2>1. r = LET pressed == [start EXCEPT !.c = d]
                released == [start EXCEPT !.c = e]
            IN  CASE ~start.c.pending /\ start.c.state = start.c.old_state -> start
                  [] (start.c.pending \/ start.c.state # start.c.old_state) /\ start.c.state ->
                       IF Waits(start.c, p, b) THEN waiting
                       ELSE Notify(pressed, pressed.c.active, IsTop(b), TRUE, fingers)
                  [] OTHER -> IF start.c.active = None THEN released
                              ELSE Notify(released, start.c.active, start.c.is_top, FALSE, None)
    BY <1>1, Zenon DEF Post, Waits, ZonesOf, IsTop
  <2> HIDE DEF start, waiting, d, e, fingers
  <2> QED
    BY <1>1, <1>4, <1>5, <2>1
<1> QED
  <2> HIDE DEF r, start, waiting, d, e, button, fingers
  <2>1. Pressed(d, k, button, IsTop(b), fingers) =
          Notify([start EXCEPT !.c = d], button, IsTop(b), TRUE, fingers)
    BY <1>2 DEF Pressed
  <2>2. Released(e, k, c.active, c.is_top) =
          Notify([start EXCEPT !.c = e], c.active, c.is_top, FALSE, None)
    BY <1>2 DEF Released
  <2>3. [start EXCEPT !.c = e].c = e /\ [start EXCEPT !.c = e].k = k
    BY <1>2
  <2> QED
    BY <1>1, <1>3, <1>6, <2>1, <2>2, <2>3 DEF Arms, r, d, e, button, fingers

LEMMA PostPosted ==
  ASSUME ModelOK, NEW c, NEW k, Synced(c, k), NEW p, NEW b, NEW near \in BOOLEAN,
         NEW r, r = Post([c |-> c, k |-> k], p, b, near)
  PROVE  PostedAs(c, r.c, r.k) /\ (r.c.pending => Waits(c, p, b))
<1> DEFINE is_top == IsTop(b)
           button == AreaButton(ZonesOf(b), is_top)
           fingers == FingerButton(p, near)
           d == Decided(c, FALSE, None)
           waiting == [c EXCEPT !.pending = TRUE]
<1>1. c \in Clicks /\ Told(c, k)
  BY DEF Synced
<1>2. /\ button \in Buttons /\ is_top \in BOOLEAN /\ fingers \in Buttons \cup {None}
      /\ fingers = None => ntouches > 3
  BY AreaButtonIs, FingerButtonIs DEF IsTop
<1>3. Arms(r, c, k, p, b, button, fingers)
  BY <1>1, PostIs
<1>4. /\ c.state \in BOOLEAN /\ c.old_state \in BOOLEAN /\ c.pending \in BOOLEAN
      /\ c.pending \/ ~c.old_state => c.active = None
      /\ c.pending => c.old_state
      /\ c.old_state /\ ~c.pending /\ c.active = None => model.topbuttons \/ ntouches > 3
  BY <1>1 DEF Synced, Clicks
<1> HIDE DEF is_top, button, fingers, waiting, d
<1>5. CASE ~c.pending /\ c.state = c.old_state
  <2>1. r.c = c /\ r.k = k
    BY <1>3, <1>5 DEF Arms
  <2> QED
    BY <1>1, <1>4, <1>5, <2>1 DEF PostedAs
<1>6. CASE (c.pending \/ c.state # c.old_state) /\ c.state
  <2>1. c.active = None /\ Holds(k, {}, {})
    BY <1>1, <1>4, <1>6 DEF Told
  <2>2. CASE Waits(c, p, b)
    <3>1. r.c = waiting /\ r.k = k
      BY <1>3, <1>6, <2>2 DEF Arms, waiting
    <3>2. waiting \in Clicks
      BY <1>1, Zenon DEF Clicks, waiting
    <3>3. /\ waiting.pending /\ waiting.state = c.state /\ waiting.active = c.active
          /\ waiting.trackpoint = c.trackpoint
      BY <1>1 DEF Clicks, waiting
    <3>4. Told(waiting, k)
      BY <2>1, <3>3 DEF Told
    <3> QED
      BY <1>6, <2>1, <2>2, <3>1, <3>2, <3>3, <3>4 DEF PostedAs
  <2>3. CASE ~Waits(c, p, b)
    <3>1. r = Pressed(Decided(c, is_top, button), k, button, is_top, fingers)
      BY <1>3, <1>6, <2>3 DEF Arms, is_top
    <3> QED
      BY <1>2, <1>6, <2>1, <3>1, PressPosted
  <2> QED
    BY <2>2, <2>3
<1>7. CASE (c.pending \/ c.state # c.old_state) /\ ~c.state
  <2>1. CASE c.active = None
    <3>1. r.c = d /\ r.k = k
      BY <1>3, <1>7, <2>1 DEF Arms, d
    <3>2. IsDecided(d, c, FALSE, None)
      BY <1>1, DecidedIs DEF d
    <3>3. Told(d, k)
      BY <1>1, <2>1, <3>2 DEF Told, IsDecided
    <3> QED
      BY <1>7, <3>1, <3>2, <3>3, DecidedPosted
  <2>2. CASE c.active # None
    <3>1. r = Released(d, k, c.active, c.is_top)
      BY <1>3, <1>7, <2>2 DEF Arms, d
    <3> QED
      BY <1>7, <2>2, <3>1, ReleasePosted DEF d
  <2> QED
    BY <2>1, <2>2
<1> QED
  BY <1>4, <1>5, <1>6, <1>7

\* What a frame leaves of the click and the client.
IsPosted(c, p, b, new, k) ==
  /\ Synced(new, k) /\ new.queued = {} /\ new.state = c.state
  /\ new.old_state = c.state /\ (new.pending => Waits(c, p, b))

LEMMA PostSynced ==
  ASSUME ModelOK, NEW c, NEW k, Synced(c, k), NEW p, NEW b, NEW near \in BOOLEAN,
         NEW r, r = Post([c |-> c, k |-> k], p, b, near),
         NEW new, new = ApplyEmulation([r.c EXCEPT !.old_state = r.c.state, !.queued = {}])
  PROVE  IsPosted(c, p, b, new, r.k)
<1> DEFINE d == r.c
           old_state == d.state
           e == [d EXCEPT !.old_state = old_state, !.queued = {}]
           middle == IF e.method = "areas" THEN ~e.want_emulation ELSE e.middle_area
           f == [e EXCEPT !.emulation = e.want_emulation, !.middle_area = middle]
<1>1. PostedAs(c, d, r.k) /\ (d.pending => Waits(c, p, b))
  BY PostPosted
<1>2. d \in Clicks /\ c.trackpoint \in BOOLEAN /\ (c.trackpoint => model.topbuttons)
  BY <1>1 DEF PostedAs, Synced, Clicks
<1> HIDE DEF d
<1>3. old_state \in BOOLEAN /\ {} \in SUBSET {"press", "release"}
  BY <1>2 DEF Clicks
<1> HIDE DEF old_state
<1>4. e \in Clicks
  BY <1>2, <1>3, Zenon DEF Clicks
<1>5. /\ e.state = d.state /\ e.old_state = old_state /\ e.pending = d.pending
      /\ e.active = d.active /\ e.is_top = d.is_top /\ e.trackpoint = d.trackpoint
      /\ e.queued = {}
  BY <1>2 DEF Clicks
<1> HIDE DEF e
<1>6. middle \in BOOLEAN /\ e.want_emulation \in BOOLEAN
  BY <1>4 DEF Clicks
<1>7. new = e \/ new = f
  BY <1>4 DEF ApplyEmulation, e, d, old_state, Clicks
<1> HIDE DEF middle
<1>8. f \in Clicks
  BY <1>4, <1>6, Zenon DEF Clicks
<1>9. /\ f.state = e.state /\ f.old_state = e.old_state /\ f.pending = e.pending
      /\ f.active = e.active /\ f.is_top = e.is_top /\ f.trackpoint = e.trackpoint
      /\ f.queued = e.queued
  BY <1>4 DEF Clicks
<1> HIDE DEF f
<1>10. /\ new \in Clicks /\ new.state = d.state /\ new.old_state = d.state
       /\ new.pending = d.pending /\ new.active = d.active /\ new.is_top = d.is_top
       /\ new.trackpoint = d.trackpoint /\ new.queued = {}
  BY <1>4, <1>5, <1>7, <1>8, <1>9 DEF old_state
<1>11. Told(new, r.k)
  BY <1>1, <1>10 DEF PostedAs, Told, ByTrackpoint, Swallowed, ByItself
<1> QED
  BY <1>1, <1>2, <1>10, <1>11 DEF PostedAs, Synced, IsPosted

-----------------------------------------------------------------------------
(* The whole of a frame.                                                   *)

\* Nothing says which button a click is.
Unsaid(b, nactive) ==
  \/ \A i \in Index : b[i].current = None
  \/ features.phantom /\ nactive = 0

\* What a frame leaves of the click c.
ClickHandled(c, nactive, b, new, k) ==
  /\ Synced(new, k) /\ new.queued = {} /\ new.state = c.state /\ new.old_state = c.state
  /\ new.pending => Unsaid(b, nactive)

LEMMA ButtonsHandledAre ==
  ASSUME ModelOK, NEW c, Synced(c, client), NEW p, Counted(p), NEW at \in [Index -> AllSpots],
         \A i \in Index : Fitting(btn[i]), Coming(p, btn),
         \A i \in Index : p.touch[i].state # "MAYBE_END", HandleButtons(c, p, at)
  PROVE  Follow(p, btn') /\ ClickHandled(c, p.nactive, btn', clicks', client')
<1> DEFINE b == ButtonsHandled(p, at, c.queued)
<1>1. Follow(p, b)
  BY ButtonsHandledFollow DEF Counted
<1>2. PICK near \in BOOLEAN :
        LET r == Post([c |-> c, k |-> client], p, b, near)
        IN  /\ btn' = b
            /\ client' = r.k
            /\ clicks' = ApplyEmulation([r.c EXCEPT !.old_state = r.c.state,
                                                    !.queued = {}])
  BY DEF HandleButtons
<1> HIDE DEF b
<1> DEFINE r == Post([c |-> c, k |-> client], p, b, near)
           new == ApplyEmulation([r.c EXCEPT !.old_state = r.c.state, !.queued = {}])
<1>3. btn' = b /\ client' = r.k /\ clicks' = new
  BY <1>2
<1>4. IsPosted(c, p, b, new, r.k)
  BY PostSynced
<1>5. Waits(c, p, b) => Unsaid(b, p.nactive)
  BY Zenon DEF Waits, Unsaid, ZonesOf
<1> HIDE DEF r, new
<1>6. ClickHandled(c, p.nactive, b, new, r.k)
  BY <1>4, <1>5 DEF IsPosted, ClickHandled
<1> QED
  BY <1>1, <1>3, <1>6

LEMMA SpotsTyped ==
  ASSUME NEW at \in [Index -> AllSpots], NEW p, NEW top \in Index
  PROVE  /\ SpotsAfter(p, at) \in [Index -> AllSpots]
         /\ PositionedSpots(p, at, top) \in [Index -> AllSpots]
BY DEF SpotsAfter, PositionedSpots, AllSpots

\* The whole of tp_handle_state, with what the buttons do in it.
LEMMA ClicksHandledAre ==
  ASSUME ModelOK, NEW r, Counted(r), Waiting(r, btn), spot \in [Index -> AllSpots],
         \A i \in Index : Fitting(btn[i]), NEW c, Synced(c, client), HandleClicks(c, r)
  PROVE  /\ spot' \in [Index -> AllSpots]
         /\ btn' \in [Index -> Btn] /\ \A i \in Index : Fitting(btn'[i])
         /\ Waiting(HandleState(r), btn')
         /\ ClickHandled(c, r.nactive, btn', clicks', client')
<1> DEFINE p == PreProcess(r)
<1>1. /\ Counted(p) /\ KeepsOpen(r, p) /\ Coming(p, btn)
      /\ \A i \in Index : p.touch[i].state # "MAYBE_END"
  BY PreProcessComes
<1>2. \/ HandleButtons(c, p, spot) /\ spot' = SpotsAfter(PostProcess(p), spot)
      \/ \E top \in Topmost(p, spot) :
           /\ HandleButtons(c, PositionedTouches(p, top), PositionedSpots(p, spot, top))
           /\ spot' = SpotsAfter(PostProcess(PositionedTouches(p, top)),
                                 PositionedSpots(p, spot, top))
  BY DEF HandleClicks
<1> HIDE DEF p
<1>3. /\ spot' \in [Index -> AllSpots] /\ Follow(p, btn')
      /\ ClickHandled(c, p.nactive, btn', clicks', client')
  <2>1. CASE HandleButtons(c, p, spot) /\ spot' = SpotsAfter(PostProcess(p), spot)
    <3>1. SpotsAfter(PostProcess(p), spot) \in [Index -> AllSpots]
      BY DEF SpotsAfter, AllSpots
    <3>2. Follow(p, btn') /\ ClickHandled(c, p.nactive, btn', clicks', client')
      BY <1>1, <2>1, ButtonsHandledAre
    <3> QED
      BY <2>1, <3>1, <3>2
  <2>2. ASSUME NEW top \in Topmost(p, spot),
               HandleButtons(c, PositionedTouches(p, top), PositionedSpots(p, spot, top)),
               spot' = SpotsAfter(PostProcess(PositionedTouches(p, top)),
                                  PositionedSpots(p, spot, top))
        PROVE  /\ spot' \in [Index -> AllSpots] /\ Follow(p, btn')
               /\ ClickHandled(c, p.nactive, btn', clicks', client')
    <3> DEFINE q == PositionedTouches(p, top)
               at == PositionedSpots(p, spot, top)
    <3>1. top \in Index
      BY DEF Topmost, RealTouches
    <3>2. /\ Counted(q) /\ SamePad(p, q) /\ Coming(q, btn)
          /\ \A i \in Index : q.touch[i].state = p.touch[i].state
      BY <1>1, <3>1, PositionedCome
    <3>3. at \in [Index -> AllSpots]
      BY <3>1, SpotsTyped
    <3>4. HandleButtons(c, q, at) /\ spot' = SpotsAfter(PostProcess(q), at)
      BY <2>2
    <3> HIDE DEF q, at
    <3>5. spot' \in [Index -> AllSpots]
      BY <3>1, <3>3, <3>4, SpotsTyped
    <3>6. Follow(q, btn') /\ ClickHandled(c, q.nactive, btn', clicks', client')
      BY <1>1, <3>2, <3>3, <3>4, ButtonsHandledAre
    <3>7. Follow(p, btn')
      BY <3>2, <3>6 DEF Follow
    <3>8. q.nactive = p.nactive
      BY <3>2 DEF SamePad
    <3> QED
      BY <3>5, <3>6, <3>7, <3>8
  <2> QED
    BY <1>2, <2>1, <2>2
<1>4. Waiting(HandleState(r), btn')
  BY <1>3, HandledWaits DEF p
<1>5. p.nactive = r.nactive
  BY <1>1 DEF KeepsOpen
<1> QED
  BY <1>3, <1>4, <1>5 DEF Follow

-----------------------------------------------------------------------------
(* The invariant.                                                          *)

\* The machines wait for the next frame, the client knows of the last click,
\* and a closed touchpad has none.
ClicksInv ==
  /\ Inv
  /\ spot \in [Index -> AllSpots]
  /\ btn \in [Index -> Btn] /\ \A i \in Index : Fitting(btn[i])
  /\ Waiting(pad, btn)
  /\ Synced(clicks, client)
  /\ clicks.queued = {} => clicks.state = clicks.old_state
  /\ ~pad.open => ~clicks.state /\ clicks.queued = {}
  /\ pad.suspended /\ ~model.topbuttons => ~pad.open
  /\ Calm /\ clicks.pending => Unsaid(btn, pad.nactive)

LEMMA PrimedClicksInv ==
  ASSUME Inv', UNCHANGED model, spot' \in [Index -> AllSpots],
         btn' \in [Index -> Btn], \A i \in Index : Fitting(btn'[i]),
         Waiting(pad', btn'),
         Synced(clicks', client'), pad'.suspended = pad.suspended \/ clicks'.active = None,
         clicks'.queued = {} => clicks'.state = clicks'.old_state,
         ~pad'.open => ~clicks'.state /\ clicks'.queued = {},
         pad'.suspended /\ ~model.topbuttons => ~pad'.open,
         Calm' /\ clicks'.pending => Unsaid(btn', pad'.nactive)
  PROVE  ClicksInv'
<1>1. Index' = Index /\ features' = features /\ ntouches' = ntouches
  BY DEF Index, ntouches, features
<1>2. Waiting(pad', btn') => (Waiting(pad, btn))'
  BY <1>1, Zenon DEF Waiting
<1>3. Unsaid(btn', pad'.nactive) => (Unsaid(btn, pad.nactive))'
  BY <1>1, Zenon DEF Unsaid
<1>4. (Told(clicks, client))'
  <2>1. CASE clicks'.active = None
    BY <2>1 DEF Synced, Told
  <2>2. CASE pad'.suspended = pad.suspended
    BY <2>2 DEF Synced, Told, ByTrackpoint, Swallowed, ByItself
  <2> QED
    BY <2>1, <2>2
<1>5. (Synced(clicks, client))'
  BY <1>1, <1>4, Zenon DEF Synced
<1> QED
  BY <1>1, <1>2, <1>3, <1>5 DEF ClicksInv

-----------------------------------------------------------------------------
(* The events of a frame.                                                  *)

\* An event in the middle of a frame.
InMidFrame(b) ==
  /\ UNCHANGED model /\ Waiting(pad', b) /\ ~Between'
  /\ pad'.open = pad.open /\ pad'.suspended = pad.suspended

LEMMA AxesWait ==
  ASSUME ModelOK, NEW q, Counted(q), NEW b, Waiting(q, b), NEW s \in Index,
         NEW contact \in 0..2,
         NEW new, new = [q EXCEPT !.touch[s].dirty = TRUE, !.touch[s].contact = contact]
  PROVE  Waiting(new, b) /\ SamePad(q, new)
<1>1. Counted(new) /\ SamePad(q, new)
  BY AxesCounted, Zenon
<1>2. q \in Pad /\ q.touch \in [Index -> Touch]
  BY DEF Counted, Pad
<1>3. ASSUME NEW i \in Index PROVE new.touch[i].state = q.touch[i].state
  <2> DEFINE t == q.touch[i]
             touch == [q.touch EXCEPT ![s].dirty = TRUE, ![s].contact = contact]
  <2>1. new.touch = touch
    BY <1>2 DEF Pad
  <2>2. touch[i] = t \/ touch[i] = [t EXCEPT !.dirty = TRUE, !.contact = contact]
    BY <1>2 DEF Touch
  <2>3. t \in Touch
    BY <1>2
  <2> HIDE DEF touch
  <2> HIDE DEF t
  <2>4. [t EXCEPT !.dirty = TRUE, !.contact = contact].state = t.state
    BY <2>3 DEF Touch
  <2> QED
    BY <2>1, <2>2, <2>4 DEF t
<1> QED
  BY <1>1, <1>2, <1>3, SameStatesWait

\* nactive_slots says nothing of the touches.
LEMMA NActiveWaits ==
  ASSUME NEW r, Counted(r), NEW b, Waiting(r, b), NEW k \in Nat,
         NEW new, new = [r EXCEPT !.nactive = k]
  PROVE  /\ Counted(new) /\ Waiting(new, b)
         /\ new.open = r.open /\ new.suspended = r.suspended
<1>1. Counted(new)
  BY NActiveSet
<1>2. r \in Pad
  BY DEF Counted
<1>3. new.touch = r.touch /\ new.open = r.open /\ new.suspended = r.suspended
  BY <1>2 DEF Pad
<1> QED
  BY <1>1, <1>2, <1>3, SameStatesWait

LEMMA SlotBeginsWaits ==
  ASSUME Inv, NEW b, Waiting(pad, b), NEW s \in Slots, NEW contact \in ContactValues,
         SlotBegins(s, contact)
  PROVE  InMidFrame(b)
<1>1. UNCHANGED model /\ s \in Index /\ {s} \in SUBSET Index /\ contact \in 0..2 /\ ModelOK
  BY SlotsAreTouches DEF SlotBegins, Inv, ContactValues
<1>2. ~Between'
  <2>1. kernel' = [Changed(s) EXCEPT !.tracked = kernel.tracked \cup {s}]
    BY DEF SlotBegins, Changed, Inv, Kernel
  <2>2. kernel.tracked \cup {s} \in SUBSET Slots
    BY DEF Inv, Kernel
  <2> QED
    BY <2>1, <2>2, ChangedTyped DEF Inv, Between
<1>3. CASE ~pad.open
  BY <1>1, <1>2, <1>3 DEF SlotBegins, InMidFrame
<1>4. CASE pad.open
  <2> DEFINE r == [pad EXCEPT !.nactive = pad.nactive + 1]
             q == NewTouches(r, {s})
  <2>1. pad' = [q EXCEPT !.touch[s].dirty = TRUE, !.touch[s].contact = contact]
    BY <1>4 DEF SlotBegins
  <2>2. pad.nactive + 1 \in Nat
    BY DEF Inv, Counted, Pad
  <2>3. Counted(r) /\ Waiting(r, b) /\ r.open = pad.open /\ r.suspended = pad.suspended
    BY <2>2, NActiveWaits DEF Inv
  <2> HIDE DEF r
  <2>4. Counted(q) /\ SamePad(r, q)
    BY <1>1, <2>3, NewTouchesCounted
  <2>5. Waiting(q, b)
    BY <2>3, NewTouchesWait DEF Counted
  <2> HIDE DEF q
  <2>6. Waiting(pad', b) /\ SamePad(q, pad')
    BY <1>1, <2>1, <2>4, <2>5, AxesWait
  <2> QED
    BY <1>1, <1>2, <2>3, <2>4, <2>6 DEF InMidFrame, SamePad
<1> QED
  BY <1>3, <1>4

LEMMA SlotEndsWaits ==
  ASSUME Inv, NEW b, Waiting(pad, b), NEW s \in Slots, SlotEnds(s)
  PROVE  InMidFrame(b)
<1>1. UNCHANGED model /\ s \in Index /\ {s} \in SUBSET Index /\ ModelOK
  BY SlotsAreTouches DEF SlotEnds, Inv
<1>2. ~Between'
  <2>1. kernel' = [Changed(s) EXCEPT !.tracked = kernel.tracked \ {s}]
    BY DEF SlotEnds, Changed, Inv, Kernel
  <2>2. kernel.tracked \ {s} \in SUBSET Slots
    BY DEF Inv, Kernel
  <2> QED
    BY <2>1, <2>2, ChangedTyped DEF Inv, Between
<1>3. CASE ~pad.open \/ pad.nactive = 0
  BY <1>1, <1>2, <1>3 DEF SlotEnds, InMidFrame
<1>4. CASE pad.open /\ pad.nactive # 0
  <2> DEFINE r == [pad EXCEPT !.nactive = pad.nactive - 1]
  <2>1. pad' = EndSequences(r, {s})
    BY <1>4 DEF SlotEnds
  <2>2. pad.nactive - 1 \in Nat
    BY <1>4 DEF Inv, Counted, Pad
  <2>3. Counted(r) /\ Waiting(r, b) /\ r.open = pad.open /\ r.suspended = pad.suspended
    BY <2>2, NActiveWaits DEF Inv
  <2> HIDE DEF r
  <2>4. Counted(pad') /\ SamePad(r, pad')
    BY <1>1, <2>1, <2>3, EndSequencesCounted
  <2>5. Waiting(pad', b)
    BY <1>1, <2>1, <2>3, EndSequencesWait
  <2> QED
    BY <1>1, <1>2, <2>3, <2>4, <2>5 DEF InMidFrame, SamePad
<1> QED
  BY <1>3, <1>4

LEMMA MovesWait ==
  ASSUME Inv, NEW b, Waiting(pad, b), NEW s \in Slots, NEW contact \in ContactValues,
         Moves(s, contact)
  PROVE  InMidFrame(b)
<1>1. UNCHANGED model /\ s \in Index /\ contact \in 0..2 /\ ModelOK /\ Counted(pad)
  BY SlotsAreTouches DEF Moves, Inv, ContactValues
<1>2. ~Between'
  BY ChangedTyped DEF Inv, Between, Moves, Kernel
<1>3. CASE ~pad.open
  BY <1>1, <1>2, <1>3 DEF Moves, InMidFrame
<1>4. CASE pad.open
  <2>1. pad' = [pad EXCEPT !.touch[s].dirty = TRUE, !.touch[s].contact = contact]
    BY <1>4 DEF Moves
  <2>2. Waiting(pad', b) /\ SamePad(pad, pad')
    BY <1>1, <2>1, AxesWait
  <2> QED
    BY <1>1, <1>2, <2>2 DEF InMidFrame, SamePad
<1> QED
  BY <1>3, <1>4

LEMMA KeysWait ==
  ASSUME Inv, NEW b, Waiting(pad, b), NEW keys \in KeySets, Keys(keys)
  PROVE  InMidFrame(b)
<1>1. UNCHANGED model /\ pad \in Pad
  BY DEF Keys, Inv, Counted
<1>2. ~Between'
  <2>1. kernel'.keyed
    BY DEF Keys, Inv, Kernel
  <2> QED
    BY <2>1 DEF Between
<1>3. CASE ~pad.open
  BY <1>1, <1>2, <1>3 DEF Keys, InMidFrame
<1>4. CASE pad.open
  <2>1. PICK fake : pad' = [pad EXCEPT !.fake = fake]
    BY <1>4 DEF Keys, FakeFingers
  <2>2. pad'.touch = pad.touch /\ pad'.open = pad.open /\ pad'.suspended = pad.suspended
    BY <1>1, <2>1 DEF Pad
  <2>3. Waiting(pad', b)
    BY <1>1, <2>2, SameStatesWait
  <2> QED
    BY <1>1, <1>2, <2>2, <2>3 DEF InMidFrame
<1> QED
  BY <1>3, <1>4

-----------------------------------------------------------------------------
(* The steps of the clicks.                                                *)

\* The clicks change nothing of how the touches go on.
LEMMA TouchesGoOn == [Next]_vars => [TouchesNext]_touchVars
<1> SUFFICES ASSUME [Next]_vars PROVE [TouchesNext]_touchVars
  OBVIOUS
<1>1. ASSUME NEW s \in Slots, NEW contact \in ContactValues, NEW at \in features.spots,
             TouchBegins(s, contact, at) \/ TouchMoves(s, contact, at)
      PROVE  TouchesNext
  BY <1>1 DEF TouchBegins, TouchMoves, TouchesNext
<1>2. ASSUME NEW s \in Slots, TouchEnds(s) PROVE TouchesNext
  BY <1>2 DEF TouchEnds, TouchesNext
<1>3. ASSUME NEW keys \in KeySets, FingersChange(keys) PROVE TouchesNext
  BY <1>3 DEF FingersChange, TouchesNext
<1>4. CASE Click \/ SetEmulation \/ AddTrackpoint \/ RemoveTrackpoint
  BY <1>4 DEF Click, SetEmulation, AddTrackpoint, RemoveTrackpoint
<1>5. CASE ReportClicks \/ SuspendClicks \/ ResumeClicks
  BY <1>5 DEF ReportClicks, SuspendClicks, ResumeClicks, TouchesNext
<1>6. ASSUME NEW i \in Index, ButtonTimeout(i) PROVE UNCHANGED touchVars
  BY <1>6 DEF ButtonTimeout
<1>7. ASSUME NEW m \in features.methods, SetClickMethod(m) PROVE UNCHANGED touchVars
  BY <1>7 DEF SetClickMethod
<1>8. CASE UNCHANGED vars
  BY <1>8 DEF vars
<1> QED
  BY <1>1, <1>2, <1>3, <1>4, <1>5, <1>6, <1>7, <1>8 DEF Next

\* The events of a frame come between the clicks.
LEMMA MidFrameInv ==
  ASSUME ClicksInv, Inv', InMidFrame(btn), UNCHANGED <<btn, clicks, client>>,
         spot' \in [Index -> AllSpots]
  PROVE  ClicksInv'
<1>1. ~Calm'
  BY DEF InMidFrame, Calm
<1>2. /\ UNCHANGED <<model, btn, clicks, client>> /\ Waiting(pad', btn)
      /\ pad'.open = pad.open /\ pad'.suspended = pad.suspended
  BY DEF InMidFrame
<1> QED
  BY <1>1, <1>2, PrimedClicksInv DEF ClicksInv

LEMMA Places ==
  ASSUME ModelOK, spot \in [Index -> AllSpots], NEW at \in features.spots, NEW s, NEW b,
         Placed(s, at) \/ Placed(s, IF b THEN "main" ELSE at)
  PROVE  spot' \in [Index -> AllSpots]
<1>1. at \in AllSpots /\ "main" \in AllSpots
  BY ClicksAssumption DEF ModelOK, features, AllFeatures, AllSpots
<1> QED
  BY <1>1 DEF Placed

LEMMA TouchInv ==
  ASSUME ClicksInv, Inv',
         NEW s \in Slots, NEW contact \in ContactValues, NEW at \in features.spots,
         TouchBegins(s, contact, at) \/ TouchMoves(s, contact, at) \/ TouchEnds(s)
  PROVE  ClicksInv'
<1>1. Inv /\ ModelOK /\ Waiting(pad, btn) /\ spot \in [Index -> AllSpots]
  BY DEF ClicksInv, Inv
<1>2. CASE TouchBegins(s, contact, at)
  <2>1. InMidFrame(btn)
    BY <1>1, <1>2, SlotBeginsWaits DEF TouchBegins
  <2>2. spot' \in [Index -> AllSpots]
    BY <1>1, <1>2, Places DEF TouchBegins
  <2> QED
    BY <1>2, <2>1, <2>2, MidFrameInv DEF TouchBegins
<1>3. CASE TouchMoves(s, contact, at)
  <2>1. InMidFrame(btn)
    BY <1>1, <1>3, MovesWait DEF TouchMoves
  <2>2. spot' \in [Index -> AllSpots]
    BY <1>1, <1>3, Places DEF TouchMoves
  <2> QED
    BY <1>3, <2>1, <2>2, MidFrameInv DEF TouchMoves
<1>4. CASE TouchEnds(s)
  <2>1. InMidFrame(btn)
    BY <1>1, <1>4, SlotEndsWaits DEF TouchEnds
  <2> QED
    BY <1>1, <1>4, <2>1, MidFrameInv DEF TouchEnds
<1> QED
  BY <1>2, <1>3, <1>4

LEMMA FingersInv ==
  ASSUME ClicksInv, Inv', NEW keys \in KeySets, FingersChange(keys)
  PROVE  ClicksInv'
<1>1. InMidFrame(btn)
  BY KeysWait DEF FingersChange, ClicksInv
<1> QED
  BY <1>1, MidFrameInv DEF FingersChange, ClicksInv

\* A step of the click or the client alone.
LEMMA AloneInv ==
  ASSUME ClicksInv, Inv', UNCHANGED <<touchVars, spot, btn>>, Synced(clicks', client'),
         clicks'.queued = {} => clicks'.state = clicks'.old_state,
         ~pad.open => ~clicks'.state /\ clicks'.queued = {},
         Calm' /\ clicks'.pending => Unsaid(btn, pad.nactive)
  PROVE  ClicksInv'
<1>1. UNCHANGED <<model, kernel, pad, spot, btn>>
  BY DEF touchVars
<1> QED
  BY <1>1, PrimedClicksInv DEF ClicksInv

LEMMA ClickInv ==
  ASSUME ClicksInv, Inv', Click
  PROVE  ClicksInv'
<1> DEFINE down == ~clicks.clicked
           edge == {IF down THEN "press" ELSE "release"}
           shut == [clicks EXCEPT !.clicked = down]
           open == [clicks EXCEPT !.clicked = down, !.state = down, !.queued = edge]
<1>1. clicks \in Clicks /\ Synced(clicks, client)
  BY DEF ClicksInv, Synced
<1>2. down \in BOOLEAN /\ edge \in SUBSET {"press", "release"} /\ edge # {}
  OBVIOUS
<1>3. clicks' = (IF ~pad.open THEN shut ELSE open) /\ UNCHANGED <<touchVars, spot, btn, client>>
  BY DEF Click
<1> HIDE DEF down, edge
<1>4. shut \in Clicks /\ open \in Clicks
  BY <1>1, <1>2, Zenon DEF Clicks
<1>5. /\ shut.state = clicks.state /\ shut.old_state = clicks.old_state
      /\ shut.pending = clicks.pending /\ shut.active = clicks.active
      /\ shut.is_top = clicks.is_top /\ shut.trackpoint = clicks.trackpoint
      /\ shut.queued = clicks.queued
  BY <1>1 DEF Clicks
<1>6. /\ open.old_state = clicks.old_state
      /\ open.pending = clicks.pending /\ open.active = clicks.active
      /\ open.is_top = clicks.is_top /\ open.trackpoint = clicks.trackpoint
      /\ open.queued = edge
  BY <1>1 DEF Clicks
<1> HIDE DEF shut, open
<1>7. CASE ~pad.open
  <2>1. Synced(shut, client)
    BY <1>1, <1>4, <1>5 DEF Synced, Told, ByTrackpoint, Swallowed, ByItself
  <2>2. Calm' => Calm
    BY <1>3, <1>5, <1>7 DEF Calm, Between, touchVars
  <2> QED
    BY <1>3, <1>5, <1>7, <2>1, <2>2, AloneInv DEF ClicksInv
<1>8. CASE pad.open
  <2>1. Synced(open, client)
    BY <1>1, <1>4, <1>6 DEF Synced, Told, ByTrackpoint, Swallowed, ByItself
  <2>2. ~Calm'
    BY <1>2, <1>3, <1>6, <1>8 DEF Calm
  <2> QED
    BY <1>2, <1>3, <1>6, <1>8, <2>1, <2>2, AloneInv
<1> QED
  BY <1>7, <1>8

\* What the settings leave alone.
SameClick(c, new) ==
  /\ new \in Clicks /\ new.state = c.state /\ new.old_state = c.old_state
  /\ new.pending = c.pending /\ new.active = c.active /\ new.is_top = c.is_top
  /\ new.trackpoint = c.trackpoint /\ new.queued = c.queued

LEMMA SettingInv ==
  ASSUME ClicksInv, Inv', UNCHANGED <<touchVars, spot, btn, client>>, SameClick(clicks, clicks')
  PROVE  ClicksInv'
<1>1. Synced(clicks', client')
  BY DEF ClicksInv, SameClick, Synced, Told, ByTrackpoint, Swallowed, ByItself
<1>2. Calm' => Calm
  BY DEF Calm, Between, touchVars, SameClick
<1> QED
  BY <1>1, <1>2, AloneInv DEF ClicksInv, SameClick

LEMMA MethodInv ==
  ASSUME ClicksInv, Inv', NEW m \in features.methods, SetClickMethod(m)
  PROVE  ClicksInv'
<1> DEFINE middle == IF m = "areas" THEN ~clicks.want_emulation ELSE clicks.middle_area
           new == [clicks EXCEPT !.method = m, !.middle_area = middle]
<1>1. clicks \in Clicks /\ m \in Methods
  BY ClicksAssumption DEF ClicksInv, Synced, Inv, ModelOK, features, AllFeatures
<1>2. middle \in BOOLEAN
  BY <1>1 DEF Clicks
<1>3. clicks' = new
  BY DEF SetClickMethod
<1> HIDE DEF middle
<1>4. new \in Clicks
  BY <1>1, <1>2, Zenon DEF Clicks
<1>5. SameClick(clicks, new)
  BY <1>1, <1>4 DEF SameClick, Clicks
<1> QED
  BY <1>3, <1>5, SettingInv DEF SetClickMethod

LEMMA EmulationInv ==
  ASSUME ClicksInv, Inv', SetEmulation
  PROVE  ClicksInv'
<1> DEFINE want == ~clicks.want_emulation
           d == [clicks EXCEPT !.want_emulation = want]
           middle == IF d.method = "areas" THEN ~d.want_emulation ELSE d.middle_area
           e == [d EXCEPT !.emulation = d.want_emulation, !.middle_area = middle]
<1>1. clicks \in Clicks /\ want \in BOOLEAN
  BY DEF ClicksInv, Synced
<1>2. clicks' = d \/ clicks' = e
  BY DEF SetEmulation, ApplyEmulation
<1> HIDE DEF want
<1>3. d \in Clicks
  BY <1>1, Zenon DEF Clicks
<1>4. SameClick(clicks, d)
  BY <1>1, <1>3 DEF SameClick, Clicks
<1> HIDE DEF d
<1>5. middle \in BOOLEAN /\ d.want_emulation \in BOOLEAN
  BY <1>3 DEF Clicks
<1> HIDE DEF middle
<1>6. e \in Clicks
  BY <1>3, <1>5, Zenon DEF Clicks
<1>7. SameClick(d, e)
  BY <1>3, <1>6 DEF SameClick, Clicks
<1>8. SameClick(clicks, clicks')
  BY <1>2, <1>4, <1>7 DEF SameClick
<1> QED
  BY <1>8, SettingInv DEF SetEmulation

LEMMA AddInv ==
  ASSUME ClicksInv, Inv', Rare = {}, model.topbuttons, AddTrackpoint
  PROVE  ClicksInv'
<1> DEFINE new == [clicks EXCEPT !.trackpoint = TRUE, !.is_top = FALSE]
<1>1. clicks \in Clicks /\ Synced(clicks, client)
  BY DEF ClicksInv, Synced
<1>2. /\ clicks' = new /\ ~clicks.trackpoint /\ ~(pad.suspended /\ clicks.active # None)
      /\ Calm /\ UNCHANGED <<touchVars, spot, btn, client>>
  BY DEF AddTrackpoint
<1>3. new \in Clicks
  BY <1>1, Zenon DEF Clicks
<1>4. /\ new.state = clicks.state /\ new.old_state = clicks.old_state
      /\ new.pending = clicks.pending /\ new.active = clicks.active
      /\ ~new.is_top /\ new.trackpoint /\ new.queued = clicks.queued
  BY <1>1 DEF Clicks
<1> HIDE DEF new
<1>5. Told(new, client)
  <2>1. clicks.active = None => Holds(client, {}, {})
    BY <1>1 DEF Synced, Told
  <2>2. clicks.active # None => Holds(client, {clicks.active}, {}) /\ ~pad.suspended
    BY <1>1, <1>2 DEF Synced, Told, ByItself, ByTrackpoint, Swallowed
  <2> QED
    BY <1>4, <2>1, <2>2 DEF Told, ByItself, ByTrackpoint, Swallowed
<1>6. Synced(new, client)
  BY <1>1, <1>3, <1>4, <1>5 DEF Synced
<1> QED
  BY <1>2, <1>4, <1>6, AloneInv DEF ClicksInv

LEMMA RemoveInv ==
  ASSUME ClicksInv, Inv', Rare = {}, RemoveTrackpoint
  PROVE  ClicksInv'
<1> DEFINE active == IF clicks.is_top THEN None ELSE clicks.active
           is_top == clicks.is_top /\ clicks.active = None
           new == [clicks EXCEPT !.trackpoint = FALSE, !.active = active, !.is_top = is_top]
           none == {}
           k == [client EXCEPT !.trackpoint = none]
<1>1. clicks \in Clicks /\ Synced(clicks, client)
  BY DEF ClicksInv, Synced
<1>2. /\ clicks' = new /\ client' = k /\ clicks.trackpoint /\ Calm
      /\ clicks.is_top \/ ~(pad.suspended /\ clicks.active # None)
      /\ UNCHANGED <<touchVars, spot, btn>>
  BY DEF RemoveTrackpoint
<1>3. active \in Buttons \cup {None} /\ is_top \in BOOLEAN
  BY <1>1 DEF Clicks
<1>4. new \in Clicks
  <2> HIDE DEF active, is_top
  <2> QED
    BY <1>1, <1>3, Zenon DEF Clicks
<1>5. /\ new.state = clicks.state /\ new.old_state = clicks.old_state
      /\ new.pending = clicks.pending /\ new.active = active
      /\ ~new.trackpoint /\ new.queued = clicks.queued
  BY <1>1 DEF Clicks
<1> HIDE DEF new
<1>6. ASSUME NEW pads, NEW trackpoints, Holds(client, pads, trackpoints)
      PROVE  Holds(k, pads, {})
  <2>1. client \in Client /\ none \in SUBSET Buttons
    BY <1>6 DEF Holds
  <2> HIDE DEF none
  <2>2. k \in Client
    BY <2>1, Zenon DEF Client
  <2>3. k.pad = client.pad /\ k.trackpoint = none /\ k.wrong = client.wrong
    BY <2>1 DEF Client
  <2> HIDE DEF k
  <2> QED
    BY <1>6, <2>2, <2>3 DEF Holds, none
<1> HIDE DEF k
<1>7. Told(new, k)
  <2>1. CASE clicks.active = None
    <3>1. Holds(client, {}, {})
      BY <1>1, <2>1 DEF Synced, Told
    <3> QED
      BY <1>5, <1>6, <2>1, <3>1 DEF Told
  <2>2. CASE clicks.active # None /\ clicks.is_top
    <3>1. Holds(client, {}, {clicks.active})
      BY <1>1, <1>2, <2>2 DEF Synced, Told, ByTrackpoint
    <3> QED
      BY <1>5, <1>6, <2>2, <3>1 DEF Told
  <2>3. CASE clicks.active # None /\ ~clicks.is_top
    <3>1. Holds(client, {clicks.active}, {})
      BY <1>1, <1>2, <2>3 DEF Synced, Told, ByItself, ByTrackpoint, Swallowed
    <3> QED
      BY <1>5, <1>6, <2>3, <3>1 DEF Told, ByItself, ByTrackpoint, Swallowed
  <2> QED
    BY <1>1, <2>1, <2>2, <2>3 DEF Clicks
<1>8. Synced(new, k)
  BY <1>1, <1>2, <1>4, <1>5, <1>7 DEF Synced
<1> QED
  BY <1>2, <1>5, <1>8, AloneInv DEF ClicksInv

LEMMA TimerInv ==
  ASSUME ClicksInv, Inv', NEW i \in Index, ButtonTimeout(i)
  PROVE  ClicksInv'
<1> DEFINE new == Handled([btn[i] EXCEPT !.timer = FALSE], "timeout")
<1>1. /\ Fitting(btn[i]) /\ btn[i].timer /\ btn \in [Index -> Btn] /\ Calm
      /\ UNCHANGED <<model, kernel, pad, spot, clicks, client>>
  BY DEF ClicksInv, ButtonTimeout, touchVars
<1>2. Fitting(new) /\ new.state # "NONE" /\ btn[i].state # "NONE"
  BY <1>1, TimeoutFitting
<1>3. btn' = [btn EXCEPT ![i] = new]
  BY DEF ButtonTimeout
<1> HIDE DEF new
<1>4. /\ btn' \in [Index -> Btn]
      /\ \A j \in Index : /\ Fitting(btn'[j])
                          /\ btn'[j].state # "NONE" <=> btn[j].state # "NONE"
  BY <1>1, <1>2, <1>3 DEF ClicksInv, Fitting
<1>5. Waiting(pad, btn')
  BY <1>4 DEF ClicksInv, Waiting, WaitsAs
<1>6. btn[i].current # None
  BY <1>1 DEF Fitting, Undecided, TopSpots, None
<1>7. clicks.pending => Unsaid(btn', pad.nactive)
  BY <1>1, <1>6, Zenon DEF ClicksInv, Unsaid
<1> QED
  BY <1>1, <1>4, <1>5, <1>7, PrimedClicksInv DEF ClicksInv

-----------------------------------------------------------------------------
(* The frames, and the touchpad that is suspended and resumed.             *)

LEMMA UnrolledWaits ==
  ASSUME ModelOK, NEW r, Counted(r), NEW b, Waiting(r, b)
  PROVE  Counted(Unrolled(r)) /\ Waiting(Unrolled(r), b)
<1> DEFINE q == EndSequences(r, Index)
           none == {}
           new == [q EXCEPT !.fake = none]
<1>1. Counted(q) /\ Waiting(q, b)
  BY EndSequencesCounted, EndSequencesWait
<1>2. Unrolled(r) = new
  BY DEF Unrolled
<1> HIDE DEF q
<1>3. q \in Pad /\ none \in SUBSET AllKeys
  BY <1>1 DEF Counted
<1> HIDE DEF none
<1>4. new \in Pad
  BY <1>3, Zenon DEF Pad
<1>5. new.touch = q.touch /\ new.nfingers = q.nfingers
  BY <1>3 DEF Pad
<1> HIDE DEF new
<1>6. Counted(new)
  BY <1>1, <1>4, <1>5, OtherFieldsCounted
<1>7. Waiting(new, b)
  BY <1>1, <1>3, <1>5, SameStatesWait
<1> QED
  BY <1>2, <1>6, <1>7

LEMMA ReleasedSynced ==
  ASSUME NEW c, NEW k, Synced(c, k)
  PROVE  Synced(ReleaseAllButtons(c), k) /\ ~ReleaseAllButtons(c).state
<1> DEFINE release == {"release"}
           off == FALSE
           new == [c EXCEPT !.state = off, !.queued = release]
<1>1. c \in Clicks
  BY DEF Synced
<1>2. release \in SUBSET {"press", "release"} /\ off \in BOOLEAN /\ ~off
  OBVIOUS
<1>3. ReleaseAllButtons(c) = IF c.state THEN new ELSE c
  BY DEF ReleaseAllButtons
<1> HIDE DEF release, off
<1>4. new \in Clicks
  BY <1>1, <1>2, Zenon DEF Clicks
<1>5. /\ ~new.state /\ new.old_state = c.old_state /\ new.pending = c.pending
      /\ new.active = c.active /\ new.is_top = c.is_top /\ new.trackpoint = c.trackpoint
  BY <1>1, <1>2 DEF Clicks
<1> HIDE DEF new
<1>6. Synced(new, k)
  BY <1>4, <1>5 DEF Synced, Told, ByTrackpoint, Swallowed, ByItself
<1> QED
  BY <1>3, <1>5, <1>6

LEMMA ReportClicksInv ==
  ASSUME ClicksInv, Inv', ReportClicks
  PROVE  ClicksInv'
<1>1. UNCHANGED model /\ Inv /\ ModelOK /\ Counted(pad)
  BY DEF ReportClicks, Report, ClicksInv, Inv
<1>2. CASE ~pad.open
  <2>1. UNCHANGED <<pad, spot, btn, clicks, client>>
    BY <1>2 DEF ReportClicks, Report
  <2>2. ~clicks.pending
    BY <1>2 DEF ClicksInv, Synced
  <2> QED
    BY <1>1, <2>1, <2>2, PrimedClicksInv DEF ClicksInv
<1>3. CASE pad.open
  <2>1. pad' = HandleState(pad) /\ HandleClicks(clicks, pad)
    BY <1>3 DEF ReportClicks, Report
  <2>2. KeepsOpen(pad, HandleState(pad))
    BY <1>1, HandleStateCounted
  <2>3. pad'.open /\ pad'.suspended = pad.suspended /\ pad'.nactive = pad.nactive
    BY <1>3, <2>1, <2>2 DEF KeepsOpen
  <2>4. /\ spot' \in [Index -> AllSpots]
        /\ btn' \in [Index -> Btn] /\ \A i \in Index : Fitting(btn'[i])
        /\ Waiting(HandleState(pad), btn')
        /\ ClickHandled(clicks, pad.nactive, btn', clicks', client')
    BY <1>1, <2>1, ClicksHandledAre DEF ClicksInv
  <2>5. Waiting(pad', btn')
    BY <2>1, <2>4
  <2>6. /\ Synced(clicks', client') /\ clicks'.state = clicks'.old_state
        /\ clicks'.pending => Unsaid(btn', pad'.nactive)
    BY <2>3, <2>4 DEF ClickHandled
  <2>7. pad'.suspended /\ ~model.topbuttons => ~pad'.open
    BY <1>3, <2>3 DEF ClicksInv
  <2> QED
    BY <1>1, <2>3, <2>4, <2>5, <2>6, <2>7, PrimedClicksInv
<1> QED
  BY <1>2, <1>3

\* tp_clear_state leaves no click.
LEMMA ClearedClicks ==
  ASSUME ClicksInv, HandleClicks(ReleaseAllButtons(clicks), Unrolled(pad))
  PROVE  /\ spot' \in [Index -> AllSpots]
         /\ btn' \in [Index -> Btn] /\ \A i \in Index : Fitting(btn'[i])
         /\ Waiting(ClearState(pad), btn')
         /\ Synced(clicks', client') /\ clicks'.queued = {} /\ ~clicks'.state
         /\ clicks'.state = clicks'.old_state /\ clicks'.active = None /\ ~clicks'.pending
<1> DEFINE c == ReleaseAllButtons(clicks)
           r == Unrolled(pad)
<1>1. Counted(r) /\ Waiting(r, btn)
  BY UnrolledWaits DEF ClicksInv, Inv
<1>2. Synced(c, client) /\ ~c.state
  BY ReleasedSynced DEF ClicksInv
<1>3. ClearState(pad) = HandleState(r) /\ HandleClicks(c, r)
  BY DEF ClearState
<1> HIDE DEF c, r
<1>4. /\ spot' \in [Index -> AllSpots]
      /\ btn' \in [Index -> Btn] /\ \A i \in Index : Fitting(btn'[i])
      /\ Waiting(HandleState(r), btn')
      /\ ClickHandled(c, r.nactive, btn', clicks', client')
  BY <1>1, <1>2, <1>3, ClicksHandledAre DEF ClicksInv, Inv
<1>5. /\ Synced(clicks', client') /\ clicks'.queued = {} /\ ~clicks'.state
      /\ clicks'.state = clicks'.old_state
  BY <1>2, <1>4, Zenon DEF ClickHandled
<1>6. clicks'.active = None /\ ~clicks'.pending
  BY <1>5 DEF Synced
<1> QED
  BY <1>3, <1>4, <1>5, <1>6

LEMMA SuspendClicksInv ==
  ASSUME ClicksInv, Inv', SuspendClicks
  PROVE  ClicksInv'
<1> DEFINE q == ClearState(pad)
<1>1. /\ UNCHANGED model /\ Inv /\ ModelOK /\ Counted(pad)
      /\ HandleClicks(ReleaseAllButtons(clicks), Unrolled(pad))
  BY DEF SuspendClicks, Suspend, ClicksInv, Inv
<1>2. /\ spot' \in [Index -> AllSpots]
      /\ btn' \in [Index -> Btn] /\ \A i \in Index : Fitting(btn'[i])
      /\ Waiting(q, btn')
      /\ Synced(clicks', client') /\ clicks'.queued = {} /\ ~clicks'.state
      /\ clicks'.state = clicks'.old_state /\ clicks'.active = None /\ ~clicks'.pending
  BY <1>1, ClearedClicks
<1>3. Counted(q)
  BY <1>1, ClearStateCounted
<1>4. pad' = [q EXCEPT !.suspended = TRUE, !.open = model.topbuttons]
  BY DEF SuspendClicks, Suspend
<1> HIDE DEF q
<1>5. q \in Pad /\ model.topbuttons \in BOOLEAN
  BY <1>1, <1>3, SlotsAreTouches DEF Counted, AllModels
<1>6. pad'.touch = q.touch /\ pad'.suspended /\ pad'.open = model.topbuttons
  BY <1>4, <1>5 DEF Pad
<1>7. Waiting(pad', btn')
  BY <1>2, <1>5, <1>6, SameStatesWait
<1>8. /\ clicks'.queued = {} => clicks'.state = clicks'.old_state
      /\ ~pad'.open => ~clicks'.state /\ clicks'.queued = {}
      /\ pad'.suspended = pad.suspended \/ clicks'.active = None
      /\ Calm' /\ clicks'.pending => Unsaid(btn', pad'.nactive)
  BY <1>2
<1>9. pad'.suspended /\ ~model.topbuttons => ~pad'.open
  BY <1>6
<1> QED
  BY <1>1, <1>2, <1>7, <1>8, <1>9, PrimedClicksInv

LEMMA ResumeClicksInv ==
  ASSUME ClicksInv, Inv', ResumeClicks
  PROVE  ClicksInv'
<1> DEFINE q == IF model.topbuttons THEN ClearState(pad) ELSE pad
           n == q.nactive + Cardinality(kernel.tracked)
<1>1. UNCHANGED model /\ Inv /\ ModelOK /\ Counted(pad) /\ pad.suspended
  BY DEF ResumeClicks, Resume, ClicksInv, Inv
<1>2. /\ spot' \in [Index -> AllSpots]
      /\ btn' \in [Index -> Btn] /\ \A i \in Index : Fitting(btn'[i])
      /\ Waiting(q, btn')
      /\ Synced(clicks', client') /\ clicks'.queued = {} /\ ~clicks'.state
      /\ clicks'.state = clicks'.old_state /\ clicks'.active = None /\ ~clicks'.pending
  <2>1. CASE model.topbuttons
    <3>1. HandleClicks(ReleaseAllButtons(clicks), Unrolled(pad))
      BY <2>1 DEF ResumeClicks
    <3> QED
      BY <2>1, <3>1, ClearedClicks
  <2>2. CASE ~model.topbuttons
    <3>1. UNCHANGED <<spot, btn, clicks, client>> /\ q = pad
      BY <2>2 DEF ResumeClicks
    <3>2. ~clicks.state /\ clicks.queued = {}
      BY <1>1, <2>2 DEF ClicksInv
    <3>3. clicks.state = clicks.old_state /\ clicks.active = None /\ ~clicks.pending
      BY <3>2 DEF ClicksInv, Synced, Clicks
    <3> HIDE DEF q
    <3> QED
      BY <3>1, <3>2, <3>3 DEF ClicksInv
  <2> QED
    BY <2>1, <2>2
<1>3. Counted(q)
  BY <1>1, ClearStateCounted
<1>4. pad' = [q EXCEPT !.suspended = FALSE, !.open = TRUE, !.nactive = n]
  BY DEF ResumeClicks, Resume
<1> HIDE DEF q, n
<1>5. q \in Pad
  BY <1>3 DEF Counted
<1>6. pad'.touch = q.touch /\ ~pad'.suspended /\ pad'.open
  BY <1>4, <1>5 DEF Pad
<1>7. Waiting(pad', btn')
  BY <1>2, <1>5, <1>6, SameStatesWait
<1>8. /\ clicks'.queued = {} => clicks'.state = clicks'.old_state
      /\ ~pad'.open => ~clicks'.state /\ clicks'.queued = {}
      /\ pad'.suspended = pad.suspended \/ clicks'.active = None
      /\ Calm' /\ clicks'.pending => Unsaid(btn', pad'.nactive)
  BY <1>2
<1>9. pad'.suspended /\ ~model.topbuttons => ~pad'.open
  BY <1>6
<1> QED
  BY <1>1, <1>2, <1>7, <1>8, <1>9, PrimedClicksInv

-----------------------------------------------------------------------------
(* The results.                                                            *)

LEMMA InitClicksInv == Init => ClicksInv
<1> SUFFICES ASSUME Init PROVE ClicksInv
  OBVIOUS
<1>1. Inv
  BY InitInv DEF Init
<1>2. /\ spot \in [Index -> AllSpots] /\ btn \in [Index -> Btn]
      /\ \A i \in Index : Fitting(btn[i]) /\ btn[i].state = "NONE"
  BY DEF Init, NoBtn, Fitting, Undecided, Btn, ButtonStates, Zones, AllSpots, None,
         TopSpots, BottomSpots
<1>3. pad.open /\ \A i \in Index : pad.touch[i].state = "NONE"
  BY DEF Init, TouchesInit, NoTouch
<1>4. Waiting(pad, btn)
  BY <1>2, <1>3 DEF Waiting, WaitsAs
<1>5. /\ clicks \in Clicks /\ ~clicks.state /\ ~clicks.old_state /\ clicks.queued = {}
      /\ ~clicks.pending /\ clicks.active = None /\ clicks.state = clicks.old_state
      /\ clicks.trackpoint => model.topbuttons
  <2>1. features \in AllFeatures /\ model.topbuttons \in BOOLEAN
    BY <1>1, SlotsAreTouches, ClicksAssumption DEF Inv, ModelOK, features, AllModels
  <2>2. features.start \in Methods
    BY <2>1 DEF AllFeatures
  <2>3. clicks \in [clicked : BOOLEAN, state : {FALSE}, old_state : {FALSE}, queued : {{}},
                    pending : {FALSE}, active : {None}, is_top : {FALSE},
                    method : {features.start}, emulation : {FALSE},
                    want_emulation : {FALSE}, middle_area : {features.start = "areas"},
                    trackpoint : {FALSE, model.topbuttons}]
    BY DEF Init
  <2>4. /\ clicks.clicked \in BOOLEAN /\ clicks.state = FALSE /\ clicks.old_state = FALSE
        /\ clicks.queued = {} /\ clicks.pending = FALSE /\ clicks.active = None
        /\ clicks.is_top = FALSE /\ clicks.method \in Methods
        /\ clicks.emulation \in BOOLEAN /\ clicks.want_emulation \in BOOLEAN
        /\ clicks.middle_area \in BOOLEAN /\ clicks.trackpoint \in {FALSE, model.topbuttons}
    BY <2>2, <2>3
  <2>5. clicks \in Clicks
    BY <2>1, <2>3, <2>4 DEF Clicks
  <2> QED
    BY <2>4, <2>5
<1>6. Holds(client, {}, {})
  BY DEF Init, Holds, Client
<1>7. Synced(clicks, client)
  BY <1>5, <1>6 DEF Synced, Told
<1>8. pad.open /\ ~clicks.pending /\ clicks.state = clicks.old_state
  BY <1>3, <1>5
<1>9. ~pad.suspended
  BY DEF Init, TouchesInit
<1> QED
  BY <1>1, <1>2, <1>4, <1>7, <1>8, <1>9 DEF ClicksInv

LEMMA StepClicksInv ==
  ASSUME Rare = {}, ClicksInv, [Next]_vars
  PROVE  ClicksInv'
<1>1. Inv'
  BY TouchesGoOn, StepInv DEF ClicksInv
<1>2. ASSUME NEW s \in Slots, NEW contact \in ContactValues, NEW at \in features.spots,
             TouchBegins(s, contact, at) \/ TouchMoves(s, contact, at)
      PROVE  ClicksInv'
  BY <1>1, <1>2, TouchInv
<1>3. ASSUME NEW s \in Slots, TouchEnds(s) PROVE ClicksInv'
  <2>1. InMidFrame(btn) /\ spot' \in [Index -> AllSpots]
    BY <1>3, SlotEndsWaits DEF TouchEnds, ClicksInv
  <2> QED
    BY <1>1, <1>3, <2>1, MidFrameInv DEF TouchEnds
<1>4. ASSUME NEW keys \in KeySets, FingersChange(keys) PROVE ClicksInv'
  BY <1>1, <1>4, FingersInv
<1>5. CASE Click
  BY <1>1, <1>5, ClickInv
<1>6. CASE ReportClicks
  BY <1>1, <1>6, ReportClicksInv
<1>7. ASSUME NEW i \in Index, ButtonTimeout(i) PROVE ClicksInv'
  BY <1>1, <1>7, TimerInv
<1>8. ASSUME NEW m \in features.methods, SetClickMethod(m) PROVE ClicksInv'
  BY <1>1, <1>8, MethodInv
<1>9. CASE SetEmulation
  BY <1>1, <1>9, EmulationInv
<1>10. CASE SuspendClicks
  BY <1>1, <1>10, SuspendClicksInv
<1>11. CASE ResumeClicks
  BY <1>1, <1>11, ResumeClicksInv
<1>12. CASE model.topbuttons /\ AddTrackpoint
  BY <1>1, <1>12, AddInv
<1>13. CASE RemoveTrackpoint
  BY <1>1, <1>13, RemoveInv
<1>14. CASE UNCHANGED vars
  <2>1. UNCHANGED <<touchVars, spot, btn, client>> /\ UNCHANGED clicks
    BY <1>14 DEF vars
  <2>2. SameClick(clicks, clicks')
    BY <2>1 DEF SameClick, ClicksInv, Synced
  <2> QED
    BY <1>1, <2>1, <2>2, SettingInv
<1> QED
  BY <1>2, <1>3, <1>4, <1>5, <1>6, <1>7, <1>8, <1>9, <1>10, <1>11, <1>12, <1>13, <1>14
  DEF Next

-----------------------------------------------------------------------------

\* Every behaviour of a clickpad is one of a touchpad: what is proved of the
\* touches holds where they click (tp_handle_state, with tp_process_button and
\* tp_post_button_events in it).
THEOREM ClicksImplementTouches == Spec => TouchesSpec
BY TouchesGoOn, PTL DEF Spec, TouchesSpec, Init

\* The state machines wait for the touches of the next frame, the client knows
\* the button of the last click that was posted, and a closed touchpad has none.
THEOREM ClicksInvariance == Rare = {} /\ Spec => []ClicksInv
<1> SUFFICES ASSUME Rare = {} PROVE Spec => []ClicksInv
  OBVIOUS
<1>1. ClicksInv /\ [Next]_vars => ClicksInv'
  BY StepClicksInv
<1> QED
  BY <1>1, InitClicksInv, PTL DEF Spec

\* No button is pressed or released twice, at most one is down, and none after
\* the click, through every change of touches, method, trackpoint and suspension
\* (tp_post_clickpadbutton_buttons, tp_notify_clickpadbutton, tp_clear_state).
THEOREM ClicksStayInSync == Rare = {} /\ Spec => []ClicksInSync
<1>1. ASSUME ClicksInv PROVE ClicksInSync
  <2>1. TypeOK
    <3>1. TouchesTypeOK
      BY <1>1 DEF ClicksInv, Inv, ModelOK, Counted, Rests, Settling, AtRest, TouchesTypeOK
    <3>2. clicks \in Clicks /\ client \in Client
      BY <1>1 DEF ClicksInv, Synced, Told, Holds, ByTrackpoint, Swallowed, ByItself
    <3> QED
      BY <1>1, <3>1, <3>2 DEF ClicksInv, TypeOK
  <2>2. \E b \in Buttons \cup {None} :
          /\ clicks.active = b
          /\ \/ Holds(client, {}, {})
             \/ b # None /\ Holds(client, {b}, {})
             \/ b # None /\ Holds(client, {}, {b})
    BY <1>1 DEF ClicksInv, Synced, Clicks, Told, ByTrackpoint, Swallowed, ByItself
  <2>3. Calm /\ ~clicks.state => Holds(client, {}, {})
    BY <1>1 DEF ClicksInv, Calm, Synced, Clicks, Told
  <2>4. PICK b \in Buttons \cup {None} :
          /\ clicks.active = b
          /\ \/ Holds(client, {}, {})
             \/ Holds(client, {b}, {})
             \/ Holds(client, {}, {b})
    BY <2>2
  <2>5. /\ ~client.wrong /\ client.pad \cup client.trackpoint \subseteq {clicks.active}
        /\ \/ client.pad = {} /\ client.trackpoint = {}
           \/ client.pad = {b} /\ client.trackpoint = {}
           \/ client.pad = {} /\ client.trackpoint = {b}
    BY <2>4 DEF Holds
  <2>6. Cardinality(client.pad) + Cardinality(client.trackpoint) <= 1
    <3>1. Cardinality({}) = 0 /\ Cardinality({b}) = 1
      BY FS_EmptySet, FS_Singleton
    <3> QED
      BY <2>5, <3>1
  <2>7. Calm /\ ~clicks.state => client.pad = {} /\ client.trackpoint = {}
    BY <2>3 DEF Holds
  <2> QED
    BY <2>1, <2>5, <2>6, <2>7 DEF ClicksInSync
<1> QED
  BY <1>1, ClicksInvariance, PTL

\* A click has a button or waits for a touch that could say which, and nothing
\* else, but where four fingers or a trackpoint that comes or goes decide
\* otherwise (tp_post_clickpadbutton_buttons, tp_notify_clickpadbutton).
THEOREM ClicksGetDecided == Rare = {} /\ Spec => []ClickDecided
<1>1. ASSUME ClicksInv PROVE ClickDecided
  <2> SUFFICES ASSUME Calm /\ clicks.state
               PROVE  ClickDecided
    BY DEF ClickDecided
  <2>1. clicks.old_state /\ Synced(clicks, client)
    BY <1>1 DEF ClicksInv, Calm
  <2>2. CASE clicks.pending
    BY <1>1, <2>2, Zenon DEF ClicksInv, Unsaid, ClickDecided
  <2>3. CASE ~clicks.pending /\ clicks.active # None
    <3>1. \/ client.pad \cup client.trackpoint = {clicks.active}
          \/ clicks.trackpoint /\ pad.suspended /\ ~clicks.is_top
      BY <2>1, <2>3 DEF Synced, Told, Holds, ByTrackpoint, Swallowed, ByItself
    <3> QED
      BY <2>3, <3>1, Zenon DEF ClickDecided
  <2>4. CASE ~clicks.pending /\ clicks.active = None
    <3>1. model.topbuttons \/ ntouches > 3
      BY <2>1, <2>4 DEF Synced
    <3> QED
      BY <2>4, <3>1, Zenon DEF ClickDecided
  <2> QED
    BY <2>2, <2>3, <2>4
<1> QED
  BY <1>1, ClicksInvariance, PTL

\* A touch is in a state machine exactly while it is down, and a timer runs
\* exactly while a machine has not decided (tp_button_handle_state,
\* tp_button_set_state).
THEOREM ButtonsFollow == Rare = {} /\ Spec => []ButtonsFollowTouches
<1>1. ASSUME ClicksInv PROVE ButtonsFollowTouches
  <2>1. \A i \in Index : btn[i].timer <=> btn[i].state \in {"TOP_NEW", "TOP_TO_IGNORE"}
    BY <1>1 DEF ClicksInv, Fitting, Undecided
  <2>2. Calm => \A i \in Index : pad.touch[i].state = "UPDATE" <=> btn[i].state # "NONE"
    BY <1>1 DEF ClicksInv, Inv, Calm, Rests, Settling, Waiting, WaitsAs
  <2> QED
    BY <2>1, <2>2 DEF ButtonsFollowTouches
<1> QED
  BY <1>1, ClicksInvariance, PTL

-----------------------------------------------------------------------------
(* What is left of a touch once its finger is gone.                        *)

\* A touch that no finger keeps up: the frame will end it.
Lifted(t) == t.state \in {"NONE", "MAYBE_END"} /\ (t.state = "MAYBE_END" => t.has_ended)

Ending(r) == \A i \in Index : r.touch[i].state # "END"
Empty(r) == \A i \in Index : r.touch[i].state = "NONE"

\* A touch of EndSequences.
Stopped(t) == MaybeEndTouch([t EXCEPT !.has_ended = TRUE])

LEMMA StoppedIs ==
  ASSUME NEW t \in Touch
  PROVE  /\ Stopped(t) \in Touch
         /\ t.state # "END" => Lifted(Stopped(t)) /\ Stopped(t).state # "END"
<1> DEFINE u == [t EXCEPT !.has_ended = TRUE]
<1>1. u \in Touch
  BY Zenon DEF Touch
<1>2. u.state = t.state /\ u.has_ended
  BY DEF Touch
<1> HIDE DEF u
<1>3. MaybeEndTouch(u) \in Touch
  BY <1>1, MaybeEndTouchTyped
<1>4. MaybeEndTouch(u).has_ended
  BY <1>1, <1>2 DEF MaybeEndTouch, Touch
<1>5. u.state # "END" => MaybeEndTouch(u).state \in {"NONE", "MAYBE_END"}
  BY <1>1 DEF MaybeEndTouch, Touch, TouchStates, DownStates
<1> QED
  BY <1>2, <1>3, <1>4, <1>5 DEF Stopped, Lifted, u

LEMMA SequenceEnded ==
  ASSUME NEW r \in Pad, NEW S, NEW i \in Index
  PROVE  /\ i \in S => EndSequences(r, S).touch[i] = Stopped(r.touch[i])
         /\ i \notin S => EndSequences(r, S).touch[i] = r.touch[i]
<1> DEFINE touch == [j \in Index |-> IF j \in S THEN [r.touch[j] EXCEPT !.has_ended = TRUE]
                                    ELSE r.touch[j]]
           new == [r EXCEPT !.touch = touch]
<1>1. EndSequences(r, S) = MaybeEndTouches(new, S)
  BY DEF EndSequences
<1>2. new.touch = touch
  BY DEF Pad
<1>3. MaybeEndTouches(new, S).touch =
        [j \in Index |-> IF j \in S THEN MaybeEndTouch(new.touch[j]) ELSE new.touch[j]]
  BY DEF MaybeEndTouches, Pad
<1>4. /\ i \in S => touch[i] = [r.touch[i] EXCEPT !.has_ended = TRUE]
      /\ i \notin S => touch[i] = r.touch[i]
  OBVIOUS
<1> HIDE DEF touch, new
<1> QED
  BY <1>1, <1>2, <1>3, <1>4 DEF Stopped

\* The touches of slots are not those that only the count knows.
LEMMA FakesSpareSlots ==
  ASSUME ModelOK, NEW r, Counted(r), NEW i \in Index, model.has_mt,
         i < FakeTouches(r).num_slots,
         \/ model.quirk # "synaptics"
         \/ FingerCount(r) < 3
         \/ r.touch[i].state # "MAYBE_END"
  PROVE  FakeTouches(r).touch[i] = r.touch[i] /\ i < r.num_slots
<1> DEFINE q == CASE model.quirk = "synaptics" -> RestoreTouches(r)
                  [] model.quirk = "alps" -> ReduceSlots(r)
                  [] OTHER -> r
           fakes == {j \in Index : model.has_mt => j >= q.num_slots}
           counted == {j \in fakes : j < FingerCount(q)}
           new == EndSequences(NewTouches(q, counted), fakes \ counted)
<1>1. FakeTouches(r) = r \/ FakeTouches(r) = new
  BY DEF FakeTouches
<1>2. CASE FakeTouches(r) = r
  BY <1>2
<1>3. CASE FakeTouches(r) = new
  <2>1. r \in Pad /\ r.nactive \in Nat /\ r.num_slots \in Nat
    BY DEF Counted, Pad
  <2>2. /\ Counted(q) /\ q.touch[i] = r.touch[i] /\ q.num_slots <= r.num_slots
    <3>1. CASE model.quirk = "synaptics"
      <4>1. q = RestoreTouches(r) /\ Counted(RestoreTouches(r)) /\ SamePad(r, RestoreTouches(r))
        BY <3>1, RestoreCounted
      <4>2. RestoreTouches(r).touch[i] = r.touch[i]
        <5>1. CASE FingerCount(r) < 3
          BY <5>1 DEF RestoreTouches
        <5>2. CASE r.touch[i].state # "MAYBE_END"
          BY <2>1, <5>2 DEF RestoreTouches, Pad, In
        <5> QED
          BY <3>1, <5>1, <5>2
      <4> HIDE DEF q
      <4> QED
        BY <2>1, <4>1, <4>2 DEF SamePad
    <3>2. CASE model.quirk = "alps"
      <4>1. q = ReduceSlots(r)
        BY <3>2
      <4>2. ReduceSlots(r) = r \/ (/\ ReduceSlots(r) = [r EXCEPT !.num_slots = r.nactive]
                                   /\ r.nactive < r.num_slots)
        BY DEF ReduceSlots
      <4>3. [r EXCEPT !.num_slots = r.nactive] \in Pad
        BY <2>1, Zenon DEF Pad
      <4> DEFINE p == [r EXCEPT !.num_slots = r.nactive]
      <4>4. p.touch = r.touch /\ p.nfingers = r.nfingers /\ p.num_slots = r.nactive
        BY <2>1 DEF Pad
      <4>5. Counted(p)
        BY <4>3, <4>4, OtherFieldsCounted
      <4>6. q = r \/ (q = p /\ r.nactive < r.num_slots)
        BY <4>1, <4>2
      <4> HIDE DEF p, q
      <4>7. CASE q = r
        BY <2>1, <4>7
      <4>8. CASE q = p /\ r.nactive < r.num_slots
        BY <2>1, <4>4, <4>5, <4>8
      <4> QED
        BY <4>6, <4>7, <4>8
    <3>3. CASE model.quirk \notin {"synaptics", "alps"}
      BY <2>1, <3>3
    <3> QED
      BY <3>1, <3>2, <3>3
  <2> HIDE DEF q
  <2>3. q \in Pad /\ counted \in SUBSET Index /\ fakes \ counted \in SUBSET Index
    BY <2>2 DEF Counted
  <2>4. Counted(NewTouches(q, counted)) /\ SamePad(q, NewTouches(q, counted))
    BY <2>2, <2>3, NewTouchesCounted
  <2>5. SamePad(NewTouches(q, counted), new)
    BY <2>3, <2>4, EndSequencesCounted
  <2>6. i < q.num_slots
    BY <1>3, <2>4, <2>5 DEF SamePad
  <2>7. i \notin fakes /\ q.num_slots \in Nat /\ i \in Int
    BY <2>3, <2>6 DEF Pad, Index
  <2>8. i \notin counted /\ i \notin fakes \ counted
    BY <2>7
  <2>9. NewTouches(q, counted).touch[i] = q.touch[i]
    BY <2>3, <2>8 DEF NewTouches, Pad
  <2>10. NewTouches(q, counted) \in Pad
    BY <2>4 DEF Counted
  <2> HIDE DEF fakes, counted
  <2>11. new.touch[i] = NewTouches(q, counted).touch[i]
    BY <2>8, <2>10, SequenceEnded
  <2> QED
    BY <1>3, <2>1, <2>2, <2>6, <2>7, <2>9, <2>11
<1> QED
  BY <1>1, <1>2, <1>3

\* Contact is a question for the touches that hover or are down.
LEMMA UnhoverSpares ==
  ASSUME ModelOK, NEW r, Counted(r), NEW i \in Index,
         r.touch[i].state \in {"NONE", "MAYBE_END"}
  PROVE  Unhover(r).touch[i] = r.touch[i]
<1> DEFINE Same(p) == Counted(p) /\ p.touch[i] = r.touch[i]
<1>1. \A p : Same(p) => \A S \in SUBSET Index : Same(MaybeEndTouches(p, S))
  <2> SUFFICES ASSUME NEW p, Same(p), NEW S \in SUBSET Index
               PROVE  Same(MaybeEndTouches(p, S))
    OBVIOUS
  <2>1. Counted(MaybeEndTouches(p, S)) /\ p \in Pad
    BY MaybeEndTouchesCounted DEF Counted
  <2>2. MaybeEndTouches(p, S).touch[i] \in {p.touch[i], MaybeEndTouch(p.touch[i])}
    BY <2>1, TouchBecomes
  <2>3. MaybeEndTouch(p.touch[i]) = p.touch[i]
    BY DEF MaybeEndTouch, DownStates
  <2> QED
    BY <2>1, <2>2, <2>3
<1>2. \A p : Same(p) => \A S \in SUBSET Hovering(p) : Same(BeginTouches(p, S))
  <2> SUFFICES ASSUME NEW p, Same(p), NEW S \in SUBSET Hovering(p)
               PROVE  Same(BeginTouches(p, S))
    OBVIOUS
  <2>1. Counted(BeginTouches(p, S)) /\ p \in Pad
    BY BeginTouchesCounted DEF Counted
  <2>2. i \notin S
    BY DEF Hovering, In
  <2>3. BeginTouches(p, S).touch[i] = p.touch[i]
    BY <2>1, <2>2 DEF BeginTouches, Pad
  <2> QED
    BY <2>1, <2>3
<1>3. \A p, n : Same(p) => Same(RaiseTo(p, n)) /\ Same(LowerTo(p, n))
  <2> SUFFICES ASSUME NEW p, NEW n, Same(p)
               PROVE  Same(RaiseTo(p, n)) /\ Same(LowerTo(p, n))
    OBVIOUS
  <2>1. /\ \A k : First(Hovering(p), k) \in SUBSET Hovering(p)
        /\ \A k : Last(Down(p), k) \in SUBSET Index
    BY DownIsSubset DEF First, Last
  <2> HIDE DEF Same
  <2> QED
    BY <1>1, <1>2, <2>1 DEF RaiseTo, LowerTo
<1>4. Same(r)
  OBVIOUS
<1>5. Same(BeginTouches(r, Firm(r)))
  BY <1>2, <1>4, DownIsSubset
<1> HIDE DEF Same
<1>6. Same(UnhoverPressure(r))
  <2> DEFINE n == IF IsOverflow(r) THEN 0 ELSE FingerCount(r)
             light == IF n <= r.num_slots \/ r.num_slots = 1 THEN Light(r) ELSE {}
             q == MaybeEndTouches(BeginTouches(r, Firm(r)), light)
             real == {j \in Down(q) : j < q.num_slots}
             raised == RaiseTo(q, n)
  <2>1. light \in SUBSET Index
    BY DownIsSubset
  <2>2. UnhoverPressure(r) \in {q, MaybeEndTouches(q, Down(q)), LowerTo(raised, n), raised}
    BY DEF UnhoverPressure
  <2>3. Same(q)
    BY <1>1, <1>5, <2>1
  <2> HIDE DEF q, n
  <2>4. Same(MaybeEndTouches(q, Down(q))) /\ Same(raised)
    BY <1>1, <1>3, <2>3, DownIsSubset
  <2> HIDE DEF raised
  <2> QED
    BY <1>3, <2>2, <2>3, <2>4
<1>7. Same(UnhoverSize(r))
  BY <1>1, <1>5, DownIsSubset DEF UnhoverSize
<1>8. Same(UnhoverFake(r))
  <2> DEFINE n == FingerCount(r)
  <2>1. UnhoverFake(r) \in {r, MaybeEndTouches(r, Down(r)), RaiseTo(r, n), LowerTo(r, n)}
    BY DEF UnhoverFake
  <2> HIDE DEF n
  <2> QED
    BY <1>1, <1>3, <1>4, <2>1, DownIsSubset
<1>9. Unhover(r) \in {UnhoverPressure(r), UnhoverSize(r), UnhoverFake(r)}
  BY DEF Unhover
<1>10. Same(Unhover(r))
  BY <1>6, <1>7, <1>8, <1>9
<1> QED
  BY <1>10 DEF Same

\* The end of the frame takes a touch that is lifted.
LEMMA LiftedEnds ==
  ASSUME ModelOK, NEW r, Counted(r), NEW i \in Index, Lifted(FakeTouches(r).touch[i])
  PROVE  HandleState(r).touch[i].state = "NONE"
<1> DEFINE f == FakeTouches(r)
           u == Unhover(f)
           e == EndTouches(u)
<1>1. Counted(f)
  BY FakeTouchesCounted
<1>2. f.touch[i].state \in {"NONE", "MAYBE_END"}
  BY DEF Lifted
<1> HIDE DEF f
<1>3. u.touch[i] = f.touch[i] /\ Counted(u)
  BY <1>1, <1>2, UnhoverSpares, UnhoverCounted
<1> HIDE DEF u
<1>4. Counted(e) /\ e \in Pad /\ u \in Pad
  BY <1>3, EndTouchesCounted DEF Counted
<1>5. e.touch[i] = IF u.touch[i].state = "MAYBE_END"
                   THEN [u.touch[i] EXCEPT !.state = "END", !.dirty = TRUE]
                   ELSE u.touch[i]
  BY <1>4 DEF EndTouches, Pad
<1>6. u.touch[i] \in Touch /\ e.touch[i] \in Touch
  BY <1>4 DEF Pad
<1>7. \/ e.touch[i].state = "NONE"
      \/ e.touch[i].state = "END" /\ e.touch[i].has_ended /\ e.touch[i].dirty
  BY <1>2, <1>3, <1>5, <1>6 DEF Touch, Lifted, f
<1>8. HandleState(r) = PostProcess(e)
  BY DEF HandleState, PreProcess, e, u, f
<1> HIDE DEF e
<1>9. PostProcess(e).touch[i] =
        IF ~e.touch[i].dirty THEN e.touch[i]
        ELSE [e.touch[i] EXCEPT !.state = Settled(e.touch[i]), !.dirty = FALSE,
                !.contact = IF Unused(i, Settled(e.touch[i])) THEN 0 ELSE @]
  BY <1>4 DEF PostProcess, Pad
<1>10. Settled(e.touch[i]) = "NONE"
  BY <1>7 DEF Settled
<1>11. PostProcess(e).touch[i].state = IF ~e.touch[i].dirty THEN e.touch[i].state
                                       ELSE Settled(e.touch[i])
  BY <1>6, <1>9 DEF Touch
<1> QED
  BY <1>7, <1>8, <1>10, <1>11

LEMMA FrameSlots ==
  ASSUME ModelOK, NEW r, Counted(r)
  PROVE  /\ HandleState(r).num_slots = FakeTouches(r).num_slots
         /\ HandleState(r).fake = r.fake /\ HandleState(r).nactive = r.nactive
         /\ Ending(HandleState(r))
<1>1. Counted(FakeTouches(r)) /\ KeepsOpen(r, FakeTouches(r))
  BY FakeTouchesCounted
<1>2. Counted(Unhover(FakeTouches(r))) /\ SamePad(FakeTouches(r), Unhover(FakeTouches(r)))
  BY <1>1, UnhoverCounted
<1>3. /\ Counted(PreProcess(r)) /\ SamePad(Unhover(FakeTouches(r)), PreProcess(r))
      /\ \A i \in Index : PreProcess(r).touch[i].state # "MAYBE_END"
  BY <1>2, EndTouchesCounted DEF PreProcess
<1>4. SamePad(PreProcess(r), HandleState(r)) /\ Rests(HandleState(r))
  BY <1>3, PostProcessCounted DEF HandleState
<1>5. Ending(HandleState(r))
  BY <1>4 DEF Rests, Settling, Ending
<1> QED
  BY <1>1, <1>2, <1>3, <1>4, <1>5 DEF SamePad, KeepsOpen

\* A lifted touch of a slot is gone after the frame, unless a Synaptics
\* touchpad takes it back.
LEMMA SlotLifted ==
  ASSUME ModelOK, NEW r, Counted(r), NEW i \in Index, model.has_mt,
         i < HandleState(r).num_slots, Lifted(r.touch[i]),
         \/ model.quirk # "synaptics"
         \/ FingerCount(r) < 3
         \/ r.touch[i].state # "MAYBE_END"
  PROVE  HandleState(r).touch[i].state = "NONE"
<1>1. FakeTouches(r).touch[i] = r.touch[i]
  BY FrameSlots, FakesSpareSlots
<1> QED
  BY <1>1, LiftedEnds

LEMMA SlotsOnlyReduced ==
  ASSUME ModelOK, NEW r, Counted(r), NEW i \in Index, i < HandleState(r).num_slots
  PROVE  i < r.num_slots
<1> DEFINE q == CASE model.quirk = "synaptics" -> RestoreTouches(r)
                  [] model.quirk = "alps" -> ReduceSlots(r)
                  [] OTHER -> r
           fakes == {j \in Index : model.has_mt => j >= q.num_slots}
           counted == {j \in fakes : j < FingerCount(q)}
           new == EndSequences(NewTouches(q, counted), fakes \ counted)
<1>1. FakeTouches(r) = r \/ FakeTouches(r) = new
  BY DEF FakeTouches
<1>2. CASE FakeTouches(r) = r
  BY <1>2, FrameSlots
<1>3. CASE FakeTouches(r) = new
  <2>1. r \in Pad /\ r.nactive \in Nat /\ r.num_slots \in Nat /\ i \in Int
    BY DEF Counted, Pad, Index
  <2>2. q \in {r, RestoreTouches(r), ReduceSlots(r)}
    OBVIOUS
  <2>3. q.num_slots \in Nat /\ q.num_slots <= r.num_slots
    <3>1. RestoreTouches(r).num_slots = r.num_slots
      BY RestoreCounted DEF SamePad
    <3>2. ReduceSlots(r).num_slots \in Nat /\ ReduceSlots(r).num_slots <= r.num_slots
      <4>1. [r EXCEPT !.num_slots = r.nactive].num_slots = r.nactive
        BY <2>1 DEF Pad
      <4> QED
        BY <2>1, <4>1 DEF ReduceSlots
    <3> HIDE DEF q
    <3> QED
      BY <2>1, <2>2, <3>1, <3>2
  <2> HIDE DEF q
  <2>4. \A S, T : EndSequences(NewTouches(q, S), T).num_slots = q.num_slots
    <3>1. q \in Pad
      BY <2>2, RestoreCounted, <2>1, Zenon DEF ReduceSlots, Counted, Pad
    <3>2. \A S : NewTouches(q, S).num_slots = q.num_slots
      BY <3>1 DEF NewTouches, Pad
    <3> QED
      BY <3>1, <3>2 DEF EndSequences, MaybeEndTouches, NewTouches, Pad
  <2> QED
    BY <1>3, <2>1, <2>3, <2>4, FrameSlots
<1> QED
  BY <1>1, <1>2, <1>3

\* With no key down and no slot in use nothing survives the frame.
LEMMA EmptyFrame ==
  ASSUME ModelOK, NEW r, Counted(r), Ending(r), r.fake = {},
         model.has_mt => \A i \in Index : i < r.num_slots => Lifted(r.touch[i])
  PROVE  Empty(HandleState(r))
<1> SUFFICES ASSUME NEW i \in Index PROVE Lifted(FakeTouches(r).touch[i])
  BY LiftedEnds DEF Empty
<1> DEFINE fakes == {j \in Index : model.has_mt => j >= r.num_slots}
<1>1. FingerCount(r) = 0 /\ ~IsOverflow(r)
  BY DEF FingerCount, IsOverflow
<1>2. RestoreTouches(r) = r /\ ReduceSlots(r) = r
  BY <1>1 DEF RestoreTouches, ReduceSlots
<1>3. {j \in fakes : j < 0} = {} /\ fakes \ {} = fakes
  BY DEF Index
<1>4. FakeTouches(r) = EndSequences(NewTouches(r, {}), fakes)
  <2>1. (CASE model.quirk = "synaptics" -> RestoreTouches(r)
           [] model.quirk = "alps" -> ReduceSlots(r)
           [] OTHER -> r) = r
    BY <1>2
  <2> QED
    BY <1>1, <1>3, <2>1, Zenon DEF FakeTouches
<1>5. Counted(NewTouches(r, {}))
  <2>1. {} \in SUBSET Index
    OBVIOUS
  <2> QED
    BY <2>1, NewTouchesCounted
<1>6. NewTouches(r, {}).touch[i] = r.touch[i] /\ NewTouches(r, {}) \in Pad
  BY <1>5 DEF NewTouches, Counted, Pad
<1>7. r.touch[i] \in Touch /\ r.touch[i].state # "END" /\ i \in Int /\ r.num_slots \in Nat
  <2>1. r \in Pad /\ i \in Int
    BY DEF Counted, Index
  <2>2. r.touch[i].state # "END"
    BY DEF Ending
  <2> QED
    BY <2>1, <2>2 DEF Pad
<1>8. CASE i \in fakes
  BY <1>4, <1>6, <1>7, <1>8, SequenceEnded, StoppedIs
<1>9. CASE i \notin fakes
  <2>1. model.has_mt /\ i < r.num_slots
    BY <1>7, <1>9
  <2> HIDE DEF fakes
  <2> QED
    BY <1>4, <1>6, <1>9, <2>1, SequenceEnded
<1> QED
  BY <1>8, <1>9

LEMMA ClearedIsEmpty ==
  ASSUME ModelOK, NEW r, Counted(r), Ending(r)
  PROVE  Empty(ClearState(r)) /\ ClearState(r).fake = {}
<1> DEFINE q == EndSequences(r, Index)
           new == [q EXCEPT !.fake = {}]
<1>1. Counted(q)
  BY EndSequencesCounted
<1>2. \A i \in Index : Lifted(q.touch[i]) /\ q.touch[i].state # "END"
  BY SequenceEnded, StoppedIs DEF Counted, Pad, Ending
<1> HIDE DEF q
<1>3. q \in Pad
  BY <1>1 DEF Counted
<1>4. new \in Pad
  BY <1>3, Zenon DEF Pad
<1>5. new.touch = q.touch /\ new.nfingers = q.nfingers /\ new.fake = {}
  BY <1>3 DEF Pad
<1>6. Unrolled(r) = new
  BY DEF Unrolled, q
<1> HIDE DEF new
<1>7. Counted(new)
  BY <1>1, <1>4, <1>5, OtherFieldsCounted
<1>8. Ending(new) /\ \A i \in Index : Lifted(new.touch[i])
  BY <1>2, <1>5 DEF Ending
<1> QED
  BY <1>5, <1>6, <1>7, <1>8, EmptyFrame, FrameSlots DEF ClearState

-----------------------------------------------------------------------------
(* Nothing is left behind.                                                 *)

\* Touchpads that take touches back have two slots (30-vendor-synaptics.quirks:
\* serial touchpads).  With four, a touch would be taken back for a finger that
\* then comes in another slot.
FewSlots == \A m \in Models : m.quirk = "synaptics" => m.real <= 3

\* The driver knows no key that is up, and a closed pad knows nothing.
KeysKnown(k, r) ==
  /\ k.keys \in KeySets
  /\ r.open <=> (r.suspended => model.topbuttons)
  /\ r.fake \subseteq k.keys
  /\ ~r.open => r.fake = {} /\ Empty(r)

\* After a suspension nactive_slots may be too large, never too small.
SlotsCounted(k, r) == r.open => Cardinality(k.tracked) <= r.nactive

\* A finger that is down has no slot: its touch was taken back.
ShortFrame(k) ==
  k.short => /\ model.has_mt /\ model.quirk = "synaptics"
             /\ ~k.keyed => BTN_TOUCH \in k.keys /\ KeyCount(k.keys) >= 3

SlotsLifted(k, r) ==
  model.has_mt =>
    \A i \in Index : i < r.num_slots /\ i \notin k.tracked =>
      IF i \in Slots THEN k.short \/ Lifted(r.touch[i]) ELSE r.touch[i].state = "NONE"

EmptyWithoutKeys(k, r) ==
  r.open /\ k.changed = {} /\ ~k.keyed /\ k.keys = {} => Empty(r)

Left(k, r) ==
  /\ Ending(r) /\ KeysKnown(k, r) /\ SlotsCounted(k, r)
  /\ ShortFrame(k) /\ SlotsLifted(k, r) /\ EmptyWithoutKeys(k, r)

LeftInv == Inv /\ Left(kernel, pad)

LEMMA PrimedLeft ==
  ASSUME UNCHANGED model, Left(kernel', pad')
  PROVE  (Left(kernel, pad))'
<1>1. Index' = Index /\ Slots' = Slots /\ KeySets' = KeySets
  BY DEF Index, Slots, ntouches, KeySets
<1>2. Ending(pad') = (Ending(pad))' /\ Empty(pad') = (Empty(pad))'
  BY <1>1, Zenon DEF Ending, Empty
<1>3. KeysKnown(kernel', pad') = (KeysKnown(kernel, pad))'
  BY <1>1, <1>2, Zenon DEF KeysKnown
<1>4. SlotsCounted(kernel', pad') = (SlotsCounted(kernel, pad))'
  BY Zenon DEF SlotsCounted
<1>5. ShortFrame(kernel') = (ShortFrame(kernel))'
  BY Zenon DEF ShortFrame, KeyCount
<1>6. SlotsLifted(kernel', pad') = (SlotsLifted(kernel, pad))'
  BY <1>1, Zenon DEF SlotsLifted, Lifted
<1>7. EmptyWithoutKeys(kernel', pad') = (EmptyWithoutKeys(kernel, pad))'
  BY <1>2, Zenon DEF EmptyWithoutKeys
<1> QED
  BY <1>2, <1>3, <1>4, <1>5, <1>6, <1>7 DEF Left

\* What the keys say.
LEMMA KeyCountIs ==
  ASSUME ModelOK, NEW keys \in KeySets
  PROVE  \/ keys = {} /\ KeyCount(keys) = 0
         \/ keys = {1} /\ KeyCount(keys) = 1
         \/ \E n \in 1..5 : keys = {BTN_TOUCH, n} /\ KeyCount(keys) = n
<1>1. CASE keys = {}
  BY <1>1 DEF KeyCount
<1>2. CASE keys = {1}
  BY <1>2 DEF KeyCount
<1>3. ASSUME NEW n \in 1..model.fingers, keys = {BTN_TOUCH, n}
      PROVE  n \in 1..5 /\ KeyCount(keys) = n
  <2>1. n \in 1..5
    BY TouchesAssumption DEF ModelOK, AllModels
  <2>2. \A k \in keys : (\A j \in keys : j <= k) <=> k = n
    BY <1>3, <2>1 DEF BTN_TOUCH
  <2>3. KeyCount(keys) = CHOOSE k \in keys : \A j \in keys : j <= k
    BY <1>3 DEF KeyCount
  <2>4. n \in keys
    BY <1>3
  <2> QED
    BY <2>1, <2>2, <2>3, <2>4
<1> QED
  BY <1>1, <1>2, <1>3 DEF KeySets

LEMMA FingerCountIs ==
  ASSUME ModelOK, NEW keys \in KeySets, NEW r, r.fake \subseteq keys
  PROVE  \/ FingerCount(r) = 0
         \/ keys = {1} /\ FingerCount(r) = 1
         \/ \E n \in 1..4 : keys = {BTN_TOUCH, n} /\ KeyCount(keys) = n /\ FingerCount(r) = n
<1> DEFINE F == r.fake \cap Tools
<1>1. CASE F = {}
  BY <1>1 DEF FingerCount
<1>2. CASE F # {}
  <2>1. FingerCount(r) = CHOOSE n \in F : \A k \in F : n <= k
    BY <1>2 DEF FingerCount
  <2>2. CASE keys = {1}
    <3>1. F = {1}
      BY <1>2, <2>2
    <3> QED
      BY <2>1, <2>2, <3>1
  <2>3. CASE \E n \in 1..5 : keys = {BTN_TOUCH, n} /\ KeyCount(keys) = n
    <3>1. PICK n \in 1..5 : keys = {BTN_TOUCH, n} /\ KeyCount(keys) = n
      BY <2>3
    <3>2. F = {n} /\ n \in 1..4
      BY <1>2, <3>1 DEF Tools, BTN_TOUCH
    <3>3. FingerCount(r) = n
      BY <2>1, <3>2
    <3> QED
      BY <3>1, <3>2, <3>3
  <2>4. keys # {}
    BY <1>2
  <2> QED
    BY <2>2, <2>3, <2>4, KeyCountIs
<1> QED
  BY <1>1, <1>2

LEMMA AllSlots ==
  ASSUME ModelOK, NEW T \in SUBSET Slots
  PROVE  /\ Cardinality(T) \in Nat
         /\ Cardinality(T) = 0 => T = {}
         /\ Cardinality(T) = model.real => T = Slots
<1>1. model.real \in Nat /\ 1 <= model.real
  BY TouchesAssumption, SlotsAreTouches DEF ModelOK, AllModels
<1>2. IsFiniteSet(Slots) /\ Cardinality(Slots) = model.real
  <2>1. 0 \in Int /\ model.real - 1 \in Int
    BY <1>1
  <2>2. Cardinality(0..(model.real - 1)) = model.real - 1 - 0 + 1
    BY <1>1, <2>1, FS_Interval
  <2> QED
    BY <1>1, <2>2, SlotsAreTouches DEF Slots
<1> QED
  BY <1>2, FS_Subset, FS_CardinalityType, FS_EmptySet

\* A frame that takes touches back has all slots in use, or one less.
LEMMA TakenBack ==
  ASSUME FewSlots, LeftInv, Fits, model.has_mt, model.quirk = "synaptics",
         KeyCount(kernel.keys) >= 3, BTN_TOUCH \in kernel.keys
  PROVE  kernel.tracked = Slots \/ (~kernel.short /\ Sent.short)
<1> DEFINE n == KeyCount(kernel.keys)
           used == Cardinality(kernel.tracked)
<1>1. ModelOK /\ kernel \in Kernel /\ kernel.tracked \in SUBSET Slots
      /\ kernel.keys \in KeySets
  BY DEF LeftInv, Inv, Kernel, Left, KeysKnown
<1>2. n \in 0..5 /\ used \in Nat
  BY <1>1, KeyCountIs, AllSlots
<1>3. model.real \in 1..3
  BY <1>1, TouchesAssumption, SlotsAreTouches DEF ModelOK, AllModels, FewSlots
<1>4. Least(n, model.real) = model.real
  BY <1>2, <1>3 DEF Least
<1>5. used = model.real \/ (~kernel.short /\ used < Least(n, model.real))
  BY <1>2, <1>3, <1>4 DEF Fits
<1>6. Sent.short = (/\ model.has_mt /\ BTN_TOUCH \in kernel.keys
                    /\ Cardinality(kernel.tracked) < Least(KeyCount(kernel.keys), model.real))
  BY <1>1 DEF Sent, Kernel
<1> QED
  BY <1>1, <1>5, <1>6, AllSlots

\* The surface is empty.
LEMMA NoKeysNoSlots ==
  ASSUME LeftInv, Fits, model.has_mt, kernel.keys = {}
  PROVE  kernel.tracked = {} /\ ~kernel.short
<1>1. ModelOK /\ kernel.tracked \in SUBSET Slots /\ model.real \in Nat
  BY SlotsAreTouches DEF LeftInv, Inv, Kernel, AllModels
<1>2. KeyCount(kernel.keys) = 0
  BY DEF KeyCount
<1>3. ~kernel.short /\ ~(Cardinality(kernel.tracked) > 0)
  BY <1>1, <1>2 DEF Fits
<1> QED
  BY <1>1, <1>3, AllSlots

LEMMA SentIs ==
  ASSUME kernel \in Kernel
  PROVE  /\ Sent.keys = kernel.keys /\ Sent.tracked = kernel.tracked
         /\ Sent.changed = {} /\ ~Sent.keyed
         /\ Sent.short = (/\ model.has_mt /\ BTN_TOUCH \in kernel.keys
                          /\ Cardinality(kernel.tracked)
                               < Least(KeyCount(kernel.keys), model.real))
  BY DEF Sent, Kernel

LEMMA SentShort ==
  ASSUME LeftInv, Fits
  PROVE  ShortFrame(Sent)
<1> SUFFICES ASSUME Sent.short
             PROVE  /\ model.has_mt /\ model.quirk = "synaptics"
                    /\ BTN_TOUCH \in Sent.keys /\ KeyCount(Sent.keys) >= 3
  BY DEF ShortFrame
<1>1. kernel \in Kernel /\ kernel.tracked \in SUBSET Slots /\ ModelOK
  BY DEF LeftInv, Inv, Kernel
<1>2. /\ model.has_mt /\ BTN_TOUCH \in kernel.keys /\ Sent.keys = kernel.keys
      /\ Cardinality(kernel.tracked) < Least(KeyCount(kernel.keys), model.real)
  BY <1>1, SentIs
<1>3. Cardinality(kernel.tracked) \in Nat
  BY <1>1, AllSlots
<1>4. Cardinality(kernel.tracked) # Least(KeyCount(kernel.keys), model.real)
  <2>1. KeyCount(kernel.keys) \in Nat /\ model.real \in Nat
    BY <1>1, KeyCountIs, SlotsAreTouches DEF LeftInv, Left, KeysKnown, AllModels
  <2> QED
    BY <1>2, <1>3, <2>1 DEF Least
<1> QED
  BY <1>2, <1>4 DEF Fits

LEMMA ReportLeft ==
  ASSUME FewSlots, LeftInv, Report
  PROVE  Left(kernel', pad')
<1>1. ModelOK /\ kernel \in Kernel /\ Counted(pad) /\ Left(kernel, pad) /\ Fits
  BY DEF LeftInv, Inv, Report
<1>2. /\ kernel' = Sent /\ Sent.keys = kernel.keys /\ Sent.tracked = kernel.tracked
      /\ Sent.changed = {} /\ ~Sent.keyed
  BY <1>1, SentIs DEF Report
<1>3. ShortFrame(Sent)
  BY <1>1, SentShort
<1>4. CASE ~pad.open
  <2>1. pad' = pad /\ Empty(pad) /\ \A i \in Index : Lifted(pad.touch[i])
    BY <1>1, <1>4 DEF Report, Left, KeysKnown, Empty, Lifted
  <2>2. SlotsLifted(Sent, pad)
    BY <2>1 DEF SlotsLifted, Empty
  <2> QED
    BY <1>1, <1>2, <1>3, <1>4, <2>1, <2>2
       DEF Left, KeysKnown, SlotsCounted, EmptyWithoutKeys
<1>5. CASE pad.open
  <2> DEFINE new == HandleState(pad)
  <2>1. pad' = new
    BY <1>5 DEF Report
  <2>2. /\ Ending(new) /\ new.fake = pad.fake /\ new.nactive = pad.nactive
        /\ new.open /\ new.suspended = pad.suspended
    BY <1>1, <1>5, FrameSlots, HandleStateCounted DEF KeepsOpen
  <2>3. SlotsLifted(Sent, new)
    <3> SUFFICES ASSUME model.has_mt, NEW i \in Index, i < new.num_slots,
                        i \notin kernel.tracked, ~(i \in Slots /\ Sent.short)
                 PROVE  new.touch[i].state = "NONE"
      BY <1>2 DEF SlotsLifted, Lifted
    <3>1. i < pad.num_slots
      BY <1>1, SlotsOnlyReduced
    <3>2. IF i \in Slots THEN kernel.short \/ Lifted(pad.touch[i])
          ELSE pad.touch[i].state = "NONE"
      BY <1>1, <3>1 DEF Left, SlotsLifted
    <3>3. CASE i \notin Slots
      BY <1>1, <3>2, <3>3, SlotLifted DEF Lifted
    <3>4. CASE i \in Slots
      <4>1. kernel.tracked # Slots /\ ~Sent.short
        BY <3>4
      <4>2. ~kernel.short
        <5> SUFFICES ASSUME kernel.short PROVE FALSE
          OBVIOUS
        <5>1. model.quirk = "synaptics" /\ BTN_TOUCH \in kernel.keys /\ ~kernel.keyed
          BY <1>1 DEF Left, ShortFrame, Fits
        <5>2. KeyCount(kernel.keys) >= 3
          BY <1>1, <5>1 DEF Left, ShortFrame
        <5> QED
          BY <1>1, <4>1, <5>1, <5>2, TakenBack
      <4>3. model.quirk # "synaptics" \/ FingerCount(pad) < 3
        <5> SUFFICES ASSUME model.quirk = "synaptics", ~(FingerCount(pad) < 3) PROVE FALSE
          OBVIOUS
        <5>1. kernel.keys \in KeySets /\ pad.fake \subseteq kernel.keys
          BY <1>1 DEF Left, KeysKnown
        <5>2. BTN_TOUCH \in kernel.keys /\ KeyCount(kernel.keys) >= 3
          BY <1>1, <5>1, FingerCountIs
        <5> QED
          BY <1>1, <4>1, <5>2, TakenBack
      <4> QED
        BY <1>1, <3>2, <3>4, <4>2, <4>3, SlotLifted
    <3> QED
      BY <3>3, <3>4
  <2>4. kernel.keys = {} => Empty(new)
    <3> SUFFICES ASSUME kernel.keys = {} PROVE Empty(new)
      OBVIOUS
    <3>1. pad.fake = {} /\ Ending(pad)
      BY <1>1 DEF Left, KeysKnown
    <3>2. model.has_mt => \A i \in Index : i < pad.num_slots => Lifted(pad.touch[i])
      BY <1>1, NoKeysNoSlots DEF Left, SlotsLifted, Lifted
    <3> QED
      BY <1>1, <3>1, <3>2, EmptyFrame
  <2> HIDE DEF new
  <2> QED
    BY <1>1, <1>2, <1>3, <1>5, <2>1, <2>2, <2>3, <2>4
       DEF Left, KeysKnown, SlotsCounted, EmptyWithoutKeys
<1> QED
  BY <1>4, <1>5

LEMMA SuspendLeft ==
  ASSUME LeftInv, Suspend
  PROVE  Left(kernel', pad')
<1> DEFINE q == ClearState(pad)
           new == [q EXCEPT !.suspended = TRUE, !.open = model.topbuttons]
           k == [kernel EXCEPT !.heard = FALSE]
<1>1. pad' = new /\ kernel' = k
  BY DEF Suspend
<1>2. Counted(q) /\ q.nactive = pad.nactive /\ Empty(q) /\ q.fake = {}
  BY ClearStateCounted, ClearedIsEmpty DEF LeftInv, Inv, Left
<1> HIDE DEF q
<1>3. /\ new.touch = q.touch /\ new.fake = {} /\ new.nactive = pad.nactive
      /\ new.suspended /\ new.open = model.topbuttons /\ q \in Pad
  BY <1>2 DEF Counted, Pad
<1>4. /\ k.keys = kernel.keys /\ k.tracked = kernel.tracked /\ k.keyed = kernel.keyed
      /\ k.short = kernel.short
  BY DEF LeftInv, Inv, Kernel
<1> HIDE DEF k, new
<1>5. Empty(new) /\ Ending(new) /\ \A i \in Index : Lifted(new.touch[i])
  BY <1>2, <1>3 DEF Empty, Ending, Lifted
<1>6. SlotsCounted(k, new)
  <2>1. pad.open
    BY DEF Suspend, LeftInv, Left, KeysKnown
  <2> QED
    BY <1>3, <1>4, <2>1 DEF SlotsCounted, LeftInv, Left
<1> QED
  BY <1>1, <1>3, <1>4, <1>5, <1>6
     DEF LeftInv, Left, KeysKnown, ShortFrame, SlotsLifted, EmptyWithoutKeys, Empty

LEMMA ResumeLeft ==
  ASSUME LeftInv, Resume
  PROVE  Left(kernel', pad')
<1> DEFINE q == IF model.topbuttons THEN ClearState(pad) ELSE pad
           n == q.nactive + Cardinality(kernel.tracked)
           new == [q EXCEPT !.suspended = FALSE, !.open = TRUE, !.nactive = n]
           heard == kernel.keys = {}
           k == [kernel EXCEPT !.heard = heard]
<1>1. pad' = new /\ kernel' = k
  BY DEF Resume
<1>2. Counted(q) /\ Empty(q) /\ q.fake = {}
  <2>1. Counted(ClearState(pad)) /\ Empty(ClearState(pad)) /\ ClearState(pad).fake = {}
    BY ClearStateCounted, ClearedIsEmpty DEF LeftInv, Inv, Left
  <2>2. ~model.topbuttons => Empty(pad) /\ pad.fake = {}
    BY DEF LeftInv, Left, KeysKnown, Resume
  <2> QED
    BY <2>1, <2>2 DEF LeftInv, Inv
<1> HIDE DEF q
<1>3. Cardinality(kernel.tracked) \in Nat /\ q.nactive \in Nat
  BY <1>2, AllSlots DEF LeftInv, Inv, Kernel, Counted, Pad
<1>4. /\ new.touch = q.touch /\ new.fake = {} /\ new.nactive = n
      /\ new.open /\ ~new.suspended
  BY <1>2 DEF Counted, Pad
<1> HIDE DEF heard
<1>5. /\ k.keys = kernel.keys /\ k.tracked = kernel.tracked /\ k.keyed = kernel.keyed
      /\ k.short = kernel.short
  BY DEF LeftInv, Inv, Kernel
<1>6. Cardinality(kernel.tracked) <= n
  BY <1>3
<1> HIDE DEF k, new, n
<1>7. Empty(new) /\ Ending(new) /\ \A i \in Index : Lifted(new.touch[i])
  BY <1>2, <1>4 DEF Empty, Ending, Lifted
<1> QED
  BY <1>1, <1>4, <1>5, <1>6, <1>7
     DEF LeftInv, Left, KeysKnown, SlotsCounted, ShortFrame, SlotsLifted,
         EmptyWithoutKeys, Empty

\* In the middle of a frame only the touch of a slot that changed is another.
MidFrame(k, r) ==
  /\ Ending(r) /\ KeysKnown(k, r) /\ SlotsCounted(k, r) /\ ShortFrame(k)
  /\ k.changed # {} \/ k.keyed
  /\ k.short = kernel.short /\ r.num_slots = pad.num_slots
  /\ model.has_mt =>
       \A i \in Index : \/ i \in k.tracked
                        \/ i \in Slots /\ Lifted(r.touch[i])
                        \/ i \notin kernel.tracked /\ r.touch[i] = pad.touch[i]

LEMMA EventLeft ==
  ASSUME LeftInv, NEW k, NEW r, MidFrame(k, r)
  PROVE  Left(k, r)
<1>1. SlotsLifted(k, r)
  BY DEF SlotsLifted, LeftInv, Left, MidFrame
<1> QED
  BY <1>1 DEF Left, EmptyWithoutKeys, MidFrame

LEMMA SlotChanged ==
  ASSUME kernel \in Kernel, NEW s \in Slots, NEW tracked \in SUBSET Slots
  PROVE  LET k == [Changed(s) EXCEPT !.tracked = tracked]
         IN  /\ k.changed # {} /\ k.tracked = tracked
             /\ k.keys = kernel.keys /\ k.keyed = kernel.keyed /\ k.short = kernel.short
  BY DEF Changed, Kernel

LEMMA NActiveIs ==
  ASSUME NEW r \in Pad, NEW k \in Nat
  PROVE  LET new == [r EXCEPT !.nactive = k]
         IN  /\ new.touch = r.touch /\ new.nactive = k /\ new.num_slots = r.num_slots
             /\ new.fake = r.fake /\ new.open = r.open /\ new.suspended = r.suspended
  BY DEF Pad

LEMMA SlotBeginsLeft ==
  ASSUME LeftInv, NEW s \in Slots, NEW contact \in ContactValues, SlotBegins(s, contact)
  PROVE  Left(kernel', pad')
<1> DEFINE tracked == kernel.tracked \cup {s}
           k == [Changed(s) EXCEPT !.tracked = tracked]
<1>1. /\ ModelOK /\ kernel \in Kernel /\ Counted(pad) /\ pad \in Pad
      /\ kernel.tracked \in SUBSET Slots /\ tracked \in SUBSET Slots
  BY DEF LeftInv, Inv, Counted, Kernel
<1>2. kernel' = k
  BY <1>1 DEF SlotBegins, Changed, Kernel
<1>3. /\ k.changed # {} /\ k.tracked = tracked /\ k.keys = kernel.keys
      /\ k.keyed = kernel.keyed /\ k.short = kernel.short
  BY <1>1, SlotChanged
<1> HIDE DEF k
<1>4. ShortFrame(k)
  BY <1>3 DEF LeftInv, Left, ShortFrame
<1>5. s \in Index /\ {s} \in SUBSET Index /\ contact \in 0..2
  BY <1>1, SlotsAreTouches DEF ContactValues
<1>6. CASE ~pad.open
  <2>1. pad' = pad
    BY <1>6 DEF SlotBegins
  <2>2. Ending(pad) /\ KeysKnown(k, pad) /\ SlotsCounted(k, pad)
    BY <1>3, <1>6 DEF LeftInv, Left, KeysKnown, SlotsCounted
  <2>3. \A i \in Index : \/ i \in k.tracked
                         \/ i \in Slots /\ Lifted(pad.touch[i])
                         \/ i \notin kernel.tracked /\ pad.touch[i] = pad.touch[i]
    BY <1>3
  <2>4. Left(k, pad)
    BY <1>3, <1>4, <2>2, <2>3, EventLeft DEF MidFrame
  <2> QED
    BY <1>2, <2>1, <2>4
<1>7. CASE pad.open
  <2> DEFINE r == [pad EXCEPT !.nactive = pad.nactive + 1]
             q == NewTouches(r, {s})
             new == [q EXCEPT !.touch[s].dirty = TRUE, !.touch[s].contact = contact]
  <2>1. pad' = new
    BY <1>7 DEF SlotBegins
  <2>2. pad.nactive \in Nat /\ pad.nactive + 1 \in Nat
    BY <1>1 DEF Pad
  <2>3. /\ Counted(r) /\ r.touch = pad.touch /\ r.nactive = pad.nactive + 1
        /\ r.num_slots = pad.num_slots /\ r.fake = pad.fake /\ r.open = pad.open
        /\ r.suspended = pad.suspended
    BY <1>1, <2>2, NActiveSet, NActiveIs
  <2> HIDE DEF r
  <2>4. Counted(q) /\ SamePad(r, q) /\ r \in Pad
    BY <1>1, <1>5, <2>3, NewTouchesCounted DEF Counted
  <2>5. /\ q.touch[s] = NewTouch(pad.touch[s])
        /\ \A i \in Index : i # s => q.touch[i] = pad.touch[i]
    BY <1>5, <2>3, <2>4 DEF NewTouches, Pad
  <2> HIDE DEF q
  <2>6. SamePad(q, new)
    BY <1>1, <1>5, <2>4, AxesCounted, Zenon
  <2>7. q \in Pad
    BY <2>4 DEF Counted
  <2>8. /\ new.touch[s].state = q.touch[s].state
        /\ \A i \in Index : i # s => new.touch[i] = q.touch[i]
    BY <1>5, <2>7 DEF Pad, Touch
  <2> HIDE DEF new
  <2>9. Ending(new)
    <3>1. pad.touch[s] \in Touch /\ \A i \in Index : pad.touch[i].state # "END"
      BY <1>1, <1>5 DEF Pad, LeftInv, Left, Ending
    <3>2. NewTouch(pad.touch[s]).state # "END"
      BY <1>5, <3>1 DEF NewTouch, Touch
    <3> QED
      BY <2>5, <2>8, <3>1, <3>2 DEF Ending
  <2>10. KeysKnown(k, new)
    BY <1>3, <1>7, <2>3, <2>4, <2>6 DEF LeftInv, Left, KeysKnown, SamePad
  <2>11. SlotsCounted(k, new)
    <3>1. s \notin kernel.tracked /\ IsFiniteSet(kernel.tracked)
      BY <1>1, SlotsAreTouches, FS_Subset DEF SlotBegins
    <3>2. Cardinality(tracked) = Cardinality(kernel.tracked) + 1
      BY <3>1, FS_AddElement
    <3>3. new.nactive = pad.nactive + 1
      BY <2>3, <2>4, <2>6 DEF SamePad
    <3>4. Cardinality(kernel.tracked) <= pad.nactive /\ Cardinality(kernel.tracked) \in Nat
      BY <1>1, <1>7, AllSlots DEF LeftInv, Left, SlotsCounted
    <3> HIDE DEF tracked
    <3> QED
      BY <1>3, <2>2, <3>2, <3>3, <3>4 DEF SlotsCounted
  <2>12. \A i \in Index : \/ i \in k.tracked
                          \/ i \in Slots /\ Lifted(new.touch[i])
                          \/ i \notin kernel.tracked /\ new.touch[i] = pad.touch[i]
    BY <1>3, <2>5, <2>8
  <2>13. new.num_slots = pad.num_slots
    BY <2>3, <2>4, <2>6 DEF SamePad
  <2>14. Left(k, new)
    BY <1>3, <1>4, <2>9, <2>10, <2>11, <2>12, <2>13, EventLeft DEF MidFrame
  <2> QED
    BY <1>2, <2>1, <2>14
<1> QED
  BY <1>6, <1>7

LEMMA SlotEndsLeft ==
  ASSUME LeftInv, NEW s \in Slots, SlotEnds(s)
  PROVE  Left(kernel', pad')
<1> DEFINE tracked == kernel.tracked \ {s}
           k == [Changed(s) EXCEPT !.tracked = tracked]
<1>1. /\ ModelOK /\ kernel \in Kernel /\ Counted(pad) /\ pad \in Pad
      /\ kernel.tracked \in SUBSET Slots /\ tracked \in SUBSET Slots
  BY DEF LeftInv, Inv, Counted, Kernel
<1>2. kernel' = k
  BY <1>1 DEF SlotEnds, Changed, Kernel
<1>3. /\ k.changed # {} /\ k.tracked = tracked /\ k.keys = kernel.keys
      /\ k.keyed = kernel.keyed /\ k.short = kernel.short
  BY <1>1, SlotChanged
<1> HIDE DEF k
<1>4. ShortFrame(k)
  BY <1>3 DEF LeftInv, Left, ShortFrame
<1>5. s \in Index /\ {s} \in SUBSET Index
  BY <1>1, SlotsAreTouches
<1>6. /\ s \in kernel.tracked /\ Cardinality(kernel.tracked) \in Nat
      /\ Cardinality(tracked) = Cardinality(kernel.tracked) - 1
      /\ Cardinality(tracked) \in Nat
  <2>1. s \in kernel.tracked /\ IsFiniteSet(kernel.tracked)
    BY <1>1, SlotsAreTouches, FS_Subset DEF SlotEnds
  <2> QED
    BY <1>1, <2>1, AllSlots, FS_RemoveElement
<1>7. CASE ~pad.open
  <2>1. pad' = pad
    BY <1>7 DEF SlotEnds
  <2>2. Ending(pad) /\ KeysKnown(k, pad) /\ SlotsCounted(k, pad)
    BY <1>3, <1>7 DEF LeftInv, Left, KeysKnown, SlotsCounted
  <2>3. Lifted(pad.touch[s])
    BY <1>5, <1>7 DEF LeftInv, Left, KeysKnown, Empty, Lifted
  <2>4. \A i \in Index : \/ i \in k.tracked
                         \/ i \in Slots /\ Lifted(pad.touch[i])
                         \/ i \notin kernel.tracked /\ pad.touch[i] = pad.touch[i]
    BY <1>3, <2>3
  <2>5. Left(k, pad)
    BY <1>3, <1>4, <2>2, <2>4, EventLeft DEF MidFrame
  <2> QED
    BY <1>2, <2>1, <2>5
<1>8. CASE pad.open
  <2>1. Cardinality(kernel.tracked) <= pad.nactive /\ pad.nactive \in Nat
    BY <1>1, <1>8 DEF LeftInv, Left, SlotsCounted, Pad
  <2>2. pad.nactive # 0 /\ pad.nactive - 1 \in Nat
    BY <1>6, <2>1
  <2> DEFINE r == [pad EXCEPT !.nactive = pad.nactive - 1]
             new == EndSequences(r, {s})
  <2>3. pad' = new
    BY <1>8, <2>2 DEF SlotEnds
  <2>4. /\ Counted(r) /\ r.touch = pad.touch /\ r.nactive = pad.nactive - 1
        /\ r.num_slots = pad.num_slots /\ r.fake = pad.fake /\ r.open = pad.open
        /\ r.suspended = pad.suspended
    BY <1>1, <2>2, NActiveSet, NActiveIs
  <2> HIDE DEF r
  <2>5. SamePad(r, new) /\ r \in Pad
    BY <1>1, <1>5, <2>4, EndSequencesCounted DEF Counted
  <2>6. /\ new.touch[s] = Stopped(pad.touch[s])
        /\ \A i \in Index : i # s => new.touch[i] = pad.touch[i]
    BY <1>5, <2>4, <2>5, SequenceEnded
  <2> HIDE DEF new
  <2>7. pad.touch[s] \in Touch /\ \A i \in Index : pad.touch[i].state # "END"
    BY <1>1, <1>5 DEF Pad, LeftInv, Left, Ending
  <2>8. Lifted(Stopped(pad.touch[s])) /\ Stopped(pad.touch[s]).state # "END"
    BY <1>5, <2>7, StoppedIs
  <2>9. Ending(new)
    BY <2>6, <2>7, <2>8 DEF Ending
  <2>10. KeysKnown(k, new)
    BY <1>3, <1>8, <2>4, <2>5 DEF LeftInv, Left, KeysKnown, SamePad
  <2>11. SlotsCounted(k, new)
    BY <1>3, <1>6, <2>1, <2>4, <2>5 DEF SlotsCounted, SamePad
  <2>12. \A i \in Index : \/ i \in k.tracked
                          \/ i \in Slots /\ Lifted(new.touch[i])
                          \/ i \notin kernel.tracked /\ new.touch[i] = pad.touch[i]
    BY <1>3, <2>6, <2>8
  <2>13. new.num_slots = pad.num_slots
    BY <2>4, <2>5 DEF SamePad
  <2>14. Left(k, new)
    BY <1>3, <1>4, <2>9, <2>10, <2>11, <2>12, <2>13, EventLeft DEF MidFrame
  <2> QED
    BY <1>2, <2>3, <2>14
<1> QED
  BY <1>7, <1>8

LEMMA MovesLeft ==
  ASSUME LeftInv, NEW s \in Slots, NEW contact \in ContactValues, Moves(s, contact)
  PROVE  Left(kernel', pad')
<1> DEFINE k == Changed(s)
           new == [pad EXCEPT !.touch[s].dirty = TRUE, !.touch[s].contact = contact]
<1>1. /\ ModelOK /\ kernel \in Kernel /\ Counted(pad) /\ pad \in Pad
      /\ pad.touch \in [Index -> Touch]
  BY DEF LeftInv, Inv, Counted, Pad
<1>2. /\ k.changed # {} /\ k.tracked = kernel.tracked /\ k.keys = kernel.keys
      /\ k.keyed = kernel.keyed /\ k.short = kernel.short /\ kernel' = k
  BY <1>1 DEF Changed, Kernel, Moves
<1>3. s \in Index /\ contact \in 0..2
  BY <1>1, SlotsAreTouches DEF ContactValues
<1>4. SamePad(pad, new)
  BY <1>1, <1>3, AxesCounted, Zenon
<1>5. /\ \A i \in Index : new.touch[i].state = pad.touch[i].state
      /\ \A i \in Index : i # s => new.touch[i] = pad.touch[i]
  BY <1>1, <1>3 DEF Pad, Touch
<1>6. pad' \in {pad, new}
  BY DEF Moves
<1> HIDE DEF k, new
<1>7. ASSUME NEW r \in {pad, new} PROVE Left(k, r)
  <2>1. /\ r.nactive = pad.nactive /\ r.num_slots = pad.num_slots /\ r.fake = pad.fake
        /\ r.open = pad.open /\ r.suspended = pad.suspended
    BY <1>4 DEF SamePad
  <2>2. /\ \A i \in Index : r.touch[i].state = pad.touch[i].state
        /\ \A i \in Index : i # s => r.touch[i] = pad.touch[i]
    BY <1>5
  <2>3. Ending(r) /\ KeysKnown(k, r) /\ SlotsCounted(k, r) /\ ShortFrame(k)
    BY <1>2, <2>1, <2>2
       DEF LeftInv, Left, Ending, Empty, KeysKnown, SlotsCounted, ShortFrame
  <2>4. model.has_mt =>
          \A i \in Index : \/ i \in k.tracked
                           \/ i \in Slots /\ Lifted(r.touch[i])
                           \/ i \notin kernel.tracked /\ r.touch[i] = pad.touch[i]
    BY <1>2, <2>2 DEF Moves
  <2> QED
    BY <1>2, <2>1, <2>3, <2>4, EventLeft DEF MidFrame
<1> QED
  BY <1>2, <1>6, <1>7

LEMMA FakesKnown ==
  ASSUME ModelOK, NEW keys \in KeySets, NEW old \in KeySets, keys # old,
         NEW r \in Pad, r.fake \subseteq old
  PROVE  FakeFingers(r, keys \ old, old \ keys).fake \subseteq keys
<1> DEFINE new == FakeFingers(r, keys \ old, old \ keys)
<1>1. CASE OVERFLOW \in new.fake
  <2>1. \/ OVERFLOW \in keys \ old
        \/ OVERFLOW \in old /\ keys \ old = {} /\ BTN_TOUCH \notin old \ keys
    BY <1>1 DEF FakeFingers, Pad
  <2>2. OVERFLOW \in keys
    <3> SUFFICES ASSUME OVERFLOW \in old, keys \subseteq old, BTN_TOUCH \notin old \ keys
                 PROVE  OVERFLOW \in keys
      BY <2>1
    <3>1. old = {BTN_TOUCH, OVERFLOW} /\ BTN_TOUCH \in keys
      BY KeyCountIs DEF BTN_TOUCH, OVERFLOW
    <3>2. PICK n \in 1..5 : keys = {BTN_TOUCH, n}
      BY <3>1, KeyCountIs DEF BTN_TOUCH
    <3> QED
      BY <3>1, <3>2 DEF BTN_TOUCH, OVERFLOW
  <2> QED
    BY <2>2 DEF FakeFingers, Pad
<1>2. CASE OVERFLOW \notin new.fake
  BY <1>2 DEF FakeFingers, Pad
<1> QED
  BY <1>1, <1>2

LEMMA KeysLeft ==
  ASSUME LeftInv, NEW keys \in KeySets, Keys(keys)
  PROVE  Left(kernel', pad')
<1> DEFINE up == KeyCount(keys) > KeyCount(kernel.keys)
           k == [kernel EXCEPT !.keys = keys, !.keyed = TRUE, !.up = up]
           new == FakeFingers(pad, keys \ kernel.keys, kernel.keys \ keys)
<1>1. /\ ModelOK /\ kernel \in Kernel /\ pad \in Pad /\ kernel.keys \in KeySets
      /\ pad.fake \subseteq kernel.keys
  BY DEF LeftInv, Inv, Counted, Left, KeysKnown
<1> HIDE DEF up
<1>2. /\ k.tracked = kernel.tracked /\ k.keys = keys /\ k.keyed /\ k.short = kernel.short
  BY <1>1 DEF Kernel
<1>3. kernel' = k
  BY DEF Keys, up
<1>4. new.fake \subseteq keys
  BY <1>1, FakesKnown DEF Keys
<1>5. /\ new.touch = pad.touch /\ new.nactive = pad.nactive /\ new.num_slots = pad.num_slots
      /\ new.open = pad.open /\ new.suspended = pad.suspended
  BY <1>1 DEF FakeFingers, Pad
<1>6. pad' = IF ~pad.open THEN pad ELSE new
  BY DEF Keys
<1> HIDE DEF k, new
<1>7. ShortFrame(k)
  BY <1>2 DEF LeftInv, Left, ShortFrame
<1>8. ASSUME NEW r, r = IF ~pad.open THEN pad ELSE new PROVE Left(k, r)
  <2>1. /\ r.touch = pad.touch /\ r.nactive = pad.nactive /\ r.num_slots = pad.num_slots
        /\ r.open = pad.open /\ r.suspended = pad.suspended
    BY <1>5, <1>8
  <2>2. r.fake \subseteq keys /\ (~r.open => r.fake = {})
    BY <1>4, <1>8, <2>1 DEF LeftInv, Left, KeysKnown
  <2>3. Ending(r) /\ KeysKnown(k, r) /\ SlotsCounted(k, r)
    BY <1>2, <2>1, <2>2 DEF LeftInv, Left, Ending, Empty, KeysKnown, SlotsCounted
  <2>4. model.has_mt =>
          \A i \in Index : \/ i \in k.tracked
                           \/ i \in Slots /\ Lifted(r.touch[i])
                           \/ i \notin kernel.tracked /\ r.touch[i] = pad.touch[i]
    BY <1>2, <2>1
  <2> QED
    BY <1>2, <1>7, <2>1, <2>3, <2>4, EventLeft DEF MidFrame
<1> QED
  BY <1>3, <1>6, <1>8

LEMMA InitLeft == TouchesInit => LeftInv
<1> SUFFICES ASSUME TouchesInit PROVE LeftInv
  OBVIOUS
<1>1. Inv /\ ModelOK
  BY InitInv DEF Inv
<1>2. PICK tracked \in SUBSET Slots, keys \in KeySets :
        /\ kernel = [tracked |-> tracked, keys |-> keys, changed |-> {},
                     keyed |-> FALSE, up |-> FALSE, short |-> FALSE,
                     heard |-> keys = {}]
        /\ pad = [touch |-> [i \in Index |-> NoTouch], nfingers |-> 0,
                  nactive |-> Cardinality(tracked), num_slots |-> model.num_slots,
                  fake |-> keys \cap {1}, open |-> TRUE, suspended |-> FALSE]
  BY DEF TouchesInit
<1>3. Empty(pad) /\ Ending(pad) /\ \A i \in Index : Lifted(pad.touch[i])
  BY <1>2 DEF Empty, Ending, Lifted, NoTouch
<1>4. Cardinality(tracked) \in Nat
  BY <1>1, AllSlots
<1>5. KeysKnown(kernel, pad) /\ SlotsCounted(kernel, pad) /\ ShortFrame(kernel)
  BY <1>2, <1>4 DEF KeysKnown, SlotsCounted, ShortFrame
<1> QED
  BY <1>1, <1>3, <1>5 DEF LeftInv, Left, SlotsLifted, EmptyWithoutKeys, Empty

LEMMA StepLeft == FewSlots /\ LeftInv /\ [TouchesNext]_touchVars => LeftInv'
<1> SUFFICES ASSUME FewSlots, LeftInv, [TouchesNext]_touchVars PROVE LeftInv'
  OBVIOUS
<1>1. Inv'
  BY StepInv DEF LeftInv
<1>2. UNCHANGED model
  BY DEF TouchesNext, touchVars, SlotBegins, SlotEnds, Moves, Keys, Report, Suspend, Resume
<1>3. Left(kernel', pad')
  <2>1. ASSUME NEW s \in Slots, NEW contact \in ContactValues, SlotBegins(s, contact)
        PROVE  Left(kernel', pad')
    BY <2>1, SlotBeginsLeft
  <2>2. ASSUME NEW s \in Slots, SlotEnds(s) PROVE Left(kernel', pad')
    BY <2>2, SlotEndsLeft
  <2>3. ASSUME NEW s \in Slots, NEW contact \in ContactValues, Moves(s, contact)
        PROVE  Left(kernel', pad')
    BY <2>3, MovesLeft
  <2>4. ASSUME NEW keys \in KeySets, Keys(keys) PROVE Left(kernel', pad')
    BY <2>4, KeysLeft
  <2>5. CASE Report
    BY <2>5, ReportLeft
  <2>6. CASE Suspend
    BY <2>6, SuspendLeft
  <2>7. CASE Resume
    BY <2>7, ResumeLeft
  <2>8. CASE UNCHANGED touchVars
    BY <2>8 DEF touchVars, LeftInv
  <2> QED
    BY <2>1, <2>2, <2>3, <2>4, <2>5, <2>6, <2>7, <2>8 DEF TouchesNext
<1> QED
  BY <1>1, <1>2, <1>3, PrimedLeft DEF LeftInv

\* Once the surface is empty no touch is left and none is counted, whatever was
\* suspended, cleared or not heard of before (tp_process_fake_touches,
\* tp_clear_state, evdev-mt-touchpad.c:594), on touchpads where a touch that
\* was taken back has a slot of its own again in the next frame.
THEOREM NothingIsLeft ==
  ASSUME FewSlots
  PROVE  TouchesSpec => []NothingLeftBehind
<1>1. LeftInv => NothingLeftBehind
  <2> SUFFICES ASSUME LeftInv, pad.open, Between, kernel.keys = {}
               PROVE  Empty(pad) /\ pad.nfingers = 0
    BY DEF NothingLeftBehind, Empty
  <2>1. Empty(pad)
    BY DEF LeftInv, Left, EmptyWithoutKeys, Between
  <2>2. Down(pad) = {}
    BY <2>1 DEF Empty, Down, In, DownStates
  <2> QED
    BY <2>1, <2>2, FS_EmptySet DEF LeftInv, Inv, Counted
<1>2. LeftInv /\ [TouchesNext]_touchVars => LeftInv'
  BY StepLeft
<1>3. TouchesSpec => []LeftInv
  BY InitLeft, <1>2, PTL DEF TouchesSpec
<1> QED
  BY <1>1, <1>3, PTL
-----------------------------------------------------------------------------
(* The first and the last of a set of touches.                             *)

LEMMA Injected ==
  ASSUME NEW U, NEW T, NEW rank, \A i \in U : rank[i] \in T,
         \A i, j \in U : rank[i] = rank[j] => i = j
  PROVE  [i \in U |-> rank[i]] \in Injection(U, T)
<1> DEFINE f == [i \in U |-> rank[i]]
<1>1. f \in [U -> T]
  OBVIOUS
<1>2. \A i, j \in DOMAIN f : f[i] = f[j] => i = j
  OBVIOUS
<1> QED
  BY <1>1, <1>2, Zenon DEF Injection, IsInjective

\* Numbered one by one, the members below k are k, or all.
LEMMA Ranked ==
  ASSUME NEW S, IsFiniteSet(S), NEW rank \in [S -> 0..(Cardinality(S) - 1)],
         \A i, j \in S : rank[i] = rank[j] => i = j, NEW k \in Nat
  PROVE  Cardinality({i \in S : rank[i] < k}) = Least(k, Cardinality(S))
<1> DEFINE n == Cardinality(S)
           U == {i \in S : rank[i] < k}
           V == {i \in S : ~(rank[i] < k)}
<1>1. n \in Nat
  BY FS_CardinalityType
<1>2. IsFiniteSet(U) /\ IsFiniteSet(V) /\ Cardinality(U) \in Nat /\ Cardinality(V) \in Nat
  <2>1. U \in SUBSET S /\ V \in SUBSET S
    OBVIOUS
  <2> QED
    BY <2>1, FS_Subset, FS_CardinalityType
<1>3. Cardinality(U) + Cardinality(V) = n
  <2>1. U \cup V = S /\ U \cap V = {}
    OBVIOUS
  <2>2. Cardinality(U \cap V) = 0
    BY <2>1, FS_EmptySet
  <2> HIDE DEF U, V, n
  <2>3. Cardinality(U \cup V) = Cardinality(U) + Cardinality(V) - Cardinality(U \cap V)
    BY <1>2, FS_Union
  <2> QED
    <3>1. Cardinality(U \cup V) = n
      BY <2>1 DEF n
    <3> QED
      BY <1>2, <2>2, <2>3, <3>1
<1>4. CASE k >= n
  <2>1. V = {}
    BY <1>1, <1>4
  <2>2. Cardinality(V) = 0
    BY <2>1, FS_EmptySet
  <2> HIDE DEF U, V, n
  <2>3. Cardinality(U) = n
    BY <1>1, <1>2, <1>3, <2>2
  <2> QED
    BY <1>1, <1>4, <2>3 DEF Least, U, n
<1>5. CASE k < n
  <2>1. Cardinality(U) <= k
    <3>1. [i \in U |-> rank[i]] \in Injection(U, 0..(k - 1))
      <4>1. /\ \A i \in U : rank[i] \in 0..(k - 1)
            /\ \A i, j \in U : rank[i] = rank[j] => i = j
        BY <1>1, <1>5
      <4> HIDE DEF U
      <4> QED
        BY <4>1, Injected
    <3>2. IsFiniteSet(0..(k - 1)) /\ Cardinality(0..(k - 1)) = k
      <4>1. 0 \in Int /\ k - 1 \in Int
        OBVIOUS
      <4>2. Cardinality(0..(k - 1)) = IF 0 > k - 1 THEN 0 ELSE k - 1 - 0 + 1
        BY <4>1, FS_Interval
      <4> QED
        BY <4>1, <4>2, FS_Interval
    <3> HIDE DEF U
    <3> QED
      BY <3>1, <3>2, FS_Injection
  <2>2. Cardinality(V) <= n - k
    <3>1. [i \in V |-> rank[i]] \in Injection(V, k..(n - 1))
      <4>1. /\ \A i \in V : rank[i] \in k..(n - 1)
            /\ \A i, j \in V : rank[i] = rank[j] => i = j
        BY <1>1, <1>5
      <4> HIDE DEF V, n
      <4> QED
        BY <4>1, Injected
    <3>2. IsFiniteSet(k..(n - 1)) /\ Cardinality(k..(n - 1)) = n - k
      <4>1. k \in Int /\ n - 1 \in Int
        BY <1>1
      <4> HIDE DEF n
      <4>2. Cardinality(k..(n - 1)) = IF k > n - 1 THEN 0 ELSE n - 1 - k + 1
        BY <4>1, FS_Interval
      <4> QED
        BY <1>1, <1>5, <4>1, <4>2, FS_Interval
    <3> HIDE DEF V, n
    <3> QED
      BY <3>1, <3>2, FS_Injection
  <2> HIDE DEF U, V, n
  <2>3. Cardinality(U) = k
    BY <1>1, <1>2, <1>3, <1>5, <2>1, <2>2
  <2> QED
    BY <1>1, <1>5, <2>3 DEF Least, U, n
<1> QED
  BY <1>1, <1>4, <1>5

\* How many of S are before i, and after it.
LEMMA FirstCounted ==
  ASSUME NEW S \in SUBSET Int, IsFiniteSet(S), NEW k \in Nat
  PROVE  First(S, k) \subseteq S /\ Cardinality(First(S, k)) = Least(k, Cardinality(S))
<1> DEFINE before(i) == {j \in S : j < i}
           rank == [i \in S |-> Cardinality(before(i))]
<1>1. \A i \in S : /\ IsFiniteSet(before(i)) /\ Cardinality(before(i)) \in Nat
                   /\ Cardinality(before(i)) < Cardinality(S)
  <2> TAKE i \in S
  <2>1. before(i) \in SUBSET S /\ before(i) # S
    OBVIOUS
  <2> HIDE DEF before
  <2>2. Cardinality(before(i)) \in Nat /\ Cardinality(S) \in Nat
    BY <2>1, FS_Subset, FS_CardinalityType
  <2> QED
    BY <2>1, <2>2, FS_Subset
<1>2. \A i, j \in S : i < j => Cardinality(before(i)) < Cardinality(before(j))
  <2> TAKE i, j \in S
  <2> HAVE i < j
  <2>1. before(i) \in SUBSET before(j) /\ before(i) # before(j)
    <3>1. i \in before(j) /\ i \notin before(i)
      OBVIOUS
    <3>3. ASSUME NEW m \in before(i) PROVE m \in before(j)
      <4>1. m \in S /\ m \in Int /\ m < i /\ i \in Int /\ j \in Int
        OBVIOUS
      <4>2. m < j
        BY <4>1
      <4> QED
        BY <4>1, <4>2
    <3> HIDE DEF before
    <3> QED
      BY <3>1, <3>3
  <2> HIDE DEF before
  <2> QED
    BY <1>1, <2>1, FS_Subset
<1> HIDE DEF before
<1>3. Cardinality(S) \in Nat
  BY FS_CardinalityType
<1>4. rank \in [S -> 0..(Cardinality(S) - 1)]
  BY <1>1, <1>3
<1>5. \A i, j \in S : rank[i] = rank[j] => i = j
  <2> SUFFICES ASSUME NEW i \in S, NEW j \in S, rank[i] = rank[j] PROVE i = j
    OBVIOUS
  <2>1. i < j \/ j < i \/ i = j
    OBVIOUS
  <2> QED
    BY <1>1, <1>2, <2>1
<1>6. First(S, k) = {i \in S : rank[i] < k}
  BY DEF First, before
<1> HIDE DEF rank
<1>7. Cardinality({i \in S : rank[i] < k}) = Least(k, Cardinality(S))
  BY <1>4, <1>5, Ranked
<1> QED
  BY <1>6, <1>7

LEMMA LastCounted ==
  ASSUME NEW S \in SUBSET Int, IsFiniteSet(S), NEW k \in Nat
  PROVE  Last(S, k) \subseteq S /\ Cardinality(Last(S, k)) = Least(k, Cardinality(S))
<1> DEFINE after(i) == {j \in S : j > i}
           rank == [i \in S |-> Cardinality(after(i))]
<1>1. \A i \in S : /\ IsFiniteSet(after(i)) /\ Cardinality(after(i)) \in Nat
                   /\ Cardinality(after(i)) < Cardinality(S)
  <2> TAKE i \in S
  <2>1. after(i) \in SUBSET S /\ after(i) # S
    OBVIOUS
  <2> HIDE DEF after
  <2>2. Cardinality(after(i)) \in Nat /\ Cardinality(S) \in Nat
    BY <2>1, FS_Subset, FS_CardinalityType
  <2> QED
    BY <2>1, <2>2, FS_Subset
<1>2. \A i, j \in S : i < j => Cardinality(after(j)) < Cardinality(after(i))
  <2> TAKE i, j \in S
  <2> HAVE i < j
  <2>1. after(j) \in SUBSET after(i) /\ after(i) # after(j)
    <3>1. j \in after(i) /\ j \notin after(j)
      OBVIOUS
    <3>3. ASSUME NEW m \in after(j) PROVE m \in after(i)
      <4>1. m \in S /\ m \in Int /\ j < m /\ i \in Int /\ j \in Int
        OBVIOUS
      <4>2. i < m
        BY <4>1
      <4> QED
        BY <4>1, <4>2
    <3> HIDE DEF after
    <3> QED
      BY <3>1, <3>3
  <2> HIDE DEF after
  <2> QED
    BY <1>1, <2>1, FS_Subset
<1> HIDE DEF after
<1>3. Cardinality(S) \in Nat
  BY FS_CardinalityType
<1>4. rank \in [S -> 0..(Cardinality(S) - 1)]
  BY <1>1, <1>3
<1>5. \A i, j \in S : rank[i] = rank[j] => i = j
  <2> SUFFICES ASSUME NEW i \in S, NEW j \in S, rank[i] = rank[j] PROVE i = j
    OBVIOUS
  <2>1. i < j \/ j < i \/ i = j
    OBVIOUS
  <2> QED
    BY <1>1, <1>2, <2>1
<1>6. Last(S, k) = {i \in S : rank[i] < k}
  BY DEF Last, after
<1> HIDE DEF rank
<1>7. Cardinality({i \in S : rank[i] < k}) = Least(k, Cardinality(S))
  BY <1>4, <1>5, Ranked
<1> QED
  BY <1>6, <1>7

\* With more than k touches the last ones beyond k are not among the first k.
LEMMA LastSpares ==
  ASSUME NEW S \in SUBSET Int, IsFiniteSet(S), S \subseteq Nat,
         NEW i \in S, NEW k \in Nat, i < k, Cardinality(S) > k
  PROVE  i \notin Last(S, Cardinality(S) - k)
<1> DEFINE before == {j \in S : j < i}
           after == {j \in S : j > i}
<1>1. IsFiniteSet(before) /\ IsFiniteSet(after)
  <2>1. before \in SUBSET S /\ after \in SUBSET S
    OBVIOUS
  <2> QED
    BY <2>1, FS_Subset
<1>2. Cardinality(before) \in Nat /\ Cardinality(after) \in Nat /\ Cardinality(S) \in Nat
  BY <1>1, FS_CardinalityType
<1>3. Cardinality(before) <= i
  <2>1. before \in SUBSET (0..(i - 1))
    <3>1. \A j \in S : j \in Nat
      OBVIOUS
    <3>2. \A j \in before : j \in Nat /\ j < i
      BY <3>1
    <3> HIDE DEF before
    <3> QED
      BY <3>2
  <2>2. IsFiniteSet(0..(i - 1)) /\ Cardinality(0..(i - 1)) = i
    <3>1. 0 \in Int /\ i - 1 \in Int /\ i >= 0
      OBVIOUS
    <3>2. Cardinality(0..(i - 1)) = IF 0 > i - 1 THEN 0 ELSE i - 1 - 0 + 1
      BY <3>1, FS_Interval
    <3> QED
      BY <3>1, <3>2, FS_Interval
  <2> HIDE DEF before
  <2> QED
    BY <2>1, <2>2, FS_Subset
<1>4. Cardinality(before) + Cardinality(after) + 1 = Cardinality(S)
  <2>1. S = (before \cup after) \cup {i} /\ before \cap after = {} /\ i \notin before \cup after
    <3>1. \A j \in S : j \in Int /\ (j < i \/ j > i \/ j = i) /\ ~(j < i /\ j > i)
      OBVIOUS
    <3>2. ~(i < i) /\ ~(i > i)
      OBVIOUS
    <3>3. \A j : j \in S <=> j \in before \/ j \in after \/ j = i
      BY <3>1
    <3> QED
      BY <3>1, <3>2, <3>3
  <2> HIDE DEF before, after
  <2>2. Cardinality(before \cap after) = 0
    BY <2>1, FS_EmptySet
  <2>3. /\ Cardinality(before \cup after) = Cardinality(before) + Cardinality(after) - 0
        /\ IsFiniteSet(before \cup after)
    BY <1>1, <2>2, FS_Union
  <2>4. Cardinality((before \cup after) \cup {i}) = Cardinality(before \cup after) + 1
    BY <2>1, <2>3, FS_AddElement
  <2> QED
    BY <1>2, <2>1, <2>3, <2>4
<1> HIDE DEF before
<1>5. ~(Cardinality(after) < Cardinality(S) - k)
  BY <1>2, <1>3, <1>4
<1> QED
  BY <1>5 DEF Last

-----------------------------------------------------------------------------
(* What a frame makes of the number of touches that are down.              *)

ActiveStates == {"HOVERING", "BEGIN", "UPDATE"}
Active(r) == In(r, ActiveStates)

\* A touch with a finger stays one while contact is looked at.
Present(t) == t.state \in ActiveStates \cup {"MAYBE_END"}
Stays(t, u) ==
  /\ u.has_ended = t.has_ended /\ u.contact = t.contact
  /\ t.dirty => u.dirty
  /\ Present(t) => Present(u)

StayIn(p, q) == \A i \in Index : Stays(p.touch[i], q.touch[i])

LEMMA Staying ==
  ASSUME NEW t \in Touch
  PROVE  /\ Begun(t) \in Touch /\ Begun(t).state = "BEGIN" /\ Stays(t, Begun(t))
         /\ t.state \in DownStates =>
              /\ MaybeEndTouch(t) \in Touch /\ MaybeEndTouch(t).state = "MAYBE_END"
              /\ Stays(t, MaybeEndTouch(t))
<1>1. Begun(t) \in Touch
  <2>1. "BEGIN" \in TouchStates
    BY DEF TouchStates
  <2> QED
    BY <2>1, Zenon DEF Touch, Begun
<1>2. Begun(t).state = "BEGIN" /\ Stays(t, Begun(t))
  BY DEF Begun, Touch, Stays, Present, ActiveStates
<1>3. ASSUME t.state \in DownStates
      PROVE  /\ MaybeEndTouch(t) \in Touch /\ MaybeEndTouch(t).state = "MAYBE_END"
             /\ Stays(t, MaybeEndTouch(t))
  <2>1. MaybeEndTouch(t) \in Touch
    BY MaybeEndTouchTyped
  <2>2. MaybeEndTouch(t) = [t EXCEPT !.state = "MAYBE_END", !.dirty = TRUE]
    BY <1>3 DEF MaybeEndTouch, DownStates
  <2>3. MaybeEndTouch(t).state = "MAYBE_END" /\ Stays(t, MaybeEndTouch(t))
    BY <2>2 DEF Touch, Stays, Present, ActiveStates
  <2> QED
    BY <2>1, <2>3
<1> QED
  BY <1>1, <1>2, <1>3

LEMMA StayTogether ==
  ASSUME NEW p, NEW q, NEW r, StayIn(p, q), StayIn(q, r)
  PROVE  StayIn(p, r)
  BY DEF StayIn, Stays

LEMMA BeginsIs ==
  ASSUME ModelOK, NEW p, Counted(p), NEW S \in SUBSET Hovering(p)
  PROVE  LET q == BeginTouches(p, S)
         IN  /\ Counted(q) /\ SamePad(p, q) /\ StayIn(p, q)
             /\ q.nfingers = p.nfingers + Cardinality(S)
             /\ Down(q) = Down(p) \cup S /\ Active(q) = Active(p)
             /\ \A i \in Index : i \notin S => q.touch[i] = p.touch[i]
<1> DEFINE q == BeginTouches(p, S)
<1>1. Counted(q) /\ SamePad(p, q) /\ p \in Pad
  BY BeginTouchesCounted DEF Counted
<1>2. /\ q.nfingers = p.nfingers + Cardinality(S)
      /\ q.touch = [i \in Index |-> IF i \in S THEN Begun(p.touch[i]) ELSE p.touch[i]]
  BY <1>1 DEF BeginTouches, Pad, Begun
<1> HIDE DEF q
<1>3. \A i \in Index : /\ i \in S => q.touch[i] = Begun(p.touch[i])
                       /\ i \notin S => q.touch[i] = p.touch[i]
  BY <1>2
<1>4. \A i \in Index : p.touch[i] \in Touch /\ (i \in S => p.touch[i].state = "HOVERING")
  BY <1>1 DEF Pad, Hovering, In
<1>5. StayIn(p, q)
  BY <1>3, <1>4, Staying DEF StayIn, Stays
<1>6. S \subseteq Index
  BY DEF Hovering, In
<1>7. Down(q) = Down(p) \cup S /\ Active(q) = Active(p)
  <2>1. \A i \in Index : i \in S => q.touch[i].state = "BEGIN"
    BY <1>3, <1>4, Staying
  <2> QED
    BY <1>3, <1>4, <1>6, <2>1 DEF Down, Active, In, DownStates, ActiveStates
<1> QED
  BY <1>1, <1>2, <1>3, <1>5, <1>7 DEF q

LEMMA EndsIs ==
  ASSUME ModelOK, NEW p, Counted(p), NEW S \in SUBSET Down(p)
  PROVE  LET q == MaybeEndTouches(p, S)
         IN  /\ Counted(q) /\ SamePad(p, q) /\ StayIn(p, q)
             /\ q.nfingers = p.nfingers - Cardinality(S)
             /\ Down(q) = Down(p) \ S /\ Active(q) = Active(p) \ S
             /\ \A i \in Index : i \notin S => q.touch[i] = p.touch[i]
<1> DEFINE q == MaybeEndTouches(p, S)
<1>1. S \in SUBSET Index /\ S \cap Down(p) = S
  BY DEF Down, In
<1>2. Counted(q) /\ SamePad(p, q) /\ p \in Pad
  BY <1>1, MaybeEndTouchesCounted DEF Counted
<1>3. /\ q.nfingers = p.nfingers - Cardinality(S)
      /\ q.touch = [i \in Index |-> IF i \in S THEN MaybeEndTouch(p.touch[i]) ELSE p.touch[i]]
  BY <1>1, <1>2 DEF MaybeEndTouches, Pad
<1> HIDE DEF q
<1>4. \A i \in Index : /\ i \in S => q.touch[i] = MaybeEndTouch(p.touch[i])
                       /\ i \notin S => q.touch[i] = p.touch[i]
  BY <1>3
<1>5. \A i \in Index : p.touch[i] \in Touch /\ (i \in S => p.touch[i].state \in DownStates)
  BY <1>2 DEF Pad, Down, In
<1>6. StayIn(p, q)
  BY <1>4, <1>5, Staying DEF StayIn, Stays
<1>7. Down(q) = Down(p) \ S /\ Active(q) = Active(p) \ S
  <2>1. \A i \in Index : i \in S => q.touch[i].state = "MAYBE_END"
    BY <1>4, <1>5, Staying
  <2> QED
    BY <1>1, <1>4, <1>5, <2>1 DEF Down, Active, In, DownStates, ActiveStates
<1> QED
  BY <1>2, <1>3, <1>4, <1>6, <1>7 DEF q

LEMMA ActiveIs ==
  ASSUME ModelOK, NEW p, Counted(p)
  PROVE  /\ IsFiniteSet(Active(p)) /\ IsFiniteSet(Hovering(p)) /\ IsFiniteSet(Down(p))
         /\ Cardinality(Active(p)) \in Nat /\ Cardinality(Hovering(p)) \in Nat
         /\ p.nfingers \in Nat
         /\ Cardinality(Active(p)) = p.nfingers + Cardinality(Hovering(p))
         /\ Hovering(p) \in SUBSET Int /\ Down(p) \in SUBSET Int /\ Down(p) \subseteq Nat
<1>1. /\ IsFiniteSet(Active(p)) /\ IsFiniteSet(Hovering(p)) /\ IsFiniteSet(Down(p))
      /\ Cardinality(Active(p)) \in Nat /\ Cardinality(Hovering(p)) \in Nat
      /\ Cardinality(Down(p)) \in Nat
  BY DownFinite DEF Active, Hovering, Down, ActiveStates, DownStates, TouchStates
<1>2. p.nfingers = Cardinality(Down(p))
  BY DEF Counted
<1>3. Active(p) = Down(p) \cup Hovering(p) /\ Down(p) \cap Hovering(p) = {}
  BY DEF Active, Hovering, Down, ActiveStates, DownStates, In
<1>4. Cardinality(Active(p)) = p.nfingers + Cardinality(Hovering(p))
  <2>1. Cardinality(Down(p) \cap Hovering(p)) = 0
    BY <1>3, FS_EmptySet
  <2>2. Cardinality(Down(p) \cup Hovering(p)) =
          Cardinality(Down(p)) + Cardinality(Hovering(p)) - Cardinality(Down(p) \cap Hovering(p))
    BY <1>1, FS_Union
  <2> QED
    BY <1>1, <1>2, <1>3, <2>1, <2>2
<1>5. Hovering(p) \in SUBSET Int /\ Down(p) \in SUBSET Int /\ Down(p) \subseteq Nat
  <2>1. Hovering(p) \subseteq Index /\ Down(p) \subseteq Index
    BY DEF Hovering, Down, In
  <2>2. \A i \in Index : i \in Nat /\ i \in Int
    BY DEF Index
  <2> QED
    BY <2>1, <2>2, Zenon
<1> QED
  BY <1>1, <1>2, <1>4, <1>5

LEMMA RaiseIs ==
  ASSUME ModelOK, NEW p, Counted(p), NEW n \in Nat
  PROVE  LET k == IF p.nfingers < n THEN n - p.nfingers ELSE 1
             q == RaiseTo(p, n)
         IN  /\ Counted(q) /\ SamePad(p, q) /\ StayIn(p, q) /\ Active(q) = Active(p)
             /\ Down(p) \subseteq Down(q)
             /\ q.nfingers = p.nfingers + Least(k, Cardinality(Hovering(p)))
<1> DEFINE k == IF p.nfingers < n THEN n - p.nfingers ELSE 1
           S == First(Hovering(p), k)
<1>1. k \in Nat
  BY ActiveIs
<1> HIDE DEF k
<1>2. S \in SUBSET Hovering(p) /\ Cardinality(S) = Least(k, Cardinality(Hovering(p)))
  BY <1>1, ActiveIs, FirstCounted
<1>3. RaiseTo(p, n) = BeginTouches(p, S)
  BY DEF RaiseTo, k
<1> HIDE DEF S
<1> QED
  BY <1>2, <1>3, BeginsIs DEF k

LEMMA LowerIs ==
  ASSUME ModelOK, NEW p, Counted(p), NEW n \in Nat, p.nfingers > n
  PROVE  LET q == LowerTo(p, n)
         IN  /\ Counted(q) /\ SamePad(p, q) /\ StayIn(p, q)
             /\ Active(q) \subseteq Active(p) /\ q.nfingers = n
             /\ \A i \in Down(p) : i < n => i \in Down(q)
<1> DEFINE k == p.nfingers - n
           S == Last(Down(p), k)
<1>1. k \in Nat /\ p.nfingers = Cardinality(Down(p)) /\ p.nfingers \in Nat
  BY ActiveIs DEF Counted
<1>2. Least(k, Cardinality(Down(p))) = k
  BY <1>1 DEF Least
<1> HIDE DEF k
<1>3. S \in SUBSET Down(p) /\ Cardinality(S) = k
  BY <1>1, <1>2, ActiveIs, LastCounted
<1>4. \A i \in Down(p) : i < n => i \notin S
  BY <1>1, ActiveIs, LastSpares DEF k
<1>5. LowerTo(p, n) = MaybeEndTouches(p, S)
  BY DEF LowerTo, k
<1> HIDE DEF S
<1>6. p.nfingers - k = n
  BY <1>1 DEF k
<1> QED
  BY <1>3, <1>4, <1>5, <1>6, EndsIs

-----------------------------------------------------------------------------
(* Contact                                                                 *)

\* A finger that is down by its contact, or now gets there.
FirmTouch(r, i) ==
  /\ i < r.num_slots /\ r.touch[i].contact = 2
  /\ i \in Down(r) \/ (i \in Hovering(r) /\ r.touch[i].dirty)

LEMMA FirmIs ==
  ASSUME ModelOK, NEW r, Counted(r), NEW S \in SUBSET Light(r)
  PROVE  LET q == MaybeEndTouches(BeginTouches(r, Firm(r)), S)
         IN  /\ Counted(q) /\ SamePad(r, q) /\ StayIn(r, q)
             /\ Active(q) = Active(r) \ S
             /\ Down(q) = (Down(r) \cup Firm(r)) \ S
             /\ \A i \in Index : FirmTouch(r, i) => i \in Down(q)
<1> DEFINE p == BeginTouches(r, Firm(r))
           q == MaybeEndTouches(p, S)
<1>1. Firm(r) \in SUBSET Hovering(r) /\ S \subseteq Down(r) /\ r \in Pad
  BY DownIsSubset DEF Light, Counted
<1>2. /\ Counted(p) /\ SamePad(r, p) /\ StayIn(r, p)
      /\ Down(p) = Down(r) \cup Firm(r) /\ Active(p) = Active(r)
  BY <1>1, BeginsIs
<1> HIDE DEF p
<1>3. S \in SUBSET Down(p)
  BY <1>1, <1>2
<1>4. /\ Counted(q) /\ SamePad(p, q) /\ StayIn(p, q)
      /\ Down(q) = Down(p) \ S /\ Active(q) = Active(p) \ S
  BY <1>2, <1>3, EndsIs
<1> HIDE DEF q
<1>5. SamePad(r, q) /\ StayIn(r, q)
  BY <1>2, <1>4, StayTogether DEF SamePad
<1>6. \A i \in Index : FirmTouch(r, i) => i \in Down(q)
  <2>1. \A i \in S : r.touch[i].contact = 0
    BY DEF Light
  <2>2. \A i \in Index : FirmTouch(r, i) => i \in Down(r) \cup Firm(r) /\ r.touch[i].contact = 2
    BY DEF FirmTouch, Firm
  <2> QED
    BY <1>2, <1>4, <2>1, <2>2
<1> QED
  BY <1>2, <1>4, <1>5, <1>6 DEF p, q

LEMMA SizeFirm ==
  ASSUME ModelOK, NEW r, Counted(r)
  PROVE  LET q == UnhoverSize(r)
         IN  /\ StayIn(r, q) /\ Active(q) \subseteq Active(r)
             /\ \A i \in Index : FirmTouch(r, i) => i \in Down(q)
<1>1. Light(r) \in SUBSET Light(r)
  OBVIOUS
<1> QED
  BY <1>1, FirmIs DEF UnhoverSize

LEMMA PressureFirm ==
  ASSUME ModelOK, NEW r, Counted(r), FingerCount(r) \in Nat, r.num_slots >= 1
  PROVE  LET q == UnhoverPressure(r)
         IN  /\ StayIn(r, q) /\ Active(q) \subseteq Active(r)
             /\ \A i \in Index : FirmTouch(r, i) => i \in Down(q)
             /\ /\ ~IsOverflow(r) /\ FingerCount(r) > r.num_slots
                /\ Cardinality(Active(r)) >= FingerCount(r)
                => q.nfingers \in {0, FingerCount(r)}
             /\ /\ ~IsOverflow(r) /\ FingerCount(r) > r.num_slots
                /\ Cardinality(Active(r)) <= FingerCount(r)
                => \/ q.nfingers = 0
                   \/ q.nfingers = Cardinality(Active(r)) /\ Active(q) = Active(r)
<1> DEFINE n == IF IsOverflow(r) THEN 0 ELSE FingerCount(r)
           light == IF n <= r.num_slots \/ r.num_slots = 1 THEN Light(r) ELSE {}
           q == MaybeEndTouches(BeginTouches(r, Firm(r)), light)
           real == {i \in Down(q) : i < q.num_slots}
           raised == RaiseTo(q, n)
           new == UnhoverPressure(r)
           Good(p) == /\ StayIn(r, p) /\ Active(p) \subseteq Active(r)
                      /\ \A i \in Index : FirmTouch(r, i) => i \in Down(p)
                      /\ /\ ~IsOverflow(r) /\ n > r.num_slots
                         /\ Cardinality(Active(r)) >= n
                         => p.nfingers \in {0, n}
                      /\ /\ ~IsOverflow(r) /\ n > r.num_slots
                         /\ Cardinality(Active(r)) <= n
                         => \/ p.nfingers = 0
                            \/ /\ p.nfingers = Cardinality(Active(r))
                               /\ Active(p) = Active(r)
<1>1. n \in Nat /\ r.num_slots \in Nat
  BY DEF Counted, Pad
<1>2. light \in SUBSET Light(r)
  OBVIOUS
<1>3. /\ Counted(q) /\ SamePad(r, q) /\ StayIn(r, q) /\ Active(q) = Active(r) \ light
      /\ Down(q) = (Down(r) \cup Firm(r)) \ light
      /\ \A i \in Index : FirmTouch(r, i) => i \in Down(q)
  BY <1>2, FirmIs
<1>4. /\ n <= q.num_slots \/ q.nfingers = 0 => new = q
      /\ n > q.num_slots /\ q.nfingers > 0 /\ real = {} => new = MaybeEndTouches(q, Down(q))
      /\ ~(n <= q.num_slots \/ q.nfingers = 0) /\ real # {} =>
           new = IF raised.nfingers > n THEN LowerTo(raised, n) ELSE raised
  <2>1. q.num_slots = r.num_slots /\ q.nfingers \in Nat
    BY <1>3, ActiveIs DEF SamePad
  <2>2. new = CASE n <= q.num_slots \/ q.nfingers = 0 -> q
                [] n > q.num_slots /\ q.nfingers > 0 /\ real = {} ->
                     MaybeEndTouches(q, Down(q))
                [] OTHER -> IF raised.nfingers > n THEN LowerTo(raised, n) ELSE raised
    BY Zenon DEF UnhoverPressure
  <2> HIDE DEF n, q, raised, new, real
  <2> QED
    BY <1>1, <2>1, <2>2
<1>5. q.num_slots = r.num_slots /\ q.nfingers \in Nat /\ Cardinality(Down(q)) = q.nfingers
  BY <1>3, ActiveIs DEF SamePad, Counted
<1>6. real # {} /\ n > r.num_slots => light = {}
  <2> SUFFICES ASSUME real # {}, n > r.num_slots, light # {} PROVE FALSE
    OBVIOUS
  <2>1. r.num_slots = 1 /\ light = Light(r)
    BY <1>1
  <2>2. PICK i \in Down(q) : i < 1
    BY <1>5, <2>1
  <2>3. PICK j : j \in Light(r)
    BY <2>1
  <2>4. i \in Index /\ j \in Index /\ j < 1
    BY <2>1, <2>2, <2>3 DEF Down, In, Light
  <2>5. i = j
    BY <2>2, <2>4 DEF Index
  <2> QED
    BY <1>3, <2>1, <2>2, <2>3, <2>5
<1> HIDE DEF q, light, n, new, real, raised
<1>7. CASE n <= q.num_slots \/ q.nfingers = 0
  <2>1. new = q
    BY <1>4, <1>7
  <2> QED
    BY <1>1, <1>3, <1>5, <1>7, <2>1 DEF Good, n, new
<1>8. CASE ~(n <= q.num_slots \/ q.nfingers = 0) /\ real = {}
  <2>1. new = MaybeEndTouches(q, Down(q))
    BY <1>1, <1>4, <1>5, <1>8
  <2>2. Down(q) \in SUBSET Down(q)
    OBVIOUS
  <2>3. StayIn(q, new) /\ new.nfingers = 0 /\ Active(new) \subseteq Active(q)
    BY <1>3, <1>5, <2>1, <2>2, EndsIs
  <2>4. StayIn(r, new)
    BY <1>3, <2>3, StayTogether
  <2>5. \A i \in Index : ~FirmTouch(r, i)
    BY <1>3, <1>5, <1>8 DEF real, FirmTouch
  <2> QED
    BY <1>3, <2>3, <2>4, <2>5 DEF new
<1>9. CASE ~(n <= q.num_slots \/ q.nfingers = 0) /\ real # {}
  <2>1. new = IF raised.nfingers > n THEN LowerTo(raised, n) ELSE raised
    BY <1>4, <1>9
  <2>2. n > r.num_slots /\ q.nfingers > 0 /\ light = {} /\ ~IsOverflow(r)
    BY <1>1, <1>5, <1>6, <1>9 DEF n
  <2> DEFINE k == IF q.nfingers < n THEN n - q.nfingers ELSE 1
  <2>3. /\ Counted(raised) /\ SamePad(q, raised) /\ StayIn(q, raised)
        /\ Down(q) \subseteq Down(raised) /\ Active(raised) = Active(q)
        /\ raised.nfingers = q.nfingers + Least(k, Cardinality(Hovering(q)))
    BY <1>1, <1>3, RaiseIs DEF raised
  <2>4. /\ Cardinality(Active(q)) = q.nfingers + Cardinality(Hovering(q))
        /\ Cardinality(Hovering(q)) \in Nat /\ Active(q) = Active(r)
    BY <1>3, <2>2, ActiveIs
  <2>5. StayIn(r, raised) /\ \A i \in Index : FirmTouch(r, i) => i \in Down(raised)
    BY <1>3, <2>3, StayTogether
  <2>6. Cardinality(Active(r)) >= n => raised.nfingers >= n /\ raised.nfingers \in Nat
    BY <1>1, <1>5, <2>3, <2>4 DEF Least
  <2>7. CASE raised.nfingers > n
    <3>1. /\ StayIn(raised, new) /\ new.nfingers = n /\ Active(new) \subseteq Active(raised)
          /\ \A i \in Down(raised) : i < n => i \in Down(new)
      BY <1>1, <2>1, <2>3, <2>7, LowerIs
    <3>2. StayIn(r, new)
      BY <2>5, <3>1, StayTogether
    <3>3. \A i \in Index : FirmTouch(r, i) => i < n
      BY <1>1, <2>2 DEF FirmTouch, Index
    <3>4. ~(Cardinality(Active(r)) <= n)
      BY <1>1, <1>5, <2>3, <2>4, <2>7 DEF Least
    <3>5. Active(new) \subseteq Active(r)
      BY <2>3, <2>4, <3>1
    <3> QED
      BY <2>5, <3>1, <3>2, <3>3, <3>4, <3>5, <2>2 DEF n, new
  <2>8. CASE ~(raised.nfingers > n)
    <3>1. new = raised
      BY <2>1, <2>8
    <3>2. Cardinality(Active(r)) >= n => raised.nfingers = n
      BY <1>1, <2>6, <2>8
    <3>3. Cardinality(Active(r)) <= n => raised.nfingers = Cardinality(Active(r))
      BY <1>1, <1>5, <2>3, <2>4, <2>8 DEF Least
    <3>4. Active(new) = Active(r)
      BY <2>3, <2>4, <3>1
    <3> QED
      BY <2>2, <2>5, <3>1, <3>2, <3>3, <3>4 DEF n, new
  <2> QED
    BY <2>7, <2>8
<1> QED
  BY <1>7, <1>8, <1>9

LEMMA FakeCounts ==
  ASSUME ModelOK, NEW r, Counted(r), FingerCount(r) \in Nat
  PROVE  LET q == UnhoverFake(r)
             n == FingerCount(r)
         IN  /\ StayIn(r, q) /\ Active(q) \subseteq Active(r)
             /\ ~IsOverflow(r) /\ BTN_TOUCH \notin r.fake => q.nfingers = 0
             /\ ~IsOverflow(r) /\ BTN_TOUCH \in r.fake =>
                  /\ Cardinality(Active(r)) >= n => q.nfingers = n
                  /\ r.nfingers <= n => Active(q) = Active(r)
             /\ IsOverflow(r) => q = r
<1> DEFINE q == UnhoverFake(r)
           n == FingerCount(r)
           touching == BTN_TOUCH \in r.fake
           raised == RaiseTo(r, n)
<1>1. /\ IsOverflow(r) => q = r
      /\ ~IsOverflow(r) /\ ~touching => q = MaybeEndTouches(r, Down(r))
      /\ ~IsOverflow(r) /\ touching /\ r.nfingers < n => q = raised
      /\ ~IsOverflow(r) /\ touching /\ ~(r.nfingers < n) =>
           q = IF r.nfingers > n THEN LowerTo(r, n) ELSE r
  <2>1. q = CASE IsOverflow(r) -> r
              [] ~IsOverflow(r) /\ ~touching -> MaybeEndTouches(r, Down(r))
              [] ~IsOverflow(r) /\ touching /\ r.nfingers < n -> RaiseTo(r, n)
              [] OTHER -> IF r.nfingers > n THEN LowerTo(r, n) ELSE r
    BY Zenon DEF UnhoverFake
  <2> HIDE DEF q, touching, n
  <2> QED
    BY <2>1
<1>2. /\ r.nfingers \in Nat /\ Cardinality(Down(r)) = r.nfingers
      /\ Cardinality(Active(r)) = r.nfingers + Cardinality(Hovering(r))
      /\ Cardinality(Hovering(r)) \in Nat
  BY ActiveIs DEF Counted
<1>3. StayIn(r, r)
  BY DEF StayIn, Stays
<1> HIDE DEF q, n
<1>4. CASE IsOverflow(r)
  BY <1>1, <1>3, <1>4 DEF q
<1>5. CASE ~IsOverflow(r) /\ ~touching
  <2>1. Down(r) \in SUBSET Down(r)
    OBVIOUS
  <2>2. StayIn(r, q) /\ q.nfingers = 0 /\ Active(q) \subseteq Active(r)
    BY <1>1, <1>2, <1>5, <2>1, EndsIs
  <2> QED
    BY <1>5, <2>2 DEF q
<1>6. CASE ~IsOverflow(r) /\ touching /\ r.nfingers < n
  <2>1. n \in Nat
    BY DEF n
  <2> DEFINE k == IF r.nfingers < n THEN n - r.nfingers ELSE 1
  <2>2. /\ StayIn(r, q) /\ Active(q) = Active(r)
        /\ q.nfingers = r.nfingers + Least(k, Cardinality(Hovering(r)))
    BY <1>1, <1>6, <2>1, RaiseIs
  <2>3. Cardinality(Active(r)) >= n => q.nfingers = n
    BY <1>2, <1>6, <2>1, <2>2 DEF Least
  <2> QED
    BY <1>6, <2>2, <2>3 DEF q, n
<1>7. CASE ~IsOverflow(r) /\ touching /\ ~(r.nfingers < n) /\ r.nfingers > n
  <2>1. n \in Nat
    BY DEF n
  <2>2. StayIn(r, q) /\ q.nfingers = n /\ Active(q) \subseteq Active(r)
    BY <1>1, <1>7, <2>1, LowerIs
  <2>3. ~(r.nfingers <= n)
    BY <1>2, <1>7, <2>1
  <2> QED
    BY <1>7, <2>2, <2>3 DEF q, n
<1>8. CASE ~IsOverflow(r) /\ touching /\ ~(r.nfingers < n) /\ ~(r.nfingers > n)
  <2>1. n \in Nat
    BY DEF n
  <2>2. q = r /\ r.nfingers = n
    BY <1>1, <1>2, <1>8, <2>1
  <2> QED
    BY <1>3, <1>8, <2>2 DEF q, n
<1> QED
  BY <1>4, <1>5, <1>6, <1>7, <1>8

\* A touch of a slot in use: never lost, and down where its contact decides.
Kept(t) ==
  /\ t.state \in ActiveStates
  /\ model.quirk # "synaptics" => ~t.has_ended
  /\ model.contact # "touch" /\ t.contact = 2 => t.dirty \/ t.state \in DownStates

\* One that was taken back and ended by its contact: its finger is Lost.
Gone(t) ==
  /\ model.quirk = "synaptics" /\ model.contact # "touch"
  /\ t.state = "NONE" /\ t.has_ended

Held(t) == Kept(t) \/ Gone(t)

\* The end of a frame, after contact was looked at.
LEMMA SettledTouch ==
  ASSUME ModelOK, NEW u, Counted(u)
  PROVE  LET new == PostProcess(EndTouches(u))
         IN  /\ new.nfingers = u.nfingers
             /\ \A i \in Index :
                  /\ u.touch[i].state \in DownStates => new.touch[i].state \in DownStates
                  /\ new.touch[i].has_ended = u.touch[i].has_ended
                  /\ /\ Present(u.touch[i])
                     /\ u.touch[i].state = "MAYBE_END" => ~u.touch[i].has_ended
                     => /\ new.touch[i].state \in ActiveStates
                        /\ new.touch[i].contact = u.touch[i].contact
                  /\ \/ u.touch[i].state = "NONE"
                     \/ u.touch[i].state = "MAYBE_END" /\ u.touch[i].has_ended
                     => new.touch[i].state = "NONE"
<1> DEFINE e == EndTouches(u)
           new == PostProcess(e)
<1>1. /\ Counted(e) /\ e \in Pad /\ u \in Pad
      /\ \A i \in Index : e.touch[i].state # "MAYBE_END"
  BY EndTouchesCounted DEF Counted
<1>2. e.nfingers = u.nfingers
  BY <1>1 DEF EndTouches, Pad
<1>3. \A i \in Index :
        e.touch[i] = IF u.touch[i].state = "MAYBE_END"
                     THEN [u.touch[i] EXCEPT !.state = "END", !.dirty = TRUE]
                     ELSE u.touch[i]
  BY <1>1 DEF EndTouches, Pad
<1> HIDE DEF e
<1>4. new.nfingers = e.nfingers
  BY <1>1 DEF PostProcess, Pad
<1>5. ASSUME NEW i \in Index
      PROVE  /\ u.touch[i].state \in DownStates => new.touch[i].state \in DownStates
             /\ new.touch[i].has_ended = u.touch[i].has_ended
             /\ Present(u.touch[i]) /\ (u.touch[i].state = "MAYBE_END" => ~u.touch[i].has_ended)
                  => /\ new.touch[i].state \in ActiveStates
                     /\ new.touch[i].contact = u.touch[i].contact
             /\ \/ u.touch[i].state = "NONE"
                \/ u.touch[i].state = "MAYBE_END" /\ u.touch[i].has_ended
                => new.touch[i].state = "NONE"
  <2> DEFINE t == e.touch[i]
             v == u.touch[i]
             c == IF Unused(i, Settled(t)) THEN 0 ELSE t.contact
             w == new.touch[i]
  <2>1. t \in Touch /\ v \in Touch /\ t.state # "MAYBE_END"
    BY <1>1 DEF Pad
  <2>2. w = IF ~t.dirty THEN t
            ELSE [t EXCEPT !.state = Settled(t), !.dirty = FALSE, !.contact = c]
    BY <1>1 DEF PostProcess, Pad
  <2>3. \/ v.state = "MAYBE_END" /\ t.state = "END" /\ t.dirty
             /\ t.has_ended = v.has_ended /\ t.contact = v.contact
        \/ v.state # "MAYBE_END" /\ t = v
    BY <1>3, <2>1 DEF Touch
  <2> HIDE DEF t, v, c, w
  <2>4. /\ w.state = IF t.dirty THEN Settled(t) ELSE t.state
        /\ w.has_ended = t.has_ended
        /\ w.contact = IF t.dirty THEN c ELSE t.contact
    BY <2>1, <2>2 DEF Touch
  <2>5. /\ t.state = "END" /\ ~t.has_ended => Settled(t) = "HOVERING"
        /\ t.state = "END" /\ t.has_ended => Settled(t) = "NONE"
        /\ t.state = "BEGIN" => Settled(t) = "UPDATE"
        /\ t.state \notin {"END", "BEGIN"} => Settled(t) = t.state
    BY DEF Settled
  <2>6. Settled(t) # "NONE" => c = t.contact
    BY DEF c, Unused, t
  <2> QED
    BY <2>1, <2>3, <2>4, <2>5, <2>6 DEF Present, ActiveStates, DownStates, v, w
<1> QED
  BY <1>2, <1>4, <1>5 DEF e

LEMMA FrameKeeps ==
  ASSUME ModelOK, NEW r, Counted(r), NEW i \in Index,
         FingerCount(FakeTouches(r)) \in Nat, FakeTouches(r).num_slots >= 1,
         i < FakeTouches(r).num_slots, Kept(FakeTouches(r).touch[i]),
         model.quirk = "synaptics" /\ model.contact = "touch" =>
           i \in Active(Unhover(FakeTouches(r)))
  PROVE  /\ Held(HandleState(r).touch[i])
         /\ i \in Active(Unhover(FakeTouches(r))) => Kept(HandleState(r).touch[i])
<1> DEFINE f == FakeTouches(r)
           u == Unhover(f)
           new == PostProcess(EndTouches(u))
<1>1. HandleState(r) = new
  BY DEF HandleState, PreProcess
<1>2. Counted(f) /\ f \in Pad
  BY FakeTouchesCounted DEF Counted
<1>3. Counted(u)
  BY <1>2, UnhoverCounted
<1> HIDE DEF f
<1>4. /\ StayIn(f, u)
      /\ model.contact # "touch" /\ FirmTouch(f, i) => i \in Down(u)
  <2>1. model.contact \in {"touch", "pressure", "size"}
    BY SlotsAreTouches DEF AllModels, Contacts
  <2> QED
    BY <1>2, <2>1, FakeCounts, PressureFirm, SizeFirm DEF Unhover, f
<1> HIDE DEF u
<1>5. f.touch[i] \in Touch /\ Kept(f.touch[i]) /\ i < f.num_slots
  BY <1>2 DEF f, Pad
<1>6. /\ Present(u.touch[i]) /\ u.touch[i].contact = f.touch[i].contact
      /\ u.touch[i].has_ended = f.touch[i].has_ended
  BY <1>4, <1>5 DEF StayIn, Stays, Kept, Present
<1>7. i \in Active(u) => u.touch[i].state # "MAYBE_END"
  BY DEF Active, In, ActiveStates
<1>8. ASSUME u.touch[i].state = "MAYBE_END" => ~u.touch[i].has_ended
      PROVE  Kept(new.touch[i])
  <2>1. /\ new.touch[i].state \in ActiveStates
        /\ new.touch[i].contact = f.touch[i].contact
        /\ new.touch[i].has_ended = f.touch[i].has_ended
        /\ u.touch[i].state \in DownStates => new.touch[i].state \in DownStates
    BY <1>3, <1>6, <1>8, SettledTouch
  <2>2. model.contact # "touch" /\ f.touch[i].contact = 2 => i \in Down(u)
    BY <1>4, <1>5 DEF Kept, FirmTouch, Down, Hovering, In, ActiveStates, DownStates
  <2> HIDE DEF new
  <2> QED
    BY <1>5, <2>1, <2>2 DEF Kept, Down, In
<1>9. ASSUME u.touch[i].state = "MAYBE_END", u.touch[i].has_ended
      PROVE  Gone(new.touch[i])
  <2>1. new.touch[i].state = "NONE" /\ new.touch[i].has_ended
    BY <1>3, <1>9, SettledTouch
  <2>2. model.quirk = "synaptics"
    BY <1>5, <1>6, <1>9 DEF Kept
  <2>3. model.contact # "touch"
    BY <1>7, <1>9, <2>2 DEF u, f
  <2> HIDE DEF new
  <2> QED
    BY <2>1, <2>2, <2>3 DEF Gone
<1> HIDE DEF new
<1> QED
  BY <1>1, <1>7, <1>8, <1>9 DEF Held, u, f

\* One that is gone stays so.
LEMMA FrameForgets ==
  ASSUME ModelOK, NEW r, Counted(r), NEW i \in Index, Gone(FakeTouches(r).touch[i])
  PROVE  Gone(HandleState(r).touch[i])
<1> DEFINE f == FakeTouches(r)
           u == Unhover(f)
           new == PostProcess(EndTouches(u))
<1>1. HandleState(r) = new
  BY DEF HandleState, PreProcess
<1>2. Counted(f) /\ f \in Pad
  BY FakeTouchesCounted DEF Counted
<1>3. Counted(u)
  BY <1>2, UnhoverCounted
<1>4. u.touch[i] = f.touch[i]
  BY <1>2, UnhoverSpares DEF Gone, f, u
<1> HIDE DEF f, u
<1>5. new.touch[i].state = "NONE" /\ new.touch[i].has_ended = f.touch[i].has_ended
  BY <1>3, <1>4, SettledTouch DEF Gone, f
<1> HIDE DEF new
<1> QED
  BY <1>1, <1>5 DEF Gone, f

-----------------------------------------------------------------------------
(* The touches that only the count knows.                                  *)

Quirked(r) ==
  CASE model.quirk = "synaptics" -> RestoreTouches(r)
    [] model.quirk = "alps" -> ReduceSlots(r)
    [] OTHER -> r
BeyondSlots(r) == {i \in Index : model.has_mt => i >= r.num_slots}

LEMMA RestoredTouch ==
  ASSUME NEW r \in Pad, NEW i \in Index
  PROVE  /\ r.touch[i].state # "MAYBE_END" => RestoreTouches(r).touch[i] = r.touch[i]
         /\ RestoreTouches(r).touch[i] \in {r.touch[i],
              [r.touch[i] EXCEPT !.state = "UPDATE", !.dirty = TRUE]}
         /\ /\ r.touch[i].state = "MAYBE_END" /\ i < r.num_slots /\ FingerCount(r) >= 3
            /\ r.nfingers < FingerCount(r) /\ FingerCount(r) \in Nat
            => RestoreTouches(r).touch[i].state = "UPDATE"
<1> DEFINE n == FingerCount(r)
           zombies == {j \in In(r, {"MAYBE_END"}) : j < r.num_slots}
           back(t) == [t EXCEPT !.state = "UPDATE", !.dirty = TRUE]
           touch == [j \in Index |-> IF j \in zombies THEN back(r.touch[j]) ELSE r.touch[j]]
           k == r.nfingers + Cardinality(zombies)
           new == [r EXCEPT !.touch = touch, !.nfingers = k]
<1>1. RestoreTouches(r) =
        IF n < 3 \/ r.nfingers >= n \/ (r.nfingers = r.num_slots /\ n = r.num_slots)
        THEN r ELSE new
  BY DEF RestoreTouches
<1> HIDE DEF k
<1>2. new.touch = touch
  BY DEF Pad
<1>3. i \in zombies => r.touch[i].state = "MAYBE_END"
  BY DEF In
<1>4. r.touch[i].state = "MAYBE_END" /\ i < r.num_slots => i \in zombies
  BY DEF In
<1>5. r.touch[i] \in Touch /\ r.nfingers \in Nat /\ r.num_slots \in Nat
  BY DEF Pad
<1>6. back(r.touch[i]).state = "UPDATE"
  BY <1>5 DEF Touch
<1>7. touch[i] = IF i \in zombies THEN back(r.touch[i]) ELSE r.touch[i]
  OBVIOUS
<1> HIDE DEF zombies, touch, new, n
<1>8. /\ n \in Nat /\ n >= 3 /\ r.nfingers < n =>
           ~(n < 3 \/ r.nfingers >= n \/ (r.nfingers = r.num_slots /\ n = r.num_slots))
  BY <1>5
<1>9. RestoreTouches(r).touch[i] \in {r.touch[i], touch[i]}
  BY <1>1, <1>2
<1> QED
  BY <1>1, <1>2, <1>3, <1>4, <1>6, <1>7, <1>8, <1>9 DEF n

LEMMA QuirkedIs ==
  ASSUME ModelOK, NEW r, Counted(r), Ending(r)
  PROVE  LET q == Quirked(r)
         IN  /\ Counted(q) /\ Ending(q) /\ q.fake = r.fake
             /\ \A i \in Index : r.touch[i].state # "MAYBE_END" => q.touch[i] = r.touch[i]
             /\ model.quirk # "synaptics" => q.touch = r.touch
             /\ model.quirk # "alps" => q.num_slots = r.num_slots
             /\ model.quirk = "alps" =>
                  q.num_slots = IF /\ model.has_mt /\ FingerCount(r) > 1
                                   /\ FingerCount(r) > r.nactive /\ r.nactive < r.num_slots
                                THEN r.nactive ELSE r.num_slots
<1> DEFINE q == Quirked(r)
<1>1. r \in Pad /\ r.nactive \in Nat
  BY DEF Counted, Pad
<1>2. CASE model.quirk = "synaptics"
  <2>1. q = RestoreTouches(r)
    BY <1>2 DEF Quirked
  <2>2. Counted(q) /\ SamePad(r, q)
    BY <2>1, RestoreCounted
  <2>3. \A i \in Index : r.touch[i].state # "MAYBE_END" => q.touch[i] = r.touch[i]
    BY <1>1, <2>1, RestoredTouch
  <2>4. Ending(q)
    <3> SUFFICES ASSUME NEW i \in Index PROVE q.touch[i].state # "END"
      BY DEF Ending
    <3>1. r.touch[i] \in Touch /\ r.touch[i].state # "END"
      BY <1>1 DEF Ending, Pad
    <3>2. q.touch[i] \in {r.touch[i], [r.touch[i] EXCEPT !.state = "UPDATE", !.dirty = TRUE]}
      BY <1>1, <2>1, RestoredTouch
    <3> QED
      BY <3>1, <3>2 DEF Touch
  <2> QED
    BY <1>2, <2>2, <2>3, <2>4 DEF SamePad
<1>3. CASE model.quirk = "alps"
  <2> DEFINE p == [r EXCEPT !.num_slots = r.nactive]
             less == /\ model.has_mt /\ FingerCount(r) > 1
                     /\ FingerCount(r) > r.nactive /\ r.nactive < r.num_slots
  <2>1. q = IF less THEN p ELSE r
    BY <1>3 DEF Quirked, ReduceSlots
  <2>2. p \in Pad
    BY <1>1, Zenon DEF Pad
  <2>3. p.touch = r.touch /\ p.nfingers = r.nfingers /\ p.num_slots = r.nactive /\ p.fake = r.fake
    BY <1>1 DEF Pad
  <2> HIDE DEF p, less, q
  <2>4. Counted(p)
    BY <2>2, <2>3, OtherFieldsCounted
  <2>5. q.touch = r.touch /\ q.fake = r.fake /\ Counted(q)
        /\ q.num_slots = IF less THEN r.nactive ELSE r.num_slots
    BY <2>1, <2>3, <2>4
  <2>6. Ending(q)
    BY <2>5 DEF Ending
  <2> QED
    BY <1>3, <2>5, <2>6 DEF q, less
<1>4. CASE model.quirk \notin {"synaptics", "alps"}
  <2>1. q = r
    BY <1>4 DEF Quirked
  <2> QED
    BY <1>4, <2>1
<1> QED
  BY <1>2, <1>3, <1>4

LEMMA FakesAre ==
  ASSUME ModelOK, NEW r, Counted(r), Ending(r), ~IsOverflow(r)
  PROVE  LET q == Quirked(r)
             f == FakeTouches(r)
         IN  /\ Counted(f) /\ f.num_slots = q.num_slots /\ f.fake = r.fake
             /\ \A i \in Index : i \notin BeyondSlots(q) => f.touch[i] = q.touch[i]
             /\ \A i \in BeyondSlots(q) : i \in Active(f) <=> i < FingerCount(r)
<1> DEFINE q == Quirked(r)
           f == FakeTouches(r)
           counted == {i \in BeyondSlots(q) : i < FingerCount(r)}
           p == NewTouches(q, counted)
<1>1. Counted(q) /\ Ending(q) /\ q.fake = r.fake /\ q \in Pad
  BY QuirkedIs DEF Counted
<1>2. FingerCount(q) = FingerCount(r)
  BY <1>1 DEF FingerCount
<1>3. f = EndSequences(p, BeyondSlots(q) \ counted)
  <2>1. f = EndSequences(NewTouches(q, {i \in BeyondSlots(q) : i < FingerCount(q)}),
                         BeyondSlots(q) \ {i \in BeyondSlots(q) : i < FingerCount(q)})
    BY Zenon DEF FakeTouches, Quirked, BeyondSlots
  <2> QED
    BY <1>2, <2>1
<1>4. counted \in SUBSET Index /\ BeyondSlots(q) \ counted \in SUBSET Index
  BY DEF BeyondSlots
<1> HIDE DEF q, f, p
<1>5. Counted(p) /\ SamePad(q, p) /\ p \in Pad
  BY <1>1, <1>4, NewTouchesCounted DEF p, Counted
<1>6. Counted(f) /\ SamePad(p, f)
  BY <1>3, <1>4, <1>5, EndSequencesCounted
<1>7. \A i \in Index : p.touch[i] = IF i \in counted THEN NewTouch(q.touch[i]) ELSE q.touch[i]
  BY <1>1 DEF p, NewTouches, Pad
<1>8. \A i \in Index : f.touch[i] = IF i \in BeyondSlots(q) \ counted THEN Stopped(p.touch[i])
                                    ELSE p.touch[i]
  BY <1>3, <1>5, SequenceEnded
<1>9. \A i \in Index : i \notin BeyondSlots(q) => f.touch[i] = q.touch[i]
  BY <1>7, <1>8
<1>10. ASSUME NEW i \in BeyondSlots(q) PROVE i \in Active(f) <=> i < FingerCount(r)
  <2>1. i \in Index /\ q.touch[i] \in Touch /\ q.touch[i].state # "END"
    BY <1>1 DEF BeyondSlots, Ending, Pad
  <2>2. CASE i < FingerCount(r)
    <3>1. f.touch[i] = NewTouch(q.touch[i])
      BY <1>7, <1>8, <2>1, <2>2
    <3>2. NewTouch(q.touch[i]).state \in ActiveStates
      BY <2>1 DEF NewTouch, Touch, TouchStates, ActiveStates
    <3> QED
      BY <2>1, <2>2, <3>1, <3>2 DEF Active, In
  <2>3. CASE ~(i < FingerCount(r))
    <3>1. f.touch[i] = Stopped(q.touch[i])
      BY <1>7, <1>8, <2>1, <2>3
    <3>2. f.touch[i].state \in {"NONE", "MAYBE_END"}
      BY <2>1, <3>1, StoppedIs DEF Lifted
    <3> QED
      BY <2>3, <3>2 DEF Active, In, ActiveStates
  <2> QED
    BY <2>2, <2>3
<1> HIDE DEF counted
<1> QED
  BY <1>1, <1>5, <1>6, <1>9, <1>10 DEF SamePad, f, q

-----------------------------------------------------------------------------
(* The fingers match the surface.                                          *)

\* Touchpads that use the slots they announce, but for ALPS ones, which the
\* driver corrects.
AllUsed == \A m \in Models : m.quirk # "alps" => m.real = m.num_slots

Expected == FewSlots /\ AllUsed

\* Fingers that are down, or were when the open frame began.
Started(r) == In(r, DownStates \cup {"MAYBE_END"})

FingersDue(k) == IF BTN_TOUCH \in k.keys THEN KeyCount(k.keys) ELSE 0

SlotsAnnounced(r) ==
  /\ r.num_slots >= model.real
  /\ model.quirk # "alps" => r.num_slots = model.num_slots

KeysHeard(k, r) ==
  /\ ~model.has_mt => k.tracked = {}
  /\ k.heard => r.open /\ r.fake = k.keys
  /\ k.changed = {} /\ ~k.keyed /\ k.keys = {} => k.tracked = {}
  /\ k.up => k.keyed

SlotsKept(k, r) == k.heard => \A s \in k.tracked : Held(r.touch[s])

\* Lost
LostIn(k, r) == {s \in k.tracked : Gone(r.touch[s])}

\* A Synaptics touchpad that counts one more finger has fewer touches yet.
CountKnown(k, r) ==
  k.heard /\ model.quirk = "synaptics" /\ OVERFLOW \notin k.keys =>
    /\ ~k.keyed => Cardinality(Started(r)) <= KeyCount(k.keys)
    /\ k.up => Cardinality(Started(r)) < KeyCount(k.keys)

\* FingersMatchKeys
Matched(k, r) ==
  /\ k.heard /\ k.changed = {} /\ ~k.keyed /\ OVERFLOW \notin r.fake
  /\ model.quirk = "alps" => r.nactive = Cardinality(k.tracked)
  => /\ model.contact = "touch" => r.nfingers = FingersDue(k)
     /\ model.contact = "pressure" /\ KeyCount(k.keys) > r.num_slots =>
          r.nfingers \in {0, KeyCount(k.keys) - Cardinality(LostIn(k, r))}

Match(k, r) ==
  /\ SlotsAnnounced(r) /\ KeysHeard(k, r) /\ SlotsKept(k, r)
  /\ CountKnown(k, r) /\ Matched(k, r)

MatchInv == LeftInv /\ Match(kernel, pad)

LEMMA ModelNumbers ==
  ASSUME ModelOK
  PROVE  /\ model.real \in Nat /\ model.num_slots \in Nat /\ model.fingers \in 1..5
         /\ 1 <= model.real /\ model.real <= model.num_slots
         /\ model.num_slots <= ntouches /\ model.fingers <= ntouches /\ ntouches \in Nat
         /\ model.quirk \in Quirks /\ model.contact \in Contacts /\ model.has_mt \in BOOLEAN
<1>1. /\ model.real \in Nat /\ model.num_slots \in Nat /\ model.fingers \in Nat
      /\ model.quirk \in Quirks /\ model.contact \in Contacts /\ model.has_mt \in BOOLEAN
      /\ 1 <= model.real /\ model.real <= model.num_slots
      /\ 1 <= model.fingers /\ model.fingers <= 5
  BY TouchesAssumption DEF ModelOK, AllModels
<1> QED
  BY <1>1 DEF ntouches

\* What the keys count, the driver has touches for.
LEMMA CountFits ==
  ASSUME ModelOK, NEW keys \in KeySets, NEW r, r.fake = keys
  PROVE  /\ KeyCount(keys) \in 0..5 /\ KeyCount(keys) <= ntouches
         /\ FingerCount(r) \in Nat
         /\ IsOverflow(r) <=> OVERFLOW \in keys
         /\ OVERFLOW \notin keys => FingerCount(r) = KeyCount(keys)
         /\ BTN_TOUCH \notin keys => KeyCount(keys) <= 1
         /\ BTN_TOUCH \in keys => KeyCount(keys) >= 1
         /\ KeyCount(keys) = 5 => OVERFLOW \in keys
<1>1. \A n \in 1..5 : n \in keys => n <= model.fingers
  BY ModelNumbers DEF KeySets, BTN_TOUCH
<1>2. \/ keys = {} /\ KeyCount(keys) = 0
      \/ keys = {1} /\ KeyCount(keys) = 1
      \/ \E n \in 1..5 : keys = {BTN_TOUCH, n} /\ KeyCount(keys) = n
  BY KeyCountIs
<1>3. KeyCount(keys) \in 0..5 /\ KeyCount(keys) <= ntouches
  BY <1>1, <1>2, ModelNumbers
<1>4. FingerCount(r) \in Nat
  <2>1. r.fake \subseteq keys
    OBVIOUS
  <2> QED
    BY <2>1, FingerCountIs
<1>5. ASSUME OVERFLOW \notin keys PROVE FingerCount(r) = KeyCount(keys)
  <2>1. CASE keys = {} /\ KeyCount(keys) = 0
    <3>1. r.fake \cap Tools = {}
      BY <2>1
    <3> QED
      BY <2>1, <3>1 DEF FingerCount
  <2>2. ASSUME NEW n \in 1..4, (keys = {1} /\ n = 1) \/ keys = {BTN_TOUCH, n},
               KeyCount(keys) = n
        PROVE  FingerCount(r) = KeyCount(keys)
    <3>1. r.fake \cap Tools = {n}
      BY <2>2 DEF BTN_TOUCH, Tools
    <3> QED
      BY <2>2, <3>1 DEF FingerCount
  <2>3. \A n \in 1..5 : keys = {BTN_TOUCH, n} => n \in 1..4
    BY <1>5 DEF OVERFLOW
  <2> QED
    BY <1>2, <2>1, <2>2, <2>3
<1>6. IsOverflow(r) <=> OVERFLOW \in keys
  BY DEF IsOverflow
<1>7. /\ BTN_TOUCH \notin keys => KeyCount(keys) <= 1
      /\ BTN_TOUCH \in keys => KeyCount(keys) >= 1
      /\ KeyCount(keys) = 5 => OVERFLOW \in keys
  BY <1>2 DEF BTN_TOUCH, OVERFLOW
<1> QED
  BY <1>3, <1>4, <1>5, <1>6, <1>7

\* Numbers of touches.
LEMMA Interval ==
  ASSUME NEW a \in Nat, NEW b \in Nat, a <= b
  PROVE  IsFiniteSet(a..(b - 1)) /\ Cardinality(a..(b - 1)) = b - a
<1>1. a \in Int /\ b - 1 \in Int
  OBVIOUS
<1>2. /\ IsFiniteSet(a..(b - 1))
      /\ Cardinality(a..(b - 1)) = IF a > b - 1 THEN 0 ELSE b - 1 - a + 1
  BY <1>1, FS_Interval
<1>3. (IF a > b - 1 THEN 0 ELSE b - 1 - a + 1) = b - a
  OBVIOUS
<1> QED
  BY <1>2, <1>3

\* Touches in slots and those only counted, above the slots, add up.
LEMMA AddsUp ==
  ASSUME NEW m \in Nat, NEW n \in Nat, m <= n, NEW T, T \subseteq 0..(m - 1)
  PROVE  /\ IsFiniteSet(T \cup (m..(n - 1))) /\ Cardinality(T) \in Nat
         /\ Cardinality(T \cup (m..(n - 1))) = Cardinality(T) + (n - m)
<1>1. IsFiniteSet(T)
  <2>1. T \in SUBSET (0..(m - 1)) /\ IsFiniteSet(0..(m - 1))
    BY Interval
  <2> QED
    BY <2>1, FS_Subset
<1>2. IsFiniteSet(m..(n - 1)) /\ Cardinality(m..(n - 1)) = n - m
  BY Interval
<1>3. T \cap (m..(n - 1)) = {}
  OBVIOUS
<1>4. Cardinality(T) \in Nat
  BY <1>1, FS_CardinalityType
<1>5. Cardinality(T \cap (m..(n - 1))) = 0
  BY <1>3, FS_EmptySet
<1>6. /\ IsFiniteSet(T \cup (m..(n - 1)))
      /\ Cardinality(T \cup (m..(n - 1))) =
           Cardinality(T) + Cardinality(m..(n - 1)) - Cardinality(T \cap (m..(n - 1)))
  BY <1>1, <1>2, FS_Union
<1> QED
  BY <1>2, <1>4, <1>5, <1>6

LEMMA PrimedMatch ==
  ASSUME UNCHANGED model, Match(kernel', pad')
  PROVE  (Match(kernel, pad))'
<1>1. Index' = Index
  BY DEF Index, ntouches
<1>2. SlotsAnnounced(pad') = (SlotsAnnounced(pad))'
  BY Zenon DEF SlotsAnnounced
<1>3. KeysHeard(kernel', pad') = (KeysHeard(kernel, pad))'
  BY Zenon DEF KeysHeard
<1>4. SlotsKept(kernel', pad') = (SlotsKept(kernel, pad))'
  BY Zenon DEF SlotsKept, Held, Kept, Gone
<1>5. CountKnown(kernel', pad') = (CountKnown(kernel, pad))'
  BY <1>1, Zenon DEF CountKnown, Started, In, KeyCount
<1>6. Matched(kernel', pad') = (Matched(kernel, pad))'
  BY Zenon DEF Matched, FingersDue, KeyCount, LostIn, Gone
<1> QED
  BY <1>2, <1>3, <1>4, <1>5, <1>6 DEF Match

-----------------------------------------------------------------------------
(* A frame in which some finger is on the surface.                         *)

\* What is known when it comes to its end.
Heard ==
  /\ Expected /\ MatchInv /\ Fits /\ kernel.heard
  /\ OVERFLOW \notin kernel.keys /\ BTN_TOUCH \in kernel.keys

LEMMA HeardIs ==
  ASSUME Heard
  PROVE  LET n == KeyCount(kernel.keys)
         IN  /\ ModelOK /\ Counted(pad) /\ pad \in Pad /\ Ending(pad)
             /\ kernel.tracked \in SUBSET Slots
             /\ pad.fake = kernel.keys /\ ~IsOverflow(pad) /\ BTN_TOUCH \in pad.fake
             /\ FingerCount(pad) = n /\ n \in 1..4 /\ n <= ntouches
             /\ \A s \in kernel.tracked : Held(pad.touch[s])
<1>1. /\ ModelOK /\ Counted(pad) /\ pad \in Pad /\ Ending(pad) /\ kernel.keys \in KeySets
      /\ kernel.tracked \in SUBSET Slots
  BY DEF Heard, MatchInv, LeftInv, Inv, Counted, Left, KeysKnown, Kernel
<1>2. /\ pad.fake = kernel.keys /\ \A s \in kernel.tracked : Held(pad.touch[s])
  BY DEF Heard, MatchInv, Match, KeysHeard, SlotsKept
<1>3. /\ FingerCount(pad) = KeyCount(kernel.keys) /\ ~IsOverflow(pad)
      /\ KeyCount(kernel.keys) \in 0..5 /\ KeyCount(kernel.keys) <= ntouches
      /\ KeyCount(kernel.keys) >= 1 /\ KeyCount(kernel.keys) # 5
  BY <1>1, <1>2, CountFits DEF Heard
<1> QED
  BY <1>1, <1>2, <1>3 DEF Heard

\* Its slots: as many as it counts and it has, or on a Synaptics touchpad one
\* less, whose touch is taken back.
LEMMA SlotsFit ==
  ASSUME Heard, model.has_mt
  PROVE  LET n == KeyCount(kernel.keys)
             f == FakeTouches(pad)
         IN  \E T \in SUBSET Slots :
               /\ kernel.tracked \subseteq T
               /\ Cardinality(T) = Least(n, model.real)
               /\ \A s \in T : \/ Quirked(pad).touch[s].state \in ActiveStates
                              \/ s \in LostIn(kernel, pad)
<1> DEFINE n == KeyCount(kernel.keys)
           used == Cardinality(kernel.tracked)
           q == Quirked(pad)
<1>1. /\ ModelOK /\ Counted(pad) /\ pad \in Pad /\ Ending(pad)
      /\ kernel.tracked \in SUBSET Slots /\ FingerCount(pad) = n /\ n \in 1..4
  BY HeardIs
<1>2. \A s \in kernel.tracked : \/ q.touch[s].state \in ActiveStates
                                \/ s \in LostIn(kernel, pad)
  <2> SUFFICES ASSUME NEW s \in kernel.tracked, Kept(pad.touch[s])
               PROVE  q.touch[s].state \in ActiveStates
    BY HeardIs DEF Held, LostIn
  <2>1. s \in Index /\ pad.touch[s].state \in ActiveStates
    BY <1>1, SlotsAreTouches DEF Kept
  <2>2. q.touch[s] = pad.touch[s]
    BY <1>1, <2>1, QuirkedIs DEF ActiveStates
  <2> QED
    BY <2>1, <2>2
<1>3. \/ used = Least(n, model.real)
      \/ /\ model.quirk = "synaptics" /\ kernel.up /\ n >= 3
         /\ used = Least(n, model.real) - 1
         /\ \E s \in kernel.changed \ kernel.tracked : pad.touch[s].state = "MAYBE_END"
  BY DEF Heard, Fits
<1>4. CASE used = Least(n, model.real)
  BY <1>1, <1>2, <1>4
<1>5. CASE used # Least(n, model.real)
  <2>1. PICK s \in kernel.changed \ kernel.tracked : pad.touch[s].state = "MAYBE_END"
    BY <1>3, <1>5
  <2>2. /\ model.quirk = "synaptics" /\ kernel.up /\ n >= 3
        /\ used = Least(n, model.real) - 1
    BY <1>3, <1>5
  <2>3. s \in Slots /\ s \in Index /\ s < pad.num_slots
    <3>1. s \in Slots
      BY DEF Heard, MatchInv, LeftInv, Inv, Kernel
    <3>2. pad.num_slots >= model.real /\ pad.num_slots \in Nat
      BY <1>1 DEF Heard, MatchInv, Match, SlotsAnnounced, Pad
    <3> QED
      BY <1>1, <3>1, <3>2, ModelNumbers, SlotsAreTouches DEF Slots
  <2>4. pad.nfingers < n
    <3>1. Cardinality(Started(pad)) < n
      BY <2>2 DEF Heard, MatchInv, Match, CountKnown
    <3>2. Down(pad) \in SUBSET Started(pad) /\ IsFiniteSet(Started(pad))
      BY <1>1, DownFinite DEF Down, Started, In, DownStates, TouchStates
    <3>3. Cardinality(Down(pad)) <= Cardinality(Started(pad))
      BY <3>2, FS_Subset
    <3>4. pad.nfingers = Cardinality(Down(pad)) /\ pad.nfingers \in Nat
          /\ Cardinality(Started(pad)) \in Nat
      BY <1>1, <3>2, ActiveIs, FS_CardinalityType DEF Counted
    <3> HIDE DEF n
    <3> QED
      BY <1>1, <3>1, <3>3, <3>4
  <2>5. q.touch[s].state = "UPDATE"
    <3>1. q = RestoreTouches(pad)
      BY <2>2 DEF Quirked
    <3>2. /\ FingerCount(pad) \in Nat /\ FingerCount(pad) >= 3
          /\ pad.nfingers < FingerCount(pad)
      BY <1>1, <2>2, <2>4
    <3>3. RestoreTouches(pad).touch[s].state = "UPDATE"
      BY <1>1, <2>1, <2>3, <3>2, RestoredTouch
    <3> QED
      BY <3>1, <3>3
  <2> DEFINE T == kernel.tracked \cup {s}
  <2>6. T \in SUBSET Slots
    BY <1>1, <2>3
  <2>7. Cardinality(T) = Least(n, model.real)
    <3>1. IsFiniteSet(kernel.tracked)
      BY <1>1, SlotsAreTouches, FS_Subset
    <3>2. Cardinality(T) = used + 1 /\ used \in Nat
      BY <2>1, <3>1, FS_AddElement, FS_CardinalityType
    <3>3. Least(n, model.real) \in Nat
      BY <1>1, ModelNumbers DEF Least
    <3> HIDE DEF used, n, T
    <3> QED
      BY <2>2, <3>2, <3>3
  <2>8. \A i \in T : q.touch[i].state \in ActiveStates \/ i \in LostIn(kernel, pad)
    BY <1>2, <2>5 DEF ActiveStates
  <2> HIDE DEF T
  <2>9. kernel.tracked \subseteq T
    BY DEF T
  <2> QED
    BY <2>6, <2>7, <2>8, <2>9
<1> QED
  BY <1>4, <1>5

\* The slots the driver goes by.
LEMMA SlotsKnown ==
  ASSUME Heard, model.has_mt
  PROVE  LET n == KeyCount(kernel.keys)
             m == Quirked(pad).num_slots
         IN  /\ m \in Nat /\ m >= model.real
             /\ /\ n > model.real
                /\ model.quirk = "alps" => pad.nactive = Cardinality(kernel.tracked)
                => m = model.real
<1> DEFINE n == KeyCount(kernel.keys)
           m == Quirked(pad).num_slots
           used == Cardinality(kernel.tracked)
<1>1. /\ ModelOK /\ Counted(pad) /\ pad \in Pad /\ Ending(pad)
      /\ FingerCount(pad) = n /\ n \in 1..4 /\ kernel.tracked \in SUBSET Slots
  BY HeardIs
<1>2. /\ pad.num_slots >= model.real /\ pad.num_slots \in Nat /\ pad.nactive \in Nat
      /\ model.quirk # "alps" => pad.num_slots = model.real
  BY <1>1 DEF Heard, MatchInv, Match, SlotsAnnounced, Expected, AllUsed, ModelOK, Pad
<1>3. model.real \in Nat /\ 1 <= model.real
  BY <1>1, ModelNumbers
<1>4. CASE model.quirk # "alps"
  <2>1. m = pad.num_slots
    BY <1>1, <1>4, QuirkedIs
  <2> QED
    BY <1>2, <1>4, <2>1
<1>5. CASE model.quirk = "alps"
  <2>1. used = Least(n, model.real) /\ used \in Nat
    BY <1>1, <1>5, AllSlots DEF Heard, Fits
  <2>2. used <= pad.nactive
    BY DEF Heard, MatchInv, Match, KeysHeard, LeftInv, Left, SlotsCounted
  <2>3. m = IF n > 1 /\ n > pad.nactive /\ pad.nactive < pad.num_slots
            THEN pad.nactive ELSE pad.num_slots
    BY <1>1, <1>5, QuirkedIs
  <2> HIDE DEF used, n, m
  <2>4. m \in Nat /\ m >= model.real
    BY <1>1, <1>2, <1>3, <2>1, <2>2, <2>3 DEF Least
  <2>5. n > model.real /\ pad.nactive = used => m = model.real
    BY <1>1, <1>2, <1>3, <2>1, <2>3 DEF Least
  <2> QED
    BY <1>5, <2>4, <2>5 DEF used, n, m
<1> QED
  BY <1>4, <1>5

LEMMA LostFinite ==
  ASSUME ModelOK, kernel.tracked \in SUBSET Slots, NEW r
  PROVE  IsFiniteSet(LostIn(kernel, r)) /\ Cardinality(LostIn(kernel, r)) \in Nat
<1>1. LostIn(kernel, r) \in SUBSET Slots
  BY DEF LostIn
<1> QED
  BY <1>1, SlotsAreTouches, FS_Subset, FS_CardinalityType

\* As many touches as fingers, by their slots or by the count, but for lost ones.
LEMMA EnoughTouches ==
  ASSUME Heard, model.quirk = "alps" => pad.nactive = Cardinality(kernel.tracked)
  PROVE  Cardinality(Active(FakeTouches(pad)))
           >= KeyCount(kernel.keys) - Cardinality(LostIn(kernel, pad))
<1> DEFINE n == KeyCount(kernel.keys)
           q == Quirked(pad)
           f == FakeTouches(pad)
           lost == LostIn(kernel, pad)
           enough == Cardinality(Active(f)) >= n - Cardinality(lost)
<1>1. /\ ModelOK /\ Counted(pad) /\ Ending(pad) /\ ~IsOverflow(pad)
      /\ FingerCount(pad) = n /\ n \in 1..4 /\ n <= ntouches
  BY HeardIs
<1>2. /\ Counted(f)
      /\ \A i \in Index : i \notin BeyondSlots(q) => f.touch[i] = q.touch[i]
      /\ \A i \in BeyondSlots(q) : i \in Active(f) <=> i < n
  BY <1>1, FakesAre
<1>3. IsFiniteSet(Active(f)) /\ Cardinality(Active(f)) \in Nat
  BY <1>1, <1>2, ActiveIs
<1>4. IsFiniteSet(lost) /\ Cardinality(lost) \in Nat
  BY HeardIs, LostFinite
<1> HIDE DEF lost
<1>5. ASSUME NEW S \in SUBSET (Active(f) \cup lost), Cardinality(S) = n PROVE enough
  <2> DEFINE a == Active(f)
  <2> HIDE DEF a
  <2>1. /\ IsFiniteSet(a \cup lost)
        /\ Cardinality(a \cup lost) =
             Cardinality(a) + Cardinality(lost) - Cardinality(a \cap lost)
    BY <1>3, <1>4, FS_Union DEF a
  <2>2. Cardinality(a \cap lost) \in Nat
    BY <1>4, FS_Intersection, FS_CardinalityType
  <2>3. Cardinality(S) <= Cardinality(a \cup lost)
    BY <1>5, <2>1, FS_Subset DEF a
  <2>4. n \in Nat
    BY <1>1
  <2> HIDE DEF n
  <2> QED
    BY <1>3, <1>4, <1>5, <2>1, <2>2, <2>3, <2>4 DEF a
<1>6. ASSUME ~model.has_mt PROVE enough
  <2>1. 0..(n - 1) \in SUBSET Active(f)
    <3>1. \A i \in 0..(n - 1) : i \in BeyondSlots(q) /\ i < n
      BY <1>1, <1>6, ModelNumbers DEF BeyondSlots, Index
    <3> HIDE DEF n, f, q
    <3> QED
      BY <1>2, <3>1
  <2>2. Cardinality(0..(n - 1)) = n
    <3>1. n \in Nat /\ 0 <= n
      BY <1>1
    <3> HIDE DEF n
    <3> QED
      BY <3>1, Interval
  <2> HIDE DEF enough
  <2> QED
    BY <1>5, <2>1, <2>2
<1>7. ASSUME model.has_mt PROVE enough
  <2> DEFINE m == q.num_slots
  <2>1. PICK T \in SUBSET Slots : /\ Cardinality(T) = Least(n, model.real)
                                  /\ \A s \in T : \/ q.touch[s].state \in ActiveStates
                                                 \/ s \in lost
    BY <1>7, SlotsFit DEF lost
  <2>2. m \in Nat /\ m >= model.real /\ (n > model.real => m = model.real)
    BY <1>7, SlotsKnown
  <2>3. model.real \in Nat /\ ntouches \in Nat
    BY <1>1, ModelNumbers
  <2>4. T \subseteq Active(f) \cup lost
    <3> SUFFICES ASSUME NEW s \in T, s \notin lost PROVE s \in Active(f)
      OBVIOUS
    <3>1. s \in Index /\ s \notin BeyondSlots(q)
      BY <1>1, <1>7, <2>2, <2>3, SlotsAreTouches DEF Slots, BeyondSlots
    <3>2. f.touch[s] = q.touch[s]
      BY <1>2, <3>1
    <3> QED
      BY <2>1, <3>1, <3>2 DEF Active, In
  <2> HIDE DEF f, q, n, enough
  <2>5. CASE n <= model.real
    <3>1. Cardinality(T) = n
      BY <2>1, <2>5 DEF Least
    <3> QED
      BY <1>5, <2>4, <3>1
  <2>6. CASE n > model.real
    <3>1. m = model.real /\ Cardinality(T) = m /\ m <= n /\ n \in Nat
      BY <1>1, <2>1, <2>2, <2>3, <2>6 DEF Least
    <3>2. T \subseteq 0..(m - 1)
      BY <3>1 DEF Slots
    <3>3. m..(n - 1) \subseteq Active(f)
      <4>1. \A i \in m..(n - 1) : i \in BeyondSlots(q) /\ i < n
        BY <1>1, <2>3, <3>1 DEF BeyondSlots, Index
      <4> HIDE DEF m
      <4> QED
        BY <1>2, <4>1 DEF n, f, q
    <3> HIDE DEF m
    <3>4. Cardinality(T \cup (m..(n - 1))) = Cardinality(T) + (n - m)
      BY <2>2, <3>1, <3>2, AddsUp
    <3>5. Cardinality(T \cup (m..(n - 1))) = n
      BY <2>2, <3>1, <3>4
    <3> QED
      BY <1>5, <2>4, <3>3, <3>5
  <2> QED
    BY <1>1, <2>3, <2>5, <2>6 DEF n
<1> QED
  BY <1>6, <1>7 DEF enough, lost

\* A Synaptics touchpad never has more.
LEMMA NotTooMany ==
  ASSUME Expected, MatchInv, Fits, kernel.heard, model.quirk = "synaptics",
         OVERFLOW \notin kernel.keys
  PROVE  Cardinality(Active(FakeTouches(pad))) <= KeyCount(kernel.keys)
<1> DEFINE n == KeyCount(kernel.keys)
           q == Quirked(pad)
           f == FakeTouches(pad)
           m == model.real
<1>1. /\ ModelOK /\ Counted(pad) /\ pad \in Pad /\ Ending(pad) /\ ~IsOverflow(pad)
      /\ FingerCount(pad) = n /\ n \in 0..4 /\ n <= ntouches
      /\ kernel.tracked \in SUBSET Slots
      /\ BTN_TOUCH \notin kernel.keys => n <= 1
  <2>1. /\ ModelOK /\ Counted(pad) /\ pad \in Pad /\ Ending(pad) /\ kernel.keys \in KeySets
        /\ kernel.tracked \in SUBSET Slots /\ pad.fake = kernel.keys
    BY DEF MatchInv, LeftInv, Inv, Counted, Left, KeysKnown, Kernel, Match, KeysHeard
  <2> QED
    BY <2>1, CountFits
<1>2. /\ Counted(f)
      /\ \A i \in Index : i \notin BeyondSlots(q) => f.touch[i] = q.touch[i]
      /\ \A i \in BeyondSlots(q) : i \in Active(f) <=> i < n
  BY <1>1, FakesAre
<1>3. \A i \in Active(f) : i \in Index /\ i \in Nat
  BY DEF Active, In, Index
<1>4. ASSUME Active(f) \in SUBSET (0..(n - 1)) PROVE Cardinality(Active(f)) <= n
  <2>1. n \in Nat /\ 0 <= n
    BY <1>1
  <2> HIDE DEF n, f
  <2>2. IsFiniteSet(0..(n - 1)) /\ Cardinality(0..(n - 1)) = n - 0
    BY <2>1, Interval
  <2>3. Cardinality(Active(f)) <= Cardinality(0..(n - 1))
    BY <1>4, <2>2, FS_Subset
  <2> QED
    BY <2>1, <2>2, <2>3
<1>5. CASE ~model.has_mt
  <2>1. \A i \in Active(f) : i \in 0..(n - 1)
    BY <1>1, <1>2, <1>3, <1>5 DEF BeyondSlots
  <2> HIDE DEF n, f
  <2> QED
    BY <1>4, <2>1 DEF n, f
<1>6. CASE model.has_mt
  <2>1. m \in 1..3 /\ q.num_slots = m /\ pad.num_slots = m
    <3>1. q.num_slots = pad.num_slots
      BY <1>1, QuirkedIs
    <3> QED
      BY <1>1, <3>1, ModelNumbers
         DEF Expected, FewSlots, AllUsed, MatchInv, Match, SlotsAnnounced, ModelOK
  <2>2. \A i \in Index : i \in BeyondSlots(q) <=> i >= m
    BY <1>6, <2>1 DEF BeyondSlots
  <2>3. CASE n >= m
    <3>1. \A i \in Active(f) : i \in 0..(n - 1)
      <4> SUFFICES ASSUME NEW i \in Active(f) PROVE i < n
        BY <1>1, <1>3
      <4>1. CASE i < m
        BY <1>1, <1>3, <2>1, <2>3, <4>1
      <4>2. CASE i >= m
        BY <1>2, <1>3, <2>2, <4>2
      <4> QED
        BY <1>3, <2>1, <4>1, <4>2
    <3> HIDE DEF n, f
    <3> QED
      BY <1>4, <3>1 DEF n, f
  <2>4. CASE n < m
    <3>1. n < 3 /\ ~kernel.short
      <4>1. n < 3
        BY <1>1, <2>1, <2>4
      <4>2. kernel.short => ~kernel.keyed
        BY <1>6 DEF Fits
      <4>3. kernel.short /\ ~kernel.keyed => n >= 3
        BY DEF MatchInv, LeftInv, Left, ShortFrame
      <4> HIDE DEF n
      <4> QED
        BY <1>1, <4>1, <4>2, <4>3
    <3>2. Cardinality(kernel.tracked) <= n /\ Cardinality(kernel.tracked) \in Nat
      <4>1. \/ Cardinality(kernel.tracked) = Least(n, m)
            \/ ~(Cardinality(kernel.tracked) > 0)
        BY <1>1, <1>6, <3>1 DEF Fits
      <4>2. Cardinality(kernel.tracked) \in Nat
        BY <1>1, AllSlots
      <4> HIDE DEF n
      <4> QED
        BY <1>1, <2>1, <2>4, <4>1, <4>2 DEF Least
    <3>3. q = pad
      BY <1>1, <3>1 DEF Quirked, RestoreTouches
    <3>4. Active(f) \in SUBSET kernel.tracked
      <4> SUFFICES ASSUME NEW i \in Active(f), i \notin kernel.tracked PROVE FALSE
        OBVIOUS
      <4>1. i \in Index /\ i \in Nat /\ f.touch[i].state \in ActiveStates
        BY <1>3 DEF Active, In
      <4>2. i < m
        <5>1. i >= m => i < n
          BY <1>2, <2>2, <4>1
        <5> QED
          BY <1>1, <2>1, <2>4, <4>1, <5>1
      <4>3. f.touch[i] = pad.touch[i]
        <5>1. i \notin BeyondSlots(q)
          BY <2>1, <2>2, <4>1, <4>2
        <5> QED
          BY <1>2, <3>3, <4>1, <5>1
      <4>4. Lifted(pad.touch[i])
        <5>1. i \in Slots /\ i < pad.num_slots
          BY <2>1, <4>1, <4>2 DEF Slots
        <5> QED
          BY <1>6, <3>1, <4>1, <5>1 DEF MatchInv, LeftInv, Left, SlotsLifted
      <4> QED
        BY <4>1, <4>3, <4>4 DEF Lifted, ActiveStates
    <3>5. IsFiniteSet(kernel.tracked)
      BY <1>1, SlotsAreTouches, FS_Subset
    <3>6. /\ Cardinality(Active(f)) <= Cardinality(kernel.tracked)
          /\ Cardinality(Active(f)) \in Nat
      BY <1>1, <1>2, <3>4, <3>5, ActiveIs, FS_Subset
    <3> HIDE DEF n, f
    <3> QED
      BY <1>1, <3>2, <3>6 DEF n, f
  <2> QED
    BY <1>1, <2>1, <2>3, <2>4
<1> QED
  BY <1>5, <1>6

\* Nor more than the lost ones leave, once all its slots are in use.
LEMMA LostMissing ==
  ASSUME Heard, model.quirk = "synaptics", model.has_mt,
         KeyCount(kernel.keys) > model.real
  PROVE  Cardinality(Active(FakeTouches(pad)))
           <= KeyCount(kernel.keys) - Cardinality(LostIn(kernel, pad))
<1> DEFINE n == KeyCount(kernel.keys)
           q == Quirked(pad)
           f == FakeTouches(pad)
           a == Active(f)
           lost == LostIn(kernel, pad)
<1>1. /\ ModelOK /\ Counted(pad) /\ pad \in Pad /\ Ending(pad) /\ ~IsOverflow(pad)
      /\ FingerCount(pad) = n /\ n \in 1..4 /\ kernel.tracked \in SUBSET Slots
  BY HeardIs
<1>2. /\ Counted(f)
      /\ \A i \in Index : i \notin BeyondSlots(q) => f.touch[i] = q.touch[i]
      /\ \A i \in BeyondSlots(q) : i \in Active(f) <=> i < n
  BY <1>1, FakesAre
<1>3. model.real \in Nat /\ q.num_slots = model.real
  <2>1. q.num_slots = pad.num_slots
    BY <1>1, QuirkedIs
  <2> QED
    BY <1>1, <2>1, ModelNumbers
       DEF Heard, Expected, AllUsed, MatchInv, Match, SlotsAnnounced, ModelOK
<1>4. \A i \in a : i \in 0..(n - 1)
  <2> SUFFICES ASSUME NEW i \in a PROVE i \in Nat /\ i < n
    BY <1>1
  <2>1. i \in Index /\ i \in Nat
    BY DEF Active, In, Index
  <2>2. i >= model.real => i < n
    BY <1>2, <1>3, <2>1 DEF BeyondSlots
  <2> QED
    BY <1>1, <1>3, <2>1, <2>2
<1>5. \A i \in lost : i \in 0..(n - 1) /\ i \notin a
  <2> SUFFICES ASSUME NEW i \in lost PROVE i \in Nat /\ i < n /\ i \notin a
    BY <1>1
  <2>1. i \in Slots /\ i \in Index /\ i \in Nat /\ i < model.real /\ Gone(pad.touch[i])
    BY <1>1, <1>3, SlotsAreTouches DEF LostIn, Slots
  <2>2. f.touch[i] = q.touch[i]
    BY <1>2, <1>3, <2>1 DEF BeyondSlots
  <2>3. q.touch[i] = pad.touch[i]
    BY <1>1, <2>1, QuirkedIs DEF Gone
  <2>4. i \notin a
    BY <2>1, <2>2, <2>3 DEF Gone, Active, In, ActiveStates
  <2> QED
    BY <1>1, <1>3, <2>1, <2>4
<1>6. /\ IsFiniteSet(a) /\ IsFiniteSet(lost) /\ n \in Nat /\ 0 <= n
      /\ Cardinality(a) \in Nat /\ Cardinality(lost) \in Nat
  BY <1>1, <1>2, ActiveIs, LostFinite
<1> HIDE DEF a, lost, n
<1>7. a \cap lost = {} /\ a \cup lost \in SUBSET (0..(n - 1))
  BY <1>4, <1>5
<1>8. Cardinality(a \cap lost) = 0
  BY <1>7, FS_EmptySet
<1>9. Cardinality(a \cup lost) = Cardinality(a) + Cardinality(lost) - Cardinality(a \cap lost)
  BY <1>6, FS_Union
<1>10. IsFiniteSet(0..(n - 1)) /\ Cardinality(0..(n - 1)) = n - 0
  BY <1>6, Interval
<1>11. Cardinality(a \cup lost) <= Cardinality(0..(n - 1))
  BY <1>7, <1>10, FS_Subset
<1> QED
  BY <1>6, <1>8, <1>9, <1>10, <1>11 DEF a, lost, n

-----------------------------------------------------------------------------
(* The end of a frame.                                                     *)

LEMMA FrameIs ==
  ASSUME ModelOK, NEW r, Counted(r)
  PROVE  /\ Counted(FakeTouches(r)) /\ Counted(Unhover(FakeTouches(r)))
         /\ FakeTouches(r).fake = r.fake
         /\ HandleState(r).nfingers = Unhover(FakeTouches(r)).nfingers
<1>1. Counted(FakeTouches(r)) /\ FakeTouches(r).fake = r.fake
  BY FakeTouchesCounted DEF KeepsOpen
<1>2. Counted(Unhover(FakeTouches(r)))
  BY <1>1, UnhoverCounted
<1>3. HandleState(r) = PostProcess(EndTouches(Unhover(FakeTouches(r))))
  BY DEF HandleState, PreProcess
<1>4. PostProcess(EndTouches(Unhover(FakeTouches(r)))).nfingers
        = Unhover(FakeTouches(r)).nfingers
  BY <1>2, SettledTouch
<1> QED
  BY <1>1, <1>2, <1>3, <1>4

\* An ALPS touchpad is not believed to have fewer slots than it uses.
LEMMA ReportSlots ==
  ASSUME MatchInv, Fits, pad.open
  PROVE  SlotsAnnounced(HandleState(pad))
<1> DEFINE n == FingerCount(pad)
           used == Cardinality(kernel.tracked)
<1>1. /\ ModelOK /\ Counted(pad) /\ pad \in Pad /\ Ending(pad) /\ SlotsAnnounced(pad)
      /\ kernel.tracked \in SUBSET Slots /\ kernel.keys \in KeySets
      /\ pad.fake \subseteq kernel.keys
  BY DEF MatchInv, Match, LeftInv, Inv, Counted, Left, KeysKnown, Kernel
<1>2. HandleState(pad).num_slots = FakeTouches(pad).num_slots
  BY <1>1, FrameSlots
<1>3. CASE IsOverflow(pad)
  <2>1. FakeTouches(pad) = pad
    BY <1>3 DEF FakeTouches
  <2> QED
    BY <1>1, <1>2, <2>1 DEF SlotsAnnounced
<1>4. CASE ~IsOverflow(pad)
  <2>1. FakeTouches(pad).num_slots = Quirked(pad).num_slots
    BY <1>1, <1>4, FakesAre
  <2>2. CASE model.quirk # "alps"
    <3>1. Quirked(pad).num_slots = pad.num_slots
      BY <1>1, <2>2, QuirkedIs
    <3> QED
      BY <1>1, <1>2, <2>1, <3>1 DEF SlotsAnnounced
  <2>3. CASE model.quirk = "alps"
    <3>1. Quirked(pad).num_slots = IF /\ model.has_mt /\ n > 1 /\ n > pad.nactive
                                      /\ pad.nactive < pad.num_slots
                                   THEN pad.nactive ELSE pad.num_slots
      BY <1>1, <2>3, QuirkedIs
    <3>2. ASSUME model.has_mt, n > 1, n > pad.nactive PROVE pad.nactive >= model.real
      <4>1. n \in 1..4 /\ KeyCount(kernel.keys) = n /\ BTN_TOUCH \in kernel.keys
        BY <1>1, <3>2, FingerCountIs
      <4>2. used = Least(n, model.real)
        BY <2>3, <3>2, <4>1 DEF Fits
      <4>3. used <= pad.nactive /\ pad.nactive \in Nat /\ model.real \in Nat
        BY <1>1, ModelNumbers DEF MatchInv, LeftInv, Left, SlotsCounted, Pad
      <4> HIDE DEF n, used
      <4> QED
        BY <3>2, <4>1, <4>2, <4>3 DEF Least
    <3> HIDE DEF n
    <3> QED
      BY <1>1, <1>2, <2>1, <2>3, <3>1, <3>2 DEF SlotsAnnounced
  <2> QED
    BY <2>2, <2>3
<1> QED
  BY <1>3, <1>4

\* A finger in a slot stays a touch, or stays lost.
LEMMA ReportKeeps ==
  ASSUME Expected, MatchInv, Fits, kernel.heard, NEW s \in kernel.tracked
  PROVE  LET new == HandleState(pad)
         IN  /\ Held(new.touch[s])
             /\ Gone(pad.touch[s]) => Gone(new.touch[s])
             /\ ~Gone(pad.touch[s]) => s \in Active(FakeTouches(pad))
             /\ s \in Active(Unhover(FakeTouches(pad))) => ~Gone(new.touch[s])
<1> DEFINE f == FakeTouches(pad)
           new == HandleState(pad)
           n == KeyCount(kernel.keys)
<1>1. /\ ModelOK /\ Counted(pad) /\ pad \in Pad /\ Ending(pad) /\ Match(kernel, pad)
      /\ kernel.tracked \in SUBSET Slots /\ kernel.keys \in KeySets
  BY DEF MatchInv, LeftInv, Inv, Counted, Left, KeysKnown, Kernel
<1>2. /\ pad.open /\ pad.fake = kernel.keys /\ model.has_mt /\ Held(pad.touch[s])
  BY <1>1 DEF Match, KeysHeard, SlotsKept
<1>3. f.num_slots >= model.real /\ f.num_slots \in Nat
  <2>1. HandleState(pad).num_slots >= model.real
    BY <1>2, ReportSlots DEF SlotsAnnounced
  <2> QED
    BY <1>1, <2>1, FrameSlots, FrameIs DEF Counted, Pad
<1>4. s \in Index /\ s < f.num_slots /\ f.num_slots >= 1
  BY <1>1, <1>3, ModelNumbers, SlotsAreTouches DEF Slots
<1>5. f.touch[s] = pad.touch[s]
  BY <1>1, <1>2, <1>4, FakesSpareSlots DEF Held, Kept, Gone, ActiveStates
<1>6. f.fake = pad.fake
  BY <1>1, FrameIs
<1>7. FingerCount(f) \in Nat
  BY <1>1, <1>2, <1>6, CountFits
<1>8. Kept(pad.touch[s]) => s \in Active(f) /\ ~Gone(pad.touch[s])
  BY <1>4, <1>5 DEF Active, In, Kept, Gone, ActiveStates
<1>9. ASSUME model.quirk = "synaptics", model.contact = "touch", s \in Active(f)
      PROVE  s \in Active(Unhover(f))
  <2>1. Unhover(f) = UnhoverFake(f) /\ Counted(f)
    BY <1>1, <1>9, FrameIs DEF Unhover
  <2>2. CASE IsOverflow(f)
    BY <1>1, <1>7, <1>9, <2>1, <2>2, FakeCounts
  <2>3. CASE ~IsOverflow(f)
    <3>1. OVERFLOW \notin kernel.keys
      BY <1>2, <1>6, <2>3 DEF IsOverflow
    <3>2. BTN_TOUCH \in kernel.keys
      <4>1. Cardinality(kernel.tracked) > 0
        BY <1>1, AllSlots
      <4>2. BTN_TOUCH \notin kernel.keys => KeyCount(kernel.keys) <= 1
                                            /\ KeyCount(kernel.keys) \in 0..5
        BY <1>1, <1>2, CountFits
      <4> QED
        BY <1>2, <1>9, <4>1, <4>2 DEF Fits
    <3>3. f.nfingers <= n /\ FingerCount(f) = n
      <4>1. FingerCount(f) = n /\ n \in 0..5
        BY <1>1, <1>2, <1>6, <3>1, CountFits
      <4>2. Cardinality(Active(f)) <= n
        BY <1>9, <3>1, NotTooMany
      <4>3. /\ f.nfingers \in Nat /\ Cardinality(Hovering(f)) \in Nat
            /\ Cardinality(Active(f)) = f.nfingers + Cardinality(Hovering(f))
        BY <1>1, <2>1, ActiveIs
      <4> HIDE DEF f, n
      <4> QED
        BY <4>1, <4>2, <4>3
    <3>4. Active(UnhoverFake(f)) = Active(f)
      BY <1>1, <1>2, <1>6, <1>7, <2>1, <2>3, <3>2, <3>3, FakeCounts
    <3> QED
      BY <1>9, <2>1, <3>4
  <2> QED
    BY <2>2, <2>3
<1>10. CASE Kept(pad.touch[s])
  <2>1. /\ Held(new.touch[s])
        /\ s \in Active(Unhover(f)) => Kept(new.touch[s])
    BY <1>1, <1>4, <1>5, <1>7, <1>8, <1>9, <1>10, FrameKeeps
  <2>2. Kept(new.touch[s]) => ~Gone(new.touch[s])
    BY DEF Kept, Gone, ActiveStates
  <2> HIDE DEF new, f
  <2> QED
    BY <1>8, <1>10, <2>1, <2>2 DEF new, f
<1>11. CASE Gone(pad.touch[s])
  <2>1. Gone(new.touch[s])
    BY <1>1, <1>4, <1>5, <1>11, FrameForgets
  <2>2. s \notin Active(Unhover(f))
    <3>1. /\ Counted(f) /\ Counted(Unhover(f))
      BY <1>1, FrameIs
    <3>2. Unhover(f).touch[s] = f.touch[s]
      BY <1>1, <1>4, <1>5, <1>11, <3>1, UnhoverSpares DEF Gone
    <3> HIDE DEF f
    <3> QED
      BY <1>5, <1>11, <3>2 DEF Gone, Active, In, ActiveStates
  <2> HIDE DEF new, f
  <2> QED
    BY <1>11, <2>1, <2>2 DEF Held, new, f
<1> QED
  BY <1>2, <1>10, <1>11 DEF Held

\* What is down was a touch before contact was looked at.
LEMMA ReportCounts ==
  ASSUME Expected, MatchInv, Fits, kernel.heard, model.quirk = "synaptics",
         OVERFLOW \notin kernel.keys
  PROVE  HandleState(pad).nfingers <= KeyCount(kernel.keys)
<1> DEFINE f == FakeTouches(pad)
           u == Unhover(f)
           n == KeyCount(kernel.keys)
<1>1. /\ ModelOK /\ Counted(pad) /\ kernel.keys \in KeySets
      /\ pad.open /\ pad.fake = kernel.keys
  BY DEF MatchInv, LeftInv, Inv, Left, KeysKnown, Match, KeysHeard
<1>2. /\ Counted(f) /\ Counted(u) /\ f.fake = pad.fake
      /\ HandleState(pad).nfingers = u.nfingers
  BY <1>1, FrameIs
<1>3. FingerCount(f) \in Nat /\ n \in 0..5
  BY <1>1, <1>2, CountFits
<1>4. f.num_slots >= 1
  <2>1. HandleState(pad).num_slots >= model.real
    BY <1>1, ReportSlots DEF SlotsAnnounced
  <2>2. HandleState(pad).num_slots = f.num_slots /\ f.num_slots \in Nat
    BY <1>1, <1>2, FrameSlots DEF Counted, Pad, MatchInv, LeftInv, Left
  <2> HIDE DEF f
  <2> QED
    BY <1>1, <2>1, <2>2, ModelNumbers
<1>5. Cardinality(Active(f)) <= n
  BY NotTooMany
<1> HIDE DEF f
<1>6. Active(u) \in SUBSET Active(f)
  <2>1. model.contact \in {"touch", "pressure", "size"}
    BY <1>1, SlotsAreTouches DEF AllModels, Contacts
  <2> QED
    BY <1>1, <1>2, <1>3, <1>4, <2>1, FakeCounts, PressureFirm, SizeFirm DEF Unhover
<1> HIDE DEF u, n
<1>7. /\ Cardinality(Active(u)) <= Cardinality(Active(f))
      /\ Cardinality(Active(f)) \in Nat
  BY <1>1, <1>2, <1>6, ActiveIs, FS_Subset
<1>8. /\ Cardinality(Active(u)) = u.nfingers + Cardinality(Hovering(u))
      /\ Cardinality(Hovering(u)) \in Nat /\ u.nfingers \in Nat
  BY <1>1, <1>2, ActiveIs
<1> QED
  BY <1>2, <1>3, <1>5, <1>7, <1>8 DEF f, n, u

LEMMA EmptyIsNoFinger ==
  ASSUME ModelOK, NEW r, Counted(r), Empty(r)
  PROVE  r.nfingers = 0 /\ Down(r) = {} /\ Started(r) = {} /\ Cardinality(Started(r)) = 0
<1>1. Down(r) = {} /\ Started(r) = {}
  BY DEF Empty, Started, Down, In, DownStates
<1> QED
  BY <1>1, FS_EmptySet DEF Counted

\* As many fingers as the keys say, but for the lost ones.
LEMMA HeardMatched ==
  ASSUME Heard, model.quirk = "alps" => pad.nactive = Cardinality(kernel.tracked)
  PROVE  LET n == KeyCount(kernel.keys)
             new == HandleState(pad)
         IN  /\ model.contact = "touch" => new.nfingers = n
             /\ model.contact = "pressure" /\ n > new.num_slots =>
                  new.nfingers \in {0, n - Cardinality(LostIn(kernel, new))}
<1> DEFINE n == KeyCount(kernel.keys)
           f == FakeTouches(pad)
           u == Unhover(f)
           new == HandleState(pad)
           before == LostIn(kernel, pad)
           after == LostIn(kernel, new)
<1>1. /\ ModelOK /\ Counted(pad) /\ pad.fake = kernel.keys /\ kernel.keys \in KeySets
      /\ BTN_TOUCH \in pad.fake /\ Fits /\ MatchInv /\ Expected
      /\ kernel.heard /\ pad.open /\ kernel.tracked \in SUBSET Slots
      /\ ~model.has_mt => kernel.tracked = {}
  BY HeardIs DEF Heard, MatchInv, Match, KeysHeard, LeftInv, Left, KeysKnown
<1>2. /\ Counted(f) /\ f.fake = pad.fake /\ new.nfingers = u.nfingers
      /\ new.num_slots = f.num_slots /\ f.num_slots \in Nat
  BY <1>1, FrameIs, FrameSlots DEF Counted, Pad
<1>3. /\ FingerCount(f) = n /\ FingerCount(f) \in Nat /\ ~IsOverflow(f)
      /\ BTN_TOUCH \in f.fake
  BY <1>1, <1>2, CountFits DEF Heard
<1>4. Cardinality(Active(f)) >= n - Cardinality(before)
  BY EnoughTouches
<1>5. f.num_slots >= model.real /\ f.num_slots >= 1
  BY <1>1, <1>2, ReportSlots, ModelNumbers DEF SlotsAnnounced
<1>6. ~(model.quirk = "synaptics" /\ model.has_mt /\ model.contact # "touch") =>
        before = {} /\ after = {} /\ Cardinality(before) = 0
  <2>1. ASSUME ~(model.quirk = "synaptics" /\ model.has_mt /\ model.contact # "touch"), NEW r
        PROVE  LostIn(kernel, r) = {}
    BY <1>1, <2>1 DEF LostIn, Gone
  <2> QED
    BY <2>1, FS_EmptySet
<1>7. Active(u) = Active(f) => after = before
  <2> SUFFICES ASSUME Active(u) = Active(f), NEW s \in kernel.tracked
               PROVE  Gone(new.touch[s]) <=> Gone(pad.touch[s])
    BY DEF LostIn
  <2> QED
    BY <1>1, ReportKeeps
<1> HIDE DEF before, after, new, f, n, u
<1>8. ASSUME model.contact = "touch" PROVE u.nfingers = n
  <2>1. u = UnhoverFake(f)
    BY <1>8 DEF Unhover, u
  <2>2. Cardinality(Active(f)) >= n
    BY <1>3, <1>4, <1>6, <1>8
  <2> QED
    BY <1>1, <1>2, <1>3, <2>1, <2>2, FakeCounts
<1>9. ASSUME model.contact = "pressure", n > f.num_slots
      PROVE  u.nfingers \in {0, n - Cardinality(after)}
  <2>1. u = UnhoverPressure(f)
    BY <1>9 DEF Unhover, u
  <2>2. CASE model.quirk = "synaptics" /\ model.has_mt
    <3>1. n > model.real
      BY <1>1, <1>2, <1>3, <1>5, <1>9, ModelNumbers
    <3>2. Cardinality(Active(f)) <= n - Cardinality(before)
      BY <2>2, <3>1, LostMissing DEF n, f, before
    <3>3. Cardinality(before) \in Nat /\ Cardinality(Active(f)) \in Nat
      BY <1>1, <1>2, ActiveIs, LostFinite DEF before
    <3>4. /\ Cardinality(Active(f)) = n - Cardinality(before)
          /\ Cardinality(Active(f)) <= n
      BY <1>3, <1>4, <3>2, <3>3
    <3>5. \/ u.nfingers = 0
          \/ u.nfingers = Cardinality(Active(f)) /\ Active(u) = Active(f)
      BY <1>1, <1>2, <1>3, <1>5, <1>9, <2>1, <3>4, PressureFirm
    <3> QED
      BY <1>7, <3>4, <3>5
  <2>3. CASE ~(model.quirk = "synaptics" /\ model.has_mt)
    <3>1. after = {} /\ Cardinality(after) = 0 /\ Cardinality(before) = 0
      BY <1>6, <2>3, FS_EmptySet
    <3>2. Cardinality(Active(f)) >= n
      BY <1>3, <1>4, <3>1
    <3>3. u.nfingers \in {0, n}
      BY <1>1, <1>2, <1>3, <1>5, <1>9, <2>1, <3>2, PressureFirm
    <3> QED
      BY <1>3, <3>1, <3>3
  <2> QED
    BY <2>2, <2>3
<1> QED
  BY <1>2, <1>8, <1>9 DEF f, n, new, after

LEMMA SentHeard ==
  ASSUME kernel \in Kernel
  PROVE  /\ ~Sent.up
         /\ Sent.heard = (kernel.heard \/ (pad.open /\ kernel.keys = {}))
<1> DEFINE short == /\ model.has_mt /\ BTN_TOUCH \in kernel.keys
                    /\ Cardinality(kernel.tracked)
                         < Least(KeyCount(kernel.keys), model.real)
           heard == kernel.heard \/ (pad.open /\ kernel.keys = {})
<1>1. Sent = [kernel EXCEPT !.changed = {}, !.keyed = FALSE, !.up = FALSE,
                            !.short = short, !.heard = heard]
  BY DEF Sent
<1> HIDE DEF short, heard
<1>2. ~Sent.up /\ Sent.heard = heard
  BY <1>1 DEF Kernel
<1> QED
  BY <1>2 DEF heard

LEMMA ReportMatched ==
  ASSUME Expected, MatchInv, Report, pad.open
  PROVE  Matched(Sent, HandleState(pad))
<1> DEFINE new == HandleState(pad)
           n == KeyCount(kernel.keys)
<1>1. /\ ModelOK /\ kernel \in Kernel /\ Counted(pad) /\ kernel.keys \in KeySets /\ Fits
      /\ Match(kernel, pad)
  BY DEF Report, MatchInv, LeftInv, Inv, Left, KeysKnown
<1>2. /\ Sent.keys = kernel.keys /\ Sent.tracked = kernel.tracked
      /\ Sent.heard = (kernel.heard \/ (pad.open /\ kernel.keys = {}))
  BY <1>1, SentIs, SentHeard
<1>3. /\ Counted(new) /\ new.fake = pad.fake /\ new.nactive = pad.nactive
      /\ new.num_slots >= model.real /\ new.num_slots \in Nat
      /\ new.num_slots = FakeTouches(pad).num_slots
  BY <1>1, HandleStateCounted, FrameSlots, ReportSlots DEF SlotsAnnounced, Counted, Pad
<1>4. model.real \in Nat /\ 1 <= model.real
  BY <1>1, ModelNumbers
<1> SUFFICES ASSUME Sent.heard, OVERFLOW \notin new.fake,
                    model.quirk = "alps" => new.nactive = Cardinality(Sent.tracked)
             PROVE  /\ model.contact = "touch" => new.nfingers = FingersDue(Sent)
                    /\ model.contact = "pressure" /\ n > new.num_slots =>
                         new.nfingers \in {0, n - Cardinality(LostIn(kernel, new))}
  <2>1. LostIn(Sent, new) = LostIn(kernel, new)
    BY <1>2 DEF LostIn
  <2> QED
    BY <1>2, <2>1, Zenon DEF Matched
<1>5. FingersDue(Sent) = IF BTN_TOUCH \in kernel.keys THEN n ELSE 0
  BY <1>2 DEF FingersDue
<1>6. CASE kernel.keys = {}
  <2>1. n = 0 /\ FingersDue(Sent) = 0
    BY <1>5, <1>6 DEF KeyCount
  <2>2. Empty(new)
    <3>1. Left(kernel', pad') /\ kernel' = Sent /\ pad' = new
      BY ReportLeft DEF Expected, MatchInv, Report
    <3>2. Sent.changed = {} /\ ~Sent.keyed /\ Sent.keys = {} /\ new.open
      <4>1. new.open = pad.open
        BY <1>1, HandleStateCounted DEF KeepsOpen
      <4> QED
        BY <1>1, <1>6, <4>1, SentIs
    <3> QED
      BY <3>1, <3>2 DEF Left, EmptyWithoutKeys
  <2>3. new.nfingers = 0
    BY <1>1, <1>3, <2>2, EmptyIsNoFinger
  <2> HIDE DEF new, n
  <2> QED
    BY <1>3, <1>4, <2>1, <2>3
<1>7. CASE kernel.keys # {}
  <2>1. kernel.heard /\ pad.fake = kernel.keys /\ OVERFLOW \notin kernel.keys
    BY <1>1, <1>2, <1>3, <1>7 DEF Match, KeysHeard
  <2>2. CASE BTN_TOUCH \in kernel.keys
    <3>1. Heard
      BY <1>1, <2>1, <2>2 DEF Heard
    <3> QED
      BY <1>2, <1>3, <1>5, <2>2, <3>1, HeardMatched
  <2>3. CASE BTN_TOUCH \notin kernel.keys
    <3>1. n <= 1 /\ n \in 0..5
      BY <1>1, <2>1, <2>3, CountFits
    <3>2. ASSUME model.contact = "touch" PROVE new.nfingers = 0
      <4> DEFINE f == FakeTouches(pad)
      <4>1. /\ Counted(f) /\ f.fake = kernel.keys
            /\ new.nfingers = UnhoverFake(f).nfingers
        BY <1>1, <2>1, <3>2, FrameIs DEF Unhover
      <4>2. FingerCount(f) \in Nat /\ ~IsOverflow(f)
        BY <1>1, <2>1, <4>1, CountFits
      <4> HIDE DEF f, new
      <4> QED
        BY <1>1, <2>3, <4>1, <4>2, FakeCounts
    <3> HIDE DEF new, n
    <3> QED
      BY <1>3, <1>4, <1>5, <2>3, <3>1, <3>2
  <2> QED
    BY <2>2, <2>3
<1> QED
  BY <1>6, <1>7

LEMMA ReportMatch ==
  ASSUME Expected, MatchInv, Report
  PROVE  Match(kernel', pad')
<1>1. /\ ModelOK /\ kernel \in Kernel /\ Counted(pad) /\ kernel.keys \in KeySets /\ Fits
      /\ Match(kernel, pad) /\ LeftInv /\ pad.fake \subseteq kernel.keys /\ kernel' = Sent
  BY DEF Report, MatchInv, LeftInv, Inv, Left, KeysKnown
<1>2. /\ Sent.keys = kernel.keys /\ Sent.tracked = kernel.tracked
      /\ Sent.changed = {} /\ ~Sent.keyed /\ ~Sent.up
      /\ Sent.heard = (kernel.heard \/ (pad.open /\ kernel.keys = {}))
  BY <1>1, SentIs, SentHeard
<1>3. kernel.keys = {} => kernel.tracked = {}
  BY <1>1, NoKeysNoSlots DEF Match, KeysHeard
<1>4. CASE ~pad.open
  <2>1. pad' = pad /\ ~Sent.heard
    BY <1>1, <1>2, <1>4 DEF Report, Match, KeysHeard
  <2> QED
    BY <1>1, <1>2, <1>3, <2>1
       DEF Match, SlotsAnnounced, KeysHeard, SlotsKept, CountKnown, Matched
<1>5. CASE pad.open
  <2> DEFINE new == HandleState(pad)
  <2>1. pad' = new
    BY <1>5 DEF Report
  <2>2. /\ Counted(new) /\ Rests(new) /\ new.fake = pad.fake /\ new.open
    BY <1>1, <1>5, HandleStateCounted, FrameSlots DEF KeepsOpen
  <2>3. SlotsAnnounced(new)
    BY <1>1, <1>5, ReportSlots
  <2>4. KeysHeard(Sent, new)
    BY <1>1, <1>2, <1>3, <2>2 DEF Match, KeysHeard
  <2>5. SlotsKept(Sent, new)
    <3> SUFFICES ASSUME Sent.heard, NEW s \in Sent.tracked PROVE Held(new.touch[s])
      BY DEF SlotsKept
    <3>1. kernel.heard /\ s \in kernel.tracked
      BY <1>2, <1>3
    <3> QED
      BY <1>1, <3>1, ReportKeeps
  <2>6. Matched(Sent, new)
    BY <1>5, ReportMatched
  <2>7. CountKnown(Sent, new)
    <3> SUFFICES ASSUME Sent.heard, model.quirk = "synaptics", OVERFLOW \notin Sent.keys
                 PROVE  Cardinality(Started(new)) <= KeyCount(Sent.keys)
      BY <1>2 DEF CountKnown
    <3>1. Started(new) = Down(new)
      BY <2>2 DEF Rests, Settling, Started, Down, In, DownStates
    <3>2. Cardinality(Started(new)) = new.nfingers
      BY <2>2, <3>1 DEF Counted
    <3>3. CASE kernel.heard
      BY <1>1, <1>2, <3>2, <3>3, ReportCounts
    <3>4. CASE ~kernel.heard
      <4>1. kernel.keys = {} /\ KeyCount(Sent.keys) = 0
        BY <1>2, <3>4 DEF KeyCount
      <4>2. Empty(new)
        <5>1. Left(kernel', pad')
          BY <1>1, ReportLeft DEF Expected
        <5> QED
          BY <1>1, <1>2, <2>1, <2>2, <4>1, <5>1 DEF Left, EmptyWithoutKeys
      <4> HIDE DEF new
      <4> QED
        BY <1>1, <2>2, <4>1, <4>2, EmptyIsNoFinger
    <3> QED
      BY <3>3, <3>4
  <2> HIDE DEF new
  <2> QED
    BY <1>1, <2>1, <2>3, <2>4, <2>5, <2>6, <2>7 DEF Match
<1> QED
  BY <1>4, <1>5

-----------------------------------------------------------------------------
(* Nothing on the surface that the driver goes by.                         *)

LEMMA EmptyMatch ==
  ASSUME ModelOK, NEW k, NEW r, Counted(r), Empty(r), SlotsAnnounced(r), KeysHeard(k, r),
         ~k.keyed, k.changed = {}, k.heard => k.keys = {}
  PROVE  Match(k, r)
<1>1. r.nfingers = 0 /\ Cardinality(Started(r)) = 0
  BY EmptyIsNoFinger
<1>2. k.keys = {} => FingersDue(k) = 0 /\ KeyCount(k.keys) = 0
  BY DEF FingersDue, KeyCount
<1>3. r.num_slots \in Nat
  BY DEF Counted, Pad
<1>4. SlotsKept(k, r)
  BY DEF KeysHeard, SlotsKept
<1>5. CountKnown(k, r)
  BY <1>1, <1>2 DEF KeysHeard, CountKnown
<1>6. Matched(k, r)
  BY <1>1, <1>2, <1>3 DEF Matched
<1> QED
  BY <1>4, <1>5, <1>6 DEF Match

LEMMA ClearedSlots ==
  ASSUME ModelOK, NEW r, Counted(r), Ending(r)
  PROVE  ClearState(r).num_slots = r.num_slots
<1> DEFINE q == EndSequences(r, Index)
           new == [q EXCEPT !.fake = {}]
<1>1. ClearState(r) = HandleState(new)
  BY DEF ClearState, Unrolled
<1>2. Counted(q) /\ SamePad(r, q) /\ q \in Pad
  BY EndSequencesCounted DEF Counted
<1>3. Ending(q)
  <2>1. ASSUME NEW i \in Index PROVE q.touch[i].state # "END"
    <3>1. q.touch[i] = Stopped(r.touch[i]) /\ r.touch[i] \in Touch
      BY SequenceEnded DEF Counted, Pad
    <3> QED
      BY <3>1, StoppedIs DEF Ending
  <2> QED
    BY <2>1 DEF Ending
<1> HIDE DEF q
<1>4. /\ new.touch = q.touch /\ new.nfingers = q.nfingers /\ new.fake = {}
      /\ new.num_slots = q.num_slots /\ new \in Pad
  BY <1>2 DEF Pad
<1>5. Counted(new) /\ Ending(new)
  BY <1>2, <1>3, <1>4 DEF Counted, Ending, Down, In
<1> HIDE DEF new
<1>6. FingerCount(new) = 0 /\ ~IsOverflow(new)
  BY <1>4 DEF FingerCount, IsOverflow
<1>7. HandleState(new).num_slots = FakeTouches(new).num_slots
  BY <1>5, FrameSlots
<1>8. FakeTouches(new).num_slots = Quirked(new).num_slots
  BY <1>5, <1>6, FakesAre
<1>9. Quirked(new).num_slots = new.num_slots
  <2>1. ~(FingerCount(new) > 1)
    BY <1>6
  <2> QED
    BY <1>5, <2>1, QuirkedIs
<1> QED
  BY <1>1, <1>2, <1>4, <1>7, <1>8, <1>9 DEF SamePad

LEMMA SuspendMatch ==
  ASSUME MatchInv, Suspend
  PROVE  Match(kernel', pad')
<1> DEFINE q == ClearState(pad)
           new == [q EXCEPT !.suspended = TRUE, !.open = model.topbuttons]
           k == [kernel EXCEPT !.heard = FALSE]
<1>1. /\ ModelOK /\ kernel \in Kernel /\ Counted(pad) /\ Ending(pad) /\ Match(kernel, pad)
      /\ Between /\ model.topbuttons \in BOOLEAN
  BY SlotsAreTouches DEF MatchInv, LeftInv, Inv, Left, Suspend, ModelOK, AllModels
<1>2. pad' = new /\ kernel' = k
  BY DEF Suspend
<1>3. Counted(q) /\ Empty(q) /\ q.num_slots = pad.num_slots /\ q \in Pad
  BY <1>1, ClearStateCounted, ClearedIsEmpty, ClearedSlots DEF Counted
<1> HIDE DEF q
<1>4. /\ new.touch = q.touch /\ new.nfingers = q.nfingers /\ new.num_slots = q.num_slots
      /\ new \in Pad
  BY <1>1, <1>3 DEF Pad
<1>5. /\ k.keys = kernel.keys /\ k.tracked = kernel.tracked /\ k.keyed = kernel.keyed
      /\ k.changed = kernel.changed /\ k.up = kernel.up /\ ~k.heard
  BY <1>1 DEF Kernel
<1> HIDE DEF k, new
<1>6. Counted(new) /\ Empty(new)
  BY <1>3, <1>4 DEF Counted, Empty, Down, In
<1>7. SlotsAnnounced(new)
  BY <1>1, <1>3, <1>4 DEF Match, SlotsAnnounced
<1>8. KeysHeard(k, new)
  BY <1>1, <1>5 DEF Match, KeysHeard
<1> QED
  BY <1>1, <1>2, <1>5, <1>6, <1>7, <1>8, EmptyMatch DEF Between

LEMMA ResumeMatch ==
  ASSUME MatchInv, Resume
  PROVE  Match(kernel', pad')
<1> DEFINE q == IF model.topbuttons THEN ClearState(pad) ELSE pad
           n == q.nactive + Cardinality(kernel.tracked)
           new == [q EXCEPT !.suspended = FALSE, !.open = TRUE, !.nactive = n]
           heard == kernel.keys = {}
           k == [kernel EXCEPT !.heard = heard]
<1>1. /\ ModelOK /\ kernel \in Kernel /\ Counted(pad) /\ Ending(pad) /\ Match(kernel, pad)
      /\ Between /\ kernel.tracked \in SUBSET Slots
  BY DEF MatchInv, LeftInv, Inv, Left, Resume, Kernel
<1>2. pad' = new /\ kernel' = k
  BY DEF Resume
<1>3. Counted(q) /\ Empty(q) /\ q.fake = {} /\ q.num_slots = pad.num_slots /\ q \in Pad
  <2>1. /\ Counted(ClearState(pad)) /\ Empty(ClearState(pad)) /\ ClearState(pad).fake = {}
        /\ ClearState(pad).num_slots = pad.num_slots
    BY <1>1, ClearStateCounted, ClearedIsEmpty, ClearedSlots
  <2>2. ~model.topbuttons => Empty(pad) /\ pad.fake = {}
    BY DEF MatchInv, LeftInv, Left, KeysKnown, Resume
  <2> QED
    BY <1>1, <2>1, <2>2 DEF Counted
<1> HIDE DEF q
<1>4. n \in Nat
  BY <1>1, <1>3, AllSlots DEF Pad
<1> HIDE DEF n, heard
<1>5. /\ new.touch = q.touch /\ new.nfingers = q.nfingers /\ new.num_slots = q.num_slots
      /\ new.fake = {} /\ new.open /\ new \in Pad
  BY <1>3, <1>4 DEF Pad
<1>6. /\ k.keys = kernel.keys /\ k.tracked = kernel.tracked /\ k.keyed = kernel.keyed
      /\ k.changed = kernel.changed /\ k.up = kernel.up /\ k.heard = heard
  BY <1>1 DEF Kernel
<1> HIDE DEF k, new
<1>7. Counted(new) /\ Empty(new)
  BY <1>3, <1>5 DEF Counted, Empty, Down, In
<1>8. SlotsAnnounced(new)
  BY <1>1, <1>3, <1>5 DEF Match, SlotsAnnounced
<1>9. k.heard => k.keys = {}
  BY <1>6 DEF heard
<1>10. KeysHeard(k, new)
  BY <1>1, <1>5, <1>6, <1>9 DEF Match, KeysHeard
<1> QED
  BY <1>1, <1>2, <1>6, <1>7, <1>8, <1>9, <1>10, EmptyMatch DEF Between

LEMMA InitMatch == TouchesInit => MatchInv
<1> SUFFICES ASSUME TouchesInit PROVE MatchInv
  OBVIOUS
<1>1. LeftInv /\ ModelOK /\ Counted(pad) /\ Fits
  BY InitLeft DEF LeftInv, Inv, TouchesInit
<1>2. PICK tracked \in SUBSET Slots, keys \in KeySets :
        /\ kernel = [tracked |-> tracked, keys |-> keys, changed |-> {},
                     keyed |-> FALSE, up |-> FALSE, short |-> FALSE,
                     heard |-> keys = {}]
        /\ ~model.has_mt => tracked = {}
        /\ pad = [touch |-> [i \in Index |-> NoTouch], nfingers |-> 0,
                  nactive |-> Cardinality(tracked), num_slots |-> model.num_slots,
                  fake |-> keys \cap {1}, open |-> TRUE, suspended |-> FALSE]
  BY DEF TouchesInit
<1>3. Empty(pad)
  BY <1>2 DEF Empty, NoTouch
<1>4. SlotsAnnounced(pad)
  BY <1>1, <1>2, ModelNumbers DEF SlotsAnnounced
<1>5. kernel.keys = {} => kernel.tracked = {}
  BY <1>1, <1>2, NoKeysNoSlots
<1>6. KeysHeard(kernel, pad)
  BY <1>2, <1>5 DEF KeysHeard
<1>7. ~kernel.keyed /\ kernel.changed = {} /\ (kernel.heard => kernel.keys = {})
  BY <1>2
<1> QED
  BY <1>1, <1>3, <1>4, <1>6, <1>7, EmptyMatch DEF MatchInv

-----------------------------------------------------------------------------
(* Slots that change.                                                      *)

\* What matters of a slot event.
LEMMA SlotEventMatch ==
  ASSUME MatchInv, NEW k, NEW r, k.changed # {},
         k.keys = kernel.keys, k.keyed = kernel.keyed, k.up = kernel.up,
         k.heard = kernel.heard,
         r.num_slots = pad.num_slots, r.fake = pad.fake, r.open = pad.open,
         ~model.has_mt => k.tracked = {},
         \A i \in Index : r.touch[i].state \in DownStates \cup {"MAYBE_END"}
                            <=> pad.touch[i].state \in DownStates \cup {"MAYBE_END"},
         k.heard => \A i \in k.tracked : Held(r.touch[i])
  PROVE  Match(k, r)
<1>1. Match(kernel, pad)
  BY DEF MatchInv
<1>2. Started(r) = Started(pad)
  BY DEF Started, In
<1>3. SlotsAnnounced(r) /\ KeysHeard(k, r) /\ SlotsKept(k, r)
  BY <1>1 DEF Match, SlotsAnnounced, KeysHeard, SlotsKept
<1>4. CountKnown(k, r)
  BY <1>1, <1>2 DEF Match, CountKnown
<1>5. Matched(k, r)
  BY DEF Matched
<1> QED
  BY <1>3, <1>4, <1>5 DEF Match

LEMMA SlotSame ==
  ASSUME kernel \in Kernel, NEW s \in Slots, NEW tracked \in SUBSET Slots
  PROVE  LET k == [Changed(s) EXCEPT !.tracked = tracked]
         IN  k.up = kernel.up /\ k.heard = kernel.heard
  BY DEF Changed, Kernel

\* A closed pad hears nothing.
LEMMA ClosedMatch ==
  ASSUME MatchInv, ~pad.open, NEW k, k.changed # {},
         k.keys = kernel.keys, k.keyed = kernel.keyed, k.up = kernel.up,
         k.heard = kernel.heard, ~model.has_mt => k.tracked = {}
  PROVE  Match(k, pad)
<1>1. ~k.heard
  BY DEF MatchInv, Match, KeysHeard
<1> QED
  BY <1>1, SlotEventMatch

LEMMA SlotBeginsMatch ==
  ASSUME MatchInv, NEW s \in Slots, NEW contact \in ContactValues, SlotBegins(s, contact)
  PROVE  Match(kernel', pad')
<1> DEFINE tracked == kernel.tracked \cup {s}
           k == [Changed(s) EXCEPT !.tracked = tracked]
<1>1. /\ ModelOK /\ kernel \in Kernel /\ Counted(pad) /\ pad \in Pad /\ Match(kernel, pad)
      /\ kernel.tracked \in SUBSET Slots /\ tracked \in SUBSET Slots /\ model.has_mt
      /\ Ending(pad)
  BY DEF MatchInv, LeftInv, Inv, Left, Counted, Kernel, SlotBegins
<1>2. kernel' = k
  BY <1>1 DEF SlotBegins, Changed, Kernel
<1>3. /\ k.changed # {} /\ k.tracked = tracked /\ k.keys = kernel.keys
      /\ k.keyed = kernel.keyed /\ k.up = kernel.up /\ k.heard = kernel.heard
  BY <1>1, SlotChanged, SlotSame
<1> HIDE DEF k
<1>4. s \in Index /\ {s} \in SUBSET Index /\ contact \in 0..2
  BY <1>1, SlotsAreTouches DEF ContactValues
<1>5. CASE ~pad.open
  <2>1. pad' = pad
    BY <1>5 DEF SlotBegins
  <2> QED
    BY <1>1, <1>2, <1>3, <1>5, <2>1, ClosedMatch
<1>6. CASE pad.open
  <2> DEFINE r == [pad EXCEPT !.nactive = pad.nactive + 1]
             q == NewTouches(r, {s})
             new == [q EXCEPT !.touch[s].dirty = TRUE, !.touch[s].contact = contact]
  <2>1. pad' = new
    BY <1>6 DEF SlotBegins
  <2>2. pad.nactive \in Nat /\ pad.nactive + 1 \in Nat
    BY <1>1 DEF Pad
  <2>3. /\ Counted(r) /\ r.touch = pad.touch
        /\ r.num_slots = pad.num_slots /\ r.fake = pad.fake /\ r.open = pad.open
    BY <1>1, <2>2, NActiveSet, NActiveIs
  <2> HIDE DEF r
  <2>4. Counted(q) /\ SamePad(r, q) /\ r \in Pad
    BY <1>1, <1>4, <2>3, NewTouchesCounted DEF Counted
  <2>5. /\ q.touch[s] = NewTouch(pad.touch[s])
        /\ \A i \in Index : i # s => q.touch[i] = pad.touch[i]
    BY <1>4, <2>3, <2>4 DEF NewTouches, Pad
  <2> HIDE DEF q
  <2>6. SamePad(q, new)
    BY <1>1, <1>4, <2>4, AxesCounted, Zenon
  <2>7. q \in Pad
    BY <2>4 DEF Counted
  <2>8. /\ new.touch[s].state = q.touch[s].state /\ new.touch[s].dirty
        /\ new.touch[s].has_ended = q.touch[s].has_ended
        /\ \A i \in Index : i # s => new.touch[i] = q.touch[i]
    BY <1>4, <2>7 DEF Pad, Touch
  <2> HIDE DEF new
  <2>9. pad.touch[s] \in Touch /\ pad.touch[s].state # "END"
    BY <1>1, <1>4 DEF Pad, Ending
  <2>10. /\ NewTouch(pad.touch[s]).state \in ActiveStates
         /\ NewTouch(pad.touch[s]).state \in DownStates \cup {"MAYBE_END"}
              <=> pad.touch[s].state \in DownStates \cup {"MAYBE_END"}
         /\ Lifted(pad.touch[s]) => ~NewTouch(pad.touch[s]).has_ended
    BY <2>9 DEF NewTouch, Touch, TouchStates, ActiveStates, DownStates, Lifted
  <2>11. model.quirk # "synaptics" => Lifted(pad.touch[s])
    <3>1. s < pad.num_slots
      BY <1>1, ModelNumbers DEF Match, SlotsAnnounced, Slots, Pad
    <3>2. s \notin kernel.tracked
      BY DEF SlotBegins
    <3> QED
      BY <1>1, <1>4, <3>1, <3>2 DEF MatchInv, LeftInv, Left, SlotsLifted, ShortFrame
  <2>12. Kept(new.touch[s])
    BY <2>5, <2>8, <2>10, <2>11 DEF Kept
  <2>13. kernel.heard => \A i \in tracked : Held(new.touch[i])
    <3> SUFFICES ASSUME kernel.heard, NEW i \in tracked, i # s PROVE Held(new.touch[i])
      BY <2>12 DEF Held
    <3>1. i \in kernel.tracked /\ i \in Index
      BY <1>1, SlotsAreTouches
    <3>2. new.touch[i] = pad.touch[i]
      BY <2>5, <2>8, <3>1
    <3> QED
      BY <1>1, <3>1, <3>2 DEF Match, SlotsKept
  <2>14. \A i \in Index : new.touch[i].state \in DownStates \cup {"MAYBE_END"}
                            <=> pad.touch[i].state \in DownStates \cup {"MAYBE_END"}
    BY <2>5, <2>8, <2>10
  <2>15. /\ new.num_slots = pad.num_slots /\ new.fake = pad.fake /\ new.open = pad.open
    BY <2>3, <2>4, <2>6 DEF SamePad
  <2>16. Match(k, new)
    BY <1>1, <1>3, <2>13, <2>14, <2>15, SlotEventMatch
  <2> QED
    BY <1>2, <2>1, <2>16
<1> QED
  BY <1>5, <1>6

LEMMA SlotEndsMatch ==
  ASSUME MatchInv, NEW s \in Slots, SlotEnds(s)
  PROVE  Match(kernel', pad')
<1> DEFINE tracked == kernel.tracked \ {s}
           k == [Changed(s) EXCEPT !.tracked = tracked]
<1>1. /\ ModelOK /\ kernel \in Kernel /\ Counted(pad) /\ pad \in Pad /\ Match(kernel, pad)
      /\ kernel.tracked \in SUBSET Slots /\ tracked \in SUBSET Slots
  BY DEF MatchInv, LeftInv, Inv, Counted, Kernel
<1>2. kernel' = k
  BY <1>1 DEF SlotEnds, Changed, Kernel
<1>3. /\ k.changed # {} /\ k.tracked = tracked /\ k.keys = kernel.keys
      /\ k.keyed = kernel.keyed /\ k.up = kernel.up /\ k.heard = kernel.heard
      /\ ~model.has_mt => k.tracked = {}
  BY <1>1, SlotChanged, SlotSame DEF Match, KeysHeard
<1> HIDE DEF k
<1>4. s \in Index /\ {s} \in SUBSET Index
  BY <1>1, SlotsAreTouches
<1>5. CASE ~pad.open \/ pad.nactive = 0
  <2>1. pad' = pad
    BY <1>5 DEF SlotEnds
  <2>2. Match(k, pad)
    BY <1>1, <1>3, SlotEventMatch DEF Match, SlotsKept
  <2> QED
    BY <1>2, <2>1, <2>2
<1>6. CASE ~(~pad.open \/ pad.nactive = 0)
  <2>1. pad.nactive - 1 \in Nat
    BY <1>1, <1>6 DEF Pad
  <2> DEFINE r == [pad EXCEPT !.nactive = pad.nactive - 1]
             new == EndSequences(r, {s})
  <2>2. pad' = new
    BY <1>6 DEF SlotEnds
  <2>3. /\ Counted(r) /\ r.touch = pad.touch
        /\ r.num_slots = pad.num_slots /\ r.fake = pad.fake /\ r.open = pad.open
    BY <1>1, <2>1, NActiveSet, NActiveIs
  <2> HIDE DEF r
  <2>4. SamePad(r, new) /\ r \in Pad
    BY <1>1, <1>4, <2>3, EndSequencesCounted DEF Counted
  <2>5. /\ new.touch[s] = Stopped(pad.touch[s])
        /\ \A i \in Index : i # s => new.touch[i] = pad.touch[i]
    BY <1>4, <2>3, <2>4, SequenceEnded
  <2> HIDE DEF new
  <2>6. Stopped(pad.touch[s]).state \in DownStates \cup {"MAYBE_END"}
          <=> pad.touch[s].state \in DownStates \cup {"MAYBE_END"}
    <3>1. pad.touch[s] \in Touch
      BY <1>1, <1>4 DEF Pad
    <3> QED
      BY <3>1 DEF Stopped, MaybeEndTouch, Touch, DownStates
  <2>7. k.heard => \A i \in k.tracked : Held(new.touch[i])
    <3> SUFFICES ASSUME kernel.heard, NEW i \in tracked PROVE Held(new.touch[i])
      BY <1>3
    <3>1. i \in kernel.tracked /\ i \in Index /\ i # s
      BY <1>1, SlotsAreTouches
    <3>2. new.touch[i] = pad.touch[i]
      BY <2>5, <3>1
    <3> QED
      BY <1>1, <3>1, <3>2 DEF Match, SlotsKept
  <2>8. \A i \in Index : new.touch[i].state \in DownStates \cup {"MAYBE_END"}
                           <=> pad.touch[i].state \in DownStates \cup {"MAYBE_END"}
    BY <2>5, <2>6
  <2>9. /\ new.num_slots = pad.num_slots /\ new.fake = pad.fake /\ new.open = pad.open
    BY <2>3, <2>4 DEF SamePad
  <2>10. Match(k, new)
    BY <1>3, <2>7, <2>8, <2>9, SlotEventMatch
  <2> QED
    BY <1>2, <2>2, <2>10
<1> QED
  BY <1>5, <1>6

LEMMA MovesMatch ==
  ASSUME MatchInv, NEW s \in Slots, NEW contact \in ContactValues, Moves(s, contact)
  PROVE  Match(kernel', pad')
<1> DEFINE k == Changed(s)
           new == [pad EXCEPT !.touch[s].dirty = TRUE, !.touch[s].contact = contact]
<1>1. /\ ModelOK /\ kernel \in Kernel /\ Counted(pad) /\ pad \in Pad /\ Match(kernel, pad)
      /\ kernel.tracked \in SUBSET Slots
  BY DEF MatchInv, LeftInv, Inv, Counted, Kernel
<1>2. /\ k.changed # {} /\ k.tracked = kernel.tracked /\ k.keys = kernel.keys
      /\ k.keyed = kernel.keyed /\ k.up = kernel.up /\ k.heard = kernel.heard
      /\ kernel' = k
  BY <1>1 DEF Changed, Kernel, Moves
<1>3. s \in Index /\ contact \in 0..2
  BY <1>1, SlotsAreTouches DEF ContactValues
<1>4. SamePad(pad, new)
  BY <1>1, <1>3, AxesCounted, Zenon
<1>5. /\ new.touch[s].state = pad.touch[s].state /\ new.touch[s].dirty
      /\ new.touch[s].has_ended = pad.touch[s].has_ended
      /\ \A i \in Index : i # s => new.touch[i] = pad.touch[i]
  BY <1>1, <1>3 DEF Pad, Touch
<1>6. pad' \in {pad, new}
  BY DEF Moves
<1> HIDE DEF k, new
<1>7. ASSUME NEW r \in {pad, new} PROVE Match(k, r)
  <2>1. k.heard => \A i \in k.tracked : Held(r.touch[i])
    <3> SUFFICES ASSUME kernel.heard, NEW i \in kernel.tracked PROVE Held(r.touch[i])
      BY <1>2
    <3>1. Held(pad.touch[i]) /\ i \in Index
      BY <1>1, SlotsAreTouches DEF Match, SlotsKept
    <3>2. CASE i # s
      BY <1>5, <3>1, <3>2
    <3>3. CASE i = s
      BY <1>5, <3>1, <3>3 DEF Held, Kept, Gone
    <3> QED
      BY <3>2, <3>3
  <2>2. r.num_slots = pad.num_slots /\ r.fake = pad.fake /\ r.open = pad.open
    BY <1>4 DEF SamePad
  <2>3. \A i \in Index : r.touch[i].state \in DownStates \cup {"MAYBE_END"}
                           <=> pad.touch[i].state \in DownStates \cup {"MAYBE_END"}
    BY <1>5
  <2> QED
    BY <1>1, <1>2, <2>1, <2>2, <2>3, SlotEventMatch DEF Match, KeysHeard
<1> QED
  BY <1>2, <1>6, <1>7

-----------------------------------------------------------------------------
(* Keys that change.                                                       *)

\* A driver that knew the keys knows the new ones.
LEMMA FakesFollow ==
  ASSUME ModelOK, NEW keys \in KeySets, NEW old \in KeySets, keys # old,
         NEW r \in Pad, r.fake = old
  PROVE  FakeFingers(r, keys \ old, old \ keys).fake = keys
<1> DEFINE new == FakeFingers(r, keys \ old, old \ keys)
<1>1. new.fake \subseteq keys
  BY FakesKnown
<1>2. ASSUME OVERFLOW \in keys PROVE OVERFLOW \notin old
  <2>1. \A s \in KeySets : OVERFLOW \in s => s = {BTN_TOUCH, OVERFLOW}
    BY KeyCountIs DEF BTN_TOUCH, OVERFLOW
  <2> QED
    BY <1>2, <2>1
<1>3. ASSUME NEW b \in keys PROVE b \in new.fake
  <2>1. b = OVERFLOW => b \in keys \ old
    BY <1>2
  <2> QED
    BY <2>1 DEF FakeFingers, Pad
<1> QED
  BY <1>1, <1>3

LEMMA KeysMatch ==
  ASSUME MatchInv, NEW keys \in KeySets, Keys(keys)
  PROVE  Match(kernel', pad')
<1> DEFINE up == KeyCount(keys) > KeyCount(kernel.keys)
           k == [kernel EXCEPT !.keys = keys, !.keyed = TRUE, !.up = up]
           new == FakeFingers(pad, keys \ kernel.keys, kernel.keys \ keys)
<1>1. /\ ModelOK /\ kernel \in Kernel /\ pad \in Pad /\ Counted(pad)
      /\ kernel.keys \in KeySets /\ Match(kernel, pad)
  BY DEF MatchInv, LeftInv, Inv, Counted, Left, KeysKnown
<1> HIDE DEF up
<1>2. /\ k.tracked = kernel.tracked /\ k.keys = keys /\ k.keyed /\ k.up = up
      /\ k.heard = kernel.heard
  BY <1>1 DEF Kernel
<1>3. kernel' = k
  BY DEF Keys, up
<1>4. pad.fake = kernel.keys => new.fake = keys
  BY <1>1, FakesFollow DEF Keys
<1>5. new.touch = pad.touch /\ new.num_slots = pad.num_slots /\ new.open = pad.open
  BY <1>1 DEF FakeFingers, Pad
<1>6. pad' = IF ~pad.open THEN pad ELSE new
  BY DEF Keys
<1> HIDE DEF k, new
<1>7. ASSUME NEW r, r = IF ~pad.open THEN pad ELSE new PROVE Match(k, r)
  <2>1. r.touch = pad.touch /\ r.num_slots = pad.num_slots /\ r.open = pad.open
    BY <1>5, <1>7
  <2>2. SlotsAnnounced(r) /\ SlotsKept(k, r) /\ Matched(k, r)
    BY <1>1, <1>2, <2>1 DEF Match, SlotsAnnounced, SlotsKept, Matched
  <2>3. KeysHeard(k, r)
    BY <1>1, <1>2, <1>4, <1>7, <2>1 DEF Match, KeysHeard
  <2>4. CountKnown(k, r)
    <3> SUFFICES ASSUME kernel.heard, model.quirk = "synaptics", OVERFLOW \notin keys, up
                 PROVE  Cardinality(Started(r)) < KeyCount(keys)
      BY <1>2 DEF CountKnown
    <3>1. Started(r) = Started(pad)
      BY <2>1 DEF Started, In
    <3>2. /\ KeyCount(keys) \in 0..5 /\ KeyCount(kernel.keys) \in 0..5
          /\ KeyCount(keys) > KeyCount(kernel.keys)
      BY <1>1, KeyCountIs DEF up
    <3>3. OVERFLOW \notin kernel.keys
      <4>1. OVERFLOW \in kernel.keys => KeyCount(kernel.keys) = 5
        BY <1>1, KeyCountIs DEF BTN_TOUCH, OVERFLOW
      <4> QED
        BY <3>2, <4>1
    <3>4. /\ Cardinality(Started(pad)) <= KeyCount(kernel.keys)
          /\ Cardinality(Started(pad)) \in Nat
      <4>1. Cardinality(Started(pad)) <= KeyCount(kernel.keys)
        BY <1>1, <3>3 DEF Match, CountKnown, Keys
      <4> QED
        BY <1>1, <4>1, DownFinite DEF Started, DownStates, TouchStates
    <3> QED
      BY <3>1, <3>2, <3>4
  <2> QED
    BY <2>2, <2>3, <2>4 DEF Match
<1> QED
  BY <1>3, <1>6, <1>7

LEMMA StepMatch == Expected /\ MatchInv /\ [TouchesNext]_touchVars => MatchInv'
<1> SUFFICES ASSUME Expected, MatchInv, [TouchesNext]_touchVars PROVE MatchInv'
  OBVIOUS
<1>1. LeftInv'
  BY StepLeft DEF Expected, MatchInv
<1>2. UNCHANGED model
  BY DEF TouchesNext, touchVars, SlotBegins, SlotEnds, Moves, Keys, Report, Suspend, Resume
<1>3. Match(kernel', pad')
  <2>1. ASSUME NEW s \in Slots, NEW contact \in ContactValues, SlotBegins(s, contact)
        PROVE  Match(kernel', pad')
    BY <2>1, SlotBeginsMatch
  <2>2. ASSUME NEW s \in Slots, SlotEnds(s) PROVE Match(kernel', pad')
    BY <2>2, SlotEndsMatch
  <2>3. ASSUME NEW s \in Slots, NEW contact \in ContactValues, Moves(s, contact)
        PROVE  Match(kernel', pad')
    BY <2>3, MovesMatch
  <2>4. ASSUME NEW keys \in KeySets, Keys(keys) PROVE Match(kernel', pad')
    BY <2>4, KeysMatch
  <2>5. CASE Report
    BY <2>5, ReportMatch
  <2>6. CASE Suspend
    BY <2>6, SuspendMatch
  <2>7. CASE Resume
    BY <2>7, ResumeMatch
  <2>8. CASE UNCHANGED touchVars
    BY <2>8 DEF touchVars, MatchInv
  <2> QED
    BY <2>1, <2>2, <2>3, <2>4, <2>5, <2>6, <2>7, <2>8 DEF TouchesNext
<1> QED
  BY <1>1, <1>2, <1>3, PrimedMatch DEF MatchInv

\* Between frames every finger that presses firmly is down, and as many fingers
\* are down as the keys say, all but the lost ones or none where pressure decides
\* for those without a slot, if they all landed while the touchpad listened
\* (tp_handle_state), on touchpads that use the slots they announce or are known
\* not to, whatever tells contact; Synaptics ones have no more than three slots.
THEOREM FingersAreTheSurface ==
  ASSUME Expected
  PROVE  TouchesSpec => []FingersMatchSurface
<1>1. MatchInv => FirmFingersDown
  <2> SUFFICES ASSUME MatchInv, kernel.heard, Between, model.contact # "touch",
                      NEW s \in kernel.tracked, s \notin Lost, pad.touch[s].contact = 2
               PROVE  s \in Down(pad)
    BY DEF FirmFingersDown
  <2>1. s \in Index
    BY SlotsAreTouches DEF MatchInv, LeftInv, Inv, Kernel
  <2>2. Kept(pad.touch[s])
    BY DEF MatchInv, Match, SlotsKept, Held, Gone, Lost
  <2>3. ~pad.touch[s].dirty
    BY <2>1 DEF MatchInv, LeftInv, Inv, Rests, Between
  <2> QED
    BY <2>1, <2>2, <2>3 DEF Kept, Down, In
<1>2. MatchInv => FingersMatchKeys
  <2>1. model.contact = "pressure" => LostIn(kernel, pad) = Lost
    BY DEF LostIn, Gone, Lost
  <2> QED
    BY <2>1
       DEF MatchInv, Match, Matched, FingersMatchKeys, FingersDue, Between, IsOverflow
<1>3. MatchInv /\ [TouchesNext]_touchVars => MatchInv'
  BY StepMatch
<1>4. TouchesSpec => []MatchInv
  BY InitMatch, <1>3, PTL DEF TouchesSpec
<1> QED
  BY <1>1, <1>2, <1>4, PTL DEF FingersMatchSurface
=============================================================================
