------------------------------ MODULE TimerList ------------------------------
(***************************************************************************)
(* The list of armed timers of a libinput context (src/timer.c), as a      *)
(* value other modules keep in their state:                                *)
(*                                                                         *)
(*   armed  the timers whose expire field is not 0, i.e. the members of    *)
(*          libinput->timer.list                                           *)
(*   ahead  the order of that list: <<t, u>> when t is nearer the head     *)
(*   left   the expiry of an armed timer relative to the current time (a   *)
(*          timer that is not armed keeps 0)                               *)
(*                                                                         *)
(* Time is relative so that no clock has to be bounded: Elapse moves every *)
(* armed timer one tick closer to, or past, its expiry, down to a floor.   *)
(***************************************************************************)
EXTENDS Integers

EmptyList(T) == [armed |-> {}, ahead |-> {}, left |-> [t \in T |-> 0]]

(* libinput_timer_set: a timer that was not armed goes to the HEAD of the  *)
(* list, one that was armed keeps its place and only moves its expiry.     *)
SetTimer(tl, t, expiry) ==
  [armed |-> tl.armed \cup {t},
   ahead |-> IF t \in tl.armed THEN tl.ahead
                               ELSE tl.ahead \cup ({t} \X tl.armed),
   left  |-> [tl.left EXCEPT ![t] = expiry]]

(* libinput_timer_cancel *)
CancelTimer(tl, t) ==
  [armed |-> tl.armed \ {t},
   ahead |-> {p \in tl.ahead : t \notin {p[1], p[2]}},
   left  |-> [tl.left EXCEPT ![t] = 0]]

(* The armed timers whose expiry is not after the moment `age' ticks ago.  *)
ExpiredAt(tl, age) == {t \in tl.armed : tl.left[t] + age <= 0}

(* libinput_timer_handler picks the first expired timer in LIST order, not *)
(* the one that expired first, and starts over after each callback.        *)
FiresNext(tl, t, age) ==
  /\ t \in ExpiredAt(tl, age)
  /\ \A u \in ExpiredAt(tl, age) : <<u, t>> \notin tl.ahead

(* One tick of CLOCK_MONOTONIC. *)
Elapse(tl, floor) ==
  [tl EXCEPT !.left =
     [t \in DOMAIN tl.left |->
        IF t \in tl.armed /\ tl.left[t] > floor THEN tl.left[t] - 1
                                                ELSE tl.left[t]]]
=============================================================================
