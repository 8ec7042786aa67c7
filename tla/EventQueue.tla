------------------------------ MODULE EventQueue ------------------------------
(* What libinput_get_event promises the client: the events that are not read   *)
(* yet stay as they are and in their order, new ones queue up behind them.     *)
EXTENDS Naturals, Sequences

CONSTANT Events
VARIABLE queue

Init == queue = <<>>

\* Whatever libinput does may add any number of events at the end.
Post ==
  /\ queue' \in Seq(Events)
  /\ Len(queue) <= Len(queue')
  /\ \A i \in 1..Len(queue) : queue'[i] = queue[i]

Get == queue # <<>> /\ queue' = Tail(queue)

\* The context is destroyed, and what was not read with it.
Drop == queue' = <<>>

Next == Post \/ Get \/ Drop

Spec == Init /\ [][Next]_queue
=============================================================================
