------------------------------ MODULE FifoLock ------------------------------
(***************************************************************************)
(* What a fair mutex promises: who arrives waits in a queue, only the      *)
(* first of the queue is let in, and a try gets in only past an empty      *)
(* queue.                                                                  *)
(***************************************************************************)
EXTENDS Sequences

CONSTANT Threads

VARIABLES
  queue,    \* who has arrived and not left, in the order of arrival
  inside    \* who is inside

vars == <<queue, inside>>

Init == queue = <<>> /\ inside = {}

Arrive(t) ==
  /\ queue' = Append(queue, t)
  /\ UNCHANGED inside

Enter(t) ==
  /\ queue # <<>>
  /\ Head(queue) = t
  /\ inside' = {t}
  /\ UNCHANGED queue

TryEnter(t) ==
  /\ queue = <<>>
  /\ queue' = <<t>>
  /\ inside' = {t}

Leave(t) ==
  /\ inside = {t}
  /\ inside' = {}
  /\ queue' = Tail(queue)

Next == \E t \in Threads : Arrive(t) \/ Enter(t) \/ TryEnter(t) \/ Leave(t)

Spec == Init /\ [][Next]_vars
=============================================================================
