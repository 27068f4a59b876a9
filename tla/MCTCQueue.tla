------------------------------ MODULE MCTCQueue ------------------------------
(* TCQueue for TLC. *)
EXTENDS TCQueue

CONSTANTS t1, t2, t3

Calling(a, b, c) ==
  [t \in Threads |-> CASE t = t1 -> a [] t = t2 -> b [] t = t3 -> c]

\* Three threads of which one comes back, and two that both do.
FourCalls == {Calling(2, 1, 1), Calling(2, 2, 0)}
=============================================================================
