----------------------------- MODULE BoundedFifo -----------------------------
(***************************************************************************)
(* What a bounded concurrent queue promises, without saying how.  A push   *)
(* takes room first and its element appears later; a pop takes the element *)
(* first and gives the room back later.  Several elements may appear, or   *)
(* leave, at once.  The elements are the numbers 0, 1, 2, ... in the order *)
(* in which the pushes took their room, and they appear in that order.     *)
(***************************************************************************)
EXTENDS Integers, Sequences

CONSTANT Capacity

VARIABLES
  items,      \* the elements a pop can take, oldest first
  appended,   \* how many elements have ever appeared
  filling,    \* room taken by pushes whose elements have not appeared
  draining    \* room of popped elements that is not given back

vars == <<items, appended, filling, draining>>

Init == items = <<>> /\ appended = 0 /\ filling = 0 /\ draining = 0

Enter(n) ==
  /\ filling + Len(items) + draining + n <= Capacity
  /\ filling' = filling + n
  /\ UNCHANGED <<items, appended, draining>>

Appear(n) ==
  /\ filling' = filling - n
  /\ items' = items \o [i \in 1 .. n |-> appended + i - 1]
  /\ appended' = appended + n
  /\ UNCHANGED draining

Take(n) ==
  /\ items' = SubSeq(items, n + 1, Len(items))
  /\ draining' = draining + n
  /\ UNCHANGED <<appended, filling>>

Leave(n) ==
  /\ draining' = draining - n
  /\ UNCHANGED <<items, appended, filling>>

\* The owner empties a queue that nobody else is using.
Clear ==
  /\ filling = 0 /\ draining = 0
  /\ items' = <<>>
  /\ UNCHANGED <<appended, filling, draining>>

Next ==
  \/ \E n \in 1 .. Capacity : Enter(n)
  \/ \E n \in 1 .. filling : Appear(n)
  \/ \E n \in 1 .. Len(items) : Take(n)
  \/ \E n \in 1 .. draining : Leave(n)
  \/ Clear

Spec == Init /\ [][Next]_vars
=============================================================================
