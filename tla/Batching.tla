------------------------------ MODULE Batching ------------------------------
(***************************************************************************)
(* What a task-combining queue promises: every task joins exactly one      *)
(* batch, of at most MaxCount tasks; a batch is handed over whole, its     *)
(* tasks in the order in which they joined; and it is answered as a whole. *)
(***************************************************************************)
EXTENDS Integers, Sequences

CONSTANTS Task, MaxCount

VARIABLES
  open,       \* the tasks that have joined the batch that is being gathered
  batches,    \* the batches handed over
  answered    \* the tasks that have their result

vars == <<open, batches, answered>>

Members(b) == {b[i] : i \in DOMAIN b}

Init == open = <<>> /\ batches = {} /\ answered = {}

Join(k) ==
  /\ k \in Task
  /\ Len(open) < MaxCount
  /\ \A b \in batches \cup {open} : k \notin Members(b)
  /\ open' = Append(open, k)
  /\ UNCHANGED <<batches, answered>>

HandOver ==
  /\ open # <<>>
  /\ batches' = batches \cup {open}
  /\ open' = <<>>
  /\ UNCHANGED answered

Answer(b) ==
  /\ b \in batches
  /\ answered' = answered \cup Members(b)
  /\ UNCHANGED <<open, batches>>

Next ==
  \/ \E k \in Task : Join(k)
  \/ HandOver
  \/ \E b \in batches : Answer(b)

Spec == Init /\ [][Next]_vars
=============================================================================
