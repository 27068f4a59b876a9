------------------------------ MODULE TaskLanes ------------------------------
(***************************************************************************)
(* What a pool of threads promises, without conditions, notifications or   *)
(* busy bits.  Each thread has a lane; a task that is accepted joins the   *)
(* end of one lane, is begun when it is the first there and ends.  A lane  *)
(* that is closed accepts nothing more and still serves whom it has.       *)
(***************************************************************************)
EXTENDS Integers, Sequences

CONSTANTS Lanes, NoTask

VARIABLES
  lane,       \* the tasks that wait, oldest first
  doing,      \* the task that is being done, or NoTask
  closed,     \* the lanes that accept nothing
  accepted    \* how many tasks have been accepted, which names the next

lanevars == <<lane, doing, closed, accepted>>

LanesInit ==
  /\ lane = [w \in Lanes |-> <<>>]
  /\ doing = [w \in Lanes |-> NoTask]
  /\ closed = {}
  /\ accepted = 0

Join(w) ==
  /\ w \notin closed
  /\ lane' = [lane EXCEPT ![w] = Append(@, accepted)]
  /\ accepted' = accepted + 1
  /\ UNCHANGED <<doing, closed>>

Begin(w) ==
  /\ doing[w] = NoTask /\ lane[w] # <<>>
  /\ doing' = [doing EXCEPT ![w] = Head(lane[w])]
  /\ lane' = [lane EXCEPT ![w] = Tail(@)]
  /\ UNCHANGED <<closed, accepted>>

End(w) ==
  /\ doing[w] # NoTask
  /\ doing' = [doing EXCEPT ![w] = NoTask]
  /\ UNCHANGED <<lane, closed, accepted>>

Close(w) ==
  /\ closed' = closed \cup {w}
  /\ UNCHANGED <<lane, doing, accepted>>

LanesNext == \E w \in Lanes : Join(w) \/ Begin(w) \/ End(w) \/ Close(w)

\* A task that is accepted is begun and ends.
LanesFairness == \A w \in Lanes : WF_lanevars(Begin(w)) /\ WF_lanevars(End(w))

LanesSpec == LanesInit /\ [][LanesNext]_lanevars /\ LanesFairness
=============================================================================
