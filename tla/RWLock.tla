------------------------------- MODULE RWLock -------------------------------
(***************************************************************************)
(* What a lock with a shared and an exclusive mode promises: a writer is   *)
(* alone, and each thread leaves before it enters again.  Whether and when *)
(* a thread gets in is the business of the locks that implement it.        *)
(***************************************************************************)
CONSTANT Threads

VARIABLES readers, writers   \* who is inside

vars == <<readers, writers>>

Init == readers = {} /\ writers = {}

Outside(t) == t \notin readers \cup writers

EnterShared(t) ==
  /\ Outside(t)
  /\ writers = {}
  /\ readers' = readers \cup {t}
  /\ UNCHANGED writers

EnterExclusive(t) ==
  /\ writers = {}
  /\ readers = {}
  /\ writers' = {t}
  /\ UNCHANGED readers

LeaveShared(t) ==
  /\ t \in readers
  /\ readers' = readers \ {t}
  /\ UNCHANGED writers

LeaveExclusive(t) ==
  /\ t \in writers
  /\ writers' = writers \ {t}
  /\ UNCHANGED readers

Next ==
  \E t \in Threads :
    EnterShared(t) \/ EnterExclusive(t) \/ LeaveShared(t) \/ LeaveExclusive(t)

Spec == Init /\ [][Next]_vars
=============================================================================
