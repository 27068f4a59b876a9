----------------------------- MODULE SharedMutex -----------------------------
(***************************************************************************)
(* __shared_mutex_impl<D> of extend_mutex.h: a readers-writer lock in one  *)
(* word.  Bit 0 is the writer, the rest of the word counts the readers: a  *)
(* reader announces itself first and looks at the writer bit afterwards.   *)
(* Every operation on the word is one atomic step.  The compare-exchange   *)
(* is weak: it may fail for no reason, which changes nothing.              *)
(***************************************************************************)
EXTENDS WordLock

VARIABLES
  l,     \* the word
  pc     \* where each thread is

vars == <<l, pc>>

FetchAdd(n) == l' = (l + n) % Mod
FetchSub(n) == l' = (l - n) % Mod
FetchXor1 == l' = IF Odd(l) THEN l - 1 ELSE l + 1
At(t, label) == pc[t] = label
Goto(t, label) == pc' = [pc EXCEPT ![t] = label]

Init ==
  /\ l = 0
  /\ pc = [t \in Threads |-> "idle"]

(* lock() begins to spin on try_lock(). *)
lock(t) ==
  /\ At(t, "idle")
  /\ Goto(t, "lock")
  /\ UNCHANGED l

\* Fault: looks at the writer bit only.
try_lock_bit(t) ==
  /\ pc[t] \in {"idle", "lock"}
  /\ ~Odd(l)
  /\ l' = l + 1
  /\ Goto(t, "exclusive")

(* The compare-exchange from 0 to 1 that wins, inside lock() or alone. *)
try_lock(t) ==
  /\ pc[t] \in {"idle", "lock"}
  /\ l = 0
  /\ l' = 1
  /\ Goto(t, "exclusive")

lock_shared(t) ==
  /\ At(t, "idle")
  /\ FetchAdd(2)
  /\ Goto(t, IF Odd(l) THEN "lock_shared" ELSE "shared")

(* The spinning reader sees the writer bit clear. *)
SpinShared(t) ==
  /\ At(t, "lock_shared")
  /\ ~Odd(l)
  /\ Goto(t, "shared")
  /\ UNCHANGED l

try_lock_shared(t) ==
  /\ At(t, "idle")
  /\ FetchAdd(2)
  /\ Goto(t, IF Odd(l) THEN "back_out" ELSE "shared")

\* Fault: a failed try stays counted.
BackOutNot(t) ==
  /\ At(t, "back_out")
  /\ Goto(t, "idle")
  /\ UNCHANGED l

(* try_lock_shared() takes its count back and returns false. *)
BackOut(t) ==
  /\ At(t, "back_out")
  /\ FetchSub(2)
  /\ Goto(t, "idle")

unlock(t) ==
  /\ At(t, "exclusive")
  /\ FetchXor1
  /\ Goto(t, "idle")

unlock_shared(t) ==
  /\ At(t, "shared")
  /\ FetchSub(2)
  /\ Goto(t, "idle")

\* The steps of calls that have begun, and the end of a critical section.
Step(t) ==
  \/ (At(t, "lock") /\ try_lock(t))
  \/ SpinShared(t) \/ BackOut(t)
  \/ unlock(t) \/ unlock_shared(t)

Next ==
  \E t \in Threads :
    \/ lock(t) \/ try_lock(t) \/ lock_shared(t) \/ try_lock_shared(t)
    \/ SpinShared(t) \/ BackOut(t) \/ unlock(t) \/ unlock_shared(t)

Spec == Init /\ [][Next]_vars

\* A spinning thread is scheduled again and a holder releases what it holds.
Fairness == \A t \in Threads : WF_vars(Step(t))
-----------------------------------------------------------------------------
Labels == {"idle", "lock", "exclusive", "lock_shared", "shared", "back_out"}

TypeOK ==
  /\ l \in 0 .. (Mod - 1)
  /\ pc \in [Threads -> Labels]

Writers == {t \in Threads : pc[t] = "exclusive"}
Readers == {t \in Threads : pc[t] = "shared"}

\* The threads that the word counts: readers, those that wait to be, and those
\* that have yet to take back a failed try.
Counted == {t \in Threads : pc[t] \in {"lock_shared", "shared", "back_out"}}

\* Writers and readers are never inside together, nor two writers, although a
\* reader that is turned away stays in the word for a while (lines 163-167) and
\* a writer leaves with an xor over a count that is not its own (line 171).
Exclusion ==
  /\ \A t, u \in Writers : t = u
  /\ Writers = {} \/ Readers = {}

\* The word says exactly who is there: no announcement is lost or left behind by
\* any interleaving of adds, subtractions and xors.
WordIsExact == l = Cardinality(Writers) + 2 * Cardinality(Counted)

\* "high read priority" (line 136): a reader that has announced itself gets in,
\* however many writers are trying, since a writer needs the whole word to be 0.
\* A writer has no such promise.
ReaderEnters ==
  \A t \in Threads : pc[t] = "lock_shared" ~> pc[t] = "shared"

RW == INSTANCE RWLock WITH readers <- Readers, writers <- Writers

ImplementsRWLock == RW!Spec
=============================================================================
