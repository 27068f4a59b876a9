------------------------------ MODULE SpinMutex ------------------------------
(***************************************************************************)
(* __spin_mutex_impl<D> of extend_mutex.h: as many spin locks as the word  *)
(* D has bits, one per bit.  A lock is taken by setting its bit with an    *)
(* atomic or, and given back with an atomic xor, which leaves the other    *)
(* bits alone.  The word is modelled as the set of its bits that are set.  *)
(* A caller tries a bit it does not hold, unlocks one it holds, and waits  *)
(* for one only in the order of the bits, so that callers do not wait for  *)
(* one another in a circle.                                                *)
(***************************************************************************)
EXTENDS LockThreads, Integers

CONSTANT
  Bits       \* the bits of the word: 0..7 for spin_mutex_b8

VARIABLES
  l,         \* the bits that are set
  pc,        \* where each thread is
  bit,       \* the i of its call
  held       \* the locks that the thread has and uses

vars == <<l, pc, bit, held>>

At(t, label) == pc[t] = label
Goto(t, label) == pc' = [pc EXCEPT ![t] = label]
Take(t) == held' = [held EXCEPT ![t] = @ \cup {bit[t]}]

Init ==
  /\ l = {}
  /\ pc = [t \in Threads |-> "idle"]
  /\ bit \in [Threads -> Bits]
  /\ held = [t \in Threads |-> {}]

(* lock(i) spins on try_lock(i); "try" is a single try_lock(i). *)
Call(t, i, label) ==
  /\ At(t, "idle")
  /\ i \notin held[t]
  /\ bit' = [bit EXCEPT ![t] = i]
  /\ Goto(t, label)
  /\ UNCHANGED <<l, held>>

lock(t, i) == (\A j \in held[t] : j < i) /\ Call(t, i, "lock")
try_lock(t, i) == Call(t, i, "try_lock")

(* The load that comes before the or: a bit that is set is not tried. *)
Busy(t) ==
  /\ At(t, "try_lock")
  /\ bit[t] \in l
  /\ Goto(t, "idle")
  /\ UNCHANGED <<l, bit, held>>

SeesClear(t) ==
  /\ pc[t] \in {"lock", "try_lock"}
  /\ bit[t] \notin l
  /\ Goto(t, IF At(t, "lock") THEN "lock_or" ELSE "try_or")
  /\ UNCHANGED <<l, bit, held>>

\* Fault: the bit that the or finds set is not looked at.
OrBlind(t) ==
  /\ pc[t] \in {"lock_or", "try_or"}
  /\ l' = l \cup {bit[t]}
  /\ Take(t)
  /\ Goto(t, "idle")
  /\ UNCHANGED bit

(* The or.  The bit was clear: the lock is taken. *)
OrWins(t) ==
  /\ pc[t] \in {"lock_or", "try_or"}
  /\ bit[t] \notin l
  /\ l' = l \cup {bit[t]}
  /\ Take(t)
  /\ Goto(t, "idle")
  /\ UNCHANGED bit

(* The bit was set in the meantime: lock() goes on spinning. *)
OrLoses(t) ==
  /\ pc[t] \in {"lock_or", "try_or"}
  /\ bit[t] \in l
  /\ Goto(t, IF At(t, "lock_or") THEN "lock" ELSE "idle")
  /\ UNCHANGED <<l, bit, held>>

unlock(t, i) ==
  /\ At(t, "idle")
  /\ i \in held[t]
  /\ l' = IF i \in l THEN l \ {i} ELSE l \cup {i}
  /\ held' = [held EXCEPT ![t] = @ \ {i}]
  /\ UNCHANGED <<pc, bit>>

Next ==
  \E t \in Threads :
    \/ \E i \in Bits : lock(t, i) \/ try_lock(t, i) \/ unlock(t, i)
    \/ Busy(t) \/ SeesClear(t) \/ OrWins(t) \/ OrLoses(t)

Spec == Init /\ [][Next]_vars
-----------------------------------------------------------------------------
TypeOK ==
  /\ l \subseteq Bits
  /\ pc \in [Threads -> {"idle", "lock", "try_lock", "lock_or", "try_or"}]
  /\ bit \in [Threads -> Bits]
  /\ held \in [Threads -> SUBSET Bits]

\* No two threads hold the same lock, and the locks of a word do not disturb one
\* another: taking or giving back one bit neither frees nor takes another
\* (lines 68-77).
MutualExclusion ==
  \A t, u \in Threads : t # u => held[t] \cap held[u] = {}

\* A bit is set exactly while some thread holds its lock: none is lost or left
\* behind, by tries that fail either.
WordIsExact == l = UNION {held[t] : t \in Threads}
=============================================================================
