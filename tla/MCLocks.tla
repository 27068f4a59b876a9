------------------------------- MODULE MCLocks -------------------------------
(***************************************************************************)
(* The four locks of extend_mutex.h for TLC.  A behaviour picks one of     *)
(* them and uses only that: the states are those of the ticket lock, of    *)
(* the shared lock, of the intention lock and of the spin lock, side by    *)
(* side.                                                                   *)
(***************************************************************************)
EXTENDS TicketMutex, WordLock

CONSTANT Bits

VARIABLES
  lock_used,               \* which lock this behaviour uses
  sl, spc,                 \* shared lock
  il, ipc, iold,           \* intention lock
  ml, mpc, mbit, mheld     \* spin lock

svars == <<sl, spc>>
ivars == <<il, ipc, iold>>
mvars == <<ml, mpc, mbit, mheld>>

S == INSTANCE SharedMutex WITH l <- sl, pc <- spc
I == INSTANCE IntentionMutex WITH l <- il, pc <- ipc, old <- iold
M == INSTANCE SpinMutex WITH l <- ml, pc <- mpc, bit <- mbit, held <- mheld

LocksInit ==
  /\ lock_used \in {"ticket", "shared", "intention", "spin"}
  /\ Init /\ S!Init /\ I!Init
  /\ M!Init /\ \A t, u \in Threads : mbit[t] = mbit[u]

LocksNext ==
  /\ UNCHANGED lock_used
  /\ \/ lock_used = "ticket" /\ Next /\ UNCHANGED <<svars, ivars, mvars>>
     \/ lock_used = "shared" /\ S!Next /\ UNCHANGED <<vars, ivars, mvars>>
     \/ lock_used = "intention" /\ I!Next /\ UNCHANGED <<vars, svars, mvars>>
     \/ lock_used = "spin" /\ M!Next /\ UNCHANGED <<vars, svars, ivars>>

LocksVars == <<vars, lock_used, svars, ivars, mvars>>

LocksSpec ==
  /\ LocksInit /\ [][LocksNext]_LocksVars
  /\ Fairness /\ S!Fairness /\ I!Fairness
-----------------------------------------------------------------------------
\* The words say who is there, whatever is in flight: the shared word counts its
\* writer and readers, adds that back out included (lines 143-173); the intention
\* word its prompt and sharers, which is why unlock() may store 0 (line 211); a
\* bit of the spin word is set while its lock is held and only then, and no two
\* threads hold the lock of one bit (lines 60-77).
WordsAreExact ==
  S!WordIsExact /\ I!WordIsExact /\ M!WordIsExact /\ M!MutualExclusion

\* The shared lock and the intention lock both implement a readers-writer lock.
ImplementRWLocks == S!ImplementsRWLock /\ I!ImplementsRWLock

\* Whoever must get in does: the holder of a ticket, a reader that has announced
\* itself ("high read priority", line 136), a prompt that has won its bit.
WaitersEnter == EveryoneEnters /\ S!ReaderEnters /\ I!PromptEnters
=============================================================================
