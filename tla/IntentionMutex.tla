--------------------------- MODULE IntentionMutex ---------------------------
(***************************************************************************)
(* __intention_mutex_impl<D> of extend_mutex.h: a shared lock that one of  *)
(* its holders may turn into an exclusive one.  try_lock_prompt sets bit 0 *)
(* of the word, which keeps new sharers out, gives up the caller's own     *)
(* share and waits for the others to leave.  Only one holder can do this   *)
(* at a time; one that fails keeps its share.  The caller of               *)
(* try_lock_prompt holds the lock shared: it gives up a share.             *)
(***************************************************************************)
EXTENDS WordLock

VARIABLES
  l,     \* the word
  pc,    \* where each thread is
  old    \* l_ of lock_shared: the word as the thread last saw it

vars == <<l, pc, old>>

At(t, label) == pc[t] = label
Goto(t, label) == pc' = [pc EXCEPT ![t] = label]

Init ==
  /\ l = 0
  /\ pc = [t \in Threads |-> "idle"]
  /\ old = [t \in Threads |-> 0]

(* lock_shared() loads the word ... *)
lock_shared(t) ==
  /\ At(t, "idle")
  /\ old' = [old EXCEPT ![t] = l]
  /\ Goto(t, "lock_shared")
  /\ UNCHANGED l

(* ... again while the bit is set ... *)
Reload(t) ==
  /\ At(t, "lock_shared")
  /\ Odd(old[t])
  /\ old' = [old EXCEPT ![t] = l]
  /\ UNCHANGED <<l, pc>>

\* Fault: the add is not a compare-exchange.
ShareUnchecked(t) ==
  /\ At(t, "lock_shared")
  /\ ~Odd(old[t])
  /\ l' = (l + 2) % Mod
  /\ old' = [old EXCEPT ![t] = 0]
  /\ Goto(t, "shared")

(* ... and adds itself with a compare-exchange. *)
Share(t) ==
  /\ At(t, "lock_shared")
  /\ ~Odd(old[t])
  /\ l = old[t]
  /\ l' = (l + 2) % Mod
  /\ old' = [old EXCEPT ![t] = 0]
  /\ Goto(t, "shared")

ShareFails(t) ==
  /\ At(t, "lock_shared")
  /\ ~Odd(old[t])
  /\ l # old[t]
  /\ old' = [old EXCEPT ![t] = l]
  /\ UNCHANGED <<l, pc>>

(* try_lock_prompt() sets the bit.  When it is set already the word stays as *)
(* it is, the call returns false and the thread still has its share.         *)
try_lock_prompt(t) ==
  /\ At(t, "shared")
  /\ ~Odd(l)
  /\ l' = l + 1
  /\ Goto(t, "prompt")
  /\ UNCHANGED old

\* Fault: the winner keeps its own share.
GiveUpShareNot(t) ==
  /\ At(t, "prompt")
  /\ Goto(t, "drain")
  /\ UNCHANGED <<l, old>>

(* The winner gives up its own share ... *)
GiveUpShare(t) ==
  /\ At(t, "prompt")
  /\ l' = (l - 2) % Mod
  /\ Goto(t, "drain")
  /\ UNCHANGED old

(* ... and waits until nothing but the bit is left. *)
Drained(t) ==
  /\ At(t, "drain")
  /\ l \in {0, 1}
  /\ Goto(t, "exclusive")
  /\ UNCHANGED <<l, old>>

unlock(t) ==
  /\ At(t, "exclusive")
  /\ l' = 0
  /\ Goto(t, "idle")
  /\ UNCHANGED old

unlock_shared(t) ==
  /\ At(t, "shared")
  /\ l' = (l - 2) % Mod
  /\ Goto(t, "idle")
  /\ UNCHANGED old

\* The end of the critical sections, and the steps of a prompt that has won.
Ends(t) ==
  \/ GiveUpShare(t) \/ Drained(t) \/ unlock(t) \/ unlock_shared(t)

Next ==
  \E t \in Threads :
    \/ lock_shared(t) \/ Reload(t) \/ Share(t) \/ ShareFails(t)
    \/ try_lock_prompt(t) \/ Ends(t)

Spec == Init /\ [][Next]_vars

\* A spinning thread is scheduled again; a holder releases its lock, also one
\* that has failed to prompt it.
Fairness == \A t \in Threads : WF_vars(Ends(t))
-----------------------------------------------------------------------------
Labels == {"idle", "lock_shared", "shared", "prompt", "drain", "exclusive"}

TypeOK ==
  /\ l \in 0 .. (Mod - 1)
  /\ pc \in [Threads -> Labels]
  /\ old \in [Threads -> 0 .. (Mod - 1)]

Sharers == {t \in Threads : pc[t] \in {"shared", "prompt"}}
Prompters == {t \in Threads : pc[t] \in {"prompt", "drain", "exclusive"}}
Exclusive == {t \in Threads : pc[t] = "exclusive"}

\* A holder that has been prompted is alone, and of the sharers that try at the
\* same time at most one wins (lines 200-209).
Exclusion ==
  /\ \A t, u \in Prompters : t = u
  /\ Exclusive = {} \/ Sharers = {}

\* The word says exactly who is there: the bit for the one that prompts, the
\* count for the sharers.  unlock() may store 0 (line 211) because of this.
WordIsExact == l = Cardinality(Prompters) + 2 * Cardinality(Sharers)

\* A winner of try_lock_prompt becomes exclusive: new sharers cannot keep it out,
\* as the readers of the shared lock can keep a writer out.
PromptEnters ==
  \A t \in Threads : pc[t] = "prompt" ~> pc[t] = "exclusive"

RW == INSTANCE RWLock WITH readers <- Sharers, writers <- Exclusive

ImplementsRWLock == RW!Spec
=============================================================================
