------------------------------ MODULE WordLock ------------------------------
(***************************************************************************)
(* What the locks of extend_mutex.h that live in one word have in common   *)
(* (__shared_mutex_impl<D>, __intention_mutex_impl<D>): bit 0 is the one   *)
(* that is exclusive, the rest of the word counts those that share.        *)
(***************************************************************************)
EXTENDS LockThreads, Integers, FiniteSets

CONSTANT
  Half       \* half the values of the word: 2^7 for the b8 variants

\* The count does not overflow: at most 127 threads for the b8 variants.
ASSUME WordAssumption ==
  /\ IsFiniteSet(Threads)
  /\ Half \in Nat
  /\ Cardinality(Threads) < Half

Mod == 2 * Half
Odd(n) == n % 2 = 1
=============================================================================
