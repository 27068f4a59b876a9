----------------------------- MODULE AlignedSize -----------------------------
(***************************************************************************)
(* aligned_size of conqueue.h: the number of slots of a ring that is to    *)
(* hold size elements and be indexed with a mask.  The same smearing of    *)
(* the highest bit is upper_power_of_2 of the benchmark.  NextArg walks    *)
(* through every argument of a W-bit unsigned integer.                     *)
(***************************************************************************)
EXTENDS Integers, Sequences, Bitwise

CONSTANTS
  W,       \* bits of the integer: 32 in the code
  Shifts   \* the shifts in order: 1, 2, 4, 8, 16 in the code

ASSUME WidthAssumption == W \in 1 .. 30

VARIABLE arg

\* size |= size >> k
Smear(size, k) == size | shiftR(size, k)

\* Fault: no decrement first.
aligned_size_above(size) ==
  LET f[i \in 0 .. Len(Shifts)] ==
        IF i = 0 THEN size ELSE Smear(f[i - 1], Shifts[i])
  IN  (f[Len(Shifts)] + 1) % 2^W

aligned_size(size) ==
  LET f[i \in 0 .. Len(Shifts)] ==
        IF i = 0 THEN (size - 1) % 2^W ELSE Smear(f[i - 1], Shifts[i])
  IN  (f[Len(Shifts)] + 1) % 2^W

NextArg == arg < 2^W - 1 /\ arg' = arg + 1
-----------------------------------------------------------------------------
PowersOfTwo == {2^i : i \in 0 .. (W - 1)}

\* The result is the least power of two that is not below the argument, as long
\* as the type can hold one: for 0, which the constructor refuses only after
\* allocating, and above half the range the sum wraps to 0 and the mask that is
\* made of it (count_mask = 0 - 1) covers far more than the ring.
LeastPowerOfTwo ==
  LET r == aligned_size(arg)
  IN  IF arg \in 1 .. 2^(W - 1)
      THEN /\ r \in PowersOfTwo
           /\ r >= arg
           /\ \A p \in PowersOfTwo : p >= arg => p >= r
      ELSE r = 0
==============================================================================
