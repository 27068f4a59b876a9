----------------------------- MODULE IndexShuffle -----------------------------
(***************************************************************************)
(* The sizes and the order of the slots of the queues of                   *)
(* queue-bench/atomic_queue.h: the size asked for is rounded up to a power *)
(* of two, and the index of a slot has its lowest bits swapped with the    *)
(* next ones, so that neighbours are on different cache lines.             *)
(* NextSize walks through every size up to MaxSize and every number of     *)
(* elements in a cache line.                                               *)
(***************************************************************************)
EXTENDS Integers, Bitwise

CONSTANTS
  UWidth,       \* bits of an unsigned: 32 in the code
  MaxSize,      \* bound: sizes asked for
  LineElements  \* elements in a cache line: powers of two from 1 to 256

VARIABLES
  asked,        \* SIZE, or size
  perLine,      \* elements_per_cache_line
  fixed         \* AtomicQueue and AtomicQueue2, or the B queues, whose size grows

shufflevars == <<asked, perLine, fixed>>

U(i) == i % 2 ^ UWidth
GetCacheLineIndexBits(n) == CHOOSE b \in 0 .. 8 : 2 ^ b = n

\* The shifts 1, 2, 4, ... that or_equal is given, below the width.
or_equal(x) ==
  LET f[k \in 0 .. UWidth] ==
        IF k = 0 THEN x
        ELSE IF k \in {1, 2, 4, 8, 16} THEN f[k - 1] | shiftR(f[k - 1], k) ELSE f[k - 1]
  IN f[UWidth - 1]

round_up_to_power_of_2(a) == U(or_equal(U(a - 1)) + 1)

\* min_size is the square of a line: a smaller array is not shuffled, or made as large.
LineBits == GetCacheLineIndexBits(perLine)
size_ == LET r == round_up_to_power_of_2(asked)
         IN IF fixed \/ r >= 2 ^ (2 * LineBits) THEN r ELSE 2 ^ (2 * LineBits)

SHUFFLE_BITS == IF size_ < 2 ^ (2 * LineBits) THEN 0 ELSE LineBits

\* Fault: the mix is not cut to the bits of a line.
remap_index_wide(bits, i) ==
  LET mix == i ^^ shiftR(i, bits)
  IN IF bits = 0 THEN i ELSE (i ^^ mix) ^^ (mix * 2 ^ bits)

remap_index(bits, i) ==
  LET mix == (i ^^ shiftR(i, bits)) & (2 ^ bits - 1)
  IN IF bits = 0 THEN i ELSE (i ^^ mix) ^^ (mix * 2 ^ bits)

\* The B queues refuse lines of one element (lines 490, 594).
ShuffleInit ==
  /\ asked = 1 /\ perLine \in LineElements
  /\ fixed \in BOOLEAN /\ (perLine = 1 => fixed)

NextSize == asked < MaxSize /\ asked' = asked + 1 /\ UNCHANGED <<perLine, fixed>>
-----------------------------------------------------------------------------
\* The slots that 0 .. size_ - 1 are mapped to are all slots of the array, each once,
\* whatever size was asked for (otherwise two positions of a lap would share one);
\* and where they are shuffled neighbours are on different lines ("each subsequent
\* element resides on another cache line", line 82).
EachSlotOnce ==
  LET slots == 0 .. (size_ - 1)
      at(i) == remap_index(SHUFFLE_BITS, i)
  IN /\ size_ >= asked
     /\ {at(i) : i \in slots} = slots
     /\ SHUFFLE_BITS > 0 =>
          \A i \in slots \ {0} : at(i) \div perLine # at(i - 1) \div perLine
=============================================================================
