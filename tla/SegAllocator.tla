---------------------------- MODULE SegAllocator ----------------------------
(***************************************************************************)
(* SegAllocator and SegAllocatorReverse of seg_allocator.h: the free       *)
(* segments of an arena, in a map from address to size and in a set        *)
(* ordered by size.  The caller gives back bytes that it was given, in     *)
(* pieces of any size.  A block placed on a whole free segment or in the   *)
(* middle of one leaves the map right and the set wrong, and allocate,     *)
(* which looks in the set, may then take up a segment that is none.  A     *)
(* request for 0 bytes and a place at the first byte of a free segment     *)
(* leave the map wrong.  All are here with what they do; the caller's      *)
(* story ends when the map is wrong.                                       *)
(***************************************************************************)
EXTENDS Integers, FiniteSetsExt

CONSTANTS Base, Size   \* the arena

ASSUME ArenaAssumption == Base \in Nat /\ Size \in Nat \ {0}

VARIABLES
  siz,      \* free_seg_set_siz: pairs of size and address
  off,      \* free_seg_set_off: from address to size
  reverse,  \* whether it is a SegAllocatorReverse
  used,     \* the bytes that the caller has, by the addresses it knows
  amiss,    \* history: the set may hold other segments than the map
  harmed    \* history: the map may hold other segments than are free

segvars == <<siz, off, reverse, used, amiss, harmed>>

Bytes(p, n) == p .. (p + n - 1)
Entry(f, p) == <<f[p], p>>

SegInit ==
  /\ siz = {<<Size, Base>>}
  /\ off = [p \in {Base} |-> Size]
  /\ reverse \in BOOLEAN
  /\ used = {}
  /\ amiss = FALSE /\ harmed = FALSE

(* The same computation turns an address of the arena into the caller's and *)
(* back.                                                                    *)
reverse_ptr(p, n) == IF reverse THEN Base + Size - 1 - p + Base - n ELSE p

Erase(f, p) == [x \in DOMAIN f \ {p} |-> f[x]]
\* std::map::insert, which leaves an entry that is there as it is.
Insert(f, p, n) == [x \in DOMAIN f \cup {p} |-> IF x \in DOMAIN f THEN f[x] ELSE n]
-----------------------------------------------------------------------------
LargeEnough(n) == {s \in siz : s[1] >= n}

(* lower_bound of (n, 0): the smallest that will do, of these the first. *)
BestFit(n) ==
  CHOOSE s \in LargeEnough(n) : \A t \in LargeEnough(n) :
    s[1] < t[1] \/ (s[1] = t[1] /\ s[2] <= t[2])

(* allocate(n) finds a segment, hands out its first n bytes and files the    *)
(* rest.  For n = 0 the rest is the segment itself, and is erased again.  It *)
(* takes the set's word for it that the segment is free.                     *)
Allocate(n) ==
  /\ ~harmed
  /\ LargeEnough(n) # {}
  /\ LET s == BestFit(n)
         less == s[1] - n
         rest == IF less > 0 THEN {<<less, s[2] + n>>} ELSE {}
     IN  /\ siz' = (siz \cup rest) \ {s}
         /\ off' = Erase(IF less > 0 THEN Insert(off, s[2] + n, less) ELSE off, s[2])
         /\ used' = used \cup Bytes(reverse_ptr(s[2], n), n)
         /\ harmed' = (n = 0 \/ s \notin {Entry(off, q) : q \in DOMAIN off})
  /\ UNCHANGED <<reverse, amiss>>
-----------------------------------------------------------------------------
StartsUpTo(p) == {q \in DOMAIN off : q <= p}

(* The reverse iterator of placement_allocate holds the place after the       *)
(* segment q that it stands on, and reads the segment before that place.  With *)
(* q erased from the map that is q's predecessor, or nothing at all; with a    *)
(* segment inserted after q it is the new one.                                 *)
ErasedInstead(q) ==
  IF StartsUpTo(q - 1) # {}
  THEN {{Entry(off, Max(StartsUpTo(q - 1)))}}
  ELSE {{}} \cup {{s} : s \in siz}

(* The block is the whole segment q. *)
PlaceWhole(q, n) ==
  /\ off[q] = n
  /\ off' = Erase(off, q)
  /\ \E lost \in ErasedInstead(q) : siz' = siz \ lost
  /\ amiss' = TRUE
  /\ harmed' = (StartsUpTo(q - 1) = {})

(* The block is the first part of the segment: the rest is filed where the *)
(* block is.                                                               *)
PlaceFirst(q, p, n) ==
  /\ off[q] # n /\ q = p
  /\ off' = Insert(Erase(off, q), p, off[q] - n)
  /\ siz' = (siz \ {Entry(off, q)}) \cup {<<off[q] - n, p>>}
  /\ harmed' = TRUE
  /\ UNCHANGED amiss

(* The block is the last part. *)
PlaceLast(q, p, n) ==
  /\ q # p /\ q + off[q] = p + n
  /\ off' = [off EXCEPT ![q] = @ - n]
  /\ siz' = (siz \ {Entry(off, q)}) \cup {<<off[q] - n, q>>}
  /\ UNCHANGED <<amiss, harmed>>

(* The block is in the middle: a piece is left on either side.  Line 68 reads *)
(* the size of the piece after, which line 67 has inserted, where it wants    *)
(* that of the piece before, and files the piece after with the other's size. *)
PlaceMiddle(q, p, n) ==
  /\ q # p /\ q + off[q] # p + n
  /\ LET before == p - q
         after == off[q] - n - before
     IN  /\ off' = Insert([off EXCEPT ![q] = before], p + n, after)
         /\ siz' = (siz \ {Entry(off, q)}) \cup {<<before, q>>, <<before, p + n>>}
         /\ amiss' = (amiss \/ before # after)
  /\ UNCHANGED harmed

(* placement_allocate(cp, n) where the n bytes at cp are free. *)
PlacementAllocate(cp, n) ==
  LET p == reverse_ptr(cp, n)
      q == Max(StartsUpTo(p))
  IN  /\ ~harmed
      /\ StartsUpTo(p) # {}
      /\ q + off[q] >= p + n
      /\ PlaceWhole(q, n) \/ PlaceFirst(q, p, n) \/ PlaceLast(q, p, n) \/ PlaceMiddle(q, p, n)
      /\ used' = used \cup Bytes(cp, n)
      /\ UNCHANGED reverse
-----------------------------------------------------------------------------
StartsFrom(p) == {q \in DOMAIN off : q >= p}

(* deallocate looks at the segment after and the one before. *)
MergesNext(p, n) == StartsFrom(p) # {} /\ Min(StartsFrom(p)) = p + n

\* Fault: the segment before is looked for at the address itself.
MergesPrevHere(p) == p \in DOMAIN off
MergesPrev(p) ==
  LET before == StartsUpTo(p - 1)
  IN  before # {} /\ Max(before) + off[Max(before)] = p

(* deallocate(cp, n): one segment takes the place of the block and of those *)
(* that it touches.                                                         *)
Deallocate(cp, n) ==
  LET p == reverse_ptr(cp, n)
      next == IF MergesNext(p, n) THEN {p + n} ELSE {}
      prev == IF MergesPrev(p) THEN {Max(StartsUpTo(p - 1))} ELSE {}
      before == IF MergesPrev(p) THEN off[Max(StartsUpTo(p - 1))] ELSE 0
      after == IF MergesNext(p, n) THEN off[p + n] ELSE 0
      length == before + n + after
  IN  /\ ~harmed
      /\ Bytes(cp, n) \subseteq used
      /\ siz' = (siz \ {Entry(off, q) : q \in prev \cup next}) \cup {<<length, p - before>>}
      /\ off' = Insert([q \in DOMAIN off \ (prev \cup next) |-> off[q]], p - before, length)
      /\ used' = used \ Bytes(cp, n)
      /\ UNCHANGED <<reverse, amiss, harmed>>

SegNext ==
  \/ \E n \in 0 .. Size : Allocate(n)
  \/ \E cp \in (Base - 1) .. (Base + Size), n \in 1 .. Size :
       PlacementAllocate(cp, n) \/ Deallocate(cp, n)

SegSpec == SegInit /\ [][SegNext]_segvars
-----------------------------------------------------------------------------
(* The bytes that can be handed out, by the addresses the caller knows.  Those *)
(* of the reverse allocator lie one below the arena: reverse_ptr takes 1 too   *)
(* many away.                                                                  *)
Arena == {b - (IF reverse THEN 1 ELSE 0) : b \in Bytes(Base, Size)}

Segment(p) == Bytes(reverse_ptr(p, off[p]), off[p])

\* However blocks are taken, placed, split and given back (lines 12-118): while no
\* request has harmed the map, each byte is with the caller or in one free segment
\* of the map, never both, and no two of these touch, so that what fits in the free
\* space in one piece is there.  The set holds the same segments until a block is
\* placed on a whole one or in the middle of one, and what it gets wrong then does
\* not reach the map before allocate takes up a segment that the map does not have.
FreeIsRest ==
  ~harmed =>
    /\ ~amiss => siz = {Entry(off, p) : p \in DOMAIN off}
    /\ used \subseteq Arena
    /\ UNION {Segment(p) : p \in DOMAIN off} = Arena \ used
    /\ \A p, q \in DOMAIN off : p < q => p + off[p] < q
=============================================================================
