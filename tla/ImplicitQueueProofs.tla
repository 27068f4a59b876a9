-------------------------- MODULE ImplicitQueueProofs --------------------------
(***************************************************************************)
(* The implicit queue of moodycamel.h for any number of producers and      *)
(* consumers, any block size, index size and pool, and any number of       *)
(* elements.  ImplicitQueueInv has the invariant, in two parts that are    *)
(* kept each for itself.                                                   *)
(*                                                                         *)
(* CountInv, of the counts.  A consumer that claims raises a count that    *)
(* may run ahead of the tail; it has its claim granted by a second look at *)
(* the tail, with the overcommit it had read before.  For each producer    *)
(* there is a number n above all claims that were granted, such that even  *)
(* if all undecided claims below n were granted there would be elements    *)
(* for them.  So headIndex, which counts what is given, is not ahead of    *)
(* the tail.                                                               *)
(*                                                                         *)
(* BlockInv, of the blocks.  The entries of an index, from its tail back,  *)
(* have the numbers of the last blocks without a gap; a block with a place *)
(* that is not done with is linked under its number, and its count is that *)
(* of the places done with.  From the tail of any index that a consumer    *)
(* may have read it finds the entry of its block: an index that was        *)
(* replaced keeps pointing to the entries it had, and an entry of a block  *)
(* in use is not given another number.                                     *)
(***************************************************************************)
EXTENDS ImplicitQueueInv, FiniteSetTheorems, SequenceTheorems, TLAPS

-----------------------------------------------------------------------------
(* Numbers of blocks. *)
LEMMA BlockSizeIs == BLOCK_SIZE \in Nat /\ BLOCK_SIZE > 1
  BY IQAssumption

LEMMA BlockMultiples ==
  ASSUME NEW j \in Int, NEW k \in Int
  PROVE  /\ j * BLOCK_SIZE \in Int /\ j * BLOCK_SIZE = BLOCK_SIZE * j
         /\ j * BLOCK_SIZE # INVALID_BLOCK_BASE
         /\ j < k => j * BLOCK_SIZE + BLOCK_SIZE <= k * BLOCK_SIZE
         /\ j * BLOCK_SIZE = k * BLOCK_SIZE => j = k
         /\ (j + k) * BLOCK_SIZE = j * BLOCK_SIZE + k * BLOCK_SIZE
         /\ (j - k) * BLOCK_SIZE = j * BLOCK_SIZE - k * BLOCK_SIZE
<1>1. BLOCK_SIZE \in Nat /\ BLOCK_SIZE > 1
  BY BlockSizeIs
<1>2. j * BLOCK_SIZE \in Int /\ j * BLOCK_SIZE = BLOCK_SIZE * j /\ k * BLOCK_SIZE \in Int
  BY <1>1
<1>3. (j + k) * BLOCK_SIZE = j * BLOCK_SIZE + k * BLOCK_SIZE
  BY <1>1
<1>4. (j - k) * BLOCK_SIZE = j * BLOCK_SIZE - k * BLOCK_SIZE
  BY <1>1
<1>5. ASSUME NEW a \in Int, NEW b \in Int, a < b PROVE a * BLOCK_SIZE + BLOCK_SIZE <= b * BLOCK_SIZE
  <2>1. PICK d \in Nat : d = b - a - 1
    BY <1>5
  <2>2. b = a + 1 + d
    BY <2>1
  <2>3. b * BLOCK_SIZE = a * BLOCK_SIZE + BLOCK_SIZE + d * BLOCK_SIZE
    BY <1>1, <2>2
  <2>4. d * BLOCK_SIZE \in Nat /\ a * BLOCK_SIZE \in Int
    BY <1>1
  <2> QED
    BY <1>1, <2>3, <2>4
<1>6. j * BLOCK_SIZE = k * BLOCK_SIZE => j = k
  <2> SUFFICES ASSUME j * BLOCK_SIZE = k * BLOCK_SIZE, j # k PROVE FALSE
    OBVIOUS
  <2>1. CASE j < k
    BY <1>1, <1>2, <1>5, <2>1
  <2>2. CASE k < j
    BY <1>1, <1>2, <1>5, <2>2
  <2> QED
    BY <2>1, <2>2
<1>7. j * BLOCK_SIZE # 1
  <2>1. CASE j <= 0
    <3>1. j < 1 /\ 1 * BLOCK_SIZE = BLOCK_SIZE
      BY <1>1, <2>1
    <3>2. j * BLOCK_SIZE + BLOCK_SIZE <= 1 * BLOCK_SIZE
      BY <3>1, <1>5
    <3> QED
      BY <1>1, <1>2, <3>1, <3>2
  <2>2. CASE j > 0
    <3>1. 0 < j /\ 0 * BLOCK_SIZE = 0
      BY <1>1, <2>2
    <3>2. 0 * BLOCK_SIZE + BLOCK_SIZE <= j * BLOCK_SIZE
      BY <3>1, <1>5
    <3> QED
      BY <1>1, <1>2, <3>1, <3>2
  <2> QED
    BY <2>1, <2>2
<1> QED
  BY <1>2, <1>3, <1>4, <1>5, <1>6, <1>7 DEF INVALID_BLOCK_BASE

LEMMA EuclideanDivision ==
  ASSUME NEW M \in Nat, M > 0, NEW a \in Int
  PROVE  a \div M \in Int /\ a % M \in 0 .. (M - 1) /\ a = M * (a \div M) + (a % M)
  OBVIOUS

LEMMA BlockDivision ==
  ASSUME NEW a \in Int
  PROVE  \E d \in Int, m \in 0 .. (BLOCK_SIZE - 1) :
           d = a \div BLOCK_SIZE /\ m = a % BLOCK_SIZE /\ a = d * BLOCK_SIZE + m
<1>1. BLOCK_SIZE \in Nat /\ BLOCK_SIZE > 0
  BY BlockSizeIs
<1> DEFINE d == a \div BLOCK_SIZE
           m == a % BLOCK_SIZE
<1>2. d \in Int /\ m \in 0 .. (BLOCK_SIZE - 1) /\ a = BLOCK_SIZE * d + m
  BY <1>1, EuclideanDivision
<1>3. d = a \div BLOCK_SIZE /\ m = a % BLOCK_SIZE
  OBVIOUS
<1> HIDE DEF d, m
<1>4. a = d * BLOCK_SIZE + m
  <2>1. d * BLOCK_SIZE = BLOCK_SIZE * d
    BY <1>2, BlockMultiples
  <2> QED
    BY <1>2, <2>1
<1> QED
  BY <1>2, <1>3, <1>4

LEMMA BlockUnique ==
  ASSUME NEW a \in Int, NEW q \in Int, NEW r \in 0 .. (BLOCK_SIZE - 1), a = q * BLOCK_SIZE + r
  PROVE  a \div BLOCK_SIZE = q /\ a % BLOCK_SIZE = r
<1>1. BLOCK_SIZE \in Nat /\ BLOCK_SIZE > 1
  BY BlockSizeIs
<1>2. PICK d \in Int, m \in 0 .. (BLOCK_SIZE - 1) :
        d = a \div BLOCK_SIZE /\ m = a % BLOCK_SIZE /\ a = d * BLOCK_SIZE + m
  BY BlockDivision
<1>3. PICK x \in Int, y \in Int : x = d * BLOCK_SIZE /\ y = q * BLOCK_SIZE
  BY BlockMultiples
<1>4. ~(d < q)
  <2>1. d < q => x + BLOCK_SIZE <= y
    BY <1>3, BlockMultiples
  <2> QED
    BY <1>1, <1>2, <1>3, <2>1
<1>5. ~(q < d)
  <2>1. q < d => y + BLOCK_SIZE <= x
    BY <1>3, BlockMultiples
  <2> QED
    BY <1>1, <1>2, <1>3, <2>1
<1>6. d = q
  BY <1>4, <1>5
<1> QED
  BY <1>1, <1>2, <1>3, <1>6

LEMMA BlocksGrow ==
  ASSUME NEW a \in Int, NEW b \in Int, a <= b
  PROVE  a \div BLOCK_SIZE <= b \div BLOCK_SIZE
<1>1. BLOCK_SIZE \in Nat /\ BLOCK_SIZE > 1
  BY BlockSizeIs
<1>2. PICK d \in Int, m \in 0 .. (BLOCK_SIZE - 1) : d = a \div BLOCK_SIZE /\ a = d * BLOCK_SIZE + m
  BY BlockDivision
<1>3. PICK q \in Int, r \in 0 .. (BLOCK_SIZE - 1) : q = b \div BLOCK_SIZE /\ b = q * BLOCK_SIZE + r
  BY BlockDivision
<1>4. PICK x \in Int, y \in Int : x = d * BLOCK_SIZE /\ y = q * BLOCK_SIZE
  BY BlockMultiples
<1>5. q < d => y + BLOCK_SIZE <= x
  BY <1>4, BlockMultiples
<1>6. ~(q < d)
  BY <1>1, <1>2, <1>3, <1>4, <1>5
<1> QED
  BY <1>2, <1>3, <1>6

\* What lies in block k.
LEMMA PositionsAre ==
  ASSUME NEW k \in Int
  PROVE  /\ \A n \in Int : n \in Positions(k) <=> n \div BLOCK_SIZE = k
         /\ Positions(k) \subseteq Int
         /\ IsFiniteSet(Positions(k)) /\ Cardinality(Positions(k)) = BLOCK_SIZE
<1>1. BLOCK_SIZE \in Nat /\ BLOCK_SIZE > 1
  BY BlockSizeIs
<1>2. PICK x \in Int : x = k * BLOCK_SIZE
  BY BlockMultiples
<1>3. Positions(k) = x .. (x + BLOCK_SIZE - 1)
  BY <1>2 DEF Positions
<1>4. ASSUME NEW n \in Int PROVE n \in Positions(k) <=> n \div BLOCK_SIZE = k
  <2>1. ASSUME n \in Positions(k) PROVE n \div BLOCK_SIZE = k
    <3>1. n - x \in 0 .. (BLOCK_SIZE - 1) /\ n = x + (n - x)
      BY <1>1, <1>2, <1>3, <2>1
    <3>2. n = k * BLOCK_SIZE + (n - x)
      BY <1>2, <3>1
    <3> QED
      BY <3>1, <3>2, BlockUnique
  <2>2. ASSUME n \div BLOCK_SIZE = k PROVE n \in Positions(k)
    <3>1. PICK m \in 0 .. (BLOCK_SIZE - 1) : n = k * BLOCK_SIZE + m
      BY <2>2, BlockDivision
    <3> QED
      BY <1>1, <1>2, <1>3, <3>1
  <2> QED
    BY <2>1, <2>2
<1>5. IsFiniteSet(Positions(k)) /\ Cardinality(Positions(k)) = BLOCK_SIZE
  <2>1. x + BLOCK_SIZE - 1 \in Int
    BY <1>1
  <2>2. /\ IsFiniteSet(x .. (x + BLOCK_SIZE - 1))
        /\ Cardinality(x .. (x + BLOCK_SIZE - 1)) = IF x > x + BLOCK_SIZE - 1 THEN 0 ELSE (x + BLOCK_SIZE - 1) - x + 1
    BY <2>1, FS_Interval
  <2> QED
    BY <1>1, <1>3, <2>2
<1> QED
  BY <1>3, <1>4, <1>5

LEMMA AddedOne ==
  ASSUME NEW S, IsFiniteSet(S), NEW x, x \notin S
  PROVE  Cardinality(S \cup {x}) = Cardinality(S) + 1 /\ IsFiniteSet(S \cup {x}) /\ Cardinality(S) \in Nat
  BY FS_AddElement, FS_CardinalityType

LEMMA TakenOne ==
  ASSUME NEW S, IsFiniteSet(S), NEW x \in S
  PROVE  Cardinality(S \ {x}) = Cardinality(S) - 1 /\ IsFiniteSet(S \ {x}) /\ Cardinality(S) \in Nat /\ Cardinality(S) > 0
<1>1. Cardinality(S) \in Nat /\ Cardinality(S \ {x}) = Cardinality(S) - 1 /\ IsFiniteSet(S \ {x})
  BY FS_RemoveElement, FS_CardinalityType
<1>2. Cardinality(S \ {x}) \in Nat
  BY <1>1, FS_CardinalityType
<1> QED
  BY <1>1, <1>2
-----------------------------------------------------------------------------
(* What a step leaves alone, and what it does to the thread that takes it. *)
Apart(t) == \A u \in IThreads : u # t => ipc'[u] = ipc[u] /\ loc'[u] = loc[u]

LEMMA ThreadsAre ==
  ASSUME load \in Loads
  PROVE  /\ IProducers \subseteq Nat \ {0} /\ IProducers \cap IConsumers = {} /\ 1 \in IProducers
         /\ load.consumers \subseteq IConsumers /\ NProducers \in Nat
<1>1. load.enqueues \in Seq(Nat) \ {<<>>} /\ load.consumers \subseteq IConsumers /\ IConsumers \cap Nat = {}
  BY IQAssumption
<1>2. Len(load.enqueues) \in Nat /\ Len(load.enqueues) > 0
  BY <1>1
<1> QED
  BY <1>1, <1>2 DEF IProducers, NProducers

\* A field is set.
LEMMA Knows ==
  ASSUME NEW r \in Locals, NEW v \in Nat
  PROVE  /\ [r EXCEPT !["x"] = v] = [r EXCEPT !.x = v]
         /\ [r EXCEPT !["h"] = v] = [r EXCEPT !.h = v]
         /\ [r EXCEPT !["e"] = v] = [r EXCEPT !.e = v]
         /\ [r EXCEPT !["over"] = v] = [r EXCEPT !.over = v]
         /\ [r EXCEPT !["b"] = v] = [r EXCEPT !.b = v]
  BY DEF Locals

\* Thread t goes on to l with the locals r.
Goes(t, l, r) ==
  /\ ipc' = [ipc EXCEPT ![t] = l] /\ loc' = [loc EXCEPT ![t] = r] /\ load' = load
  /\ r \in Locals
  /\ t \in IProducers => l \in PushLabels
  /\ t \in IConsumers => l \in PopLabels
  /\ t \in IConsumers /\ l # "idle" =>
       r.ptr \in IProducers /\ (r.seen > 0 \/ r.size > 0 => r.best \in IProducers)

LEMMA Gone ==
  ASSUME ThreadTypes, NEW CONSTANT t \in IThreads, NEW CONSTANT l, NEW CONSTANT r, Goes(t, l, r)
  PROVE  /\ ThreadTypes' /\ Apart(t) /\ ipc'[t] = l /\ loc'[t] = r
         /\ IProducers' = IProducers /\ IThreads' = IThreads
<1>1. IProducers' = IProducers /\ IThreads' = IThreads
  BY DEF Goes, IProducers, IThreads, NProducers
<1>2. Apart(t) /\ ipc'[t] = l /\ loc'[t] = r
  BY DEF Goes, Apart, ThreadTypes
<1>3. l \in PushLabels \cup PopLabels
  BY DEF Goes, IThreads
<1>4. ipc' \in [IThreads -> PushLabels \cup PopLabels] /\ loc' \in [IThreads -> Locals]
  BY <1>3 DEF Goes, ThreadTypes
<1>5. \A p \in IProducers : ipc'[p] \in PushLabels
  <2> TAKE p \in IProducers
  <2>1. p \in IThreads
    BY DEF IThreads
  <2> QED
    BY <1>2, <2>1 DEF Goes, Apart, ThreadTypes
<1>6. ASSUME NEW c \in IConsumers
      PROVE  /\ ipc'[c] \in PopLabels
             /\ ipc'[c] # "idle" =>
                  /\ loc'[c].ptr \in IProducers
                  /\ loc'[c].seen > 0 \/ loc'[c].size > 0 => loc'[c].best \in IProducers
  <2>1. c \in IThreads
    BY DEF IThreads
  <2>2. CASE c = t
    BY <1>2, <2>2 DEF Goes
  <2>3. CASE c # t
    BY <1>2, <2>1, <2>3 DEF Apart, ThreadTypes
  <2> QED
    BY <2>2, <2>3
<1> QED
  BY <1>1, <1>2, <1>4, <1>5, <1>6 DEF ThreadTypes

LEMMA NoCallIs ==
  NoCall \in Locals /\ NoCall.size = 0 /\ NoCall.seen = 0 /\ NoCall.b = 0 /\ NoCall.e = 0 /\ NoCall.x = 0
  BY DEF NoCall, Locals

LEMMA SubThreads == IProducers \subseteq IThreads /\ IConsumers \subseteq IThreads
  BY DEF IThreads

\* The forms of a step's last lines.
LEMMA ReturnGoes ==
  ASSUME CountTypes, ThreadTypes, load' = load, NEW CONSTANT t \in IThreads, IReturn(t)
  PROVE  Goes(t, "idle", NoCall)
<1>1. "idle" \in PushLabels /\ "idle" \in PopLabels
  BY DEF PushLabels, PopLabels
<1> QED
  BY <1>1, NoCallIs DEF IReturn, IGo, Set, Goes

LEMMA KnowGoes ==
  ASSUME CountTypes, ThreadTypes, load' = load, NEW CONSTANT t \in IThreads, NEW CONSTANT l, NEW CONSTANT v \in Nat,
         NEW CONSTANT f \in {"x", "h", "e", "over", "b"},
         IGo(t, l), Know(t, f, v), ipc[t] # "idle",
         t \in IProducers => l \in PushLabels, t \in IConsumers => l \in PopLabels
  PROVE  /\ Goes(t, l, [loc[t] EXCEPT ![f] = v])
         /\ f = "x" => [loc[t] EXCEPT ![f] = v] = [loc[t] EXCEPT !.x = v]
         /\ f = "h" => [loc[t] EXCEPT ![f] = v] = [loc[t] EXCEPT !.h = v]
         /\ f = "e" => [loc[t] EXCEPT ![f] = v] = [loc[t] EXCEPT !.e = v]
         /\ f = "over" => [loc[t] EXCEPT ![f] = v] = [loc[t] EXCEPT !.over = v]
         /\ f = "b" => [loc[t] EXCEPT ![f] = v] = [loc[t] EXCEPT !.b = v]
<1>1. PICK r \in Locals : r = loc[t]
  BY DEF ThreadTypes
<1>2. PICK s : s = [r EXCEPT ![f] = v]
  OBVIOUS
<1>3. loc' = [loc EXCEPT ![t] = s] /\ ipc' = [ipc EXCEPT ![t] = l]
  BY <1>1, <1>2 DEF Know, IGo, Set
<1>4. s \in Locals /\ s.ptr = r.ptr /\ s.seen = r.seen /\ s.size = r.size /\ s.best = r.best
  BY <1>2 DEF Locals
<1>5. t \in IConsumers => r.ptr \in IProducers /\ (r.seen > 0 \/ r.size > 0 => r.best \in IProducers)
  BY <1>1 DEF ThreadTypes
<1>6. Goes(t, l, s)
  BY <1>3, <1>4, <1>5 DEF Goes
<1>7. /\ f = "x" => [r EXCEPT ![f] = v] = [r EXCEPT !.x = v]
      /\ f = "h" => [r EXCEPT ![f] = v] = [r EXCEPT !.h = v]
      /\ f = "e" => [r EXCEPT ![f] = v] = [r EXCEPT !.e = v]
      /\ f = "over" => [r EXCEPT ![f] = v] = [r EXCEPT !.over = v]
      /\ f = "b" => [r EXCEPT ![f] = v] = [r EXCEPT !.b = v]
  BY Knows
<1> QED
  BY <1>1, <1>2, <1>6, <1>7

LEMMA StaysGoes ==
  ASSUME CountTypes, ThreadTypes, load' = load, NEW CONSTANT t \in IThreads, NEW CONSTANT l,
         IGo(t, l), loc' = loc, ipc[t] # "idle" \/ t \in IProducers,
         t \in IProducers => l \in PushLabels, t \in IConsumers => l \in PopLabels
  PROVE  Goes(t, l, loc[t])
<1>1. loc' = [loc EXCEPT ![t] = loc[t]] /\ loc[t] \in Locals
  BY DEF ThreadTypes
<1>2. t \notin IProducers \/ t \notin IConsumers
  BY ThreadsAre DEF CountTypes
<1>3. t \in IConsumers => loc[t].ptr \in IProducers /\ (loc[t].seen > 0 \/ loc[t].size > 0 => loc[t].best \in IProducers)
  BY <1>2 DEF ThreadTypes
<1> QED
  BY <1>1, <1>3 DEF IGo, Set, Goes

(* CountInv. *)
SameThreads == IProducers' = IProducers /\ IThreads' = IThreads

LEMMA AtMoves ==
  ASSUME NEW CONSTANT t, Apart(t), NEW CONSTANT l, NEW CONSTANT p
  PROVE  /\ \A c \in At(l, p) : c # t => c \in At(l, p)' /\ loc'[c] = loc[c]
         /\ \A c \in At(l, p)' : c # t => c \in At(l, p)
         /\ t \in At(l, p)' <=> t \in IConsumers /\ ipc'[t] = l /\ loc'[t].ptr = p
         /\ t \in At(l, p) <=> t \in IConsumers /\ ipc[t] = l /\ loc[t].ptr = p
         /\ At(l, p) \subseteq IConsumers /\ IsFiniteSet(At(l, p)) /\ Cardinality(At(l, p)) \in Nat
<1>1. IConsumers \subseteq IThreads
  BY SubThreads
<1>2. At(l, p) \subseteq IConsumers
  BY DEF At
<1>3. IsFiniteSet(At(l, p))
  BY <1>2, FS_Subset, IQAssumption
<1>4. Cardinality(At(l, p)) \in Nat
  BY <1>3, FS_CardinalityType
<1> QED
  BY <1>1, <1>2, <1>3, <1>4 DEF At, Apart

\* Of the labels that count, t is at none, before and after.
LEMMA AtSame ==
  ASSUME NEW CONSTANT t, Apart(t), NEW CONSTANT l, NEW CONSTANT p,
         t \in IConsumers => ipc[t] # l /\ ipc'[t] # l
  PROVE  At(l, p)' = At(l, p) /\ \A c \in At(l, p) : loc'[c] = loc[c]
<1>1. t \notin At(l, p) /\ t \notin At(l, p)'
  BY AtMoves
<1> QED
  BY <1>1, AtMoves

LEMMA AtLeft ==
  ASSUME NEW CONSTANT t, Apart(t), NEW CONSTANT l, NEW CONSTANT p, t \in At(l, p), ipc'[t] # l
  PROVE  /\ At(l, p)' = At(l, p) \ {t} /\ \A c \in At(l, p) : c # t => loc'[c] = loc[c]
         /\ Cardinality(At(l, p))' = Cardinality(At(l, p)) - 1
         /\ \A q : q # p => At(l, q)' = At(l, q) /\ \A c \in At(l, q) : loc'[c] = loc[c]
<1>1. t \notin At(l, p)' /\ IsFiniteSet(At(l, p))
  BY AtMoves
<1>2. At(l, p)' = At(l, p) \ {t} /\ \A c \in At(l, p) : c # t => loc'[c] = loc[c]
  BY <1>1, AtMoves
<1>3. Cardinality(At(l, p) \ {t}) = Cardinality(At(l, p)) - 1
  BY <1>1, TakenOne
<1>4. ASSUME NEW q, q # p PROVE At(l, q)' = At(l, q) /\ \A c \in At(l, q) : loc'[c] = loc[c]
  <2>1. t \notin At(l, q)
    BY <1>4 DEF At
  <2>2. t \notin At(l, q)'
    BY DEF At
  <2>3. /\ \A c \in At(l, q) : c # t => c \in At(l, q)' /\ loc'[c] = loc[c]
        /\ \A c \in At(l, q)' : c # t => c \in At(l, q)
    BY AtMoves
  <2> QED
    BY <2>1, <2>2, <2>3
<1> QED
  BY <1>2, <1>3, <1>4

LEMMA AtJoined ==
  ASSUME NEW CONSTANT t, Apart(t), NEW CONSTANT l, NEW CONSTANT p, t \in IConsumers,
         ipc[t] # l, ipc'[t] = l, loc'[t].ptr = p
  PROVE  /\ At(l, p)' = At(l, p) \cup {t} /\ \A c \in At(l, p) : loc'[c] = loc[c]
         /\ Cardinality(At(l, p))' = Cardinality(At(l, p)) + 1
         /\ \A q : q # p => At(l, q)' = At(l, q) /\ \A c \in At(l, q) : loc'[c] = loc[c]
<1>1. t \in At(l, p)' /\ t \notin At(l, p) /\ IsFiniteSet(At(l, p))
  BY AtMoves
<1>2. At(l, p)' = At(l, p) \cup {t} /\ \A c \in At(l, p) : loc'[c] = loc[c]
  BY <1>1, AtMoves
<1>3. Cardinality(At(l, p) \cup {t}) = Cardinality(At(l, p)) + 1
  BY <1>1, AddedOne
<1>4. ASSUME NEW q, q # p PROVE At(l, q)' = At(l, q) /\ \A c \in At(l, q) : loc'[c] = loc[c]
  <2>1. t \notin At(l, q)
    BY DEF At
  <2>2. t \notin At(l, q)'
    BY <1>4 DEF At
  <2>3. /\ \A c \in At(l, q) : c # t => c \in At(l, q)' /\ loc'[c] = loc[c]
        /\ \A c \in At(l, q)' : c # t => c \in At(l, q)
    BY AtMoves
  <2> QED
    BY <2>1, <2>2, <2>3
<1> QED
  BY <1>2, <1>3, <1>4

LEMMA EarlyFinite ==
  ASSUME NEW CONSTANT p, NEW CONSTANT n
  PROVE  /\ Early(p, n) \subseteq At("recheck", p) /\ IsFiniteSet(Early(p, n)) /\ Cardinality(Early(p, n)) \in Nat
         /\ IsFiniteSet(At("recheck", p)) /\ Cardinality(Early(p, n)) <= Cardinality(At("recheck", p))
         /\ \A l : Cardinality(At(l, p)) \in Nat
<1>1. \A l : At(l, p) \subseteq IConsumers
  BY DEF At
<1>2. \A l : IsFiniteSet(At(l, p))
  BY <1>1, FS_Subset, IQAssumption
<1>3. Early(p, n) \subseteq At("recheck", p)
  BY DEF Early
<1> QED
  BY <1>2, <1>3, FS_Subset, FS_CardinalityType

LEMMA GrantedType ==
  ASSUME CountTypes, NEW CONSTANT p \in IProducers
  PROVE  Granted(p) \in Nat /\ Granted(p) >= headIndex[p] /\ headIndex[p] \in Nat
<1>1. headIndex[p] \in Nat
  BY DEF CountTypes, Counts
<1>2. Cardinality(At("head", p)) \in Nat
  BY EarlyFinite
<1> QED
  BY <1>1, <1>2 DEF Granted

\* What the counts say for one producer.
CountsOf(p) ==
  /\ dequeueOptimisticCount[p] = dequeueOvercommit[p] + Granted(p)
       + Cardinality(At("recheck", p)) + Cardinality(At("giveup", p))
  /\ \E n \in 0 .. dequeueOptimisticCount[p] : GrantsFit(p, n)
  /\ \A c \in At("recheck", p) : loc[c].x < dequeueOptimisticCount[p]
  /\ \A c, d \in At("recheck", p) : loc[c].x = loc[d].x => c = d
  /\ \A c \in At("check", p) \cup At("claim", p) : loc[c].over <= dequeueOvercommit[p]

LEMMA CountInvIs == CountInv <=> \A p \in IProducers : CountsOf(p)
  BY DEF CountInv, CountsMatch, GrantsKept, ClaimsDiffer, CountsOf

LEMMA CountInvNext == (CountInv <=> \A p \in IProducers : CountsOf(p))'
  BY CountInvIs, PTL

\* The consumers of p at the labels that count, and what they remember, are the same.
SameCalls(p) ==
  /\ \A l \in {"recheck", "giveup", "head"} : At(l, p)' = At(l, p)
  /\ \A c \in At("recheck", p) : loc'[c] = loc[c]

LEMMA EarlySame ==
  ASSUME NEW CONSTANT p, SameCalls(p), NEW CONSTANT n
  PROVE  Early(p, n)' = Early(p, n)
<1>1. At("recheck", p)' = At("recheck", p) /\ \A c \in At("recheck", p) : loc'[c] = loc[c]
  BY DEF SameCalls
<1> QED
  BY <1>1 DEF Early

LEMMA CountsStay ==
  ASSUME CountTypes, CountTypes', SameThreads, NEW CONSTANT p \in IProducers, CountsOf(p), SameCalls(p),
         headIndex'[p] = headIndex[p], dequeueOptimisticCount'[p] = dequeueOptimisticCount[p],
         dequeueOvercommit'[p] = dequeueOvercommit[p], tailIndex'[p] >= tailIndex[p],
         \A c \in At("check", p)' \cup At("claim", p)' : loc'[c].over <= dequeueOvercommit[p]
  PROVE  CountsOf(p)'
<1>1. At("recheck", p)' = At("recheck", p) /\ At("giveup", p)' = At("giveup", p) /\ At("head", p)' = At("head", p)
  BY DEF SameCalls
<1>2. Granted(p)' = Granted(p)
  BY <1>1 DEF Granted
<1>3. \A c \in At("recheck", p) : loc'[c] = loc[c]
  BY DEF SameCalls
<1>4. ASSUME NEW n \in 0 .. dequeueOptimisticCount[p], GrantsFit(p, n) PROVE GrantsFit(p, n)'
  <2>1. Early(p, n)' = Early(p, n)
    BY EarlySame
  <2>2. Granted(p)' + Cardinality(Early(p, n)') <= tailIndex'[p]
    <3>1. Granted(p) + Cardinality(Early(p, n)) <= tailIndex[p]
      BY <1>4 DEF GrantsFit
    <3>2. Granted(p) \in Nat /\ Cardinality(Early(p, n)) \in Nat
      BY GrantedType, EarlyFinite
    <3>3. tailIndex[p] \in Nat /\ tailIndex'[p] \in Nat
      BY DEF CountTypes, Counts, SameThreads
    <3> QED
      BY <1>2, <2>1, <3>1, <3>2, <3>3
  <2>3. ASSUME NEW c \in At("recheck", p)', loc'[c].x >= n
        PROVE  Granted(p)' + Cardinality(Early(p, loc[c].x + 1)') + loc'[c].over <= loc'[c].x + 1
    <3>1. c \in At("recheck", p) /\ loc'[c] = loc[c]
      BY <1>1, <1>3
    <3>2. PICK m : m = loc[c].x + 1
      OBVIOUS
    <3>3. Early(p, m)' = Early(p, m)
      BY EarlySame
    <3>4. Granted(p) + Cardinality(Early(p, m)) + loc[c].over <= loc[c].x + 1
      BY <1>4, <2>3, <3>1, <3>2 DEF GrantsFit
    <3>5. Early(p, loc[c].x + 1)' = Early(p, m)'
      BY <3>1, <3>2 DEF Early
    <3> QED
      BY <1>2, <3>1, <3>2, <3>3, <3>4, <3>5 DEF Early
  <2> QED
    BY <2>2, <2>3, <1>1, <1>3 DEF GrantsFit, Early
<1>5. \E n \in 0 .. dequeueOptimisticCount'[p] : GrantsFit(p, n)'
  <2>1. PICK n \in 0 .. dequeueOptimisticCount[p] : GrantsFit(p, n)
    BY DEF CountsOf
  <2> QED
    BY <1>4, <2>1
<1> QED
  BY <1>1, <1>2, <1>3, <1>5 DEF CountsOf


\* A claim is made: it is above all others, and had read no more than the overcommit.
LEMMA CountsAfterClaim ==
  ASSUME CountTypes, CountTypes', SameThreads, NEW CONSTANT p \in IProducers, CountsOf(p),
         NEW CONSTANT c \in IConsumers, NEW CONSTANT r, c \in At("claim", p), Apart(c),
         ipc'[c] = "recheck", loc'[c] = r, r.ptr = p, r.x = dequeueOptimisticCount[p], r.over = loc[c].over,
         r.over \in Nat, \A d \in IConsumers : loc[d].x \in Nat,
         headIndex'[p] = headIndex[p], dequeueOptimisticCount'[p] = dequeueOptimisticCount[p] + 1,
         dequeueOvercommit'[p] = dequeueOvercommit[p], tailIndex'[p] = tailIndex[p]
  PROVE  CountsOf(p)'
<1> DEFINE o == dequeueOptimisticCount[p]
<1>1. ipc[c] = "claim" /\ loc[c].ptr = p
  BY DEF At
<1>2. /\ At("recheck", p)' = At("recheck", p) \cup {c} /\ \A d \in At("recheck", p) : loc'[d] = loc[d]
      /\ Cardinality(At("recheck", p))' = Cardinality(At("recheck", p)) + 1
  BY <1>1, AtJoined
<1>3. c \notin At("recheck", p)
  BY <1>1 DEF At
<1>4. At("giveup", p)' = At("giveup", p) /\ At("head", p)' = At("head", p)
  BY <1>1, AtSame
<1>5. Granted(p)' = Granted(p) /\ Granted(p) \in Nat
  BY <1>4, GrantedType DEF Granted
<1>6. /\ o \in Nat /\ dequeueOvercommit[p] \in Nat /\ tailIndex[p] \in Nat
      /\ Cardinality(At("recheck", p)) \in Nat /\ Cardinality(At("giveup", p)) \in Nat
  BY EarlyFinite DEF CountTypes, Counts
<1>7. /\ o = dequeueOvercommit[p] + Granted(p) + Cardinality(At("recheck", p)) + Cardinality(At("giveup", p))
      /\ \A d \in At("recheck", p) : loc[d].x < o
      /\ loc[c].over <= dequeueOvercommit[p]
  BY DEF CountsOf
<1> HIDE DEF o
<1>18. loc'[c].x = o
  BY DEF o
<1>19. \A d \in At("recheck", p) : d # c /\ loc'[d] = loc[d] /\ loc[d].x \in Nat /\ loc[d].x < o
  BY <1>2, <1>3, <1>7 DEF At
<1>8. ASSUME NEW CONSTANT m \in Int, m <= o PROVE Early(p, m)' = Early(p, m)
  <2>1. ~(loc'[c].x < m)
    BY <1>6, <1>8, <1>18
  <2>2. \A d \in Early(p, m)' : d \in Early(p, m)
    BY <1>2, <1>19, <2>1 DEF Early
  <2>3. \A d \in Early(p, m) : d \in Early(p, m)'
    BY <1>2, <1>19 DEF Early
  <2> QED
    BY <2>2, <2>3
<1>10. PICK n \in 0 .. o : GrantsFit(p, n)
  BY DEF CountsOf, o
<1>11. GrantsFit(p, n)'
  <2>1. Granted(p)' + Cardinality(Early(p, n))' <= tailIndex'[p]
    <3>1. Early(p, n)' = Early(p, n)
      BY <1>6, <1>8, <1>10
    <3> QED
      BY <3>1, <1>5, <1>10 DEF GrantsFit
  <2>2. ASSUME NEW CONSTANT d \in At("recheck", p)', loc'[d].x >= n
        PROVE  Granted(p)' + Cardinality(Early(p, loc[d].x + 1))' + loc'[d].over <= loc'[d].x + 1
    <3>1. CASE d = c
      <4>3. \A e \in At("recheck", p)' : loc'[e].x < loc'[d].x + 1
        BY <1>2, <1>6, <1>18, <1>19, <3>1
      <4>4. Early(p, loc[d].x + 1)' = At("recheck", p)'
        BY <4>3 DEF Early
      <4>1. Cardinality(Early(p, loc[d].x + 1))' = Cardinality(At("recheck", p)) + 1
        BY <1>2, <4>4
      <4>2. loc'[d].x = o /\ loc'[d].over <= dequeueOvercommit[p] /\ loc'[d].over \in Nat
        BY <1>7, <3>1 DEF o
      <4> QED
        BY <1>5, <1>6, <1>7, <4>1, <4>2
    <3>2. CASE d # c
      <4>1. d \in At("recheck", p) /\ loc'[d] = loc[d]
        BY <1>2, <3>2
      <4>2. loc[d].x < o /\ loc[d].x \in Nat
        BY <1>7, <4>1 DEF At
      <4>3. PICK m \in Int : m = loc[d].x + 1 /\ m <= o
        BY <1>6, <4>2
      <4>4. Early(p, loc[d].x + 1)' = Early(p, m)' /\ Early(p, m)' = Early(p, m)
        BY <1>8, <4>1, <4>3
      <4>5. Granted(p) + Cardinality(Early(p, m)) + loc[d].over <= loc[d].x + 1
        BY <1>10, <2>2, <4>1, <4>3 DEF GrantsFit
      <4> QED
        BY <1>5, <4>1, <4>4, <4>5
    <3> QED
      BY <3>1, <3>2
  <2> QED
    BY <2>1, <2>2 DEF GrantsFit
<1>12. \A d, e \in At("recheck", p)' : loc'[d].x = loc'[e].x => d = e
  <2>1. \A d, e \in At("recheck", p) : loc[d].x = loc[e].x => d = e
    BY DEF CountsOf
  <2>2. \A d \in At("recheck", p) : loc[d].x # o
    BY <1>6, <1>7 DEF At
  <2>3. loc'[c].x = o
    BY DEF o
  <2> QED
    BY <1>2, <2>1, <2>2, <2>3
<1>13. \A d \in At("recheck", p)' : loc'[d].x < o + 1
  BY <1>2, <1>6, <1>18, <1>19
<1>14. \A d \in At("check", p)' \cup At("claim", p)' : loc'[d].over <= dequeueOvercommit[p]
  <2>1. \A d \in At("check", p)' \cup At("claim", p)' : d # c
    BY DEF At
  <2>2. \A d \in At("check", p)' \cup At("claim", p)' : d \in At("check", p) \cup At("claim", p) /\ loc'[d] = loc[d]
    BY <2>1, AtMoves
  <2> QED
    BY <2>2 DEF CountsOf
<1>15. o + 1 = dequeueOvercommit[p] + Granted(p)' + Cardinality(At("recheck", p))' + Cardinality(At("giveup", p))'
  BY <1>2, <1>4, <1>5, <1>6, <1>7
<1>16. n \in 0 .. (o + 1)
  BY <1>6
<1>17. dequeueOptimisticCount'[p] = o + 1
  BY DEF o
<1> QED
  BY <1>11, <1>12, <1>13, <1>14, <1>15, <1>16, <1>17 DEF CountsOf

LEMMA EarlyLess ==
  ASSUME NEW CONSTANT p, NEW CONSTANT c \in At("recheck", p), NEW CONSTANT n \in Int,
         At("recheck", p)' = At("recheck", p) \ {c}, \A d \in At("recheck", p) : d # c => loc'[d] = loc[d]
  PROVE  /\ loc[c].x < n => Cardinality(Early(p, n))' = Cardinality(Early(p, n)) - 1
         /\ ~(loc[c].x < n) => Early(p, n)' = Early(p, n)
         /\ Cardinality(Early(p, n))' <= Cardinality(Early(p, n)) /\ Cardinality(Early(p, n)) \in Nat
<1>1. Early(p, n)' = Early(p, n) \ {c}
  BY DEF Early
<1>2. IsFiniteSet(Early(p, n)) /\ Cardinality(Early(p, n)) \in Nat
  BY EarlyFinite
<1>3. ASSUME loc[c].x < n PROVE Cardinality(Early(p, n))' = Cardinality(Early(p, n)) - 1
  <2>1. c \in Early(p, n)
    BY <1>3 DEF Early
  <2> QED
    BY <1>1, <1>2, <2>1, TakenOne
<1>4. ASSUME ~(loc[c].x < n) PROVE Early(p, n)' = Early(p, n)
  <2>1. c \notin Early(p, n)
    BY <1>4 DEF Early
  <2> QED
    BY <1>1, <2>1
<1>5. Cardinality(Early(p, n))' <= Cardinality(Early(p, n))
  <2>1. CASE loc[c].x < n
    BY <1>2, <1>3, <2>1
  <2>2. CASE ~(loc[c].x < n)
    BY <1>2, <1>4, <2>2
  <2> QED
    BY <2>1, <2>2
<1> QED
  BY <1>2, <1>3, <1>4, <1>5

\* A claim is decided, whichever way.
Decides(c, p, l) ==
  /\ c \in At("recheck", p) /\ Apart(c) /\ ipc'[c] = l /\ loc'[c].ptr = p
  /\ UNCHANGED <<headIndex, dequeueOptimisticCount, dequeueOvercommit, tailIndex>>

LEMMA Decided ==
  ASSUME NEW CONSTANT p, NEW CONSTANT c \in IConsumers, NEW CONSTANT l \in {"head", "giveup"}, Decides(c, p, l)
  PROVE  /\ At("recheck", p)' = At("recheck", p) \ {c} /\ \A d \in At("recheck", p) : d # c => loc'[d] = loc[d]
         /\ Cardinality(At("recheck", p))' = Cardinality(At("recheck", p)) - 1
         /\ Cardinality(At(l, p))' = Cardinality(At(l, p)) + 1
         /\ \A m \in {"head", "giveup", "check", "claim"} \ {l} : At(m, p)' = At(m, p) /\ \A d \in At(m, p) : loc'[d] = loc[d]
<1>1. Apart(c) /\ ipc[c] = "recheck" /\ ipc'[c] = l /\ loc'[c].ptr = p /\ c \in At("recheck", p) /\ l # "recheck"
  BY DEF Decides, At
<1>2. ipc'[c] # "recheck"
  BY <1>1
<1>3. /\ At("recheck", p)' = At("recheck", p) \ {c} /\ \A d \in At("recheck", p) : d # c => loc'[d] = loc[d]
      /\ Cardinality(At("recheck", p))' = Cardinality(At("recheck", p)) - 1
  BY <1>1, <1>2, AtLeft
<1>4. Cardinality(At(l, p))' = Cardinality(At(l, p)) + 1
  BY <1>1, AtJoined
<1>5. ASSUME NEW CONSTANT m \in {"head", "giveup", "check", "claim"} \ {l}
      PROVE  At(m, p)' = At(m, p) /\ \A d \in At(m, p) : loc'[d] = loc[d]
  <2>1. ipc[c] # m /\ ipc'[c] # m
    BY <1>1
  <2> QED
    BY <1>1, <2>1, AtSame
<1> QED
  BY <1>3, <1>4, <1>5

\* What does not depend on how it is decided.
LEMMA ClaimsAfterDecision ==
  ASSUME CountTypes, NEW CONSTANT p \in IProducers, CountsOf(p), NEW CONSTANT c \in IConsumers,
         NEW CONSTANT l \in {"head", "giveup"}, Decides(c, p, l)
  PROVE  /\ \A d \in At("recheck", p)' : loc'[d].x < dequeueOptimisticCount'[p]
         /\ \A d, e \in At("recheck", p)' : loc'[d].x = loc'[e].x => d = e
         /\ \A d \in At("check", p)' \cup At("claim", p)' : loc'[d].over <= dequeueOvercommit'[p]
         /\ dequeueOptimisticCount'[p] = dequeueOptimisticCount[p] /\ dequeueOvercommit'[p] = dequeueOvercommit[p]
         /\ tailIndex'[p] = tailIndex[p] /\ headIndex'[p] = headIndex[p]
         /\ dequeueOptimisticCount[p] \in Nat /\ dequeueOvercommit[p] \in Nat /\ tailIndex[p] \in Nat
<1>1. At("recheck", p)' = At("recheck", p) \ {c} /\ \A d \in At("recheck", p) : d # c => loc'[d] = loc[d]
  BY Decided
<1>2. /\ At("check", p)' = At("check", p) /\ \A d \in At("check", p) : loc'[d] = loc[d]
      /\ At("claim", p)' = At("claim", p) /\ \A d \in At("claim", p) : loc'[d] = loc[d]
  BY Decided
<1>3. UNCHANGED <<headIndex, dequeueOptimisticCount, dequeueOvercommit, tailIndex>>
  BY DEF Decides
<1>4. dequeueOptimisticCount[p] \in Nat /\ dequeueOvercommit[p] \in Nat /\ tailIndex[p] \in Nat
  BY DEF CountTypes, Counts
<1>5. /\ \A d \in At("recheck", p) : loc[d].x < dequeueOptimisticCount[p]
      /\ \A d, e \in At("recheck", p) : loc[d].x = loc[e].x => d = e
      /\ \A d \in At("check", p) \cup At("claim", p) : loc[d].over <= dequeueOvercommit[p]
  BY DEF CountsOf
<1> QED
  BY <1>1, <1>2, <1>3, <1>4, <1>5

LEMMA CountsAfterGrant ==
  ASSUME CountTypes, ThreadTypes, NEW CONSTANT p \in IProducers, CountsOf(p), NEW CONSTANT c \in IConsumers,
         Decides(c, p, "head"), loc[c].x - loc[c].over < tailIndex[p]
  PROVE  CountsOf(p)'
<1>1. /\ At("recheck", p)' = At("recheck", p) \ {c} /\ \A d \in At("recheck", p) : d # c => loc'[d] = loc[d]
      /\ Cardinality(At("recheck", p))' = Cardinality(At("recheck", p)) - 1
      /\ Cardinality(At("head", p))' = Cardinality(At("head", p)) + 1
      /\ At("giveup", p)' = At("giveup", p) /\ c \in At("recheck", p)
  BY Decided DEF Decides
<1>2. /\ \A d \in At("recheck", p)' : loc'[d].x < dequeueOptimisticCount'[p]
      /\ \A d, e \in At("recheck", p)' : loc'[d].x = loc'[e].x => d = e
      /\ \A d \in At("check", p)' \cup At("claim", p)' : loc'[d].over <= dequeueOvercommit'[p]
      /\ dequeueOptimisticCount'[p] = dequeueOptimisticCount[p] /\ dequeueOvercommit'[p] = dequeueOvercommit[p]
      /\ tailIndex'[p] = tailIndex[p] /\ headIndex'[p] = headIndex[p]
      /\ dequeueOptimisticCount[p] \in Nat /\ dequeueOvercommit[p] \in Nat /\ tailIndex[p] \in Nat
  BY ClaimsAfterDecision
<1>3. /\ Granted(p) \in Nat /\ headIndex[p] \in Nat
      /\ \A m : Cardinality(At(m, p)) \in Nat
  BY GrantedType, EarlyFinite
<1>4. Granted(p)' = Granted(p) + 1
  <2>1. Cardinality(At("head", p)) \in Nat
    BY <1>3
  <2> QED
    BY <1>1, <1>2, <1>3, <2>1 DEF Granted
<1>5. dequeueOptimisticCount[p] = dequeueOvercommit[p] + Granted(p) + Cardinality(At("recheck", p)) + Cardinality(At("giveup", p))
  BY DEF CountsOf
<1>6. dequeueOptimisticCount'[p] = dequeueOvercommit'[p] + Granted(p)' + Cardinality(At("recheck", p))' + Cardinality(At("giveup", p))'
  <2>1. Cardinality(At("recheck", p)) \in Nat /\ Cardinality(At("giveup", p)) \in Nat
    BY <1>3
  <2> QED
    BY <1>1, <1>2, <1>3, <1>4, <1>5, <2>1
<1>7. PICK n \in 0 .. dequeueOptimisticCount[p] : GrantsFit(p, n)
  BY DEF CountsOf
<1>8. PICK x \in Nat, o \in Nat : x = loc[c].x /\ o = loc[c].over /\ x < dequeueOptimisticCount[p] /\ x - o < tailIndex[p]
  <2>1. loc[c] \in Locals
    BY SubThreads DEF ThreadTypes
  <2>2. loc[c].x \in Nat /\ loc[c].over \in Nat
    BY <2>1 DEF Locals
  <2>3. loc[c].x < dequeueOptimisticCount[p]
    BY <1>1 DEF CountsOf
  <2> QED
    BY <2>2, <2>3
\* The least number above all granted claims.
<1>9. PICK m \in 0 .. dequeueOptimisticCount[p] : m = IF x < n THEN n ELSE x + 1
  BY <1>2, <1>7, <1>8
<1>10. ASSUME NEW CONSTANT i \in Int, x < i
       PROVE  /\ Cardinality(Early(p, i))' = Cardinality(Early(p, i)) - 1
              /\ Cardinality(Early(p, i)) \in Nat
  BY <1>1, <1>8, <1>10, EarlyLess
<1>11. Granted(p)' + Cardinality(Early(p, m))' <= tailIndex'[p]
  <2>1. CASE x < n
    <3>1. Granted(p) + Cardinality(Early(p, n)) <= tailIndex[p]
      BY <1>7 DEF GrantsFit
    <3>2. Cardinality(Early(p, n))' = Cardinality(Early(p, n)) - 1 /\ Cardinality(Early(p, n)) \in Nat /\ m = n
      BY <1>7, <1>9, <1>10, <2>1
    <3> QED
      BY <1>2, <1>3, <1>4, <3>1, <3>2
  <2>2. CASE ~(x < n)
    <3>1. Granted(p) + Cardinality(Early(p, x + 1)) + o <= x + 1
      BY <1>1, <1>7, <1>8, <2>2 DEF GrantsFit
    <3>2. Cardinality(Early(p, x + 1))' = Cardinality(Early(p, x + 1)) - 1 /\ Cardinality(Early(p, x + 1)) \in Nat
      BY <1>8, <1>10
    <3>3. m = x + 1
      BY <1>9, <2>2
    <3> QED
      BY <1>2, <1>3, <1>4, <1>8, <3>1, <3>2, <3>3
  <2> QED
    BY <2>1, <2>2
<1>12. ASSUME NEW CONSTANT d \in At("recheck", p)', loc'[d].x >= m
       PROVE  Granted(p)' + Cardinality(Early(p, loc[d].x + 1))' + loc'[d].over <= loc'[d].x + 1
  <2>1. d \in At("recheck", p) /\ loc'[d] = loc[d]
    BY <1>1
  <2>2. PICK y \in Nat, q \in Nat : y = loc[d].x /\ q = loc[d].over
    <3>1. d \in IConsumers /\ loc[d] \in Locals
      BY <2>1, SubThreads DEF ThreadTypes, At
    <3> QED
      BY <3>1 DEF Locals
  <2>3. y >= m /\ m >= n /\ m > x
    BY <1>7, <1>8, <1>9, <1>12, <2>1, <2>2
  <2>4. Granted(p) + Cardinality(Early(p, y + 1)) + q <= y + 1
    BY <1>7, <1>9, <2>1, <2>2, <2>3 DEF GrantsFit
  <2>5. Cardinality(Early(p, y + 1))' = Cardinality(Early(p, y + 1)) - 1 /\ Cardinality(Early(p, y + 1)) \in Nat
    BY <1>8, <1>9, <1>10, <2>2, <2>3
  <2>6. Early(p, loc[d].x + 1)' = Early(p, y + 1)'
    BY <2>1, <2>2
  <2> QED
    BY <1>3, <1>4, <2>1, <2>2, <2>4, <2>5, <2>6
<1>13. GrantsFit(p, m)'
  BY <1>11, <1>12 DEF GrantsFit
<1> QED
  BY <1>2, <1>6, <1>13 DEF CountsOf

LEMMA CountsAfterRefusal ==
  ASSUME CountTypes, ThreadTypes, NEW CONSTANT p \in IProducers, CountsOf(p), NEW CONSTANT c \in IConsumers,
         Decides(c, p, "giveup")
  PROVE  CountsOf(p)'
<1>1. /\ At("recheck", p)' = At("recheck", p) \ {c} /\ \A d \in At("recheck", p) : d # c => loc'[d] = loc[d]
      /\ Cardinality(At("recheck", p))' = Cardinality(At("recheck", p)) - 1
      /\ Cardinality(At("giveup", p))' = Cardinality(At("giveup", p)) + 1
      /\ At("head", p)' = At("head", p) /\ c \in At("recheck", p)
  BY Decided DEF Decides
<1>2. /\ \A d \in At("recheck", p)' : loc'[d].x < dequeueOptimisticCount'[p]
      /\ \A d, e \in At("recheck", p)' : loc'[d].x = loc'[e].x => d = e
      /\ \A d \in At("check", p)' \cup At("claim", p)' : loc'[d].over <= dequeueOvercommit'[p]
      /\ dequeueOptimisticCount'[p] = dequeueOptimisticCount[p] /\ dequeueOvercommit'[p] = dequeueOvercommit[p]
      /\ tailIndex'[p] = tailIndex[p] /\ headIndex'[p] = headIndex[p]
      /\ dequeueOptimisticCount[p] \in Nat /\ dequeueOvercommit[p] \in Nat /\ tailIndex[p] \in Nat
  BY ClaimsAfterDecision
<1>3. /\ Granted(p) \in Nat /\ Granted(p)' = Granted(p)
      /\ \A m : Cardinality(At(m, p)) \in Nat
  BY <1>1, <1>2, GrantedType, EarlyFinite DEF Granted
<1>5. dequeueOptimisticCount[p] = dequeueOvercommit[p] + Granted(p) + Cardinality(At("recheck", p)) + Cardinality(At("giveup", p))
  BY DEF CountsOf
<1>6. dequeueOptimisticCount'[p] = dequeueOvercommit'[p] + Granted(p)' + Cardinality(At("recheck", p))' + Cardinality(At("giveup", p))'
  <2>1. Cardinality(At("recheck", p)) \in Nat /\ Cardinality(At("giveup", p)) \in Nat
    BY <1>3
  <2> QED
    BY <1>1, <1>2, <1>3, <1>5, <2>1
<1>7. PICK n \in 0 .. dequeueOptimisticCount[p] : GrantsFit(p, n)
  BY DEF CountsOf
<1>10. ASSUME NEW CONSTANT i \in Int
       PROVE  /\ Cardinality(Early(p, i))' <= Cardinality(Early(p, i))
              /\ Cardinality(Early(p, i)) \in Nat /\ Cardinality(Early(p, i))' \in Nat
  <2>1. Cardinality(Early(p, i))' <= Cardinality(Early(p, i)) /\ Cardinality(Early(p, i)) \in Nat
    BY <1>1, EarlyLess
  <2>2. (Cardinality(Early(p, i)) \in Nat)'
    <3>1. Early(p, i)' = Early(p, i) \ {c} /\ IsFiniteSet(Early(p, i))
      BY <1>1, EarlyFinite DEF Early
    <3> QED
      BY <3>1, FS_Subset, FS_CardinalityType
  <2> QED
    BY <2>1, <2>2
<1>11. Granted(p)' + Cardinality(Early(p, n))' <= tailIndex'[p]
  <2>1. Granted(p) + Cardinality(Early(p, n)) <= tailIndex[p]
    BY <1>7 DEF GrantsFit
  <2> QED
    BY <1>2, <1>3, <1>7, <1>10, <2>1
<1>12. ASSUME NEW CONSTANT d \in At("recheck", p)', loc'[d].x >= n
       PROVE  Granted(p)' + Cardinality(Early(p, loc[d].x + 1))' + loc'[d].over <= loc'[d].x + 1
  <2>1. d \in At("recheck", p) /\ loc'[d] = loc[d]
    BY <1>1
  <2>2. PICK y \in Nat, q \in Nat : y = loc[d].x /\ q = loc[d].over
    <3>1. d \in IConsumers /\ loc[d] \in Locals
      BY <2>1, SubThreads DEF ThreadTypes, At
    <3> QED
      BY <3>1 DEF Locals
  <2>4. Granted(p) + Cardinality(Early(p, y + 1)) + q <= y + 1
    BY <1>7, <1>12, <2>1, <2>2 DEF GrantsFit
  <2>5. /\ Cardinality(Early(p, y + 1))' <= Cardinality(Early(p, y + 1))
        /\ Cardinality(Early(p, y + 1)) \in Nat /\ Cardinality(Early(p, y + 1))' \in Nat
    BY <1>10, <2>2
  <2>6. Early(p, loc[d].x + 1)' = Early(p, y + 1)'
    BY <2>1, <2>2
  <2> QED
    BY <1>3, <2>1, <2>2, <2>4, <2>5, <2>6
<1>13. GrantsFit(p, n)'
  BY <1>11, <1>12 DEF GrantsFit
<1> QED
  BY <1>2, <1>6, <1>7, <1>13 DEF CountsOf

CountLabels == {"recheck", "giveup", "head"}

\* t takes part in no claim on p, before and after.
NotAt(t, p) == t \in IConsumers =>
  /\ ipc[t] \in CountLabels => loc[t].ptr # p
  /\ ipc'[t] \in CountLabels => loc'[t].ptr # p

\* What t remembers of the overcommit is old.
ReadsOld(t, p) ==
  t \in IConsumers /\ ipc'[t] \in {"check", "claim"} /\ loc'[t].ptr = p => loc'[t].over <= dequeueOvercommit[p]

SameCounts(p) ==
  /\ headIndex'[p] = headIndex[p] /\ dequeueOptimisticCount'[p] = dequeueOptimisticCount[p]
  /\ dequeueOvercommit'[p] = dequeueOvercommit[p] /\ tailIndex'[p] >= tailIndex[p]

LEMMA CountsQuiet ==
  ASSUME CountTypes, CountTypes', SameThreads, NEW CONSTANT t, Apart(t), NEW CONSTANT p \in IProducers, CountsOf(p),
         NotAt(t, p), ReadsOld(t, p), SameCounts(p)
  PROVE  CountsOf(p)'
<1>1. ASSUME NEW CONSTANT l \in CountLabels
      PROVE  At(l, p)' = At(l, p) /\ \A c \in At(l, p) : loc'[c] = loc[c]
  <2>1. t \notin At(l, p) /\ t \notin At(l, p)'
    BY DEF At, NotAt
  <2>2. /\ \A c \in At(l, p) : c # t => c \in At(l, p)' /\ loc'[c] = loc[c]
        /\ \A c \in At(l, p)' : c # t => c \in At(l, p)
    BY AtMoves
  <2> QED
    BY <2>1, <2>2
<1>2. SameCalls(p)
  BY <1>1 DEF SameCalls, CountLabels
<1>3. ASSUME NEW CONSTANT c \in At("check", p)' \cup At("claim", p)' PROVE loc'[c].over <= dequeueOvercommit[p]
  <2>1. CASE c = t
    BY <2>1 DEF At, ReadsOld
  <2>2. CASE c # t
    <3>1. c \in At("check", p) \cup At("claim", p) /\ loc'[c] = loc[c]
      BY <2>2, AtMoves
    <3> QED
      BY <3>1 DEF CountsOf
  <2> QED
    BY <2>1, <2>2
<1> QED
  BY <1>2, <1>3, CountsStay DEF SameCounts

\* A claim that ran ahead is corrected.
LEMMA CountsAfterGiveUp ==
  ASSUME CountTypes, CountTypes', ThreadTypes, SameThreads, NEW CONSTANT p \in IProducers, CountsOf(p), NEW CONSTANT c \in IConsumers,
         c \in At("giveup", p), Apart(c), ipc'[c] \notin CountLabels \cup {"check", "claim"},
         headIndex' = headIndex, dequeueOptimisticCount' = dequeueOptimisticCount, tailIndex' = tailIndex,
         dequeueOvercommit'[p] = dequeueOvercommit[p] + 1
  PROVE  CountsOf(p)'
<1>1. ipc[c] = "giveup" /\ ipc'[c] # "giveup"
  BY DEF At, CountLabels
<1>2. Cardinality(At("giveup", p))' = Cardinality(At("giveup", p)) - 1 /\ Cardinality(At("giveup", p)) \in Nat
  <2>1. Cardinality(At("giveup", p))' = Cardinality(At("giveup", p)) - 1
    BY <1>1, AtLeft
  <2>2. Cardinality(At("giveup", p)) \in Nat
    BY EarlyFinite
  <2> QED
    BY <2>1, <2>2
<1>3. /\ At("recheck", p)' = At("recheck", p) /\ \A d \in At("recheck", p) : loc'[d] = loc[d]
      /\ At("head", p)' = At("head", p)
  BY <1>1, AtSame DEF CountLabels
<1>4. Granted(p)' = Granted(p) /\ Granted(p) \in Nat /\ Cardinality(At("recheck", p)) \in Nat
  BY <1>3, GrantedType, EarlyFinite DEF Granted
<1>5. dequeueOptimisticCount[p] \in Nat /\ dequeueOvercommit[p] \in Nat /\ tailIndex[p] \in Nat
  BY DEF CountTypes, Counts
<1>6. dequeueOptimisticCount'[p] = dequeueOvercommit'[p] + Granted(p)' + Cardinality(At("recheck", p))' + Cardinality(At("giveup", p))'
  <2>1. dequeueOptimisticCount[p] = dequeueOvercommit[p] + Granted(p) + Cardinality(At("recheck", p)) + Cardinality(At("giveup", p))
    BY DEF CountsOf
  <2> QED
    BY <1>2, <1>3, <1>4, <1>5, <2>1
<1>7. PICK n \in 0 .. dequeueOptimisticCount[p] : GrantsFit(p, n)
  BY DEF CountsOf
<1>8. \A m : Early(p, m)' = {d \in At("recheck", p) : loc[d].x < m}
  BY <1>3 DEF Early
<1>9. GrantsFit(p, n)'
  <2>1. Granted(p)' + Cardinality(Early(p, n))' <= tailIndex'[p]
    <3>1. Early(p, n)' = Early(p, n)
      BY <1>8 DEF Early
    <3> QED
      BY <1>4, <1>7, <3>1 DEF GrantsFit
  <2>2. ASSUME NEW CONSTANT d \in At("recheck", p)', loc'[d].x >= n
        PROVE  Granted(p)' + Cardinality(Early(p, loc[d].x + 1))' + loc'[d].over <= loc'[d].x + 1
    <3>1. d \in At("recheck", p) /\ loc'[d] = loc[d]
      BY <1>3
    <3>2. Early(p, loc[d].x + 1)' = Early(p, loc[d].x + 1)
      BY <1>3, <3>1 DEF Early
    <3>3. Granted(p) + Cardinality(Early(p, loc[d].x + 1)) + loc[d].over <= loc[d].x + 1
      BY <1>7, <2>2, <3>1 DEF GrantsFit
    <3> QED
      BY <1>4, <3>1, <3>2, <3>3
  <2> QED
    BY <2>1, <2>2 DEF GrantsFit
<1>10. ASSUME NEW CONSTANT d \in At("check", p)' \cup At("claim", p)' PROVE loc'[d].over <= dequeueOvercommit'[p]
  <2>1. d # c
    BY DEF At
  <2>2. d \in At("check", p) \cup At("claim", p) /\ loc'[d] = loc[d]
    BY <2>1, AtMoves
  <2>3. loc[d].over <= dequeueOvercommit[p]
    BY <2>2 DEF CountsOf
  <2>4. loc[d].over \in Nat
    BY <2>2, SubThreads DEF At, ThreadTypes, Locals
  <2> QED
    BY <1>5, <2>2, <2>3, <2>4
<1>11. /\ \A d \in At("recheck", p) : loc[d].x < dequeueOptimisticCount[p]
       /\ \A d, e \in At("recheck", p) : loc[d].x = loc[e].x => d = e
  BY DEF CountsOf
<1> QED
  BY <1>3, <1>6, <1>7, <1>9, <1>10, <1>11 DEF CountsOf

\* What was granted is given.
LEMMA CountsAfterTake ==
  ASSUME CountTypes, CountTypes', ThreadTypes, SameThreads, NEW CONSTANT p \in IProducers, CountsOf(p), NEW CONSTANT c \in IConsumers,
         c \in At("head", p), Apart(c), ipc'[c] = "lookup",
         headIndex'[p] = headIndex[p] + 1, UNCHANGED <<dequeueOptimisticCount, dequeueOvercommit, tailIndex>>
  PROVE  CountsOf(p)' /\ headIndex[p] < tailIndex[p]
<1>1. ipc[c] = "head" /\ ipc'[c] = "lookup"
  BY DEF At
<1>2. Cardinality(At("head", p))' = Cardinality(At("head", p)) - 1 /\ Cardinality(At("head", p)) \in Nat
  <2>1. Cardinality(At("head", p))' = Cardinality(At("head", p)) - 1
    BY <1>1, AtLeft
  <2>2. Cardinality(At("head", p)) \in Nat
    BY EarlyFinite
  <2> QED
    BY <2>1, <2>2
<1>3. /\ At("recheck", p)' = At("recheck", p) /\ \A d \in At("recheck", p) : loc'[d] = loc[d]
      /\ At("giveup", p)' = At("giveup", p)
  BY <1>1, AtSame
<1>4. headIndex[p] \in Nat /\ tailIndex[p] \in Nat
  BY DEF CountTypes, Counts
<1>5. Granted(p)' = Granted(p) /\ Granted(p) \in Nat
  BY <1>2, <1>4, GrantedType DEF Granted
<1>6. dequeueOptimisticCount'[p] = dequeueOvercommit'[p] + Granted(p)' + Cardinality(At("recheck", p))' + Cardinality(At("giveup", p))'
  BY <1>3, <1>5 DEF CountsOf
<1>7. PICK n \in 0 .. dequeueOptimisticCount[p] : GrantsFit(p, n)
  BY DEF CountsOf
<1>9. GrantsFit(p, n)'
  <2>1. Granted(p)' + Cardinality(Early(p, n))' <= tailIndex'[p]
    <3>1. Early(p, n)' = Early(p, n)
      BY <1>3 DEF Early
    <3> QED
      BY <1>5, <1>7, <3>1 DEF GrantsFit
  <2>2. ASSUME NEW CONSTANT d \in At("recheck", p)', loc'[d].x >= n
        PROVE  Granted(p)' + Cardinality(Early(p, loc[d].x + 1))' + loc'[d].over <= loc'[d].x + 1
    <3>1. d \in At("recheck", p) /\ loc'[d] = loc[d]
      BY <1>3
    <3>2. Early(p, loc[d].x + 1)' = Early(p, loc[d].x + 1)
      BY <1>3, <3>1 DEF Early
    <3>3. Granted(p) + Cardinality(Early(p, loc[d].x + 1)) + loc[d].over <= loc[d].x + 1
      BY <1>7, <2>2, <3>1 DEF GrantsFit
    <3> QED
      BY <1>5, <3>1, <3>2, <3>3
  <2> QED
    BY <2>1, <2>2 DEF GrantsFit
<1>10. ASSUME NEW CONSTANT d \in At("check", p)' \cup At("claim", p)' PROVE loc'[d].over <= dequeueOvercommit'[p]
  <2>1. d # c
    BY DEF At
  <2>2. d \in At("check", p) \cup At("claim", p) /\ loc'[d] = loc[d]
    BY <2>1, AtMoves
  <2> QED
    BY <2>2 DEF CountsOf
<1>11. /\ \A d \in At("recheck", p) : loc[d].x < dequeueOptimisticCount[p]
       /\ \A d, e \in At("recheck", p) : loc[d].x = loc[e].x => d = e
  BY DEF CountsOf
<1>12. headIndex[p] < tailIndex[p]
  <2>1. Cardinality(At("head", p)) > 0
    <3>1. IsFiniteSet(At("head", p))
      BY AtMoves
    <3> QED
      BY <3>1, TakenOne
  <2>2. Granted(p) + Cardinality(Early(p, n)) <= tailIndex[p] /\ Cardinality(Early(p, n)) \in Nat
    BY <1>7, EarlyFinite DEF GrantsFit
  <2> QED
    BY <1>2, <1>4, <1>5, <2>1, <2>2 DEF Granted
<1> QED
  BY <1>3, <1>6, <1>7, <1>9, <1>10, <1>11, <1>12 DEF CountsOf

\* No more is given than was enqueued.
LEMMA HeadIsBehind ==
  ASSUME CountTypes, CountInv, NEW CONSTANT p \in IProducers
  PROVE  headIndex[p] <= tailIndex[p] /\ headIndex[p] \in Nat /\ tailIndex[p] \in Nat
<1>1. Granted(p) \in Nat /\ Granted(p) >= headIndex[p] /\ headIndex[p] \in Nat /\ tailIndex[p] \in Nat
  BY GrantedType DEF CountTypes, Counts
<1>2. PICK n : GrantsFit(p, n)
  BY DEF CountInv, GrantsKept
<1>3. Granted(p) + Cardinality(Early(p, n)) <= tailIndex[p] /\ Cardinality(Early(p, n)) \in Nat
  BY <1>2, EarlyFinite DEF GrantsFit
<1> QED
  BY <1>1, <1>3

(* Where each step of a dequeue goes. *)
LEMMA LoopGoes ==
  ASSUME CountTypes, ThreadTypes, load' = load, NEW CONSTANT c \in IConsumers, NextProducer(c)
  PROVE  \E l \in {"loadtail", "idle"} : \E r : Goes(c, l, r)
<1>1. c \in IThreads /\ c \notin IProducers
  BY SubThreads, ThreadsAre DEF CountTypes
<1>2. ASSUME NEW p \in Others(c),
             loc' = Set(loc, c, [NoCall EXCEPT !.best = loc[c].best, !.ptr = p, !.rest = TRUE]), IGo(c, "loadtail")
      PROVE  \E r : Goes(c, "loadtail", r)
  <2>1. PICK r : r = [NoCall EXCEPT !.best = loc[c].best, !.ptr = p, !.rest = TRUE]
    OBVIOUS
  <2>2. loc[c].best \in Nat \cup {None} /\ p \in IProducers /\ p \in Nat
    <3>1. loc[c] \in Locals
      BY <1>1 DEF ThreadTypes
    <3> QED
      BY <3>1, ThreadsAre DEF Others, Locals, CountTypes
  <2>3. r \in Locals /\ r.ptr = p /\ r.seen = 0 /\ r.size = 0
    BY <2>1, <2>2 DEF NoCall, Locals
  <2>4. loc' = [loc EXCEPT ![c] = r] /\ ipc' = [ipc EXCEPT ![c] = "loadtail"]
    BY <1>2, <2>1 DEF Set, IGo
  <2>5. "loadtail" \in PopLabels
    BY DEF PopLabels
  <2>6. Goes(c, "loadtail", r)
    BY <1>1, <2>2, <2>3, <2>4, <2>5 DEF Goes
  <2> QED
    BY <2>6
<1>3. ASSUME IReturn(c) PROVE \E r : Goes(c, "idle", r)
  BY <1>1, <1>3, ReturnGoes
<1> QED
  BY <1>2, <1>3 DEF NextProducer

\* A step of a consumer that has no element before or after, and what it may do.
Looks(c) ==
  \/ TryDequeue(c) \/ SizeTail(c) \/ SizeHead(c) \/ LoadTail(c) \/ LoadOvercommit(c)
  \/ LooksEmpty(c) \/ LooksFull(c) \/ Claim(c) \/ Recheck(c) \/ GiveUp(c)

SizeLabels == {"idle", "sizetail", "sizehead", "loadtail", "loadover"}

LEMMA TryDequeueGoes ==
  ASSUME CountTypes, ThreadTypes, load' = load, NEW CONSTANT c \in IConsumers, TryDequeue(c)
  PROVE  \E r : Goes(c, "sizehead", r)
<1>1. c \in IThreads /\ c \notin IProducers
  BY SubThreads, ThreadsAre DEF CountTypes
<1>2. tailIndex[1] \in Nat /\ 1 \in IProducers
  BY ThreadsAre DEF CountTypes, Counts
<1>3. PICK r : r = [NoCall EXCEPT !.ptr = 1, !.x = tailIndex[1]]
  OBVIOUS
<1>4. r \in Locals /\ r.ptr = 1 /\ r.seen = 0 /\ r.size = 0
  BY <1>2, <1>3 DEF NoCall, Locals
<1>5. "sizehead" \in PopLabels
  BY DEF PopLabels
<1>6. loc' = [loc EXCEPT ![c] = r] /\ ipc' = [ipc EXCEPT ![c] = "sizehead"]
  BY <1>3 DEF TryDequeue, IGo, Set
<1>7. Goes(c, "sizehead", r)
  BY <1>1, <1>2, <1>4, <1>5, <1>6 DEF Goes
<1> QED
  BY <1>7

LEMMA SizeTailGoes ==
  ASSUME CountTypes, ThreadTypes, load' = load, NEW CONSTANT c \in IConsumers, SizeTail(c)
  PROVE  \E r : Goes(c, "sizehead", r)
<1>1. c \in IThreads /\ c \notin IProducers /\ ipc[c] = "sizetail"
  BY SubThreads, ThreadsAre DEF CountTypes, SizeTail
<1>2. PICK v \in Nat : v = tailIndex[loc[c].ptr]
  BY <1>1 DEF CountTypes, Counts, ThreadTypes
<1>3. Know(c, "x", v) /\ IGo(c, "sizehead") /\ "sizehead" \in PopLabels
  BY <1>2 DEF SizeTail, PopLabels
<1>4. PICK r : r = [loc[c] EXCEPT !["x"] = v]
  OBVIOUS
<1>5. Goes(c, "sizehead", r)
  BY <1>1, <1>3, <1>4, KnowGoes
<1> QED
  BY <1>5

LEMMA LoadTailGoes ==
  ASSUME CountTypes, ThreadTypes, load' = load, NEW CONSTANT c \in IConsumers, LoadTail(c)
  PROVE  \E r : Goes(c, "loadover", r)
<1>1. c \in IThreads /\ c \notin IProducers /\ ipc[c] = "loadtail"
  BY SubThreads, ThreadsAre DEF CountTypes, LoadTail
<1>2. PICK v \in Nat : v = tailIndex[loc[c].ptr]
  BY <1>1 DEF CountTypes, Counts, ThreadTypes
<1>3. Know(c, "x", v) /\ IGo(c, "loadover") /\ "loadover" \in PopLabels
  BY <1>2 DEF LoadTail, PopLabels
<1>4. PICK r : r = [loc[c] EXCEPT !["x"] = v]
  OBVIOUS
<1>5. Goes(c, "loadover", r)
  BY <1>1, <1>3, <1>4, KnowGoes
<1> QED
  BY <1>5

LEMMA SizeHeadGoes ==
  ASSUME CountTypes, ThreadTypes, load' = load, NEW CONSTANT c \in IConsumers, SizeHead(c)
  PROVE  \E l \in SizeLabels : \E r : Goes(c, l, r)
<1>1. c \in IThreads /\ c \notin IProducers /\ ipc[c] = "sizehead"
  BY SubThreads, ThreadsAre DEF CountTypes, SizeHead
<1>2. PICK k \in Locals : /\ k = loc[c] /\ k.ptr \in IProducers
                          /\ k.seen > 0 \/ k.size > 0 => k.best \in IProducers
  BY <1>1 DEF ThreadTypes
<1>3. PICK z \in Int : z = k.x - headIndex[k.ptr]
  <2>1. headIndex[k.ptr] \in Nat /\ k.x \in Nat
    BY <1>2 DEF CountTypes, Counts, Locals
  <2> QED
    BY <2>1
<1>14. PICK v \in Nat : v = IF z > 0 THEN k.seen + 1 ELSE k.seen
  <2>1. k.seen \in Nat
    BY <1>2 DEF Locals
  <2> QED
    BY <2>1
<1>4. PICK s : s = [k EXCEPT !.x = 0, !.seen = v]
  OBVIOUS
<1>5. PICK l : l = IF z > k.size THEN [s EXCEPT !.best = s.ptr, !.size = z] ELSE s
  OBVIOUS
<1>6. l = Scored(c)
  <2>1. s = [loc[c] EXCEPT !.x = 0, !.seen = IF z > 0 THEN @ + 1 ELSE @]
    BY <1>2, <1>4, <1>14
  <2> QED
    BY <1>2, <1>3, <1>5, <2>1 DEF Scored
<1>7. /\ s \in Locals /\ s.ptr = k.ptr /\ s.size = k.size /\ s.best = k.best /\ k.size \in Nat
      /\ s.seen = v
  BY <1>2, <1>4 DEF Locals
<1>8. k.ptr \in Nat /\ IProducers = 1 .. NProducers /\ NProducers \in Nat
  BY <1>2, ThreadsAre DEF IProducers, CountTypes
<1>9. l \in Locals /\ l.ptr = k.ptr /\ (l.seen > 0 \/ l.size > 0 => l.best \in IProducers)
  <2>1. CASE z > k.size
    <3>3. l = [s EXCEPT !.best = s.ptr, !.size = z] /\ z \in Nat /\ s.ptr \in Nat
      BY <1>3, <1>5, <1>7, <1>8, <2>1
    <3>1. l \in Locals /\ l.best = k.ptr /\ l.ptr = k.ptr
      BY <1>7, <3>3 DEF Locals
    <3> QED
      BY <1>2, <3>1
  <2>2. CASE ~(z > k.size)
    <3>1. l = s
      BY <1>5, <2>2
    <3>2. l.seen > 0 \/ l.size > 0 => k.seen > 0 \/ k.size > 0
      BY <1>3, <1>7, <1>14, <2>2, <3>1
    <3> QED
      BY <1>2, <1>7, <3>1, <3>2
  <2> QED
    BY <2>1, <2>2
<1>10. /\ "sizetail" \in PopLabels \cap SizeLabels /\ "loadtail" \in PopLabels \cap SizeLabels
       /\ "idle" \in PopLabels \cap SizeLabels
  BY DEF PopLabels, SizeLabels
<1>11. CASE l.seen < 3 /\ l.ptr < NProducers /\ loc' = Set(loc, c, [l EXCEPT !.ptr = @ + 1]) /\ IGo(c, "sizetail")
  <2>5. PICK w \in Nat : w = l.ptr + 1
    BY <1>8, <1>9
  <2>1. PICK r : r = [l EXCEPT !.ptr = w]
    OBVIOUS
  <2>2. /\ r \in Locals /\ r.ptr = k.ptr + 1 /\ r.best = l.best /\ r.seen = l.seen /\ r.size = l.size
    BY <1>9, <2>1, <2>5 DEF Locals
  <2>3. r.ptr \in IProducers
    BY <1>8, <1>9, <1>11, <2>2
  <2>6. loc' = [loc EXCEPT ![c] = r] /\ ipc' = [ipc EXCEPT ![c] = "sizetail"]
    BY <1>11, <2>1, <2>5 DEF Set, IGo
  <2>4. Goes(c, "sizetail", r)
    BY <1>1, <1>9, <1>10, <2>2, <2>3, <2>6 DEF Goes
  <2> QED
    BY <1>10, <2>4
<1>12. CASE l.seen > 0 /\ loc' = Set(loc, c, [NoCall EXCEPT !.best = l.best, !.ptr = l.best]) /\ IGo(c, "loadtail")
  <2>1. PICK r : r = [NoCall EXCEPT !.best = l.best, !.ptr = l.best]
    OBVIOUS
  <2>2. l.best \in IProducers /\ l.best \in Nat
    BY <1>8, <1>9, <1>12
  <2>3. r \in Locals /\ r.ptr = l.best /\ r.seen = 0 /\ r.size = 0
    BY <2>1, <2>2 DEF NoCall, Locals
  <2>4. Goes(c, "loadtail", r)
    BY <1>1, <1>10, <1>12, <2>1, <2>2, <2>3 DEF Goes, Set, IGo
  <2> QED
    BY <1>10, <2>4
<1>13. CASE IReturn(c)
  BY <1>1, <1>10, <1>13, ReturnGoes
<1> QED
  BY <1>6, <1>11, <1>12, <1>13 DEF SizeHead

LEMMA LoadOvercommitGoes ==
  ASSUME CountTypes, ThreadTypes, load' = load, NEW CONSTANT c \in IConsumers, LoadOvercommit(c)
  PROVE  \E r : Goes(c, "check", r) /\ r.ptr = loc[c].ptr /\ r.over = dequeueOvercommit[loc[c].ptr]
<1>1. c \in IThreads /\ c \notin IProducers /\ ipc[c] = "loadover"
  BY SubThreads, ThreadsAre DEF CountTypes, LoadOvercommit
<1>2. PICK v \in Nat : v = dequeueOvercommit[loc[c].ptr]
  BY <1>1 DEF CountTypes, Counts, ThreadTypes
<1>3. Know(c, "over", v) /\ IGo(c, "check") /\ "check" \in PopLabels
  BY <1>2 DEF LoadOvercommit, PopLabels
<1>6. PICK k \in Locals : k = loc[c]
  BY <1>1 DEF ThreadTypes
<1>4. PICK r : r = [loc[c] EXCEPT !["over"] = v]
  OBVIOUS
<1>5. Goes(c, "check", r) /\ r = [k EXCEPT !.over = v]
  BY <1>1, <1>3, <1>4, <1>6, KnowGoes
<1>7. r.ptr = k.ptr /\ r.over = v
  BY <1>5, <1>6 DEF Locals
<1> QED
  BY <1>2, <1>5, <1>6, <1>7

LEMMA LooksFullGoes ==
  ASSUME CountTypes, ThreadTypes, load' = load, NEW CONSTANT c \in IConsumers, LooksFull(c)
  PROVE  \E r : Goes(c, "claim", r) /\ r.ptr = loc[c].ptr /\ r.over = loc[c].over
<1>1. c \in IThreads /\ c \notin IProducers /\ ipc[c] = "check"
  BY SubThreads, ThreadsAre DEF CountTypes, LooksFull
<1>3. Know(c, "x", 0) /\ IGo(c, "claim") /\ "claim" \in PopLabels
  BY DEF LooksFull, PopLabels
<1>6. PICK k \in Locals : k = loc[c]
  BY <1>1 DEF ThreadTypes
<1>4. PICK r : r = [loc[c] EXCEPT !["x"] = 0]
  OBVIOUS
<1>5. Goes(c, "claim", r) /\ r = [k EXCEPT !.x = 0]
  BY <1>1, <1>3, <1>4, <1>6, KnowGoes
<1>7. r.ptr = k.ptr /\ r.over = k.over
  BY <1>5, <1>6 DEF Locals
<1> QED
  BY <1>5, <1>6, <1>7

LEMMA ClaimGoes ==
  ASSUME CountTypes, ThreadTypes, load' = load, NEW CONSTANT c \in IConsumers, Claim(c)
  PROVE  \E r : /\ Goes(c, "recheck", r) /\ r.ptr = loc[c].ptr /\ r.over = loc[c].over
                /\ r.x = dequeueOptimisticCount[loc[c].ptr]
<1>1. c \in IThreads /\ c \notin IProducers /\ ipc[c] = "claim"
  BY SubThreads, ThreadsAre DEF CountTypes, Claim
<1>2. PICK v \in Nat : v = dequeueOptimisticCount[loc[c].ptr]
  BY <1>1 DEF CountTypes, Counts, ThreadTypes
<1>3. Know(c, "x", v) /\ IGo(c, "recheck") /\ "recheck" \in PopLabels
  BY <1>2 DEF Claim, PopLabels
<1>6. PICK k \in Locals : k = loc[c]
  BY <1>1 DEF ThreadTypes
<1>4. PICK r : r = [loc[c] EXCEPT !["x"] = v]
  OBVIOUS
<1>5. Goes(c, "recheck", r) /\ r = [k EXCEPT !.x = v]
  BY <1>1, <1>3, <1>4, <1>6, KnowGoes
<1>7. r.ptr = k.ptr /\ r.x = v /\ r.over = k.over
  BY <1>5, <1>6 DEF Locals
<1> QED
  BY <1>2, <1>5, <1>6, <1>7

LEMMA RecheckGoes ==
  ASSUME CountTypes, ThreadTypes, load' = load, NEW CONSTANT c \in IConsumers, Recheck(c)
  PROVE  \E l \in {"head", "giveup"} : \E r : 
           /\ Goes(c, l, r) /\ r.ptr = loc[c].ptr
           /\ l = "head" => loc[c].x - loc[c].over < tailIndex[loc[c].ptr]
<1>1. c \in IThreads /\ c \notin IProducers /\ ipc[c] = "recheck"
  BY SubThreads, ThreadsAre DEF CountTypes, Recheck
<1>2. PICK k \in Locals : /\ k = loc[c] /\ k.ptr \in IProducers
                          /\ k.seen > 0 \/ k.size > 0 => k.best \in IProducers
  BY <1>1 DEF ThreadTypes
<1>3. PICK l \in {"head", "giveup"} :
        /\ l = IF loc[c].x - loc[c].over < tailIndex[loc[c].ptr] THEN "head" ELSE "giveup"
        /\ IGo(c, l)
  BY DEF Recheck
<1>4. PICK r : r = [k EXCEPT !.x = 0, !.over = 0]
  OBVIOUS
<1>5. r \in Locals /\ r.ptr = k.ptr /\ r.best = k.best /\ r.seen = k.seen /\ r.size = k.size
  BY <1>4 DEF Locals
<1>6. ipc' = [ipc EXCEPT ![c] = l] /\ l \in PopLabels
  BY <1>3 DEF IGo, Set, PopLabels
<1>7. loc' = [loc EXCEPT ![c] = r]
  BY <1>1, <1>2, <1>4 DEF Recheck, ThreadTypes
<1>8. Goes(c, l, r)
  BY <1>1, <1>2, <1>5, <1>6, <1>7 DEF Goes
<1> QED
  BY <1>2, <1>3, <1>5, <1>8

LEMMA TakeHeadGoes ==
  ASSUME CountTypes, ThreadTypes, load' = load, NEW CONSTANT c \in IConsumers, TakeHead(c)
  PROVE  \E r : /\ Goes(c, "lookup", r) /\ r = [loc[c] EXCEPT !.x = headIndex[loc[c].ptr]]
                /\ r.ptr = loc[c].ptr /\ r.x = headIndex[loc[c].ptr]
<1>1. c \in IThreads /\ c \notin IProducers /\ ipc[c] = "head"
  BY SubThreads, ThreadsAre DEF CountTypes, TakeHead
<1>2. PICK v \in Nat : v = headIndex[loc[c].ptr]
  BY <1>1 DEF CountTypes, Counts, ThreadTypes
<1>3. Know(c, "x", v) /\ IGo(c, "lookup") /\ "lookup" \in PopLabels
  BY <1>2 DEF TakeHead, PopLabels, Busy, HoldLabels
<1>6. PICK k \in Locals : k = loc[c]
  BY <1>1 DEF ThreadTypes
<1>4. PICK r : r = [loc[c] EXCEPT !["x"] = v]
  OBVIOUS
<1>5. Goes(c, "lookup", r) /\ r = [k EXCEPT !.x = v]
  BY <1>1, <1>3, <1>4, <1>6, KnowGoes
<1>7. r.ptr = k.ptr /\ r.x = v
  BY <1>5, <1>6 DEF Locals
<1> QED
  BY <1>2, <1>5, <1>6, <1>7

\* A claim, seen from the producers it is not about.
LEMMA CountsElsewhere ==
  ASSUME CountTypes, CountTypes', ThreadTypes, NEW CONSTANT t \in IThreads, NEW CONSTANT l, NEW CONSTANT r, Goes(t, l, r),
         NEW CONSTANT p \in IProducers, CountsOf(p), SameCounts(p),
         t \in IConsumers => /\ ipc[t] \in CountLabels => loc[t].ptr # p
                             /\ l \in CountLabels => r.ptr # p
                             /\ l \in {"check", "claim"} /\ r.ptr = p => r.over <= dequeueOvercommit[p]
  PROVE  CountsOf(p)'
<1>1. Apart(t) /\ ipc'[t] = l /\ loc'[t] = r /\ SameThreads
  BY Gone DEF SameThreads
<1>2. NotAt(t, p) /\ ReadsOld(t, p)
  BY <1>1 DEF NotAt, ReadsOld
<1> QED
  BY <1>1, <1>2, CountsQuiet

LEMMA CountTypesStay ==
  ASSUME CountTypes, load' = load, UNCHANGED counters
  PROVE  CountTypes' /\ \A p \in IProducers : SameCounts(p)
<1>1. IProducers' = IProducers
  BY DEF IProducers, NProducers
<1>2. \A p \in IProducers : tailIndex[p] \in Nat
  BY DEF CountTypes, Counts
<1> QED
  BY <1>1, <1>2 DEF CountTypes, Counts, counters, SameCounts

\* A step that changes no count and enters no claim.
LEMMA CountsUntouched ==
  ASSUME CountTypes, ThreadTypes, CountInv, UNCHANGED counters,
         NEW CONSTANT t \in IThreads, NEW CONSTANT l, NEW CONSTANT r, Goes(t, l, r),
         t \in IConsumers => ipc[t] \notin CountLabels /\ l \notin CountLabels \cup {"check", "claim"}
  PROVE  CountTypes' /\ CountInv'
<1>1. load' = load /\ IProducers' = IProducers
  BY Gone DEF Goes
<1>2. CountTypes' /\ \A p \in IProducers : SameCounts(p)
  BY <1>1, CountTypesStay
<1>3. ASSUME NEW CONSTANT p \in IProducers PROVE CountsOf(p)'
  <2>1. CountsOf(p) /\ SameCounts(p)
    BY <1>2, CountInvIs
  <2> QED
    BY <1>2, <2>1, CountsElsewhere
<1>4. \A p \in IProducers' : CountsOf(p)'
  BY <1>1, <1>3
<1> QED
  BY <1>2, <1>4, CountInvNext

\* A consumer's step changes the counts of one producer; what holds of that one.
LEMMA CountsJoin ==
  ASSUME CountTypes, CountTypes', ThreadTypes, CountInv, NEW CONSTANT t \in IThreads, NEW CONSTANT l, NEW CONSTANT r,
         Goes(t, l, r), NEW CONSTANT q \in IProducers, CountsOf(q)', loc[t].ptr = q, l \in CountLabels => r.ptr = q,
         l \notin {"check", "claim"}, \A p \in IProducers : p # q => SameCounts(p)
  PROVE  CountInv'
<1>1. IProducers' = IProducers
  BY Gone
<1>2. ASSUME NEW CONSTANT p \in IProducers PROVE CountsOf(p)'
  <2>1. CASE p = q
    BY <2>1
  <2>2. CASE p # q
    <3>1. CountsOf(p) /\ SameCounts(p)
      BY <2>2, CountInvIs
    <3> QED
      BY <2>2, <3>1, CountsElsewhere
  <2> QED
    BY <2>1, <2>2
<1> QED
  BY <1>1, <1>2, CountInvNext

\* The producer of a call and the counts of it.
LEMMA CallCounts ==
  ASSUME CountTypes, ThreadTypes, CountInv, NEW CONSTANT c \in IConsumers, ipc[c] # "idle"
  PROVE  /\ loc[c].ptr \in IProducers /\ CountsOf(loc[c].ptr) /\ c \in IThreads /\ c \notin IProducers
         /\ tailIndex[loc[c].ptr] \in Nat /\ headIndex[loc[c].ptr] \in Nat
         /\ dequeueOptimisticCount[loc[c].ptr] \in Nat /\ dequeueOvercommit[loc[c].ptr] \in Nat
<1>1. loc[c].ptr \in IProducers
  BY DEF ThreadTypes
<1> QED
  BY <1>1, CountInvIs, ThreadsAre, SubThreads DEF CountTypes, Counts

LEMMA LooksQuiet ==
  ASSUME CountTypes, ThreadTypes, CountInv, load' = load, NEW CONSTANT c \in IConsumers,
         TryDequeue(c) \/ SizeTail(c) \/ SizeHead(c) \/ LoadTail(c) \/ LooksEmpty(c)
  PROVE  /\ CountTypes' /\ CountInv'
         /\ \E l \in SizeLabels : \E r : Goes(c, l, r)
<1>1. PICK l \in SizeLabels : \E r : Goes(c, l, r)
  <2>1. "sizehead" \in SizeLabels /\ "loadover" \in SizeLabels /\ "loadtail" \in SizeLabels /\ "idle" \in SizeLabels
    BY DEF SizeLabels
  <2>2. CASE TryDequeue(c)
    BY <2>1, <2>2, TryDequeueGoes
  <2>3. CASE SizeTail(c)
    BY <2>1, <2>3, SizeTailGoes
  <2>4. CASE SizeHead(c)
    BY <2>4, SizeHeadGoes
  <2>5. CASE LoadTail(c)
    BY <2>1, <2>5, LoadTailGoes
  <2>6. CASE LooksEmpty(c)
    <3>1. NextProducer(c)
      BY <2>6 DEF LooksEmpty
    <3> QED
      BY <2>1, <3>1, LoopGoes
  <2> QED
    BY <2>2, <2>3, <2>4, <2>5, <2>6
<1>2. PICK r : Goes(c, l, r)
  BY <1>1
<1>3. UNCHANGED counters /\ ipc[c] \notin CountLabels
  BY DEF TryDequeue, SizeTail, SizeHead, LoadTail, LooksEmpty, CountLabels
<1>4. l \notin CountLabels \cup {"check", "claim"}
  BY <1>1 DEF SizeLabels, CountLabels
<1>5. CountTypes' /\ CountInv'
  BY <1>2, <1>3, <1>4, CountsUntouched, SubThreads
<1> QED
  BY <1>2, <1>5

LEMMA LoadOvercommitCounts ==
  ASSUME CountTypes, ThreadTypes, CountInv, load' = load, NEW CONSTANT c \in IConsumers, LoadOvercommit(c)
  PROVE  CountTypes' /\ CountInv'
<1>1. PICK r : Goes(c, "check", r) /\ r.ptr = loc[c].ptr /\ r.over = dequeueOvercommit[loc[c].ptr]
  BY LoadOvercommitGoes
<1>2. UNCHANGED counters /\ ipc[c] = "loadover" /\ c \in IThreads
  BY SubThreads DEF LoadOvercommit
<1>3. CountTypes' /\ \A p \in IProducers : SameCounts(p)
  BY <1>2, CountTypesStay
<1>4. IProducers' = IProducers
  BY <1>1, <1>2, Gone
<1>5. ASSUME NEW CONSTANT p \in IProducers PROVE CountsOf(p)'
  <2>1. CountsOf(p) /\ SameCounts(p)
    BY <1>3, CountInvIs
  <2>2. r.ptr = p => r.over <= dequeueOvercommit[p]
    BY <1>1 DEF CountTypes, Counts
  <2> QED
    BY <1>1, <1>2, <1>3, <2>1, <2>2, CountsElsewhere DEF CountLabels
<1> QED
  BY <1>3, <1>4, <1>5, CountInvNext

LEMMA LooksFullCounts ==
  ASSUME CountTypes, ThreadTypes, CountInv, load' = load, NEW CONSTANT c \in IConsumers, LooksFull(c)
  PROVE  CountTypes' /\ CountInv'
<1>1. PICK r : Goes(c, "claim", r) /\ r.ptr = loc[c].ptr /\ r.over = loc[c].over
  BY LooksFullGoes
<1>2. UNCHANGED counters /\ ipc[c] = "check" /\ c \in IThreads
  BY SubThreads DEF LooksFull
<1>3. CountTypes' /\ \A p \in IProducers : SameCounts(p)
  BY <1>2, CountTypesStay
<1>4. IProducers' = IProducers
  BY <1>1, <1>2, Gone
<1>5. ASSUME NEW CONSTANT p \in IProducers PROVE CountsOf(p)'
  <2>1. CountsOf(p) /\ SameCounts(p)
    BY <1>3, CountInvIs
  <2>2. ASSUME r.ptr = p PROVE r.over <= dequeueOvercommit[p]
    <3>1. c \in At("check", p)
      BY <1>1, <1>2, <2>2 DEF At
    <3> QED
      BY <1>1, <2>1, <3>1 DEF CountsOf
  <2> QED
    BY <1>1, <1>2, <1>3, <2>1, <2>2, CountsElsewhere DEF CountLabels
<1> QED
  BY <1>3, <1>4, <1>5, CountInvNext

\* One count of one producer.
LEMMA CountChanged ==
  ASSUME NEW CONSTANT f, NEW CONSTANT g, NEW CONSTANT S, NEW CONSTANT q \in S, f \in [S -> Nat], g = [f EXCEPT ![q] = @ + 1]
  PROVE  g \in [S -> Nat] /\ g[q] = f[q] + 1 /\ \A p \in S : p # q => g[p] = f[p]
  OBVIOUS

LEMMA ClaimCounts ==
  ASSUME CountTypes, ThreadTypes, CountInv, load' = load, NEW CONSTANT c \in IConsumers, Claim(c)
  PROVE  CountTypes' /\ CountInv'
<1>1. PICK r : /\ Goes(c, "recheck", r) /\ r.ptr = loc[c].ptr /\ r.over = loc[c].over
               /\ r.x = dequeueOptimisticCount[loc[c].ptr]
  BY ClaimGoes
<1>2. /\ ipc[c] = "claim" /\ UNCHANGED <<tailIndex, headIndex, dequeueOvercommit>>
      /\ dequeueOptimisticCount' = [dequeueOptimisticCount EXCEPT ![loc[c].ptr] = @ + 1]
  BY DEF Claim
<1>3. PICK q \in IProducers : q = loc[c].ptr /\ CountsOf(q) /\ c \in IThreads /\ c \notin IProducers
  BY <1>2, CallCounts
<1>4. /\ dequeueOptimisticCount' \in [IProducers -> Nat]
      /\ dequeueOptimisticCount'[q] = dequeueOptimisticCount[q] + 1
      /\ \A p \in IProducers : p # q => dequeueOptimisticCount'[p] = dequeueOptimisticCount[p]
  <2>1. dequeueOptimisticCount \in [IProducers -> Nat] /\ dequeueOptimisticCount' = [dequeueOptimisticCount EXCEPT ![q] = @ + 1]
    BY <1>2, <1>3 DEF CountTypes, Counts
  <2> QED
    BY <2>1, CountChanged
<1>5. IProducers' = IProducers /\ Apart(c) /\ ipc'[c] = "recheck" /\ loc'[c] = r /\ SameThreads
  BY <1>1, <1>3, Gone DEF SameThreads
<1>6. CountTypes'
  BY <1>2, <1>4, <1>5 DEF CountTypes, Counts
<1>7. r.over \in Nat /\ \A d \in IConsumers : loc[d].x \in Nat
  <2>1. r \in Locals /\ \A d \in IConsumers : loc[d] \in Locals
    BY <1>1, SubThreads DEF Goes, ThreadTypes
  <2> QED
    BY <2>1 DEF Locals
<1>8. c \in At("claim", q)
  BY <1>2, <1>3 DEF At
<1>9. /\ headIndex'[q] = headIndex[q] /\ dequeueOvercommit'[q] = dequeueOvercommit[q] /\ tailIndex'[q] = tailIndex[q]
      /\ r.ptr = q /\ r.x = dequeueOptimisticCount[q]
  BY <1>1, <1>2, <1>3
<1>10. CountsOf(q)'
  BY <1>1, <1>3, <1>4, <1>5, <1>6, <1>7, <1>8, <1>9, CountsAfterClaim
<1>11. \A p \in IProducers : p # q => SameCounts(p)
  BY <1>2, <1>4 DEF SameCounts, CountTypes, Counts
<1>12. CountInv'
  BY <1>1, <1>3, <1>6, <1>9, <1>10, <1>11, CountsJoin
<1> QED
  BY <1>6, <1>12

LEMMA RecheckCounts ==
  ASSUME CountTypes, ThreadTypes, CountInv, load' = load, NEW CONSTANT c \in IConsumers, Recheck(c)
  PROVE  CountTypes' /\ CountInv'
<1>1. PICK l \in {"head", "giveup"} : \E r : 
           /\ Goes(c, l, r) /\ r.ptr = loc[c].ptr
           /\ l = "head" => loc[c].x - loc[c].over < tailIndex[loc[c].ptr]
  BY RecheckGoes
<1>2. PICK r : /\ Goes(c, l, r) /\ r.ptr = loc[c].ptr
               /\ l = "head" => loc[c].x - loc[c].over < tailIndex[loc[c].ptr]
  BY <1>1
<1>3. ipc[c] = "recheck" /\ UNCHANGED <<tailIndex, headIndex, dequeueOvercommit, dequeueOptimisticCount>> /\ UNCHANGED counters
  BY DEF Recheck, counters
<1>4. PICK q \in IProducers : q = loc[c].ptr /\ CountsOf(q) /\ c \in IThreads /\ c \notin IProducers
  BY <1>3, CallCounts
<1>5. CountTypes' /\ \A p \in IProducers : SameCounts(p)
  BY <1>3, CountTypesStay
<1>6. Apart(c) /\ ipc'[c] = l /\ loc'[c] = r
  BY <1>2, <1>4, Gone
<1>7. Decides(c, q, l)
  BY <1>2, <1>3, <1>4, <1>6 DEF Decides, At
<1>8. CountsOf(q)'
  <2>1. CASE l = "head"
    BY <1>2, <1>4, <1>7, <2>1, CountsAfterGrant
  <2>2. CASE l = "giveup"
    BY <1>4, <1>7, <2>2, CountsAfterRefusal
  <2> QED
    BY <1>1, <2>1, <2>2
<1>9. l \notin {"check", "claim"} /\ r.ptr = q
  BY <1>1, <1>2, <1>4
<1>10. CountInv'
  BY <1>2, <1>4, <1>5, <1>8, <1>9, CountsJoin
<1> QED
  BY <1>5, <1>10

LEMMA GiveUpCounts ==
  ASSUME CountTypes, ThreadTypes, CountInv, load' = load, NEW CONSTANT c \in IConsumers, GiveUp(c)
  PROVE  CountTypes' /\ CountInv'
<1>1. PICK l \in {"loadtail", "idle"} : \E r : Goes(c, l, r)
  <2>1. NextProducer(c)
    BY DEF GiveUp
  <2> QED
    BY <2>1, LoopGoes
<1>2. PICK r : Goes(c, l, r)
  BY <1>1
<1>3. /\ ipc[c] = "giveup" /\ UNCHANGED <<tailIndex, headIndex, dequeueOptimisticCount>>
      /\ dequeueOvercommit' = [dequeueOvercommit EXCEPT ![loc[c].ptr] = @ + 1]
  BY DEF GiveUp
<1>4. PICK q \in IProducers : q = loc[c].ptr /\ CountsOf(q) /\ c \in IThreads /\ c \notin IProducers
  BY <1>3, CallCounts
<1>5. /\ dequeueOvercommit' \in [IProducers -> Nat]
      /\ dequeueOvercommit'[q] = dequeueOvercommit[q] + 1
      /\ \A p \in IProducers : p # q => dequeueOvercommit'[p] = dequeueOvercommit[p]
  <2>1. dequeueOvercommit \in [IProducers -> Nat] /\ dequeueOvercommit' = [dequeueOvercommit EXCEPT ![q] = @ + 1]
    BY <1>3, <1>4 DEF CountTypes, Counts
  <2> QED
    BY <2>1, CountChanged
<1>6. Apart(c) /\ ipc'[c] = l /\ loc'[c] = r /\ SameThreads /\ IProducers' = IProducers
  BY <1>2, <1>4, Gone DEF SameThreads
<1>7. CountTypes'
  BY <1>3, <1>5, <1>6 DEF CountTypes, Counts, Goes
<1>8. c \in At("giveup", q)
  BY <1>3, <1>4 DEF At
<1>9. l \notin CountLabels \cup {"check", "claim"}
  BY <1>1 DEF CountLabels
<1>10. CountsOf(q)'
  BY <1>3, <1>4, <1>5, <1>6, <1>7, <1>8, <1>9, CountsAfterGiveUp
<1>11. \A p \in IProducers : p # q => SameCounts(p)
  BY <1>3, <1>5 DEF SameCounts, CountTypes, Counts
<1>12. CountInv'
  BY <1>2, <1>4, <1>7, <1>9, <1>10, <1>11, CountsJoin
<1> QED
  BY <1>7, <1>12

LEMMA TakeHeadCounts ==
  ASSUME CountTypes, ThreadTypes, CountInv, load' = load, NEW CONSTANT c \in IConsumers, TakeHead(c)
  PROVE  CountTypes' /\ CountInv' /\ headIndex[loc[c].ptr] < tailIndex[loc[c].ptr]
<1>2. PICK r : Goes(c, "lookup", r)
  BY TakeHeadGoes
<1>3. /\ ipc[c] = "head" /\ UNCHANGED <<tailIndex, dequeueOvercommit, dequeueOptimisticCount>>
      /\ headIndex' = [headIndex EXCEPT ![loc[c].ptr] = @ + 1]
  BY DEF TakeHead
<1>4. PICK q \in IProducers : q = loc[c].ptr /\ CountsOf(q) /\ c \in IThreads /\ c \notin IProducers
  BY <1>3, CallCounts
<1>5. /\ headIndex' \in [IProducers -> Nat]
      /\ headIndex'[q] = headIndex[q] + 1
      /\ \A p \in IProducers : p # q => headIndex'[p] = headIndex[p]
  <2>1. headIndex \in [IProducers -> Nat] /\ headIndex' = [headIndex EXCEPT ![q] = @ + 1]
    BY <1>3, <1>4 DEF CountTypes, Counts
  <2> QED
    BY <2>1, CountChanged
<1>6. Apart(c) /\ ipc'[c] = "lookup" /\ loc'[c] = r /\ SameThreads /\ IProducers' = IProducers
  BY <1>2, <1>4, Gone DEF SameThreads
<1>7. CountTypes'
  BY <1>3, <1>5, <1>6 DEF CountTypes, Counts, Goes
<1>8. c \in At("head", q)
  BY <1>3, <1>4 DEF At
<1>10. CountsOf(q)' /\ headIndex[q] < tailIndex[q]
  BY <1>3, <1>4, <1>5, <1>6, <1>7, <1>8, CountsAfterTake
<1>11. \A p \in IProducers : p # q => SameCounts(p)
  BY <1>3, <1>5 DEF SameCounts, CountTypes, Counts
<1>9. "lookup" \notin CountLabels \cup {"check", "claim"}
  BY DEF CountLabels
<1>12. CountInv'
  BY <1>2, <1>4, <1>7, <1>9, <1>10, <1>11, CountsJoin
<1> QED
  BY <1>4, <1>7, <1>10, <1>12

(* The ring. *)
LEMMA Remainder ==
  ASSUME NEW M \in Nat, M > 0, NEW a \in Int, -M <= a, a < 2 * M
  PROVE  a % M = IF a < 0 THEN a + M ELSE IF a < M THEN a ELSE a - M
<1>1. PICK q \in Int, r \in 0 .. (M - 1) : r = a % M /\ a = M * q + r
  <2>1. a \div M \in Int /\ a % M \in 0 .. (M - 1) /\ a = M * (a \div M) + (a % M)
    BY EuclideanDivision
  <2> QED
    BY <2>1
<1>2. M * 0 = 0 /\ M * 1 = M /\ M * (-1) = -M
  OBVIOUS
<1>3. CASE q >= 2
  <2>1. PICK d \in Nat : q = d + 2
    <3>1. q - 2 \in Nat /\ q = (q - 2) + 2
      BY <1>1, <1>3
    <3> QED
      BY <3>1
  <2>2. M * (d + 2) = M * d + 2 * M /\ M * d >= 0 /\ M * d \in Int
    BY <2>1
  <2> QED
    BY <1>1, <2>1, <2>2
<1>4. CASE q <= -2
  <2>1. PICK d \in Nat : q = -d - 2
    <3>1. -q - 2 \in Nat /\ q = -(-q - 2) - 2
      BY <1>1, <1>4
    <3> QED
      BY <3>1
  <2>2. M * (-d - 2) = -(M * d) - 2 * M /\ M * d >= 0 /\ M * d \in Int
    BY <2>1
  <2> QED
    BY <1>1, <2>1, <2>2
<1>5. CASE q = 0
  BY <1>1, <1>2, <1>5
<1>6. CASE q = 1
  BY <1>1, <1>2, <1>6
<1>7. CASE q = -1
  BY <1>1, <1>2, <1>7
<1> QED
  BY <1>1, <1>3, <1>4, <1>5, <1>6, <1>7

LEMMA CapacityIs ==
  ASSUME NEW n \in Nat, NEW h, DOMAIN h.slot = 0 .. (n - 1)
  PROVE  IndexCapacity(h) = n
<1>2. Cardinality(0 .. (n - 1)) = IF 0 > n - 1 THEN 0 ELSE (n - 1) - 0 + 1
  BY FS_Interval
<1> QED
  BY <1>2 DEF IndexCapacity

LEMMA AgoIs ==
  ASSUME NEW n \in Nat, NEW t \in 0 .. (n - 1)
  PROVE  /\ \A j \in 0 .. (n - 1) : Ago(t, j, n) \in 0 .. (n - 1)
         /\ \A i, j \in 0 .. (n - 1) : Ago(t, i, n) = Ago(t, j, n) => i = j
         /\ \A j \in 0 .. (n - 1) : (t - j) % n = Ago(t, j, n)
         /\ Ago(t, 0, n) = t
         /\ (t + 1) % n = Ago(t, n - 1, n)
<1>1. ASSUME NEW j \in 0 .. (n - 1) PROVE (t - j) % n = Ago(t, j, n)
  <2>1. (t - j) % n = IF t - j < 0 THEN t - j + n ELSE IF t - j < n THEN t - j ELSE t - j - n
    BY Remainder
  <2> QED
    BY <2>1 DEF Ago
<1>2. (t + 1) % n = Ago(t, n - 1, n)
  <2>1. (t + 1) % n = IF t + 1 < 0 THEN t + 1 + n ELSE IF t + 1 < n THEN t + 1 ELSE t + 1 - n
    BY Remainder
  <2> QED
    BY <2>1 DEF Ago
<1> QED
  BY <1>1, <1>2 DEF Ago

\* The entry j back from the last, and what the ring is made of.
Back(p, j) == Slot(BlockIndex(p), BlockIndex(p).tail, j)

RingIs(p, n, t, s) ==
  /\ n = Len(entry[p]) /\ t = BlockIndex(p).tail /\ s = BlockIndex(p).slot
  /\ n \in Nat /\ n > 0 /\ t \in 0 .. (n - 1) /\ s \in [0 .. (n - 1) -> 1 .. n]
  /\ IndexCapacity(BlockIndex(p)) = n
  /\ \A i, j \in 0 .. (n - 1) : s[i] = s[j] => i = j

LEMMA RingOf ==
  ASSUME CountTypes, BlockTypes, NEW CONSTANT p \in IProducers, RingTypes(p)
  PROVE  \E n, t, s : RingIs(p, n, t, s)
<1>1. PICK n, t, s : n = Len(entry[p]) /\ t = BlockIndex(p).tail /\ s = BlockIndex(p).slot
  OBVIOUS
<1>2. n \in Nat
  BY <1>1 DEF BlockTypes
<1>3. /\ n > 0 /\ t \in 0 .. (n - 1) /\ s \in [0 .. (n - 1) -> 1 .. n]
      /\ \A i, j \in 0 .. (n - 1) : s[i] = s[j] => i = j
  BY <1>1, <1>2 DEF RingTypes
<1>4. IndexCapacity(BlockIndex(p)) = n
  <2>1. DOMAIN BlockIndex(p).slot = 0 .. (n - 1)
    BY <1>1, <1>3
  <2> QED
    BY <1>2, <2>1, CapacityIs
<1>5. RingIs(p, n, t, s)
  BY <1>1, <1>2, <1>3, <1>4 DEF RingIs
<1> QED
  BY <1>5

LEMMA BackIs ==
  ASSUME NEW CONSTANT p, NEW CONSTANT n, NEW CONSTANT t, NEW CONSTANT s, RingIs(p, n, t, s)
  PROVE  /\ \A j : Back(p, j) = s[Ago(t, j, n)]
         /\ \A j \in 0 .. (n - 1) : Back(p, j) \in 1 .. n
         /\ \A i, j \in 0 .. (n - 1) : Back(p, i) = Back(p, j) => i = j
         /\ NextEntry(p) = Back(p, n - 1) /\ Back(p, 0) = s[t]
<1>1. n \in Nat /\ t \in 0 .. (n - 1) /\ s \in [0 .. (n - 1) -> 1 .. n] /\ n > 0
  BY DEF RingIs
<1>2. /\ \A j \in 0 .. (n - 1) : Ago(t, j, n) \in 0 .. (n - 1)
      /\ \A i, j \in 0 .. (n - 1) : Ago(t, i, n) = Ago(t, j, n) => i = j
      /\ Ago(t, 0, n) = t
      /\ (t + 1) % n = Ago(t, n - 1, n)
  BY <1>1, AgoIs
<1>3. \A j : Back(p, j) = s[Ago(t, j, n)]
  BY DEF Back, Slot, RingIs
<1>4. NextEntry(p) = Back(p, n - 1)
  <2>1. NextEntry(p) = s[(t + 1) % n]
    BY DEF NextEntry, NewTail, RingIs
  <2> QED
    BY <1>2, <1>3, <2>1
<1>5. \A i, j \in 0 .. (n - 1) : s[i] = s[j] => i = j
  BY DEF RingIs
<1>6. ASSUME NEW j \in 0 .. (n - 1) PROVE Back(p, j) \in 1 .. n
  <2>1. Ago(t, j, n) \in 0 .. (n - 1)
    BY <1>2
  <2> QED
    BY <1>1, <1>3, <2>1
<1>7. ASSUME NEW i \in 0 .. (n - 1), NEW j \in 0 .. (n - 1), Back(p, i) = Back(p, j) PROVE i = j
  <2>1. Ago(t, i, n) \in 0 .. (n - 1) /\ Ago(t, j, n) \in 0 .. (n - 1) /\ s[Ago(t, i, n)] = s[Ago(t, j, n)]
    BY <1>2, <1>3, <1>7
  <2>2. Ago(t, i, n) = Ago(t, j, n)
    BY <1>5, <2>1
  <2> QED
    BY <1>2, <2>2
<1>8. Back(p, 0) = s[t]
  BY <1>2, <1>3
<1> QED
  BY <1>3, <1>4, <1>6, <1>7, <1>8

\* Numbers of the blocks of a producer.
LEMMA NumbersAre ==
  ASSUME CountTypes, NEW CONSTANT p \in IProducers
  PROVE  /\ Filled(p) \in Int /\ Top(p) \in Int /\ Filled(p) <= Top(p)
         /\ ipc[p] \in Getting => Top(p) = Filled(p) + 1
         /\ ipc[p] \notin Getting => Top(p) = Filled(p)
         /\ tailIndex[p] % BLOCK_SIZE = 0 /\ ipc[p] # "publish" => tailIndex[p] = (Filled(p) + 1) * BLOCK_SIZE
         /\ ipc[p] = "publish" \/ tailIndex[p] % BLOCK_SIZE # 0 => Filled(p) = tailIndex[p] \div BLOCK_SIZE
         /\ \A n \in Nat : n < tailIndex[p] => n \div BLOCK_SIZE \in 0 .. Filled(p)
<1>0. BLOCK_SIZE \in Nat /\ BLOCK_SIZE > 1
  BY BlockSizeIs
<1>1. PICK x \in Nat : x = tailIndex[p]
  BY DEF CountTypes, Counts
<1>2. PICK d \in Int, m \in 0 .. (BLOCK_SIZE - 1) : d = x \div BLOCK_SIZE /\ m = x % BLOCK_SIZE /\ x = d * BLOCK_SIZE + m
  <2>1. x \in Int
    BY <1>1
  <2> QED
    BY <2>1, BlockDivision
<1>3. PICK w \in Int : w = d * BLOCK_SIZE /\ (d - 1) * BLOCK_SIZE = w - BLOCK_SIZE /\ (d - 1 + 1) * BLOCK_SIZE = w
  BY <1>0
<1>11. PICK e : e = (x - 1) \div BLOCK_SIZE
  OBVIOUS
<1>4. e = IF m = 0 THEN d - 1 ELSE d
  <2>1. CASE m = 0
    <3>1. x - 1 = (d - 1) * BLOCK_SIZE + (BLOCK_SIZE - 1) /\ BLOCK_SIZE - 1 \in 0 .. (BLOCK_SIZE - 1) /\ d - 1 \in Int /\ x - 1 \in Int
      BY <1>0, <1>2, <1>3, <2>1
    <3> QED
      BY <1>11, <2>1, <3>1, BlockUnique
  <2>2. CASE m # 0
    <3>1. x - 1 = d * BLOCK_SIZE + (m - 1) /\ m - 1 \in 0 .. (BLOCK_SIZE - 1) /\ x - 1 \in Int
      BY <1>0, <1>2, <1>3, <2>2
    <3> QED
      BY <1>11, <2>2, <3>1, BlockUnique
  <2> QED
    BY <2>1, <2>2
<1>12. Filled(p) = IF ipc[p] = "publish" THEN d ELSE e
  BY <1>1, <1>2, <1>11 DEF Filled
<1>5. Filled(p) = IF ipc[p] = "publish" \/ m # 0 THEN d ELSE d - 1
  BY <1>2, <1>4, <1>12
<1>6. Filled(p) \in Int
  <2>1. d \in Int /\ d - 1 \in Int
    BY <1>2
  <2> QED
    BY <1>5, <2>1
<1>7. /\ Top(p) \in Int /\ Filled(p) <= Top(p)
      /\ ipc[p] \in Getting => Top(p) = Filled(p) + 1
      /\ ipc[p] \notin Getting => Top(p) = Filled(p)
  <2>1. CASE ipc[p] \in Getting
    <3>1. Top(p) = Filled(p) + 1
      BY <2>1 DEF Top
    <3> QED
      BY <1>6, <2>1, <3>1
  <2>2. CASE ipc[p] \notin Getting
    <3>1. Top(p) = Filled(p) + 0
      BY <2>2 DEF Top
    <3> QED
      BY <1>6, <2>2, <3>1
  <2> QED
    BY <2>1, <2>2
<1>8. tailIndex[p] % BLOCK_SIZE = 0 /\ ipc[p] # "publish" => tailIndex[p] = (Filled(p) + 1) * BLOCK_SIZE
  <2> SUFFICES ASSUME tailIndex[p] % BLOCK_SIZE = 0, ipc[p] # "publish" PROVE tailIndex[p] = (Filled(p) + 1) * BLOCK_SIZE
    OBVIOUS
  <2>1. m = 0 /\ Filled(p) = d - 1
    BY <1>1, <1>2, <1>5
  <2>2. x = w
    BY <1>0, <1>2, <1>3, <2>1
  <2> QED
    BY <1>1, <1>3, <2>1, <2>2
<1>9. ASSUME NEW n \in Nat, n < x PROVE n \div BLOCK_SIZE \in 0 .. Filled(p)
  <2>1. n \div BLOCK_SIZE <= (x - 1) \div BLOCK_SIZE
    BY <1>1, <1>9, BlocksGrow
  <2>2. 0 \div BLOCK_SIZE <= n \div BLOCK_SIZE
    BY <1>9, BlocksGrow
  <2>3. 0 \div BLOCK_SIZE = 0
    <3>1. 0 = 0 * BLOCK_SIZE + 0
      BY <1>0
    <3> QED
      BY <1>0, <3>1, BlockUnique
  <2>4. n \div BLOCK_SIZE \in Int
    BY <1>9, BlockDivision
  <2>5. e <= Filled(p) /\ e \in Int
    <3>1. (e = d \/ e = d - 1) /\ d \in Int
      BY <1>2, <1>4
    <3>2. m = 0 => e = d - 1
      BY <1>4
    <3>3. m # 0 => Filled(p) = d
      BY <1>5
    <3>4. Filled(p) = d \/ Filled(p) = d - 1
      BY <1>5
    <3> QED
      BY <3>1, <3>2, <3>3, <3>4
  <2>6. PICK i \in Int : i = n \div BLOCK_SIZE /\ 0 <= i /\ i <= e
    BY <1>11, <2>1, <2>2, <2>3, <2>4
  <2> QED
    BY <1>6, <2>5, <2>6
<1>10. ipc[p] = "publish" \/ tailIndex[p] % BLOCK_SIZE # 0 => Filled(p) = tailIndex[p] \div BLOCK_SIZE
  BY <1>1, <1>2, <1>5
<1> QED
  BY <1>1, <1>6, <1>7, <1>8, <1>9, <1>10

\* What is known of a state, but for the counts.
BlockState == CountTypes /\ BlockTypes /\ ThreadTypes /\ BlockInv /\ \A p \in IProducers : headIndex[p] <= tailIndex[p]

LEMMA BlockStateIs ==
  ASSUME IQInv
  PROVE  BlockState /\ CountInv
<1>1. CountTypes /\ BlockTypes /\ ThreadTypes /\ BlockInv /\ CountInv
  BY DEF IQInv, IQTypes
<1>2. \A p \in IProducers : headIndex[p] <= tailIndex[p]
  BY <1>1, HeadIsBehind
<1> QED
  BY <1>1, <1>2 DEF BlockState

LEMMA ProducerIs ==
  ASSUME BlockState, NEW CONSTANT p \in IProducers
  PROVE  /\ Indexed(p) /\ LiveLinked(p) /\ Stay(p) /\ OneHolder(p)
         /\ headIndex[p] \in Nat /\ tailIndex[p] \in Nat /\ headIndex[p] <= tailIndex[p]
         /\ p \in IThreads /\ p \notin IConsumers /\ p \in Nat
         /\ ipc[p] \in PushLabels /\ loc[p] \in Locals
         /\ RingTypes(p) /\ RingKeys(p) /\ Keyed(p) /\ Inserts(p)
<1>1. /\ Indexed(p) /\ LiveLinked(p) /\ Stay(p) /\ OneHolder(p)
      /\ headIndex[p] \in Nat /\ tailIndex[p] \in Nat /\ headIndex[p] <= tailIndex[p]
  BY DEF BlockState, BlockInv, CountTypes, Counts
<1>2. p \in IThreads /\ p \notin IConsumers /\ p \in Nat
  BY SubThreads, ThreadsAre DEF BlockState, CountTypes
<1>3. ipc[p] \in PushLabels /\ loc[p] \in Locals
  BY <1>2 DEF BlockState, ThreadTypes
<1> QED
  BY <1>1, <1>2, <1>3 DEF Indexed

LEMMA ConsumerIs ==
  ASSUME BlockState, NEW CONSTANT c \in IConsumers
  PROVE  /\ Searches(c) /\ c \in IThreads /\ c \notin IProducers /\ loc[c] \in Locals /\ ipc[c] \in PopLabels
         /\ ipc[c] # "idle" => loc[c].ptr \in IProducers
<1>1. c \in IThreads /\ c \notin IProducers
  BY SubThreads, ThreadsAre DEF BlockState, CountTypes
<1> QED
  BY <1>1 DEF BlockState, BlockInv, ThreadTypes

\* A block with a place that is not done with.
LEMMA OpenLives ==
  ASSUME BlockState, NEW CONSTANT p \in IProducers, NEW CONSTANT n \in Nat, Open(p, n),
         n < tailIndex[p] \/ n \div BLOCK_SIZE \in 0 .. Filled(p)
  PROVE  n \div BLOCK_SIZE \in 0 .. Filled(p) /\ Live(p, n \div BLOCK_SIZE)
<1>1. n \div BLOCK_SIZE \in 0 .. Filled(p)
  BY NumbersAre DEF BlockState
<1>2. n \div BLOCK_SIZE \in Int
  <2>1. n \in Int
    OBVIOUS
  <2> QED
    BY <2>1, BlockDivision
<1>3. n \in Positions(n \div BLOCK_SIZE)
  BY <1>2, PositionsAre
<1> QED
  BY <1>1, <1>3 DEF Live

LEMMA HolderLives ==
  ASSUME BlockState, NEW CONSTANT c \in IConsumers, ipc[c] \in HoldLabels
  PROVE  \E p \in IProducers, x \in Nat, k \in Nat :
           /\ p = loc[c].ptr /\ x = loc[c].x /\ k = x \div BLOCK_SIZE /\ x < headIndex[p] /\ x < tailIndex[p]
           /\ c \in IHolders(p) /\ k \in 0 .. Filled(p) /\ Live(p, k) /\ x \in Positions(k) /\ Open(p, x) /\ Linking(p, k)
<1>1. ipc[c] # "idle"
  BY DEF HoldLabels
<1>2. PICK p \in IProducers, x \in Nat : p = loc[c].ptr /\ x = loc[c].x
  <2>1. loc[c] \in Locals /\ loc[c].ptr \in IProducers
    BY <1>1, ConsumerIs
  <2> QED
    BY <2>1 DEF Locals
<1>3. x < headIndex[p] /\ x < tailIndex[p]
  <2>1. x < headIndex[p]
    BY <1>2, ConsumerIs DEF Searches
  <2> QED
    BY <2>1, ProducerIs
<1>4. c \in IHolders(p)
  BY <1>2 DEF IHolders
<1>5. Open(p, x)
  BY <1>2, <1>4 DEF Open, IHeld
<1>6. PICK k : k = x \div BLOCK_SIZE
  OBVIOUS
<1>7. k \in 0 .. Filled(p) /\ Live(p, k)
  BY <1>3, <1>5, <1>6, OpenLives
<1>8. k \in Nat
  BY <1>7
<1>9. x \in Positions(k)
  <2>1. x \in Int /\ k \in Int
    BY <1>8
  <2> QED
    BY <1>6, <2>1, PositionsAre
<1>10. Linking(p, k)
  BY <1>7, ProducerIs DEF LiveLinked
<1> QED
  BY <1>2, <1>3, <1>4, <1>5, <1>6, <1>7, <1>8, <1>9, <1>10

\* The entry of a linked block.
LEMMA LinkedIs ==
  ASSUME BlockState, NEW CONSTANT p \in IProducers, NEW CONSTANT k \in Nat, k <= Filled(p), Linking(p, k),
         NEW CONSTANT n, NEW CONSTANT t, NEW CONSTANT s, RingIs(p, n, t, s)
  PROVE  /\ Top(p) - k \in 0 .. (n - 1) /\ EntryOf(p, k) = Back(p, Top(p) - k) /\ EntryOf(p, k) \in 1 .. n
         /\ n = Len(entry[p])
         /\ entry[p][EntryOf(p, k)].key = k * BLOCK_SIZE /\ BlockOf(p, k) \in MemBlocks /\ BlockOf(p, k) # None
         /\ BlockOf(p, k) = entry[p][EntryOf(p, k)].value
         /\ \A i \in 0 .. (Top(p) - k) : IsKey(p, i)
<1>1. Filled(p) \in Int /\ Top(p) \in Int /\ Filled(p) <= Top(p)
  BY NumbersAre DEF BlockState
<1>2. n \in Nat /\ n = Len(entry[p])
  BY DEF RingIs
<1>3. PICK j \in Int : j = Top(p) - k
  BY <1>1
<1>4. j \in 0 .. (n - 1)
  BY <1>1, <1>2, <1>3 DEF Linking
<1>5. EntryOf(p, k) = Back(p, j)
  BY <1>3 DEF EntryOf, Back
<1>6. Back(p, j) \in 1 .. n
  BY <1>4, BackIs
<1>7. entry[p][EntryOf(p, k)].key = k * BLOCK_SIZE /\ BlockOf(p, k) # None
  BY DEF Linking
<1>8. IsKey(p, j)
  <2>1. Top(p) - j = k
    BY <1>1, <1>3
  <2> QED
    BY <1>5, <1>7, <2>1 DEF IsKey, KeyAgo, Back
<1>9. \A i \in 0 .. j : IsKey(p, i)
  <2>1. RingKeys(p)
    BY ProducerIs
  <2> QED
    BY <1>2, <1>4, <1>8, <2>1 DEF RingKeys
<1>10. BlockOf(p, k) \in MemBlocks
  <2>1. entry[p] \in Seq(Entries) /\ EntryOf(p, k) \in 1 .. Len(entry[p])
    BY <1>2, <1>5, <1>6 DEF BlockState, BlockTypes
  <2>2. entry[p][EntryOf(p, k)] \in Entries
    BY <2>1
  <2> QED
    BY <1>7, <2>2 DEF Entries, BlockOf
<1> QED
  BY <1>2, <1>3, <1>4, <1>5, <1>6, <1>7, <1>9, <1>10 DEF BlockOf

\* From the last entry of the index a consumer finds the block.
LEMMA CurrentFinds ==
  ASSUME CountTypes, BlockTypes, NEW CONSTANT p \in IProducers, Indexed(p), NEW CONSTANT k \in Nat, k <= Top(p), Linking(p, k)
  PROVE  Finds(p, k, BlockIndex(p), BlockIndex(p).tail)
<1>1. PICK n, t, s : RingIs(p, n, t, s)
  BY RingOf DEF Indexed
<1>2. n \in Nat /\ n > 0 /\ n = Len(entry[p]) /\ t \in 0 .. (n - 1) /\ s \in [0 .. (n - 1) -> 1 .. n] /\ t = BlockIndex(p).tail
      /\ s = BlockIndex(p).slot /\ IndexCapacity(BlockIndex(p)) = n
  BY <1>1 DEF RingIs
<1>3. PICK v \in Int : v = Top(p)
  BY NumbersAre
<1>4. PICK j \in 0 .. (n - 1) : j = v - k
  BY <1>2, <1>3 DEF Linking
<1>5. EntryOf(p, k) = Back(p, j) /\ Back(p, 0) = s[t]
  BY <1>1, <1>3, <1>4, BackIs DEF EntryOf, Back
<1>6. IsKey(p, j)
  <2>1. Top(p) - j = k
    BY <1>3, <1>4
  <2> QED
    BY <1>5, <2>1 DEF IsKey, KeyAgo, Back, Linking
<1>7. IsKey(p, 0)
  <2>1. RingKeys(p) /\ 0 \in 0 .. j /\ j \in 0 .. (Len(entry[p]) - 1)
    BY <1>2, <1>4 DEF Indexed
  <2> QED
    BY <1>6, <2>1 DEF RingKeys
<1>8. entry[p][s[t]].key = (k + j) * BLOCK_SIZE
  <2>1. Top(p) - 0 = k + j
    BY <1>3, <1>4
  <2>2. entry[p][s[t]].key = (Top(p) - 0) * BLOCK_SIZE
    BY <1>5, <1>7 DEF IsKey, KeyAgo, Back
  <2> QED
    BY <2>1, <2>2
<1>9. Slot(BlockIndex(p), t, j) = EntryOf(p, k)
  BY <1>2, <1>5 DEF Back
<1>10. s[t] \in 1 .. Len(entry[p])
  BY <1>2
<1>11. \E i \in 0 .. (n - 1) : entry[p][s[t]].key = (k + i) * BLOCK_SIZE /\ Slot(BlockIndex(p), t, i) = EntryOf(p, k)
  BY <1>4, <1>8, <1>9
<1> QED
  BY <1>2, <1>10, <1>11 DEF Finds

LEMMA CurrentFindsAll ==
  \A p \in IProducers, k \in Nat : CountTypes /\ BlockTypes /\ Indexed(p) /\ k <= Top(p) /\ Linking(p, k)
    => Finds(p, k, BlockIndex(p), BlockIndex(p).tail)
  BY CurrentFinds

LEMMA CurrentFindsNext ==
  (\A p \in IProducers, k \in Nat : CountTypes /\ BlockTypes /\ Indexed(p) /\ k <= Top(p) /\ Linking(p, k)
    => Finds(p, k, BlockIndex(p), BlockIndex(p).tail))'
  BY CurrentFindsAll, PTL

\* Nothing of p's index is changed.
SameIndex(p) ==
  /\ header'[p] = header[p] /\ entry'[p] = entry[p] /\ tailIndex'[p] = tailIndex[p] /\ tailBlock'[p] = tailBlock[p]
  /\ ipc'[p] = ipc[p] /\ loc'[p] = loc[p]

LEMMA IndexFrame ==
  ASSUME NEW CONSTANT p, SameIndex(p)
  PROVE  /\ Filled(p)' = Filled(p) /\ Top(p)' = Top(p) /\ BlockIndex(p)' = BlockIndex(p)
         /\ \A k : EntryOf(p, k)' = EntryOf(p, k)
         /\ \A k : BlockOf(p, k)' = BlockOf(p, k)
         /\ \A k : Linking(p, k) => Linking(p, k)'
         /\ \A k, h, e : Finds(p, k, h, e) => Finds(p, k, h, e)'
         /\ Indexed(p) => Indexed(p)'
<1>1. Filled(p)' = Filled(p)
  BY DEF Filled, SameIndex
<1>2. Top(p)' = Top(p)
  BY <1>1 DEF Top, SameIndex
<1>3. BlockIndex(p)' = BlockIndex(p)
  BY DEF BlockIndex, SameIndex
<1>4. \A k : EntryOf(p, k)' = EntryOf(p, k)
  BY <1>2, <1>3 DEF EntryOf, Slot, IndexCapacity
<1>5. \A k : BlockOf(p, k)' = BlockOf(p, k)
  BY <1>4 DEF BlockOf, SameIndex
<1>6. \A k : Linking(p, k) => Linking(p, k)'
  BY <1>2, <1>4, <1>5 DEF Linking, SameIndex
<1>7. \A k, h, e : Finds(p, k, h, e) => Finds(p, k, h, e)'
  BY <1>4 DEF Finds, SameIndex, Slot, IndexCapacity
<1>8. NextEntry(p)' = NextEntry(p)
  BY <1>3 DEF NextEntry, NewTail, IndexCapacity
<1>9. RingTypes(p) => RingTypes(p)'
  BY <1>3 DEF RingTypes, SameIndex
<1>10. \A j : IsKey(p, j)' <=> IsKey(p, j)
  BY <1>2, <1>3 DEF IsKey, KeyAgo, Slot, IndexCapacity, SameIndex
<1>11. \A j : KeyAgo(p, j)' = KeyAgo(p, j)
  BY <1>3 DEF KeyAgo, Slot, IndexCapacity, SameIndex
<1>12. Rewound(p)' <=> Rewound(p)
  BY <1>2, <1>8 DEF Rewound, SameIndex
<1>13. RingKeys(p) => RingKeys(p)'
  BY <1>10, <1>11, <1>12 DEF RingKeys, SameIndex
<1>14. Keyed(p) => Keyed(p)'
  BY DEF Keyed, SameIndex
<1>15. \A e : Fresh(p, e)' <=> Fresh(p, e)
  BY DEF Fresh, SameIndex
<1>16. Inserts(p) => Inserts(p)'
  <2>1. EntryOf(p, Filled(p))' = EntryOf(p, Filled(p))
    BY <1>1, <1>4
  <2> QED
    BY <1>3, <1>8, <1>15, <2>1 DEF Inserts, Filling, SameIndex, Fresh
<1>17. Indexed(p) => Indexed(p)'
  BY <1>9, <1>13, <1>14, <1>16 DEF Indexed
<1> QED
  BY <1>1, <1>2, <1>3, <1>4, <1>5, <1>6, <1>7, <1>17

\* Who has an element of p has it still.
SameHolders(p) ==
  /\ headIndex'[p] = headIndex[p] /\ IHolders(p)' = IHolders(p)
  /\ \A c \in IHolders(p) : loc'[c].x = loc[c].x /\ (ipc'[c] = "setempty" <=> ipc[c] = "setempty")

LEMMA HoldFrame ==
  ASSUME NEW CONSTANT p, SameHolders(p)
  PROVE  /\ \A n : Open(p, n)' <=> Open(p, n)
         /\ \A n : Waits(p, n)' <=> Waits(p, n)
         /\ OneHolder(p) => OneHolder(p)'
<1>1. IHeld(p)' = IHeld(p)
  BY DEF IHeld, SameHolders
<1>2. ToMove(p)' = ToMove(p)
  BY DEF ToMove, SameHolders
<1>3. OneHolder(p) => OneHolder(p)'
  BY DEF OneHolder, SameHolders
<1> QED
  BY <1>1, <1>2, <1>3 DEF Open, Waits, SameHolders

\* A consumer that has no element of p before and after.
NoHolder(c, p) ==
  /\ ipc[c] \in HoldLabels => loc[c].ptr # p
  /\ ipc'[c] \in HoldLabels => loc'[c].ptr # p

LEMMA HoldersApart ==
  ASSUME NEW CONSTANT t, Apart(t), NEW CONSTANT p, t \in IConsumers => NoHolder(t, p), headIndex'[p] = headIndex[p]
  PROVE  SameHolders(p)
<1>1. \A c \in IConsumers : c # t => ipc'[c] = ipc[c] /\ loc'[c] = loc[c]
  BY SubThreads DEF Apart
<1>2. t \notin IHolders(p) /\ t \notin IHolders(p)'
  BY DEF IHolders, NoHolder
<1>3. IHolders(p)' = IHolders(p)
  BY <1>1, <1>2 DEF IHolders
<1>4. \A c \in IHolders(p) : loc'[c] = loc[c] /\ ipc'[c] = ipc[c]
  BY <1>1, <1>2 DEF IHolders
<1> QED
  BY <1>3, <1>4 DEF SameHolders

\* One that goes on with the element it has.
LEMMA HolderGoesOn ==
  ASSUME NEW CONSTANT c \in IConsumers, Apart(c), ipc[c] \in HoldLabels, ipc'[c] \in HoldLabels,
         loc'[c].ptr = loc[c].ptr, loc'[c].x = loc[c].x, ipc'[c] = "setempty" <=> ipc[c] = "setempty",
         NEW CONSTANT p, headIndex'[p] = headIndex[p]
  PROVE  SameHolders(p)
<1>1. \A d \in IConsumers : d # c => ipc'[d] = ipc[d] /\ loc'[d] = loc[d]
  BY SubThreads DEF Apart
<1>2. IHolders(p)' = IHolders(p)
  BY <1>1 DEF IHolders
<1>3. \A d \in IHolders(p) : loc'[d].x = loc[d].x /\ (ipc'[d] = "setempty" <=> ipc[d] = "setempty")
  BY <1>1 DEF IHolders
<1> QED
  BY <1>2, <1>3 DEF SameHolders

\* The blocks are linked, and the elements in them, if nothing of them is changed.
LEMMA LiveLinkedKept ==
  ASSUME NEW CONSTANT p, LiveLinked(p), Filled(p)' = Filled(p), \A n \in Int : Open(p, n)' <=> Open(p, n),
         \A k \in 0 .. Filled(p) : Live(p, k) =>
           /\ Linking(p, k)' /\ BlockOf(p, k)' = BlockOf(p, k)
           /\ elementsCompletelyDequeued'[BlockOf(p, k)] = elementsCompletelyDequeued[BlockOf(p, k)]
  PROVE  LiveLinked(p)' /\ \A k : Live(p, k)' <=> Live(p, k)
<1>1. \A k : Live(p, k)' <=> Live(p, k)
  BY DEF Live, Positions
<1>2. \A k : Past(p, k)' = Past(p, k)
  BY DEF Past, Positions
<1> QED
  BY <1>1, <1>2 DEF LiveLinked

LEMMA StayKept ==
  ASSUME NEW CONSTANT p, Stay(p), tailIndex'[p] = tailIndex[p],
         \A n \in 0 .. (tailIndex[p] - 1) : Waits(p, n)' =>
           /\ Waits(p, n)
           /\ elements'[BlockOf(p, n \div BLOCK_SIZE)'][n % BLOCK_SIZE] = elements[BlockOf(p, n \div BLOCK_SIZE)][n % BLOCK_SIZE]
  PROVE  Stay(p)'
<1> SUFFICES ASSUME NEW CONSTANT n \in 0 .. (tailIndex'[p] - 1), Waits(p, n)'
             PROVE  elements'[BlockOf(p, n \div BLOCK_SIZE)'][n % BLOCK_SIZE] = <<p, n>>
  BY DEF Stay
<1>1. n \in 0 .. (tailIndex[p] - 1)
  OBVIOUS
<1>2. elements[BlockOf(p, n \div BLOCK_SIZE)][n % BLOCK_SIZE] = <<p, n>>
  BY <1>1 DEF Stay
<1> QED
  BY <1>1, <1>2

\* A consumer goes on finding what it is about.
LEMMA SearchKept ==
  ASSUME NEW CONSTANT d, Searches(d), ipc'[d] = ipc[d], loc'[d] = loc[d], NEW CONSTANT p, p = loc[d].ptr,
         ipc[d] \in HoldLabels => headIndex'[p] >= headIndex[p] /\ headIndex'[p] \in Nat /\ headIndex[p] \in Nat /\ loc[d].x \in Nat,
         ipc[d] \in {"loadblock", "move", "setempty"} => EntryOf(p, loc[d].x \div BLOCK_SIZE)' = EntryOf(p, loc[d].x \div BLOCK_SIZE),
         ipc[d] \in {"looktail", "lookkey"} => (loc[d].h \in 1 .. Len(header[p]) => loc[d].h \in 1 .. Len(header'[p])),
         ipc[d] = "looktail" => Finds(p, loc[d].x \div BLOCK_SIZE, header[p][loc[d].h], header[p][loc[d].h].tail)',
         ipc[d] = "lookkey" => Finds(p, loc[d].x \div BLOCK_SIZE, header[p][loc[d].h], loc[d].e)',
         ipc[d] \in {"move", "setempty", "unlink"} =>
           (loc[d].e \in 1 .. Len(entry[p]) => loc[d].e \in 1 .. Len(entry'[p]) /\ entry'[p][loc[d].e].value = entry[p][loc[d].e].value),
         ipc[d] = "unlink" => \A m \in 0 .. Filled(p)' : Live(p, m)' => EntryOf(p, m)' # loc[d].e
  PROVE  Searches(d)'
<1>1. ipc[d] \in HoldLabels => loc[d].x < headIndex'[p]
  BY DEF Searches
<1>2. ipc[d] \in {"looktail", "lookkey"} => loc[d].h \in 1 .. Len(header'[p])
  BY DEF Searches
<1>3. ipc[d] \in {"loadblock", "move", "setempty"} => loc[d].e = EntryOf(p, loc[d].x \div BLOCK_SIZE)'
  BY DEF Searches
<1>4. ipc[d] \in {"move", "setempty", "unlink"} =>
          loc[d].e \in 1 .. Len(entry'[p]) /\ loc[d].b = entry'[p][loc[d].e].value /\ loc[d].b # None
  BY DEF Searches
<1> QED
  BY <1>1, <1>2, <1>3, <1>4 DEF Searches

(* Steps of a consumer. *)
SameLinks == UNCHANGED <<load, tailIndex, tailBlock, header, entry>>

LEMMA ConsumerFrame ==
  ASSUME BlockState, NEW CONSTANT c \in IConsumers, Apart(c), SameLinks
  PROVE  IProducers' = IProducers /\ IThreads' = IThreads /\ \A p \in IProducers : SameIndex(p)
<1>1. IProducers' = IProducers /\ IThreads' = IThreads
  BY DEF IProducers, IThreads, NProducers, SameLinks
<1>2. \A p \in IProducers : p \in IThreads /\ p # c
  BY ProducerIs, ConsumerIs
<1> QED
  BY <1>1, <1>2 DEF SameIndex, SameLinks, Apart

LEMMA OthersSearch ==
  ASSUME BlockState, NEW CONSTANT c \in IConsumers, Apart(c), SameLinks,
         \A p \in IProducers : headIndex'[p] \in Nat /\ headIndex'[p] >= headIndex[p],
         \A p \in IProducers : \A m : Live(p, m)' => Live(p, m),
         NEW CONSTANT d \in IConsumers, d # c
  PROVE  Searches(d)'
<1>1. Searches(d) /\ ipc'[d] = ipc[d] /\ loc'[d] = loc[d]
  BY ConsumerIs DEF Apart
<1>2. PICK p : p = loc[d].ptr
  OBVIOUS
<1>3. CASE ipc[d] \in Busy
  <2>1. ipc[d] # "idle"
    BY <1>3 DEF Busy, HoldLabels
  <2>2. p \in IProducers /\ loc[d].x \in Nat
    BY <1>2, <2>1, ConsumerIs DEF Locals
  <2>3. SameIndex(p)
    BY <2>2, ConsumerFrame
  <2>4. /\ Filled(p)' = Filled(p) /\ \A k : EntryOf(p, k)' = EntryOf(p, k)
        /\ \A k, h, e : Finds(p, k, h, e) => Finds(p, k, h, e)'
    BY <2>3, IndexFrame
  <2>5. headIndex[p] \in Nat /\ headIndex'[p] \in Nat /\ headIndex'[p] >= headIndex[p]
    BY <2>2, ProducerIs
  <2>6. PICK k, h, t, e : k = loc[d].x \div BLOCK_SIZE /\ h = header[p][loc[d].h] /\ t = header[p][loc[d].h].tail /\ e = loc[d].e
    OBVIOUS
  <2>7. header' = header /\ entry' = entry
    BY DEF SameLinks
  <2>8. ipc[d] = "looktail" => Finds(p, k, h, t)'
    BY <1>1, <1>2, <2>4, <2>6 DEF Searches
  <2>9. ipc[d] = "lookkey" => Finds(p, k, h, e)'
    BY <1>1, <1>2, <2>4, <2>6 DEF Searches
  <2>10. ipc[d] = "unlink" => \A m \in 0 .. Filled(p)' : Live(p, m)' => EntryOf(p, m)' # e
    BY <1>1, <1>2, <2>2, <2>4, <2>6 DEF Searches
  <2>11. ipc[d] = "looktail" => Finds(p, loc[d].x \div BLOCK_SIZE, header[p][loc[d].h], header[p][loc[d].h].tail)'
    BY <1>1, <2>6, <2>7, <2>8
  <2>12. ipc[d] = "lookkey" => Finds(p, loc[d].x \div BLOCK_SIZE, header[p][loc[d].h], loc[d].e)'
    BY <1>1, <2>6, <2>7, <2>9
  <2>13. EntryOf(p, loc[d].x \div BLOCK_SIZE)' = EntryOf(p, loc[d].x \div BLOCK_SIZE)
    <3>1. EntryOf(p, loc[d].x \div BLOCK_SIZE)' = EntryOf(p, k)'
      BY <1>1, <2>6
    <3> QED
      BY <2>4, <2>6, <3>1
  <2>14. ipc[d] = "unlink" => \A m \in 0 .. Filled(p)' : Live(p, m)' => EntryOf(p, m)' # loc[d].e
    BY <2>6, <2>10
  <2> QED
    BY <1>1, <1>2, <2>2, <2>5, <2>7, <2>11, <2>12, <2>13, <2>14, SearchKept
<1>4. CASE ipc[d] \notin Busy
  BY <1>1, <1>4 DEF Searches, Busy, HoldLabels
<1> QED
  BY <1>3, <1>4

\* The places, seen from every producer.
SamePlaces ==
  \A p \in IProducers :
    /\ \A n \in Int : Open(p, n)' <=> Open(p, n)
    /\ \A n \in Int : Waits(p, n)' => Waits(p, n)
    /\ OneHolder(p)'
    /\ headIndex'[p] \in Nat /\ headIndex'[p] >= headIndex[p]

LEMMA ConsumerKeeps ==
  ASSUME BlockState, NEW CONSTANT c \in IConsumers, Apart(c), SameLinks, UNCHANGED blocks, SamePlaces, Searches(c)'
  PROVE  /\ \A p \in IProducers' : Indexed(p)' /\ LiveLinked(p)' /\ Stay(p)' /\ OneHolder(p)'
         /\ \A d \in IConsumers : Searches(d)'
         /\ CountsInBlock'
<1>1. IProducers' = IProducers /\ \A p \in IProducers : SameIndex(p)
  BY ConsumerFrame
<1>2. elements' = elements /\ elementsCompletelyDequeued' = elementsCompletelyDequeued /\ tailIndex' = tailIndex
  BY DEF blocks, SameLinks
<1>3. ASSUME NEW CONSTANT p \in IProducers
      PROVE  /\ Indexed(p)' /\ LiveLinked(p)' /\ Stay(p)' /\ OneHolder(p)'
             /\ \A m : Live(p, m)' <=> Live(p, m)
  <2>1. Indexed(p) /\ LiveLinked(p) /\ Stay(p) /\ SameIndex(p)
    BY <1>1, ProducerIs
  <2>2. /\ Filled(p)' = Filled(p) /\ \A k : BlockOf(p, k)' = BlockOf(p, k)
        /\ \A k : Linking(p, k) => Linking(p, k)'
        /\ Indexed(p)'
    BY <2>1, IndexFrame
  <2>3. /\ \A n \in Int : Open(p, n)' <=> Open(p, n)
        /\ \A n \in Int : Waits(p, n)' => Waits(p, n)
        /\ OneHolder(p)'
    BY DEF SamePlaces
  <2>4. \A k \in 0 .. Filled(p) : Live(p, k) => Linking(p, k)
    BY <2>1 DEF LiveLinked
  <2>5. \A k \in 0 .. Filled(p) : Live(p, k) =>
           /\ Linking(p, k)' /\ BlockOf(p, k)' = BlockOf(p, k)
           /\ elementsCompletelyDequeued'[BlockOf(p, k)] = elementsCompletelyDequeued[BlockOf(p, k)]
    BY <1>2, <2>2, <2>4
  <2>6. LiveLinked(p)' /\ \A m : Live(p, m)' <=> Live(p, m)
    BY <2>1, <2>2, <2>3, <2>5, LiveLinkedKept
  <2>7. \A n \in 0 .. (tailIndex[p] - 1) : Waits(p, n)' =>
           /\ Waits(p, n)
           /\ elements'[BlockOf(p, n \div BLOCK_SIZE)'][n % BLOCK_SIZE] = elements[BlockOf(p, n \div BLOCK_SIZE)][n % BLOCK_SIZE]
    BY <1>2, <2>2, <2>3
  <2>8. Stay(p)'
    BY <1>2, <2>1, <2>7, StayKept
  <2> QED
    BY <2>2, <2>3, <2>6, <2>8
<1>4. ASSUME NEW CONSTANT d \in IConsumers PROVE Searches(d)'
  <2>1. CASE d = c
    BY <2>1
  <2>2. CASE d # c
    <3>1. \A p \in IProducers : headIndex'[p] \in Nat /\ headIndex'[p] >= headIndex[p]
      BY DEF SamePlaces
    <3>2. \A p \in IProducers : \A m : Live(p, m)' => Live(p, m)
      BY <1>3
    <3> QED
      BY <2>2, <3>1, <3>2, OthersSearch
  <2> QED
    BY <2>1, <2>2
<1>5. CountsInBlock'
  BY <1>2 DEF CountsInBlock, BlockState, BlockInv
<1> QED
  BY <1>1, <1>3, <1>4, <1>5

\* Blocks are where they were.
LEMMA HomesFrame ==
  ASSUME BlockState, NEW CONSTANT t \in IThreads, Apart(t), UNCHANGED <<load, entry>>, UNCHANGED pool,
         InHand(t)' => InHand(t) /\ loc'[t].b = loc[t].b,
         t \in IConsumers /\ ipc'[t] = "unlink" => ipc[t] = "unlink" /\ loc'[t].b = loc[t].b
  PROVE  Homes'
<1>1. IProducers' = IProducers /\ IThreads' = IThreads /\ IConsumers \subseteq IThreads
  BY SubThreads DEF IProducers, IThreads, NProducers
<1>2. Homes /\ entry' = entry /\ InUse' = InUse /\ freeList' = freeList
  BY DEF BlockState, BlockInv, pool, InUse
<1>3. \A u \in IThreads : InHand(u)' => InHand(u) /\ loc'[u].b = loc[u].b
  BY DEF Apart, InHand
<1>4. \A c \in IConsumers : ipc'[c] = "unlink" => ipc[c] = "unlink" /\ loc'[c].b = loc[c].b
  BY <1>1 DEF Apart
<1>5. LinksApart' /\ LinksHold'
  BY <1>1, <1>2 DEF Homes, LinksApart, LinksHold
<1>6. HandsApart'
  BY <1>1, <1>2, <1>3 DEF Homes, HandsApart
<1>7. HandsHold'
  BY <1>1, <1>2, <1>3 DEF Homes, HandsHold
<1>8. UnlinksApart'
  BY <1>2, <1>4 DEF Homes, UnlinksApart
<1> QED
  BY <1>2, <1>5, <1>6, <1>7, <1>8 DEF Homes

LEMMA BlockTypesStay ==
  ASSUME BlockTypes, UNCHANGED <<load, tailBlock, header, entry>>, UNCHANGED blocks, UNCHANGED pool
  PROVE  BlockTypes'
<1>1. IProducers' = IProducers
  BY DEF IProducers, NProducers
<1> QED
  BY <1>1 DEF BlockTypes, blocks, pool

LEMMA BlockInvNext ==
  ASSUME \A p \in IProducers' : Indexed(p)' /\ LiveLinked(p)' /\ Stay(p)' /\ OneHolder(p)',
         \A d \in IConsumers : Searches(d)', CountsInBlock', Homes'
  PROVE  BlockInv'
  BY DEF BlockInv

\* A consumer that has no element.
LEMMA QuietBlocks ==
  ASSUME BlockState, NEW CONSTANT c \in IConsumers, NEW CONSTANT l, NEW CONSTANT r, Goes(c, l, r),
         ipc[c] \notin Busy, l \notin Busy, SameLinks, UNCHANGED headIndex, UNCHANGED blocks, UNCHANGED pool
  PROVE  BlockInv' /\ BlockTypes' /\ ThreadTypes'
<1>1. c \in IThreads /\ ThreadTypes /\ CountTypes /\ BlockTypes
  BY ConsumerIs DEF BlockState
<1>2. Apart(c) /\ ipc'[c] = l /\ loc'[c] = r /\ ThreadTypes'
  BY <1>1, Gone
<1>3. SamePlaces
  <2> SUFFICES ASSUME NEW CONSTANT p \in IProducers
               PROVE  /\ \A n \in Int : Open(p, n)' <=> Open(p, n)
                      /\ \A n \in Int : Waits(p, n)' => Waits(p, n)
                      /\ OneHolder(p)'
                      /\ headIndex'[p] \in Nat /\ headIndex'[p] >= headIndex[p]
    BY DEF SamePlaces
  <2>1. NoHolder(c, p)
    BY <1>2 DEF NoHolder, Busy
  <2>2. SameHolders(p)
    BY <1>2, <2>1, HoldersApart
  <2>3. headIndex[p] \in Nat /\ OneHolder(p)
    BY ProducerIs
  <2> QED
    BY <2>2, <2>3, HoldFrame
<1>4. Searches(c)'
  BY <1>2 DEF Searches, Busy, HoldLabels
<1>5. Homes'
  <2>1. ~InHand(c)' /\ ipc'[c] # "unlink"
    <3>1. l \in PopLabels
      BY <1>2 DEF ThreadTypes
    <3>2. "give" \in Busy /\ "unlink" \in Busy /\ "value" \notin PopLabels
      BY DEF Busy, PopLabels, HoldLabels
    <3> QED
      BY <1>2, <3>1, <3>2 DEF InHand
  <2>2. UNCHANGED <<load, entry>>
    BY DEF SameLinks
  <2> QED
    BY <1>1, <1>2, <2>1, <2>2, HomesFrame
<1>6. /\ \A p \in IProducers' : Indexed(p)' /\ LiveLinked(p)' /\ Stay(p)' /\ OneHolder(p)'
      /\ \A d \in IConsumers : Searches(d)'
      /\ CountsInBlock'
  BY <1>2, <1>3, <1>4, ConsumerKeeps
<1>7. BlockInv'
  BY <1>5, <1>6, BlockInvNext
<1>8. BlockTypes'
  BY <1>1, BlockTypesStay DEF SameLinks
<1> QED
  BY <1>2, <1>7, <1>8

\* One that looks for the block of its element.
LEMMA HolderBlocks ==
  ASSUME BlockState, NEW CONSTANT c \in IConsumers, NEW CONSTANT l \in HoldLabels \ {"setempty"}, NEW CONSTANT r, Goes(c, l, r),
         ipc[c] \in HoldLabels \ {"setempty"}, r.ptr = loc[c].ptr, r.x = loc[c].x, Searches(c)',
         SameLinks, UNCHANGED headIndex, UNCHANGED blocks, UNCHANGED pool
  PROVE  BlockInv' /\ BlockTypes' /\ ThreadTypes'
<1>1. c \in IThreads /\ ThreadTypes /\ CountTypes /\ BlockTypes
  BY ConsumerIs DEF BlockState
<1>2. Apart(c) /\ ipc'[c] = l /\ loc'[c] = r /\ ThreadTypes'
  BY <1>1, Gone
<1>3. SamePlaces
  <2> SUFFICES ASSUME NEW CONSTANT p \in IProducers
               PROVE  /\ \A n \in Int : Open(p, n)' <=> Open(p, n)
                      /\ \A n \in Int : Waits(p, n)' => Waits(p, n)
                      /\ OneHolder(p)'
                      /\ headIndex'[p] \in Nat /\ headIndex'[p] >= headIndex[p]
    BY DEF SamePlaces
  <2>2. SameHolders(p)
    BY <1>2, HolderGoesOn
  <2>3. headIndex[p] \in Nat /\ OneHolder(p)
    BY ProducerIs
  <2> QED
    BY <2>2, <2>3, HoldFrame
<1>5. Homes'
  <2>1. ~InHand(c)' /\ ipc'[c] # "unlink"
    BY <1>2 DEF InHand, HoldLabels
  <2>2. UNCHANGED <<load, entry>>
    BY DEF SameLinks
  <2> QED
    BY <1>1, <1>2, <2>1, <2>2, HomesFrame
<1>6. /\ \A p \in IProducers' : Indexed(p)' /\ LiveLinked(p)' /\ Stay(p)' /\ OneHolder(p)'
      /\ \A d \in IConsumers : Searches(d)'
      /\ CountsInBlock'
  BY <1>2, <1>3, ConsumerKeeps
<1>7. BlockInv'
  BY <1>5, <1>6, BlockInvNext
<1>8. BlockTypes'
  BY <1>1, BlockTypesStay DEF SameLinks
<1> QED
  BY <1>2, <1>7, <1>8

LEMMA LooksBlocks ==
  ASSUME BlockState, load' = load, NEW CONSTANT c \in IConsumers, Looks(c)
  PROVE  BlockInv' /\ BlockTypes' /\ ThreadTypes'
<1>1. CountTypes /\ ThreadTypes
  BY DEF BlockState
<1>2. SameLinks /\ UNCHANGED headIndex /\ UNCHANGED blocks /\ UNCHANGED pool /\ ipc[c] \notin Busy
  BY DEF Looks, TryDequeue, SizeTail, SizeHead, LoadTail, LoadOvercommit, LooksEmpty, LooksFull, Claim, Recheck, GiveUp,
         SameLinks, counters, index, Busy, HoldLabels
<1> DEFINE L == SizeLabels \cup {"check", "claim", "recheck", "head", "giveup"}
<1>3. \E l \in L : \E r : Goes(c, l, r)
  <2>1. /\ "sizehead" \in L /\ "loadover" \in L /\ "loadtail" \in L /\ "idle" \in L /\ SizeLabels \subseteq L
        /\ "check" \in L /\ "claim" \in L /\ "recheck" \in L /\ "head" \in L /\ "giveup" \in L
    BY DEF SizeLabels
  <2> HIDE DEF L
  <2>2. CASE TryDequeue(c)
    BY <1>1, <2>1, <2>2, TryDequeueGoes
  <2>3. CASE SizeTail(c)
    BY <1>1, <2>1, <2>3, SizeTailGoes
  <2>4. CASE SizeHead(c)
    BY <1>1, <2>1, <2>4, SizeHeadGoes
  <2>5. CASE LoadTail(c)
    BY <1>1, <2>1, <2>5, LoadTailGoes
  <2>6. CASE LoadOvercommit(c)
    BY <1>1, <2>1, <2>6, LoadOvercommitGoes
  <2>7. CASE LooksEmpty(c)
    <3>1. NextProducer(c)
      BY <2>7 DEF LooksEmpty
    <3> QED
      BY <1>1, <2>1, <3>1, LoopGoes
  <2>8. CASE LooksFull(c)
    BY <1>1, <2>1, <2>8, LooksFullGoes
  <2>9. CASE Claim(c)
    BY <1>1, <2>1, <2>9, ClaimGoes
  <2>10. CASE Recheck(c)
    BY <1>1, <2>1, <2>10, RecheckGoes
  <2>11. CASE GiveUp(c)
    <3>1. NextProducer(c)
      BY <2>11 DEF GiveUp
    <3> QED
      BY <1>1, <2>1, <3>1, LoopGoes
  <2> QED
    BY <2>2, <2>3, <2>4, <2>5, <2>6, <2>7, <2>8, <2>9, <2>10, <2>11 DEF Looks
<1>4. PICK l, r : l \in L /\ Goes(c, l, r)
  BY <1>3
<1>5. l \notin Busy
  BY <1>4 DEF SizeLabels, Busy, HoldLabels
<1> QED
  BY <1>2, <1>4, <1>5, QuietBlocks
-----------------------------------------------------------------------------
(* TakeHead. *)
LEMMA TakeHeadBlocks ==
  ASSUME BlockState, CountInv, load' = load, NEW CONSTANT c \in IConsumers, TakeHead(c)
  PROVE  BlockInv' /\ BlockTypes' /\ ThreadTypes'
<1>1. c \in IThreads /\ ThreadTypes /\ CountTypes /\ BlockTypes
  BY ConsumerIs DEF BlockState
<1>2. PICK r : /\ Goes(c, "lookup", r) /\ r.ptr = loc[c].ptr /\ r.x = headIndex[loc[c].ptr]
  BY <1>1, TakeHeadGoes
<1>3. /\ ipc[c] = "head" /\ SameLinks /\ UNCHANGED blocks /\ UNCHANGED pool
      /\ headIndex' = [headIndex EXCEPT ![loc[c].ptr] = @ + 1]
  BY DEF TakeHead, SameLinks, counters, index
<1>4. PICK q \in IProducers : q = loc[c].ptr
  BY <1>3, ConsumerIs
<1>5. PICK h \in Nat : h = headIndex[q]
  BY ProducerIs
<1>6. Apart(c) /\ ipc'[c] = "lookup" /\ loc'[c] = r /\ ThreadTypes' /\ r.ptr = q /\ r.x = h
  BY <1>1, <1>2, <1>4, <1>5, Gone
<1>7. headIndex'[q] = h + 1 /\ \A p \in IProducers : p # q => headIndex'[p] = headIndex[p]
  BY <1>1, <1>3, <1>4, <1>5 DEF CountTypes, Counts
<1>8. /\ IHolders(q)' = IHolders(q) \cup {c} /\ c \notin IHolders(q)
      /\ \A d \in IHolders(q) : loc'[d] = loc[d] /\ ipc'[d] = ipc[d] /\ d # c
  <2>1. \A d \in IConsumers : d # c => ipc'[d] = ipc[d] /\ loc'[d] = loc[d]
    BY <1>6, SubThreads DEF Apart
  <2> QED
    BY <1>3, <1>4, <1>6, <2>1 DEF IHolders, HoldLabels
<1>9. IHeld(q)' = IHeld(q) \cup {h} /\ ToMove(q)' = ToMove(q) \cup {h}
  BY <1>6, <1>8 DEF IHeld, ToMove
<1>10. \A d \in IHolders(q) : loc[d].x < h /\ loc[d].x \in Nat
  <2> SUFFICES ASSUME NEW CONSTANT d \in IHolders(q) PROVE loc[d].x < h /\ loc[d].x \in Nat
    OBVIOUS
  <2>1. d \in IConsumers /\ ipc[d] \in HoldLabels /\ loc[d].ptr = q
    BY DEF IHolders
  <2>2. Searches(d) /\ loc[d] \in Locals
    BY <2>1, ConsumerIs
  <2> QED
    BY <1>5, <2>1, <2>2 DEF Searches, Locals
<1>11. SamePlaces
  <2> SUFFICES ASSUME NEW CONSTANT p \in IProducers
               PROVE  /\ \A n \in Int : Open(p, n)' <=> Open(p, n)
                      /\ \A n \in Int : Waits(p, n)' => Waits(p, n)
                      /\ OneHolder(p)'
                      /\ headIndex'[p] \in Nat /\ headIndex'[p] >= headIndex[p]
    BY DEF SamePlaces
  <2>1. headIndex[p] \in Nat /\ OneHolder(p)
    BY ProducerIs
  <2>2. CASE p # q
    <3>1. NoHolder(c, p)
      BY <1>4, <1>6, <2>2 DEF NoHolder
    <3>2. SameHolders(p)
      BY <1>6, <1>7, <2>2, <3>1, HoldersApart
    <3> QED
      BY <1>7, <2>1, <2>2, <3>2, HoldFrame
  <2>3. CASE p = q
    <3>1. \A n \in Int : Open(q, n)' <=> Open(q, n)
      BY <1>5, <1>7, <1>9 DEF Open
    <3>2. \A n \in Int : Waits(q, n)' <=> Waits(q, n)
      BY <1>5, <1>7, <1>9 DEF Waits
    <3>3. OneHolder(q)'
      <4>1. \A d, e \in IHolders(q) : loc[d].x = loc[e].x => d = e
        BY <2>1, <2>3 DEF OneHolder
      <4>2. \A d \in IHolders(q) : loc[d].x # h
        BY <1>10
      <4>3. \A d, e \in IHolders(q)' : loc'[d].x = loc'[e].x => d = e
        BY <1>6, <1>8, <4>1, <4>2
      <4> QED
        BY <4>3 DEF OneHolder
    <3> QED
      BY <1>5, <1>7, <2>3, <3>1, <3>2, <3>3
  <2> QED
    BY <2>2, <2>3
<1>12. Searches(c)'
  <2>1. loc'[c].x < headIndex'[loc'[c].ptr]
    BY <1>6, <1>7
  <2> QED
    BY <1>6, <2>1 DEF Searches
<1>13. Homes'
  <2>1. ~InHand(c)' /\ ipc'[c] # "unlink"
    BY <1>6 DEF InHand
  <2>2. UNCHANGED <<load, entry>>
    BY <1>3 DEF SameLinks
  <2> QED
    BY <1>1, <1>3, <1>6, <2>1, <2>2, HomesFrame
<1>14. /\ \A p \in IProducers' : Indexed(p)' /\ LiveLinked(p)' /\ Stay(p)' /\ OneHolder(p)'
       /\ \A d \in IConsumers : Searches(d)'
       /\ CountsInBlock'
  BY <1>3, <1>6, <1>11, <1>12, ConsumerKeeps
<1>15. BlockInv'
  BY <1>13, <1>14, BlockInvNext
<1>16. BlockTypes'
  BY <1>1, <1>3, BlockTypesStay DEF SameLinks
<1> QED
  BY <1>6, <1>15, <1>16

(* get_block_index_entry_for_index. *)
\* Locals that a step sets.
LEMMA OneSet ==
  ASSUME NEW k \in Locals, NEW v \in Nat
  PROVE  /\ LET r == [k EXCEPT !.h = v]
            IN r.ptr = k.ptr /\ r.x = k.x /\ r.e = k.e /\ r.b = k.b /\ r.h = v
         /\ LET r == [k EXCEPT !.e = v]
            IN r.ptr = k.ptr /\ r.x = k.x /\ r.h = k.h /\ r.b = k.b /\ r.e = v
         /\ LET r == [k EXCEPT !.b = v]
            IN r.ptr = k.ptr /\ r.x = k.x /\ r.h = k.h /\ r.e = k.e /\ r.b = v
         /\ LET r == [k EXCEPT !.h = 0, !.e = v]
            IN r.ptr = k.ptr /\ r.x = k.x /\ r.h = 0 /\ r.b = k.b /\ r.e = v /\ r \in Locals
               /\ r.best = k.best /\ r.seen = k.seen /\ r.size = k.size
  BY DEF Locals

LEMMA HolderStep ==
  ASSUME BlockState, NEW CONSTANT c \in IConsumers, ipc[c] \in HoldLabels, load' = load, NEW CONSTANT l \in PopLabels,
         NEW CONSTANT f \in {"x", "h", "e", "over", "b"}, NEW CONSTANT v \in Nat, Know(c, f, v), IGo(c, l)
  PROVE  /\ Goes(c, l, [loc[c] EXCEPT ![f] = v])
         /\ f = "h" => [loc[c] EXCEPT ![f] = v] = [loc[c] EXCEPT !.h = v]
         /\ f = "e" => [loc[c] EXCEPT ![f] = v] = [loc[c] EXCEPT !.e = v]
         /\ f = "b" => [loc[c] EXCEPT ![f] = v] = [loc[c] EXCEPT !.b = v]
         /\ loc[c] \in Locals
<1>1. c \in IThreads /\ c \notin IProducers /\ ThreadTypes /\ CountTypes /\ loc[c] \in Locals
  BY ConsumerIs DEF BlockState
<1>2. ipc[c] # "idle"
  BY DEF HoldLabels
<1>3. Goes(c, l, [loc[c] EXCEPT ![f] = v])
  BY <1>1, <1>2, KnowGoes, ZenonT(60)
<1> QED
  BY <1>1, <1>3

LEMMA LookHeaderBlocks ==
  ASSUME BlockState, load' = load, NEW CONSTANT c \in IConsumers, LookHeader(c)
  PROVE  (BlockInv' /\ BlockTypes' /\ ThreadTypes') /\ \E r : Goes(c, "looktail", r)
<1>1. /\ ipc[c] = "lookup" /\ SameLinks /\ UNCHANGED blocks /\ UNCHANGED pool /\ UNCHANGED headIndex
      /\ Know(c, "h", Len(header[loc[c].ptr])) /\ IGo(c, "looktail")
  BY DEF LookHeader, SameLinks, counters, index
<1>2. "lookup" \in HoldLabels \ {"setempty"} /\ "looktail" \in HoldLabels \ {"setempty"} /\ "looktail" \in PopLabels
  BY DEF HoldLabels, PopLabels, Busy
<1>3. PICK p \in IProducers, x \in Nat, k \in Nat :
           /\ p = loc[c].ptr /\ x = loc[c].x /\ k = x \div BLOCK_SIZE /\ x < headIndex[p]
           /\ k \in 0 .. Filled(p) /\ Linking(p, k)
  BY <1>1, <1>2, HolderLives
<1>4. Indexed(p) /\ CountTypes /\ BlockTypes /\ ThreadTypes
  BY ProducerIs DEF BlockState
<1>5. PICK v \in Nat : v = Len(header[p]) /\ v > 0
  <2>1. header[p] \in Seq(Headers) /\ header[p] # <<>>
    BY <1>4 DEF BlockTypes, Indexed, RingTypes
  <2> QED
    BY <2>1
<1>6. PICK r : Goes(c, "looktail", r) /\ r = [loc[c] EXCEPT !.h = v] /\ loc[c] \in Locals
  <2>1. Know(c, "h", v)
    BY <1>1, <1>3, <1>5
  <2>2. PICK r : r = [loc[c] EXCEPT !["h"] = v]
    OBVIOUS
  <2> QED
    BY <1>1, <1>2, <2>1, <2>2, HolderStep
<1>7. r.ptr = p /\ r.x = x /\ r.h = v
  BY <1>3, <1>6, OneSet, ZenonT(60)
<1>8. Apart(c) /\ ipc'[c] = "looktail" /\ loc'[c] = r
  BY <1>4, <1>6, Gone, ConsumerIs
<1>9. PICK h, t : h = BlockIndex(p) /\ t = BlockIndex(p).tail /\ h = header[p][v]
  BY <1>5 DEF BlockIndex
<1>10. Finds(p, k, h, t)
  <2>1. k <= Top(p)
    BY <1>3, <1>4, NumbersAre
  <2> QED
    BY <1>3, <1>4, <1>9, <2>1, CurrentFinds
<1>11. Finds(p, k, h, t)'
  BY <1>1, <1>8, <1>10, ConsumerFrame, IndexFrame
<1>12. header' = header /\ headIndex' = headIndex
  BY <1>1 DEF SameLinks
<1>13. Searches(c)'
  <2>1. loc'[c].x < headIndex'[loc'[c].ptr]
    BY <1>3, <1>7, <1>8, <1>12
  <2>2. loc'[c].h \in 1 .. Len(header'[loc'[c].ptr])
    BY <1>5, <1>7, <1>8, <1>12
  <2>3. Finds(loc[c].ptr, loc[c].x \div BLOCK_SIZE, header[loc[c].ptr][loc[c].h], header[loc[c].ptr][loc[c].h].tail)'
    BY <1>3, <1>7, <1>8, <1>9, <1>11, <1>12
  <2> QED
    BY <1>8, <2>1, <2>2, <2>3 DEF Searches
<1> QED
  BY <1>1, <1>2, <1>3, <1>6, <1>7, <1>13, HolderBlocks

LEMMA LookTailBlocks ==
  ASSUME BlockState, load' = load, NEW CONSTANT c \in IConsumers, LookTail(c)
  PROVE  (BlockInv' /\ BlockTypes' /\ ThreadTypes') /\ \E r : Goes(c, "lookkey", r)
<1>1. /\ ipc[c] = "looktail" /\ SameLinks /\ UNCHANGED blocks /\ UNCHANGED pool /\ UNCHANGED headIndex
      /\ Know(c, "e", header[loc[c].ptr][loc[c].h].tail) /\ IGo(c, "lookkey")
  BY DEF LookTail, SameLinks, counters, index
<1>2. "looktail" \in HoldLabels \ {"setempty"} /\ "lookkey" \in HoldLabels \ {"setempty"} /\ "lookkey" \in PopLabels
  BY DEF HoldLabels, PopLabels, Busy
<1>3. PICK p \in IProducers, x \in Nat, k \in Nat :
           /\ p = loc[c].ptr /\ x = loc[c].x /\ k = x \div BLOCK_SIZE /\ x < headIndex[p]
  BY <1>1, <1>2, HolderLives
<1>4. CountTypes /\ BlockTypes /\ ThreadTypes
  BY DEF BlockState
<1>9. PICK h, t, i : h = header[p][i] /\ t = header[p][i].tail /\ i = loc[c].h
  OBVIOUS
<1>10. Finds(p, k, h, t) /\ i \in 1 .. Len(header[p])
  BY <1>1, <1>3, <1>9, ConsumerIs DEF Searches
<1>5. t \in Nat
  BY <1>10 DEF Finds
<1>6. PICK r : Goes(c, "lookkey", r) /\ r = [loc[c] EXCEPT !.e = t] /\ loc[c] \in Locals
  <2>1. Know(c, "e", t)
    BY <1>1, <1>3, <1>9
  <2>2. PICK r : r = [loc[c] EXCEPT !["e"] = t]
    OBVIOUS
  <2> QED
    BY <1>1, <1>2, <1>5, <2>1, <2>2, HolderStep
<1>7. r.ptr = p /\ r.x = x /\ r.h = i /\ r.e = t
  BY <1>3, <1>5, <1>6, <1>9, OneSet, ZenonT(60)
<1>8. Apart(c) /\ ipc'[c] = "lookkey" /\ loc'[c] = r
  BY <1>4, <1>6, Gone, ConsumerIs
<1>11. Finds(p, k, h, t)'
  BY <1>1, <1>8, <1>10, ConsumerFrame, IndexFrame
<1>12. header' = header /\ headIndex' = headIndex
  BY <1>1 DEF SameLinks
<1>13. Searches(c)'
  <2>1. loc'[c].x < headIndex'[loc'[c].ptr]
    BY <1>3, <1>7, <1>8, <1>12
  <2>2. loc'[c].h \in 1 .. Len(header'[loc'[c].ptr])
    BY <1>7, <1>8, <1>10, <1>12
  <2>3. Finds(loc[c].ptr, loc[c].x \div BLOCK_SIZE, header[loc[c].ptr][loc[c].h], loc[c].e)'
    BY <1>3, <1>7, <1>8, <1>9, <1>11, <1>12
  <2> QED
    BY <1>8, <2>1, <2>2, <2>3 DEF Searches
<1> QED
  BY <1>1, <1>2, <1>3, <1>6, <1>7, <1>13, HolderBlocks

\* The place that the key leads to.
LEMMA OffsetFinds ==
  ASSUME NEW m \in Nat, m > 0, NEW h, DOMAIN h.slot = 0 .. (m - 1), NEW e \in 0 .. (m - 1), NEW j \in 0 .. (m - 1),
         NEW x \in Nat, NEW k \in Nat, k = x \div BLOCK_SIZE, NEW key, key = (k + j) * BLOCK_SIZE
  PROVE  h.slot[(e + (((x - (x % BLOCK_SIZE)) - key) \div BLOCK_SIZE)) % IndexCapacity(h)] = Slot(h, e, j)
<1>1. PICK d \in Int, i \in 0 .. (BLOCK_SIZE - 1) :
        d = x \div BLOCK_SIZE /\ i = x % BLOCK_SIZE /\ x = d * BLOCK_SIZE + i
  <2>1. x \in Int
    OBVIOUS
  <2> QED
    BY <2>1, BlockDivision
<1>2. BLOCK_SIZE \in Nat /\ BLOCK_SIZE > 1
  BY BlockSizeIs
<1>3. PICK y \in Int, z \in Int : y = k * BLOCK_SIZE /\ z = j * BLOCK_SIZE /\ (k + j) * BLOCK_SIZE = y + z /\ (-j) * BLOCK_SIZE = -z
  BY <1>2
<1>4. x - (x % BLOCK_SIZE) = y
  <2>1. x = y + i
    BY <1>1, <1>3
  <2> QED
    BY <1>1, <1>2, <1>3, <2>1
<1>5. (x - (x % BLOCK_SIZE)) - key = (-j) * BLOCK_SIZE + 0
  <2>1. y - (y + z) = -z + 0
    BY <1>3
  <2> QED
    BY <1>3, <1>4, <2>1
<1>6. ((x - (x % BLOCK_SIZE)) - key) \div BLOCK_SIZE = -j
  <2>1. PICK a \in Int : a = (x - (x % BLOCK_SIZE)) - key
    BY <1>3, <1>5
  <2>2. a = (-j) * BLOCK_SIZE + 0 /\ -j \in Int /\ 0 \in 0 .. (BLOCK_SIZE - 1)
    BY <1>2, <1>5, <2>1
  <2>3. a \div BLOCK_SIZE = -j
    BY <2>2, BlockUnique
  <2> QED
    BY <2>1, <2>3
<1>7. IndexCapacity(h) = m
  BY CapacityIs
<1>8. (e - j) % m = Ago(e, j, m)
  BY AgoIs
<1>9. e + (-j) = e - j
  OBVIOUS
<1> QED
  BY <1>6, <1>7, <1>8, <1>9 DEF Slot

LEMMA LookKeyBlocks ==
  ASSUME BlockState, load' = load, NEW CONSTANT c \in IConsumers, LookKey(c)
  PROVE  (BlockInv' /\ BlockTypes' /\ ThreadTypes') /\ \E r : Goes(c, "loadblock", r)
<1>1. /\ ipc[c] = "lookkey" /\ SameLinks /\ UNCHANGED blocks /\ UNCHANGED pool /\ UNCHANGED headIndex
      /\ IGo(c, "loadblock")
  BY DEF LookKey, SameLinks, counters, index
<1>2. "lookkey" \in HoldLabels \ {"setempty"} /\ "loadblock" \in HoldLabels \ {"setempty"} /\ "loadblock" \in PopLabels /\ "lookkey" # "idle"
  BY DEF HoldLabels, PopLabels, Busy
<1>3. PICK p \in IProducers, x \in Nat, k \in Nat :
           /\ p = loc[c].ptr /\ x = loc[c].x /\ k = x \div BLOCK_SIZE /\ x < headIndex[p]
           /\ k \in 0 .. Filled(p) /\ Linking(p, k)
  BY <1>1, <1>2, HolderLives
<1>4. CountTypes /\ BlockTypes /\ ThreadTypes /\ c \in IThreads /\ c \notin IProducers /\ loc[c] \in Locals
  BY ConsumerIs DEF BlockState
<1>9. PICK h, e, i : h = header[p][i] /\ e = loc[c].e /\ i = loc[c].h
  OBVIOUS
<1>10. Finds(p, k, h, e) /\ i \in 1 .. Len(header[p])
  BY <1>1, <1>3, <1>9, ConsumerIs DEF Searches
<1>5. PICK m \in Nat : m > 0 /\ DOMAIN h.slot = 0 .. (m - 1) /\ IndexCapacity(h) = m
  <2>1. header[p] \in Seq(Headers)
    BY <1>4 DEF BlockTypes
  <2>2. h \in Headers
    BY <1>9, <1>10, <2>1
  <2>3. PICK m \in Nat \ {0} : h \in [slot : [0 .. (m - 1) -> 1 .. m], tail : 0 .. (m - 1)]
    BY <2>2 DEF Headers
  <2>4. DOMAIN h.slot = 0 .. (m - 1)
    BY <2>3
  <2> QED
    BY <2>3, <2>4, CapacityIs
<1>14. PICK j, key : j \in 0 .. (m - 1) /\ key = entry[p][h.slot[e]].key /\ key = (k + j) * BLOCK_SIZE /\ Slot(h, e, j) = EntryOf(p, k)
  BY <1>5, <1>10 DEF Finds
<1>15. e \in 0 .. (m - 1)
  BY <1>5, <1>10 DEF Finds
<1>16. h.slot[(e + (((x - (x % BLOCK_SIZE)) - key) \div BLOCK_SIZE)) % IndexCapacity(h)] = Slot(h, e, j)
  BY <1>3, <1>5, <1>14, <1>15, OffsetFinds
<1>17. PICK v \in Nat : v = EntryOf(p, k)
  <2>1. PICK n, t, s : RingIs(p, n, t, s)
    BY <1>4, ProducerIs, RingOf
  <2>2. k <= Filled(p)
    BY <1>3
  <2>3. EntryOf(p, k) \in 1 .. n
    BY <1>3, <2>1, <2>2, LinkedIs
  <2> QED
    BY <2>3
<1>18. loc' = [loc EXCEPT ![c].h = 0, ![c].e = v]
  <2>1. loc' = [loc EXCEPT ![c].h = 0, ![c].e = h.slot[(e + (((x - (x % BLOCK_SIZE)) - key) \div BLOCK_SIZE)) % IndexCapacity(h)]]
    BY <1>3, <1>9, <1>14 DEF LookKey
  <2> QED
    BY <1>14, <1>16, <1>17, <2>1
<1>6. PICK r : r = [loc[c] EXCEPT !.h = 0, !.e = v]
  OBVIOUS
<1>7. r.ptr = p /\ r.x = x /\ r.e = v /\ r \in Locals /\ r.best = loc[c].best /\ r.seen = loc[c].seen /\ r.size = loc[c].size
  BY <1>3, <1>4, <1>6, OneSet, ZenonT(60)
<1>19. Goes(c, "loadblock", r)
  <2>1. loc' = [loc EXCEPT ![c] = r]
    BY <1>4, <1>6, <1>18 DEF ThreadTypes
  <2>2. ipc' = [ipc EXCEPT ![c] = "loadblock"]
    BY <1>1 DEF IGo, Set
  <2>3. loc[c].seen > 0 \/ loc[c].size > 0 => loc[c].best \in IProducers
    BY <1>1, <1>2, <1>4 DEF ThreadTypes
  <2> QED
    BY <1>2, <1>4, <1>7, <2>1, <2>2, <2>3 DEF Goes
<1>8. Apart(c) /\ ipc'[c] = "loadblock" /\ loc'[c] = r
  BY <1>4, <1>19, Gone
<1>12. headIndex' = headIndex
  BY <1>1
<1>11. EntryOf(p, k)' = EntryOf(p, k)
  BY <1>1, <1>8, ConsumerFrame, IndexFrame
<1>13. Searches(c)'
  <2>1. loc'[c].x < headIndex'[loc'[c].ptr]
    BY <1>3, <1>7, <1>8, <1>12
  <2>2. EntryOf(loc[c].ptr, loc[c].x \div BLOCK_SIZE)' = EntryOf(p, k)'
    BY <1>3, <1>7, <1>8
  <2>3. loc'[c].e = EntryOf(loc[c].ptr, loc[c].x \div BLOCK_SIZE)'
    BY <1>7, <1>8, <1>11, <1>17, <2>2
  <2> QED
    BY <1>8, <2>1, <2>3 DEF Searches
<1> QED
  BY <1>1, <1>2, <1>3, <1>7, <1>13, <1>19, HolderBlocks

LEMMA LoadBlockBlocks ==
  ASSUME BlockState, load' = load, NEW CONSTANT c \in IConsumers, LoadBlock(c)
  PROVE  (BlockInv' /\ BlockTypes' /\ ThreadTypes') /\ \E r : Goes(c, "move", r)
<1>1. /\ ipc[c] = "loadblock" /\ SameLinks /\ UNCHANGED blocks /\ UNCHANGED pool /\ UNCHANGED headIndex
      /\ Know(c, "b", entry[loc[c].ptr][loc[c].e].value) /\ IGo(c, "move")
  BY DEF LoadBlock, SameLinks, counters, index
<1>2. "loadblock" \in HoldLabels \ {"setempty"} /\ "move" \in HoldLabels \ {"setempty"} /\ "move" \in PopLabels
  BY DEF HoldLabels, PopLabels, Busy
<1>3. PICK p \in IProducers, x \in Nat, k \in Nat :
           /\ p = loc[c].ptr /\ x = loc[c].x /\ k = x \div BLOCK_SIZE /\ x < headIndex[p]
           /\ k \in 0 .. Filled(p) /\ Linking(p, k)
  BY <1>1, <1>2, HolderLives
<1>4. CountTypes /\ BlockTypes /\ ThreadTypes
  BY DEF BlockState
<1>5. PICK n, t, s : RingIs(p, n, t, s)
  BY <1>4, ProducerIs, RingOf
<1>6. PICK e, v \in Nat : /\ e = loc[c].e /\ e = EntryOf(p, k) /\ e \in 1 .. Len(entry[p])
                           /\ v = entry[p][e].value /\ v # None
  <2>1. loc[c].e = EntryOf(p, k)
    BY <1>1, <1>3, ConsumerIs DEF Searches
  <2>2. k <= Filled(p)
    BY <1>3
  <2>3. EntryOf(p, k) \in 1 .. n /\ n = Len(entry[p]) /\ BlockOf(p, k) \in MemBlocks /\ BlockOf(p, k) # None
    BY <1>3, <1>5, <2>2, LinkedIs
  <2>4. BlockOf(p, k) \in Nat
    BY <2>3, IQAssumption DEF MemBlocks
  <2> QED
    BY <2>1, <2>3, <2>4 DEF BlockOf
<1>7. PICK r : Goes(c, "move", r) /\ r = [loc[c] EXCEPT !.b = v] /\ loc[c] \in Locals
  <2>1. Know(c, "b", v)
    BY <1>1, <1>3, <1>6
  <2>2. PICK r : r = [loc[c] EXCEPT !["b"] = v]
    OBVIOUS
  <2> QED
    BY <1>1, <1>2, <2>1, <2>2, HolderStep
<1>8. r.ptr = p /\ r.x = x /\ r.e = e /\ r.b = v
  <2>1. r.ptr = loc[c].ptr /\ r.x = loc[c].x /\ r.e = loc[c].e /\ r.b = v
    BY <1>7, OneSet
  <2> QED
    BY <1>3, <1>6, <2>1
<1>9. Apart(c) /\ ipc'[c] = "move" /\ loc'[c] = r
  BY <1>4, <1>7, Gone, ConsumerIs
<1>11. EntryOf(p, k)' = EntryOf(p, k)
  BY <1>1, <1>9, ConsumerFrame, IndexFrame
<1>12. entry' = entry /\ headIndex' = headIndex
  BY <1>1 DEF SameLinks
<1>13. Searches(c)'
  <2>1. loc'[c].x < headIndex'[loc'[c].ptr]
    BY <1>3, <1>8, <1>9, <1>12
  <2>2. EntryOf(loc[c].ptr, loc[c].x \div BLOCK_SIZE)' = EntryOf(p, k)'
    BY <1>3, <1>8, <1>9
  <2>3. loc'[c].e = EntryOf(loc[c].ptr, loc[c].x \div BLOCK_SIZE)'
    BY <1>6, <1>8, <1>9, <1>11, <2>2
  <2>4. loc'[c].e \in 1 .. Len(entry'[loc'[c].ptr]) /\ loc'[c].b = entry'[loc'[c].ptr][loc'[c].e].value /\ loc'[c].b # None
    BY <1>6, <1>8, <1>9, <1>12
  <2> QED
    BY <1>9, <2>1, <2>3, <2>4 DEF Searches
<1> QED
  BY <1>1, <1>2, <1>3, <1>7, <1>8, <1>13, HolderBlocks

\* Two linked blocks are two blocks.
LEMMA BlocksApart ==
  ASSUME BlockState, NEW CONSTANT p \in IProducers, NEW CONSTANT k \in Nat, k <= Filled(p), Linking(p, k),
         NEW CONSTANT q \in IProducers, NEW CONSTANT m \in Nat, m <= Filled(q), Linking(q, m), BlockOf(p, k) = BlockOf(q, m)
  PROVE  p = q /\ k = m
<1>1. BlockTypes /\ CountTypes /\ LinksApart
  BY DEF BlockState, BlockInv, Homes
<1>2. PICK n, t, s : RingIs(p, n, t, s)
  BY <1>1, ProducerIs, RingOf
<1>3. PICK o, u, v : RingIs(q, o, u, v)
  BY <1>1, ProducerIs, RingOf
<1>4. PICK e : e = EntryOf(p, k) /\ e \in 1 .. Len(entry[p]) /\ entry[p][e].key = k * BLOCK_SIZE /\ BlockOf(p, k) = entry[p][e].value /\ BlockOf(p, k) # None
  BY <1>2, LinkedIs
<1>8. /\ EntryOf(q, m) \in 1 .. o /\ o = Len(entry[q])
      /\ entry[q][EntryOf(q, m)].key = m * BLOCK_SIZE /\ BlockOf(q, m) = entry[q][EntryOf(q, m)].value
  BY <1>3, LinkedIs
<1>5. PICK f : f = EntryOf(q, m) /\ f \in 1 .. Len(entry[q]) /\ entry[q][f].key = m * BLOCK_SIZE /\ BlockOf(q, m) = entry[q][f].value
  BY <1>8
<1>6. p = q /\ e = f
  <2>1. entry[p][e].value # None /\ entry[p][e].value = entry[q][f].value
    BY <1>4, <1>5
  <2>2. e \in 1 .. Len(entry[p]) /\ f \in 1 .. Len(entry[q])
    BY <1>4, <1>5
  <2> QED
    BY <1>1, <2>1, <2>2 DEF LinksApart
<1>7. k * BLOCK_SIZE = m * BLOCK_SIZE
  BY <1>4, <1>5, <1>6
<1> QED
  BY <1>6, <1>7, BlockMultiples

\* The block of the element that a consumer has.
LEMMA HeldBlock ==
  ASSUME BlockState, NEW CONSTANT c \in IConsumers, ipc[c] \in {"move", "setempty"}
  PROVE  \E p \in IProducers, x \in Nat, k \in Nat, e \in Nat, b \in MemBlocks :
           /\ p = loc[c].ptr /\ x = loc[c].x /\ k = x \div BLOCK_SIZE /\ e = loc[c].e /\ b = loc[c].b
           /\ x < headIndex[p] /\ c \in IHolders(p) /\ k \in 0 .. Filled(p) /\ k <= Filled(p) /\ Live(p, k)
           /\ x \in Positions(k) /\ Open(p, x) /\ Linking(p, k)
           /\ e = EntryOf(p, k) /\ b = BlockOf(p, k) /\ x < tailIndex[p]
           /\ e \in 1 .. Len(entry[p]) /\ b = entry[p][e].value /\ b # None
<1>1. PICK p \in IProducers, x \in Nat, k \in Nat :
           /\ p = loc[c].ptr /\ x = loc[c].x /\ k = x \div BLOCK_SIZE /\ x < headIndex[p] /\ x < tailIndex[p]
           /\ c \in IHolders(p) /\ k \in 0 .. Filled(p) /\ Live(p, k) /\ x \in Positions(k) /\ Open(p, x) /\ Linking(p, k)
  BY HolderLives DEF HoldLabels
<1>2. BlockTypes /\ CountTypes
  BY DEF BlockState
<1>3. PICK n, t, s : RingIs(p, n, t, s)
  BY <1>2, ProducerIs, RingOf
<1>4. k <= Filled(p)
  BY <1>1
<1>5. /\ EntryOf(p, k) \in 1 .. Len(entry[p]) /\ BlockOf(p, k) \in MemBlocks /\ BlockOf(p, k) # None
      /\ BlockOf(p, k) = entry[p][EntryOf(p, k)].value
  BY <1>1, <1>3, <1>4, LinkedIs
<1>6. PICK e, b : e = loc[c].e /\ b = loc[c].b
  OBVIOUS
<1>7. e = EntryOf(p, k) /\ b = entry[p][e].value
  BY <1>1, <1>6, ConsumerIs DEF Searches
<1>8. b \in MemBlocks /\ b = BlockOf(p, k) /\ b # None /\ e \in 1 .. Len(entry[p])
  BY <1>5, <1>7
<1>9. e \in Nat
  <2>1. Len(entry[p]) \in Nat
    BY <1>3 DEF RingIs
  <2> QED
    BY <1>8, <2>1
<1>10. /\ p = loc[c].ptr /\ x = loc[c].x /\ k = x \div BLOCK_SIZE /\ e = loc[c].e /\ b = loc[c].b
       /\ x < headIndex[p] /\ c \in IHolders(p) /\ k \in 0 .. Filled(p) /\ k <= Filled(p) /\ Live(p, k)
       /\ x \in Positions(k) /\ Open(p, x) /\ Linking(p, k)
       /\ e = EntryOf(p, k) /\ b = BlockOf(p, k) /\ x < tailIndex[p]
       /\ e \in 1 .. Len(entry[p]) /\ b = entry[p][e].value /\ b # None
  BY <1>1, <1>4, <1>6, <1>7, <1>8
<1> QED
  BY <1>8, <1>9, <1>10

LEMMA HomesKept ==
  ASSUME BlockState, NEW CONSTANT t \in IThreads, Apart(t), UNCHANGED <<load, entry>>, UNCHANGED pool,
         InHand(t)' => InHand(t) /\ loc'[t].b = loc[t].b, UnlinksApart'
  PROVE  Homes'
<1>1. IProducers' = IProducers /\ IThreads' = IThreads /\ IConsumers \subseteq IThreads
  BY SubThreads DEF IProducers, IThreads, NProducers
<1>2. Homes /\ entry' = entry /\ InUse' = InUse /\ freeList' = freeList
  BY DEF BlockState, BlockInv, pool, InUse
<1>3. \A u \in IThreads : InHand(u)' => InHand(u) /\ loc'[u].b = loc[u].b
  BY DEF Apart, InHand
<1>5. LinksApart' /\ LinksHold'
  BY <1>1, <1>2 DEF Homes, LinksApart, LinksHold
<1>6. HandsApart'
  BY <1>1, <1>2, <1>3 DEF Homes, HandsApart
<1>7. HandsHold'
  BY <1>1, <1>2, <1>3 DEF Homes, HandsHold
<1> QED
  BY <1>2, <1>5, <1>6, <1>7 DEF Homes

LEMMA MoveElementBlocks ==
  ASSUME BlockState, load' = load, NEW CONSTANT c \in IConsumers, MoveElement(c)
  PROVE  (BlockInv' /\ BlockTypes' /\ ThreadTypes') /\ \E r : Goes(c, "setempty", r)
<1>1. /\ ipc[c] = "move" /\ SameLinks /\ UNCHANGED elementsCompletelyDequeued /\ UNCHANGED pool /\ UNCHANGED headIndex
      /\ loc' = loc /\ IGo(c, "setempty")
      /\ elements' = [elements EXCEPT ![loc[c].b][loc[c].x % BLOCK_SIZE] = None]
  BY DEF MoveElement, SameLinks, counters, index
<1>2. "setempty" \in PopLabels /\ ipc[c] # "idle" /\ "move" \in HoldLabels /\ "setempty" \in HoldLabels
  BY <1>1 DEF HoldLabels, PopLabels, Busy
<1>3. CountTypes /\ BlockTypes /\ ThreadTypes /\ c \in IThreads /\ c \notin IProducers
  BY ConsumerIs DEF BlockState
<1>4. Goes(c, "setempty", loc[c])
  BY <1>1, <1>2, <1>3, StaysGoes
<1>5. Apart(c) /\ ipc'[c] = "setempty" /\ loc'[c] = loc[c] /\ ThreadTypes'
  BY <1>3, <1>4, Gone
<1>6. PICK p \in IProducers, x \in Nat, k \in Nat, e \in Nat, b \in MemBlocks :
           /\ p = loc[c].ptr /\ x = loc[c].x /\ k = x \div BLOCK_SIZE /\ e = loc[c].e /\ b = loc[c].b
           /\ x < headIndex[p] /\ c \in IHolders(p) /\ k <= Filled(p)
           /\ Linking(p, k)
           /\ e = EntryOf(p, k) /\ b = BlockOf(p, k)
           /\ e \in 1 .. Len(entry[p]) /\ b = entry[p][e].value /\ b # None
  BY <1>1, HeldBlock
<1>7. IProducers' = IProducers /\ \A q \in IProducers : SameIndex(q)
  BY <1>1, <1>5, ConsumerFrame
<1>8. /\ \A d \in IConsumers : (ipc'[d] \in HoldLabels <=> ipc[d] \in HoldLabels) /\ loc'[d] = loc[d]
      /\ \A d \in IConsumers : d # c => ipc'[d] = ipc[d]
  BY <1>1, <1>2, <1>5, SubThreads DEF Apart
<1>9. ASSUME NEW CONSTANT q \in IProducers
      PROVE  /\ \A n \in Int : Open(q, n)' <=> Open(q, n)
             /\ \A n \in Int : Waits(q, n)' => Waits(q, n) /\ ~(q = p /\ n = x)
             /\ OneHolder(q)'
  <2>1. IHolders(q)' = IHolders(q) /\ headIndex' = headIndex
    BY <1>1, <1>8 DEF IHolders
  <2>2. \A n \in Int : Open(q, n)' <=> Open(q, n)
    BY <1>1, <2>1 DEF Open, IHeld
  <2>3. OneHolder(q)'
    BY <1>1, <2>1, ProducerIs DEF OneHolder
  <2>4. ToMove(q)' \subseteq ToMove(q)
    BY <1>1, <1>2, <1>5, <1>8, <2>1 DEF ToMove, IHolders
  <2>5. q = p => x \notin ToMove(q)'
    <3>1. ASSUME q = p, NEW d \in IHolders(q)', ipc'[d] # "setempty", loc'[d].x = x PROVE FALSE
      <4>1. d \in IHolders(q) /\ loc[d].x = loc[c].x /\ c \in IHolders(q)
        BY <1>1, <1>6, <2>1, <3>1
      <4>2. d = c
        BY <4>1, ProducerIs DEF OneHolder
      <4> QED
        BY <1>5, <3>1, <4>2
    <3> QED
      BY <3>1 DEF ToMove
  <2>6. headIndex[p] \in Nat
    BY ProducerIs
  <2> QED
    BY <1>6, <2>1, <2>2, <2>3, <2>4, <2>5, <2>6 DEF Waits
<1>10. PICK i \in 0 .. (BLOCK_SIZE - 1) : i = x % BLOCK_SIZE /\ x = k * BLOCK_SIZE + i
  <2>1. x \in Int
    OBVIOUS
  <2> QED
    BY <1>6, <2>1, BlockDivision
<1>11. /\ \A a \in MemBlocks : \A j : (a # b \/ j # i) => elements'[a][j] = elements[a][j]
       /\ elements' \in [MemBlocks -> [0 .. (BLOCK_SIZE - 1) -> (Nat \X Nat) \cup {None}]]
  <2>1. elements' = [elements EXCEPT ![b] = [elements[b] EXCEPT ![i] = None]]
    BY <1>1, <1>6, <1>10
  <2>2. elements \in [MemBlocks -> [0 .. (BLOCK_SIZE - 1) -> (Nat \X Nat) \cup {None}]]
    BY <1>3 DEF BlockTypes
  <2>3. /\ [elements[b] EXCEPT ![i] = None] \in [0 .. (BLOCK_SIZE - 1) -> (Nat \X Nat) \cup {None}]
        /\ \A j : j # i => [elements[b] EXCEPT ![i] = None][j] = elements[b][j]
    BY <1>10, <2>2
  <2> QED
    BY <2>1, <2>2, <2>3
<1>12. ASSUME NEW CONSTANT q \in IProducers
       PROVE  /\ Indexed(q)' /\ LiveLinked(q)' /\ Stay(q)' /\ OneHolder(q)'
              /\ \A m : Live(q, m)' <=> Live(q, m)
  <2>1. Indexed(q) /\ LiveLinked(q) /\ Stay(q) /\ SameIndex(q)
    BY <1>7, ProducerIs
  <2>2. /\ Filled(q)' = Filled(q) /\ \A m : BlockOf(q, m)' = BlockOf(q, m)
        /\ \A m : Linking(q, m) => Linking(q, m)'
        /\ Indexed(q)'
    BY <2>1, IndexFrame
  <2>4. \A m \in 0 .. Filled(q) : Live(q, m) => Linking(q, m)
    BY <2>1 DEF LiveLinked
  <2>5. \A m \in 0 .. Filled(q) : Live(q, m) =>
           /\ Linking(q, m)' /\ BlockOf(q, m)' = BlockOf(q, m)
           /\ elementsCompletelyDequeued'[BlockOf(q, m)] = elementsCompletelyDequeued[BlockOf(q, m)]
    BY <1>1, <2>2, <2>4
  <2>6. LiveLinked(q)' /\ \A m : Live(q, m)' <=> Live(q, m)
    BY <1>9, <2>1, <2>2, <2>5, LiveLinkedKept
  <2>7. ASSUME NEW CONSTANT n \in 0 .. (tailIndex[q] - 1), Waits(q, n)'
        PROVE  /\ Waits(q, n)
               /\ elements'[BlockOf(q, n \div BLOCK_SIZE)'][n % BLOCK_SIZE] = elements[BlockOf(q, n \div BLOCK_SIZE)][n % BLOCK_SIZE]
    <3>1. n \in Nat /\ n < tailIndex[q] /\ n \in Int
      BY ProducerIs
    <3>2. Waits(q, n) /\ ~(q = p /\ n = x)
      BY <1>9, <2>7, <3>1
    <3>3. Open(q, n)
      BY <3>2 DEF Waits, Open, ToMove, IHeld
    <3>4. PICK m, j : m = n \div BLOCK_SIZE /\ j = n % BLOCK_SIZE /\ n = m * BLOCK_SIZE + j
      BY <3>1, BlockDivision
    <3>5. m \in 0 .. Filled(q) /\ Linking(q, m)
      BY <2>4, <3>1, <3>3, <3>4, OpenLives
    <3>6. m \in Nat /\ m <= Filled(q)
      BY <3>5
    <3>7. PICK a : a = BlockOf(q, m)
      OBVIOUS
    <3>8. a \in MemBlocks
      <4>1. PICK o, t, s : RingIs(q, o, t, s)
        BY <1>3, ProducerIs, RingOf
      <4> QED
        BY <3>5, <3>6, <3>7, <4>1, LinkedIs
    <3>9. a # b \/ j # i
      <4>1. SUFFICES ASSUME a = b, j = i PROVE FALSE
        OBVIOUS
      <4>2. p = q /\ k = m
        BY <1>6, <3>5, <3>6, <3>7, <4>1, BlocksApart
      <4> QED
        BY <1>10, <3>2, <3>4, <4>1, <4>2
    <3>10. elements'[a][j] = elements[a][j]
      BY <1>11, <3>8, <3>9
    <3>11. BlockOf(q, n \div BLOCK_SIZE)' = a
      BY <2>2, <3>4, <3>7
    <3> QED
      BY <3>2, <3>4, <3>7, <3>10, <3>11
  <2>8. Stay(q)'
    BY <1>1, <2>1, <2>7, StayKept DEF SameLinks
  <2> QED
    BY <1>9, <2>2, <2>6, <2>8
<1>13. ASSUME NEW CONSTANT d \in IConsumers PROVE Searches(d)'
  <2>1. CASE d # c
    <3>1. \A q \in IProducers : headIndex'[q] \in Nat /\ headIndex'[q] >= headIndex[q]
      BY <1>1, ProducerIs
    <3>2. \A q \in IProducers : \A m : Live(q, m)' => Live(q, m)
      BY <1>12
    <3> QED
      BY <1>1, <1>5, <2>1, <3>1, <3>2, OthersSearch
  <2>2. CASE d = c
    <3>1. EntryOf(p, k)' = EntryOf(p, k)
      BY <1>7, IndexFrame
    <3>2. EntryOf(loc[c].ptr, loc[c].x \div BLOCK_SIZE)' = EntryOf(p, k)'
      BY <1>1, <1>6
    <3>3. loc'[c].e = EntryOf(loc[c].ptr, loc[c].x \div BLOCK_SIZE)'
      BY <1>5, <1>6, <3>1, <3>2
    <3>4. loc'[c].x < headIndex'[loc'[c].ptr]
      BY <1>1, <1>6
    <3>5. loc'[c].e \in 1 .. Len(entry'[loc'[c].ptr]) /\ loc'[c].b = entry'[loc'[c].ptr][loc'[c].e].value /\ loc'[c].b # None
      BY <1>1, <1>6 DEF SameLinks
    <3> QED
      BY <1>5, <2>2, <3>3, <3>4, <3>5 DEF Searches
  <2> QED
    BY <2>1, <2>2
<1>14. CountsInBlock'
  BY <1>1 DEF CountsInBlock, BlockState, BlockInv
<1>15. Homes'
  <2>1. ~InHand(c)' /\ ipc'[c] # "unlink"
    BY <1>5 DEF InHand
  <2>2. UNCHANGED <<load, entry>>
    BY <1>1 DEF SameLinks
  <2> QED
    BY <1>1, <1>3, <1>5, <2>1, <2>2, HomesFrame
<1>16. BlockInv'
  BY <1>7, <1>12, <1>13, <1>14, <1>15, BlockInvNext
<1>17. BlockTypes'
  BY <1>1, <1>3, <1>7, <1>11 DEF BlockTypes, SameLinks, pool
<1> QED
  BY <1>4, <1>5, <1>16, <1>17

\* An element is counted in its block.
LEMMA HeldCounts ==
  ASSUME BlockState, load' = load, NEW CONSTANT c \in IConsumers, SetEmpty(c)
  PROVE  \E l \in {"unlink", "idle"} : \E r :
           /\ Goes(c, l, r)
           /\ l = "unlink" => r = loc[c]
           /\ l = "unlink" <=> elementsCompletelyDequeued[loc[c].b] = BLOCK_SIZE - 1
<1>1. c \in IThreads /\ c \notin IProducers /\ CountTypes /\ ThreadTypes
  BY ConsumerIs DEF BlockState
<1>2. ipc[c] # "idle" /\ "unlink" \in PopLabels
  BY DEF SetEmpty, PopLabels, Busy
<1>3. CASE elementsCompletelyDequeued[loc[c].b] = BLOCK_SIZE - 1
  <2>1. IGo(c, "unlink") /\ loc' = loc
    BY <1>3 DEF SetEmpty
  <2>2. Goes(c, "unlink", loc[c])
    BY <1>1, <1>2, <2>1, StaysGoes
  <2> QED
    BY <1>3, <2>2
<1>4. CASE elementsCompletelyDequeued[loc[c].b] # BLOCK_SIZE - 1
  <2>1. IReturn(c)
    BY <1>4 DEF SetEmpty
  <2>2. Goes(c, "idle", NoCall)
    BY <1>1, <2>1, ReturnGoes
  <2> QED
    BY <1>4, <2>2
<1> QED
  BY <1>3, <1>4

LEMMA HeldGone ==
  ASSUME BlockState, NEW CONSTANT c \in IConsumers, Apart(c), SameLinks, UNCHANGED headIndex,
         ipc[c] = "setempty", ipc'[c] \notin HoldLabels,
         NEW CONSTANT p \in IProducers, NEW CONSTANT x \in Nat, p = loc[c].ptr, x = loc[c].x, x < headIndex[p]
  PROVE  \A q \in IProducers :
           /\ \A n \in Int : Open(q, n)' <=> Open(q, n) /\ ~(q = p /\ n = x)
           /\ \A n \in Int : Waits(q, n)' => Waits(q, n)
           /\ OneHolder(q)'
<1>1. \A d \in IConsumers : d # c => ipc'[d] = ipc[d] /\ loc'[d] = loc[d]
  BY SubThreads DEF Apart
<1>2. ASSUME NEW CONSTANT q \in IProducers, q # p
      PROVE  /\ \A n \in Int : Open(q, n)' <=> Open(q, n)
             /\ \A n \in Int : Waits(q, n)' => Waits(q, n)
             /\ OneHolder(q)'
  <2>1. NoHolder(c, q)
    BY <1>2 DEF NoHolder
  <2>2. SameHolders(q)
    BY <2>1, HoldersApart
  <2> QED
    BY <2>2, HoldFrame, ProducerIs
<1>3. /\ \A n \in Int : Open(p, n)' <=> Open(p, n) /\ n # x
      /\ \A n \in Int : Waits(p, n)' => Waits(p, n)
      /\ OneHolder(p)'
  <2>1. IHolders(p)' = IHolders(p) \ {c} /\ c \in IHolders(p)
    BY <1>1 DEF IHolders, HoldLabels
  <2>2. \A d, e \in IHolders(p) : loc[d].x = loc[e].x => d = e
    BY ProducerIs DEF OneHolder
  <2>3. \A d \in IHolders(p)' : loc'[d] = loc[d] /\ ipc'[d] = ipc[d] /\ d \in IHolders(p) /\ loc[d].x # x
    BY <1>1, <2>1, <2>2 DEF IHolders
  <2>4. OneHolder(p)'
    BY <2>2, <2>3 DEF OneHolder
  <2>5. \A n : n \in IHeld(p)' <=> n \in IHeld(p) /\ n # x
    <3>1. ASSUME NEW n \in IHeld(p)' PROVE n \in IHeld(p) /\ n # x
      BY <2>3 DEF IHeld
    <3>2. ASSUME NEW n \in IHeld(p), n # x PROVE n \in IHeld(p)'
      <4>1. PICK d \in IHolders(p) : n = loc[d].x
        BY DEF IHeld
      <4>2. d # c /\ d \in IConsumers
        BY <3>2, <4>1 DEF IHolders
      <4> QED
        BY <1>1, <2>1, <4>1, <4>2 DEF IHeld
    <3> QED
      BY <3>1, <3>2
  <2>6. ToMove(p)' \subseteq ToMove(p)
    BY <2>3 DEF ToMove
  <2>7. headIndex[p] \in Nat /\ headIndex' = headIndex
    BY ProducerIs
  <2> QED
    BY <2>4, <2>5, <2>6, <2>7 DEF Open, Waits
<1> QED
  BY <1>2, <1>3

LEMMA PastAfter ==
  ASSUME NEW CONSTANT p \in IProducers, NEW CONSTANT x \in Nat, NEW CONSTANT k \in Nat, x \in Positions(k), Open(p, x),
         \A n \in Int : Open(p, n)' <=> Open(p, n) /\ n # x
  PROVE  /\ Cardinality(Past(p, k)') = Cardinality(Past(p, k)) + 1 /\ Cardinality(Past(p, k)) \in Nat
         /\ Cardinality(Past(p, k)) + 1 <= BLOCK_SIZE
         /\ Cardinality(Past(p, k)) + 1 = BLOCK_SIZE => ~Live(p, k)'
         /\ \A m \in Nat : m # k => Past(p, m)' = Past(p, m)
<1>0. BLOCK_SIZE \in Nat /\ k \in Int
  BY BlockSizeIs
<1>1. Positions(k) \subseteq Int /\ IsFiniteSet(Positions(k)) /\ Cardinality(Positions(k)) = BLOCK_SIZE
  BY <1>0, PositionsAre
<1>2. Positions(k)' = Positions(k)
  BY DEF Positions
<1>3. Past(p, k)' = Past(p, k) \cup {x} /\ x \notin Past(p, k) /\ Past(p, k)' \subseteq Positions(k)
  BY <1>1, <1>2 DEF Past
<1>4. Past(p, k) \subseteq Positions(k)
  BY DEF Past
<1>5. IsFiniteSet(Past(p, k))
  BY <1>1, <1>4, FS_Subset
<1>6. Cardinality(Past(p, k)') = Cardinality(Past(p, k)) + 1 /\ Cardinality(Past(p, k)) \in Nat
  BY <1>3, <1>5, AddedOne
<1>7. Cardinality(Past(p, k)') <= BLOCK_SIZE /\ (Cardinality(Past(p, k)') = BLOCK_SIZE => Past(p, k)' = Positions(k))
  <2>1. PICK P, Q : P = Positions(k) /\ Q = Past(p, k)' /\ Q \in SUBSET P
    BY <1>3
  <2> QED
    BY <1>1, <2>1, FS_Subset
<1>8. ASSUME Cardinality(Past(p, k)) + 1 = BLOCK_SIZE PROVE ~Live(p, k)'
  <2>1. Past(p, k)' = Positions(k)
    BY <1>0, <1>6, <1>7, <1>8
  <2>2. \A n \in Positions(k) : ~Open(p, n)'
    BY <1>2, <2>1 DEF Past
  <2> QED
    BY <1>2, <2>2 DEF Live
<1>9. ASSUME NEW m \in Nat, m # k PROVE Past(p, m)' = Past(p, m)
  <2>1. x \in Int /\ m \in Int
    OBVIOUS
  <2>2. x \notin Positions(m) /\ Positions(m) \subseteq Int
    BY <1>0, <1>9, <2>1, PositionsAre
  <2>3. Positions(m)' = Positions(m)
    BY DEF Positions
  <2> QED
    BY <2>2, <2>3 DEF Past
<1> QED
  BY <1>6, <1>7, <1>8, <1>9

LEMMA BlockOfType ==
  ASSUME BlockState, NEW CONSTANT p \in IProducers, NEW CONSTANT k \in Nat, k <= Filled(p), Linking(p, k)
  PROVE  BlockOf(p, k) \in MemBlocks /\ BlockOf(p, k) # None /\ EntryOf(p, k) \in 1 .. Len(entry[p])
         /\ BlockOf(p, k) = entry[p][EntryOf(p, k)].value
<1>1. BlockTypes /\ CountTypes
  BY DEF BlockState
<1>2. PICK n, t, s : RingIs(p, n, t, s)
  BY <1>1, ProducerIs, RingOf
<1> QED
  BY <1>2, LinkedIs

\* Nobody else is about to unlink a block that is in use.
LEMMA UnlinksNoneLive ==
  ASSUME BlockState, NEW CONSTANT p \in IProducers, NEW CONSTANT k \in Nat, k <= Filled(p), Live(p, k), Linking(p, k),
         NEW CONSTANT d \in IConsumers, ipc[d] = "unlink"
  PROVE  loc[d].b # BlockOf(p, k)
<1> SUFFICES ASSUME loc[d].b = BlockOf(p, k) PROVE FALSE
  OBVIOUS
<1>1. LinksApart
  BY DEF BlockState, BlockInv, Homes
<1>2. PICK b : b = BlockOf(p, k)
  OBVIOUS
<1>3. PICK e : e = EntryOf(p, k) /\ e \in 1 .. Len(entry[p]) /\ b = entry[p][e].value /\ b # None
  BY <1>2, BlockOfType
<1>4. PICK q \in IProducers : q = loc[d].ptr
  BY ConsumerIs
<1>5. PICK f : f = loc[d].e /\ f \in 1 .. Len(entry[q]) /\ b = entry[q][f].value
  <2>1. loc[d].e \in 1 .. Len(entry[q]) /\ loc[d].b = entry[q][loc[d].e].value
    BY <1>4, ConsumerIs DEF Searches
  <2> QED
    BY <1>2, <2>1
<1>6. p = q /\ e = f
  <2>1. entry[p][e].value # None /\ entry[p][e].value = entry[q][f].value
    BY <1>3, <1>5
  <2>2. e \in 1 .. Len(entry[p]) /\ f \in 1 .. Len(entry[q])
    BY <1>3, <1>5
  <2> QED
    BY <1>1, <2>1, <2>2 DEF LinksApart
<1>7. \A m \in 0 .. Filled(q) : Live(q, m) => EntryOf(q, m) # f
  BY <1>4, <1>5, ConsumerIs DEF Searches
<1>8. k \in 0 .. Filled(p)
  BY DEF Live
<1> QED
  BY <1>3, <1>6, <1>7, <1>8

\* The place x of p is done with, and no other.
DoneWith(p, x) == \A q \in IProducers : \A n \in Int : Open(q, n)' <=> Open(q, n) /\ ~(q = p /\ n = x)

LEMMA SetEmptyLinked ==
  ASSUME BlockState, NEW CONSTANT c \in IConsumers, Apart(c), SameLinks, 
         NEW CONSTANT p \in IProducers, NEW CONSTANT x \in Nat, NEW CONSTANT k \in Nat, NEW CONSTANT b \in MemBlocks,
         x \in Positions(k), Open(p, x), k <= Filled(p), Linking(p, k), b = BlockOf(p, k), Live(p, k),
         elementsCompletelyDequeued' = [elementsCompletelyDequeued EXCEPT ![b] = @ + 1],
         DoneWith(p, x)
  PROVE  /\ \A q \in IProducers : LiveLinked(q)' /\ \A m : Live(q, m)' => Live(q, m)
         /\ CountsInBlock'
         /\ elementsCompletelyDequeued[b] = BLOCK_SIZE - 1 => ~Live(p, k)'
<1>0. BLOCK_SIZE \in Nat
  BY BlockSizeIs
<1>1. PICK v : v = Cardinality(Past(p, k))
  OBVIOUS
<1>9. \A q \in IProducers : \A n \in Int : Open(q, n)' <=> Open(q, n) /\ ~(q = p /\ n = x)
  BY DEF DoneWith
<1>2. /\ Cardinality(Past(p, k)') = v + 1 /\ v \in Nat /\ v + 1 <= BLOCK_SIZE
      /\ v + 1 = BLOCK_SIZE => ~Live(p, k)'
      /\ \A m \in Nat : m # k => Past(p, m)' = Past(p, m)
  BY <1>1, <1>9, PastAfter
<1>3. elementsCompletelyDequeued \in [MemBlocks -> Nat]
  BY DEF BlockState, BlockTypes
<1>4. elementsCompletelyDequeued[b] = v
  <2>1. k \in 0 .. Filled(p)
    BY DEF Live
  <2> QED
    BY <1>1, <2>1, ProducerIs DEF LiveLinked
<1>5. elementsCompletelyDequeued'[b] = v + 1 /\ \A a \in MemBlocks : a # b => elementsCompletelyDequeued'[a] = elementsCompletelyDequeued[a]
  BY <1>3, <1>4
<1>6. CountsInBlock'
  <2>1. \A a \in MemBlocks : elementsCompletelyDequeued[a] <= BLOCK_SIZE
    BY DEF BlockState, BlockInv, CountsInBlock
  <2>2. \A a \in MemBlocks : elementsCompletelyDequeued'[a] <= BLOCK_SIZE
    BY <1>2, <1>5, <2>1
  <2> QED
    BY <2>2 DEF CountsInBlock
<1>7. ASSUME NEW CONSTANT q \in IProducers PROVE LiveLinked(q)' /\ \A m : Live(q, m)' => Live(q, m)
  <2>1. SameIndex(q) /\ LiveLinked(q)
    BY <1>7, ConsumerFrame, ProducerIs
  <2>2. /\ Filled(q)' = Filled(q) /\ \A m : BlockOf(q, m)' = BlockOf(q, m)
        /\ \A m : Linking(q, m) => Linking(q, m)'
    BY <2>1, IndexFrame
  <2>3. \A n \in Int : Open(q, n)' => Open(q, n)
    BY <1>9
  <2>4. \A m : Live(q, m)' => Live(q, m)
    <3>1. \A m : Positions(m)' = Positions(m)
      BY DEF Positions
    <3>2. \A m \in 0 .. Filled(q) : Positions(m) \subseteq Int
      <4>1. \A m \in 0 .. Filled(q) : m \in Int
        OBVIOUS
      <4> QED
        BY <4>1, PositionsAre
    <3> QED
      BY <2>2, <2>3, <3>1, <3>2 DEF Live
  <2>5. ASSUME NEW CONSTANT m \in 0 .. Filled(q), Live(q, m)
        PROVE  Linking(q, m)' /\ elementsCompletelyDequeued'[BlockOf(q, m)'] = Cardinality(Past(q, m)')
    <3>1. Linking(q, m) /\ elementsCompletelyDequeued[BlockOf(q, m)] = Cardinality(Past(q, m))
      BY <2>1, <2>5 DEF LiveLinked
    <3>2. m \in Nat /\ m <= Filled(q)
      OBVIOUS
    <3>3. PICK a : a = BlockOf(q, m)
      OBVIOUS
    <3>4. a \in MemBlocks
      BY <3>1, <3>2, <3>3, BlockOfType
    <3>5. CASE q = p /\ m = k
      <4>1. a = b /\ Cardinality(Past(q, m)') = v + 1
        BY <1>2, <3>3, <3>5
      <4> QED
        BY <1>5, <2>2, <3>1, <3>3, <4>1
    <3>6. CASE ~(q = p /\ m = k)
      <4>1. a # b
        BY <3>1, <3>2, <3>3, <3>6, BlocksApart
      <4>2. elementsCompletelyDequeued'[a] = elementsCompletelyDequeued[a]
        BY <1>5, <3>4, <4>1
      <4>3. Past(q, m)' = Past(q, m)
        <5>1. CASE q = p
          BY <1>2, <3>2, <3>6, <5>1
        <5>2. CASE q # p
          <6>1. \A n \in Int : Open(q, n)' <=> Open(q, n)
            BY <1>9, <5>2
          <6>2. Positions(m)' = Positions(m)
            BY DEF Positions
          <6>3. Positions(m) \subseteq Int
            <7>1. m \in Int
              OBVIOUS
            <7> QED
              BY <7>1, PositionsAre
          <6> QED
            BY <6>1, <6>2, <6>3 DEF Past
        <5> QED
          BY <5>1, <5>2
      <4> QED
        BY <2>2, <3>1, <3>3, <4>2, <4>3
    <3> QED
      BY <3>5, <3>6
  <2>6. \A m \in 0 .. Filled(q)' : Live(q, m)' => Linking(q, m)' /\ elementsCompletelyDequeued'[BlockOf(q, m)'] = Cardinality(Past(q, m)')
    BY <2>2, <2>4, <2>5
  <2>7. LiveLinked(q)'
    BY <2>6 DEF LiveLinked
  <2> QED
    BY <2>4, <2>7
<1>8. elementsCompletelyDequeued[b] = BLOCK_SIZE - 1 => ~Live(p, k)'
  BY <1>0, <1>2, <1>4
<1> QED
  BY <1>6, <1>7, <1>8

LEMMA SetEmptyBlocks ==
  ASSUME BlockState, load' = load, NEW CONSTANT c \in IConsumers, SetEmpty(c)
  PROVE  (BlockInv' /\ BlockTypes' /\ ThreadTypes') /\ \E l \in {"unlink", "idle"} : \E r : Goes(c, l, r)
<1>1. PICK l, r :
           /\ l \in {"unlink", "idle"} /\ Goes(c, l, r)
           /\ l = "unlink" => r = loc[c]
           /\ l = "unlink" <=> elementsCompletelyDequeued[loc[c].b] = BLOCK_SIZE - 1
  BY HeldCounts
<1>2. CountTypes /\ BlockTypes /\ ThreadTypes /\ c \in IThreads /\ c \notin IProducers
  BY ConsumerIs DEF BlockState
<1>3. /\ ipc[c] = "setempty" /\ SameLinks /\ UNCHANGED elements /\ UNCHANGED pool /\ UNCHANGED headIndex
      /\ elementsCompletelyDequeued' = [elementsCompletelyDequeued EXCEPT ![loc[c].b] = @ + 1]
  BY DEF SetEmpty, SameLinks, counters, index
<1>4. Apart(c) /\ ipc'[c] = l /\ loc'[c] = r /\ ThreadTypes'
  BY <1>1, <1>2, Gone
<1>5. ipc'[c] \notin HoldLabels
  BY <1>1, <1>4 DEF HoldLabels
<1>6. PICK p \in IProducers, x \in Nat, k \in Nat, e \in Nat, b \in MemBlocks :
           /\ p = loc[c].ptr /\ x = loc[c].x /\ k = x \div BLOCK_SIZE /\ e = loc[c].e /\ b = loc[c].b
           /\ x < headIndex[p] /\ k <= Filled(p) /\ Live(p, k)
           /\ x \in Positions(k) /\ Open(p, x) /\ Linking(p, k)
           /\ e = EntryOf(p, k) /\ b = BlockOf(p, k)
           /\ e \in 1 .. Len(entry[p]) /\ b = entry[p][e].value /\ b # None
  BY <1>3, HeldBlock
<1>7. IProducers' = IProducers /\ \A q \in IProducers : SameIndex(q)
  BY <1>3, <1>4, ConsumerFrame
<1>8. \A q \in IProducers :
           /\ \A n \in Int : Open(q, n)' <=> Open(q, n) /\ ~(q = p /\ n = x)
           /\ \A n \in Int : Waits(q, n)' => Waits(q, n)
           /\ OneHolder(q)'
  BY <1>3, <1>4, <1>5, <1>6, HeldGone
<1>9. /\ \A q \in IProducers : LiveLinked(q)' /\ \A m : Live(q, m)' => Live(q, m)
      /\ CountsInBlock'
      /\ elementsCompletelyDequeued[b] = BLOCK_SIZE - 1 => ~Live(p, k)'
  <2>1. elementsCompletelyDequeued' = [elementsCompletelyDequeued EXCEPT ![b] = @ + 1]
    BY <1>3, <1>6
  <2>2. DoneWith(p, x)
    BY <1>8 DEF DoneWith
  <2> QED
    BY <1>3, <1>4, <1>6, <2>1, <2>2, SetEmptyLinked
<1>10. ASSUME NEW CONSTANT q \in IProducers PROVE Indexed(q)' /\ LiveLinked(q)' /\ Stay(q)' /\ OneHolder(q)'
  <2>1. Indexed(q) /\ Stay(q) /\ SameIndex(q)
    BY <1>7, ProducerIs
  <2>2. Indexed(q)' /\ \A m : BlockOf(q, m)' = BlockOf(q, m)
    BY <2>1, IndexFrame
  <2>3. \A n \in 0 .. (tailIndex[q] - 1) : Waits(q, n)' =>
           /\ Waits(q, n)
           /\ elements'[BlockOf(q, n \div BLOCK_SIZE)'][n % BLOCK_SIZE] = elements[BlockOf(q, n \div BLOCK_SIZE)][n % BLOCK_SIZE]
    BY <1>3, <1>8, <2>2
  <2>4. Stay(q)'
    BY <1>3, <2>1, <2>3, StayKept DEF SameLinks
  <2> QED
    BY <1>8, <1>9, <2>2, <2>4
<1>11. ASSUME l = "unlink" PROVE \A m \in 0 .. Filled(p)' : Live(p, m)' => EntryOf(p, m)' # e
  <2> SUFFICES ASSUME NEW CONSTANT m \in 0 .. Filled(p)', Live(p, m)', EntryOf(p, m)' = e PROVE FALSE
    OBVIOUS
  <2>1. SameIndex(p)
    BY <1>7
  <2>2. Filled(p)' = Filled(p) /\ EntryOf(p, m)' = EntryOf(p, m)
    BY <2>1, IndexFrame
  <2>3. Live(p, m) /\ m \in 0 .. Filled(p) /\ m # k
    BY <1>1, <1>6, <1>9, <1>11, <2>2
  <2>4. Linking(p, m)
    BY <2>3, ProducerIs DEF LiveLinked
  <2>5. m \in Nat /\ m <= Filled(p)
    BY <2>3
  <2>6. BlockOf(p, m) = BlockOf(p, k)
    BY <1>6, <2>2 DEF BlockOf
  <2> QED
    BY <1>6, <2>3, <2>4, <2>5, <2>6, BlocksApart
<1>12. ASSUME NEW CONSTANT d \in IConsumers PROVE Searches(d)'
  <2>1. CASE d # c
    <3>1. \A q \in IProducers : headIndex'[q] \in Nat /\ headIndex'[q] >= headIndex[q]
      BY <1>3, ProducerIs
    <3>2. \A q \in IProducers : \A m : Live(q, m)' => Live(q, m)
      BY <1>9
    <3> QED
      BY <1>3, <1>4, <2>1, <3>1, <3>2, OthersSearch
  <2>2. CASE d = c /\ l = "unlink"
    <3>1. loc'[c].ptr = p /\ loc'[c].e = e /\ loc'[c].b = b
      BY <1>1, <1>4, <1>6, <2>2
    <3>2. loc'[c].e \in 1 .. Len(entry'[loc'[c].ptr]) /\ loc'[c].b = entry'[loc'[c].ptr][loc'[c].e].value /\ loc'[c].b # None
      BY <1>3, <1>6, <3>1 DEF SameLinks
    <3>3. \A m \in 0 .. Filled(loc[c].ptr)' : Live(loc[c].ptr, m)' => EntryOf(loc[c].ptr, m)' # loc'[c].e
      BY <1>11, <2>2, <3>1
    <3> QED
      BY <1>4, <2>2, <3>2, <3>3 DEF Searches, HoldLabels
  <2>3. CASE d = c /\ l = "idle"
    BY <1>1, <1>4, <2>3 DEF Searches, HoldLabels
  <2> QED
    BY <1>1, <2>1, <2>2, <2>3
<1>13. UnlinksApart'
  <2>1. \A d \in IConsumers : d # c => ipc'[d] = ipc[d] /\ loc'[d] = loc[d]
    BY <1>4, SubThreads DEF Apart
  <2>2. \A d \in IConsumers : ipc[d] = "unlink" => loc[d].b # b
    BY <1>6, UnlinksNoneLive
  <2>3. UnlinksApart
    BY DEF BlockState, BlockInv, Homes
  <2>4. l = "unlink" => loc'[c].b = b
    BY <1>1, <1>4, <1>6
  <2> QED
    BY <1>1, <1>4, <2>1, <2>2, <2>3, <2>4 DEF UnlinksApart
<1>14. Homes'
  <2>1. ~InHand(c)'
    BY <1>1, <1>4 DEF InHand
  <2>2. UNCHANGED <<load, entry>>
    BY <1>3 DEF SameLinks
  <2> QED
    BY <1>2, <1>3, <1>4, <1>13, <2>1, <2>2, HomesKept
<1>15. BlockInv'
  BY <1>7, <1>9, <1>10, <1>12, <1>14, BlockInvNext
<1>16. elementsCompletelyDequeued' \in [MemBlocks -> Nat]
  <2>1. elementsCompletelyDequeued \in [MemBlocks -> Nat]
    BY <1>2 DEF BlockTypes
  <2>2. elementsCompletelyDequeued' = [elementsCompletelyDequeued EXCEPT ![b] = @ + 1]
    BY <1>3, <1>6
  <2> QED
    BY <2>1, <2>2
<1>17. BlockTypes'
  BY <1>2, <1>3, <1>7, <1>16 DEF BlockTypes, SameLinks, pool
<1> QED
  BY <1>1, <1>4, <1>15, <1>17

\* The keys of the index of p, and its ring, are the same.
SameRing(p) ==
  /\ header'[p] = header[p] /\ Len(entry'[p]) = Len(entry[p])
  /\ \A i \in 1 .. Len(entry[p]) : entry'[p][i].key = entry[p][i].key

LEMMA RingFrame ==
  ASSUME CountTypes, BlockTypes, NEW CONSTANT p \in IProducers, RingTypes(p), SameRing(p), Top(p)' = Top(p)
  PROVE  /\ BlockIndex(p)' = BlockIndex(p) /\ NextEntry(p)' = NextEntry(p) /\ NextEntry(p) \in 1 .. Len(entry[p])
         /\ \A k : EntryOf(p, k)' = EntryOf(p, k)
         /\ \A j \in 0 .. (Len(entry[p]) - 1) : KeyAgo(p, j)' = KeyAgo(p, j) /\ (IsKey(p, j)' <=> IsKey(p, j))
         /\ RingTypes(p)'
         /\ RingKeys(p) /\ (Rewound(p) => Rewound(p)') => RingKeys(p)'
         /\ \A k, h, e : Finds(p, k, h, e) => Finds(p, k, h, e)'
<1>1. PICK n, t, s : RingIs(p, n, t, s)
  BY RingOf
<1>2. n \in Nat /\ n > 0 /\ n = Len(entry[p])
  BY <1>1 DEF RingIs
<1>3. BlockIndex(p)' = BlockIndex(p)
  BY DEF BlockIndex, SameRing
<1>4. NextEntry(p)' = NextEntry(p)
  BY <1>3 DEF NextEntry, NewTail, IndexCapacity
<1>5. NextEntry(p) \in 1 .. n
  <2>1. NextEntry(p) = Back(p, n - 1) /\ n - 1 \in 0 .. (n - 1)
    BY <1>1, <1>2, BackIs
  <2> QED
    BY <1>1, <2>1, BackIs
<1>6. \A k : EntryOf(p, k)' = EntryOf(p, k)
  BY <1>3 DEF EntryOf, Slot, IndexCapacity
<1>7. ASSUME NEW j \in 0 .. (n - 1) PROVE KeyAgo(p, j)' = KeyAgo(p, j)
  <2>1. Back(p, j) \in 1 .. n
    BY <1>1, BackIs
  <2>2. KeyAgo(p, j) = entry[p][Back(p, j)].key /\ KeyAgo(p, j)' = entry'[p][Back(p, j)].key
    BY <1>3 DEF KeyAgo, Back, Slot, IndexCapacity
  <2> QED
    BY <1>2, <2>1, <2>2 DEF SameRing
<1>8. \A j \in 0 .. (n - 1) : IsKey(p, j)' <=> IsKey(p, j)
  BY <1>7 DEF IsKey
<1>9. RingTypes(p)'
  BY <1>3 DEF RingTypes, SameRing
<1>10. RingKeys(p) /\ (Rewound(p) => Rewound(p)') => RingKeys(p)'
  <2> SUFFICES ASSUME RingKeys(p), Rewound(p) => Rewound(p)' PROVE RingKeys(p)'
    OBVIOUS
  <2>1. ASSUME NEW j \in 0 .. (n - 1)
        PROVE  /\ IsKey(p, j)' \/ KeyAgo(p, j)' = INVALID_BLOCK_BASE \/ (j = n - 1 /\ Rewound(p)')
               /\ IsKey(p, j)' => \A i \in 0 .. j : IsKey(p, i)'
    <3>1. /\ IsKey(p, j) \/ KeyAgo(p, j) = INVALID_BLOCK_BASE \/ (j = n - 1 /\ Rewound(p))
          /\ IsKey(p, j) => \A i \in 0 .. j : IsKey(p, i)
      BY <1>2 DEF RingKeys
    <3>2. \A i \in 0 .. j : i \in 0 .. (n - 1)
      BY <1>2
    <3> QED
      BY <1>7, <1>8, <3>1, <3>2
  <2>2. Len(entry'[p]) = n
    BY <1>2 DEF SameRing
  <2> QED
    BY <2>1, <2>2 DEF RingKeys
<1>11. ASSUME NEW k, NEW h, NEW e, Finds(p, k, h, e) PROVE Finds(p, k, h, e)'
  <2>1. PICK a : a = h.slot[e]
    OBVIOUS
  <2>2. e \in 0 .. (IndexCapacity(h) - 1) /\ a \in 1 .. n
    BY <1>2, <1>11, <2>1 DEF Finds
  <2>3. PICK j \in 0 .. (IndexCapacity(h) - 1) : entry[p][a].key = (k + j) * BLOCK_SIZE /\ Slot(h, e, j) = EntryOf(p, k)
    BY <1>11, <2>1 DEF Finds
  <2>4. entry'[p][a].key = (k + j) * BLOCK_SIZE /\ Slot(h, e, j) = EntryOf(p, k)'
    BY <1>2, <1>6, <2>2, <2>3 DEF SameRing
  <2>5. a \in 1 .. Len(entry'[p])
    BY <1>2, <2>2 DEF SameRing
  <2> QED
    BY <2>1, <2>2, <2>4, <2>5 DEF Finds, Slot, IndexCapacity
<1> QED
  BY <1>2, <1>3, <1>4, <1>5, <1>6, <1>7, <1>8, <1>9, <1>10, <1>11

\* The block that is being filled has a place that is not done with.
LEMMA FilledLives ==
  ASSUME BlockState, NEW CONSTANT p \in IProducers, Filling(p)
  PROVE  Filled(p) \in Nat /\ Live(p, Filled(p)) /\ Linking(p, Filled(p)) /\ Filled(p) = tailIndex[p] \div BLOCK_SIZE
<1>1. PICK x \in Nat : x = tailIndex[p] /\ headIndex[p] \in Nat /\ headIndex[p] <= x
  BY ProducerIs
<1>2. PICK v \in Int : v = Filled(p) /\ v = x \div BLOCK_SIZE
  BY <1>1, NumbersAre DEF BlockState, Filling
<1>3. v \in Nat
  <2>1. 0 \div BLOCK_SIZE <= x \div BLOCK_SIZE
    BY <1>1, BlocksGrow
  <2>2. 0 \div BLOCK_SIZE = 0
    <3>1. 0 = 0 * BLOCK_SIZE + 0 /\ 0 \in 0 .. (BLOCK_SIZE - 1)
      BY BlockSizeIs
    <3> QED
      BY <3>1, BlockUnique
  <2> QED
    BY <1>2, <2>1, <2>2
<1>4. x \in Positions(v)
  <2>1. x \in Int
    OBVIOUS
  <2> QED
    BY <1>2, <2>1, PositionsAre
<1>5. Open(p, x)
  BY <1>1 DEF Open
<1>6. v \in 0 .. v
  BY <1>3
<1>7. Live(p, v)
  BY <1>2, <1>4, <1>5, <1>6 DEF Live
<1>8. Linking(p, v)
  BY <1>2, <1>6, <1>7, ProducerIs DEF LiveLinked
<1> QED
  BY <1>1, <1>2, <1>3, <1>7, <1>8

\* An entry's block is set, or its key.
SetsValue(p, e, v) == entry' = [entry EXCEPT ![p][e].value = v]
SetsKey(p, e, v) == entry' = [entry EXCEPT ![p][e].key = v]

LEMMA ValueSet ==
  ASSUME BlockTypes, NEW CONSTANT p \in IProducers, NEW CONSTANT e \in 1 .. Len(entry[p]), NEW CONSTANT v \in MemBlocks \cup {None}, SetsValue(p, e, v)
  PROVE  /\ entry' \in [IProducers -> Seq(Entries)] /\ \A q \in IProducers : q # p => entry'[q] = entry[q]
         /\ Len(entry'[p]) = Len(entry[p])
         /\ \A i \in 1 .. Len(entry[p]) : entry'[p][i].key = entry[p][i].key /\ (i # e => entry'[p][i] = entry[p][i])
         /\ entry'[p][e].value = v /\ entry'[p][e] = [key |-> entry[p][e].key, value |-> v]
<1>0. entry \in [IProducers -> Seq(Entries)]
  BY DEF BlockTypes
<1>1. PICK s : s = entry[p] /\ s \in Seq(Entries) /\ e \in 1 .. Len(s)
  BY <1>0
<1>2. PICK r : r = s[e] /\ r \in Entries
  BY <1>1
<1>9. PICK w : w = [r EXCEPT !.value = v]
  OBVIOUS
<1>3. w \in Entries /\ w.value = v /\ w.key = r.key /\ w = [key |-> r.key, value |-> v]
  BY <1>2, <1>9 DEF Entries
<1>8. PICK z : z = [s EXCEPT ![e] = w]
  OBVIOUS
<1>4. z \in Seq(Entries) /\ Len(z) = Len(s) /\ z[e] = w /\ \A i \in 1 .. Len(s) : i # e => z[i] = s[i]
  BY <1>1, <1>3, <1>8
<1>5. entry' = [entry EXCEPT ![p] = z]
  BY <1>0, <1>1, <1>2, <1>8, <1>9 DEF SetsValue
<1>6. entry'[p] = z /\ entry' \in [IProducers -> Seq(Entries)] /\ \A q \in IProducers : q # p => entry'[q] = entry[q]
  BY <1>0, <1>4, <1>5
<1>7. ASSUME NEW i \in 1 .. Len(s) PROVE z[i].key = s[i].key /\ (i # e => z[i] = s[i])
  BY <1>2, <1>3, <1>4
<1> QED
  BY <1>1, <1>2, <1>3, <1>4, <1>6, <1>7

LEMMA KeySet ==
  ASSUME BlockTypes, NEW CONSTANT p \in IProducers, NEW CONSTANT e \in 1 .. Len(entry[p]), NEW CONSTANT v \in Nat, SetsKey(p, e, v)
  PROVE  /\ entry' \in [IProducers -> Seq(Entries)] /\ \A q \in IProducers : q # p => entry'[q] = entry[q]
         /\ Len(entry'[p]) = Len(entry[p])
         /\ \A i \in 1 .. Len(entry[p]) : entry'[p][i].value = entry[p][i].value /\ (i # e => entry'[p][i] = entry[p][i])
         /\ entry'[p][e].key = v /\ entry'[p][e] = [key |-> v, value |-> entry[p][e].value]
<1>0. entry \in [IProducers -> Seq(Entries)]
  BY DEF BlockTypes
<1>1. PICK s : s = entry[p] /\ s \in Seq(Entries) /\ e \in 1 .. Len(s)
  BY <1>0
<1>2. PICK r : r = s[e] /\ r \in Entries
  BY <1>1
<1>9. PICK w : w = [r EXCEPT !.key = v]
  OBVIOUS
<1>3. w \in Entries /\ w.key = v /\ w.value = r.value /\ w = [key |-> v, value |-> r.value]
  BY <1>2, <1>9 DEF Entries
<1>8. PICK z : z = [s EXCEPT ![e] = w]
  OBVIOUS
<1>4. z \in Seq(Entries) /\ Len(z) = Len(s) /\ z[e] = w /\ \A i \in 1 .. Len(s) : i # e => z[i] = s[i]
  BY <1>1, <1>3, <1>8
<1>5. entry' = [entry EXCEPT ![p] = z]
  BY <1>0, <1>1, <1>2, <1>8, <1>9 DEF SetsKey
<1>6. entry'[p] = z /\ entry' \in [IProducers -> Seq(Entries)] /\ \A q \in IProducers : q # p => entry'[q] = entry[q]
  BY <1>0, <1>4, <1>5
<1>7. ASSUME NEW i \in 1 .. Len(s) PROVE z[i].value = s[i].value /\ (i # e => z[i] = s[i])
  BY <1>2, <1>3, <1>4
<1> QED
  BY <1>1, <1>2, <1>3, <1>4, <1>6, <1>7

\* One entry of p loses its block, and it is none that is in use.
LostValue(p, e) ==
  /\ SameRing(p) /\ e \in 1 .. Len(entry[p]) /\ entry'[p][e] = [key |-> entry[p][e].key, value |-> None]
  /\ \A i \in 1 .. Len(entry[p]) : i # e => entry'[p][i] = entry[p][i]
  /\ \A k \in 0 .. Filled(p) : Live(p, k) => EntryOf(p, k) # e

LEMMA LostIndexed ==
  ASSUME BlockState, NEW CONSTANT p \in IProducers, NEW CONSTANT e, LostValue(p, e),
         ipc'[p] = ipc[p], loc'[p] = loc[p], tailIndex'[p] = tailIndex[p], tailBlock'[p] = tailBlock[p]
  PROVE  /\ Indexed(p)' /\ Filled(p)' = Filled(p) /\ Top(p)' = Top(p)
         /\ \A k : EntryOf(p, k)' = EntryOf(p, k)
         /\ \A k \in 0 .. Filled(p) : Live(p, k) => BlockOf(p, k)' = BlockOf(p, k) /\ Linking(p, k)'
         /\ \A k, h, a : Finds(p, k, h, a) => Finds(p, k, h, a)'
<1>0. CountTypes /\ BlockTypes /\ Indexed(p) /\ RingTypes(p) /\ RingKeys(p) /\ Keyed(p) /\ Inserts(p) /\ SameRing(p)
  BY ProducerIs DEF BlockState, LostValue
<1>1. Filled(p)' = Filled(p) /\ Top(p)' = Top(p)
  BY DEF Filled, Top
<1>2. /\ BlockIndex(p)' = BlockIndex(p) /\ NextEntry(p)' = NextEntry(p) /\ NextEntry(p) \in 1 .. Len(entry[p])
      /\ \A k : EntryOf(p, k)' = EntryOf(p, k)
      /\ RingTypes(p)'
      /\ RingKeys(p) /\ (Rewound(p) => Rewound(p)') => RingKeys(p)'
      /\ \A k, h, a : Finds(p, k, h, a) => Finds(p, k, h, a)'
  BY <1>0, <1>1, RingFrame
<1>3. \A i \in 1 .. Len(entry[p]) : entry'[p][i] = entry[p][i] \/ entry'[p][i] = [key |-> entry[p][i].key, value |-> None]
  BY DEF LostValue
<1>4. \A i \in 1 .. Len(entry[p]) : \A v : entry[p][i] = [key |-> v, value |-> None] => entry'[p][i] = [key |-> v, value |-> None]
  <2> SUFFICES ASSUME NEW i \in 1 .. Len(entry[p]), NEW v, entry[p][i] = [key |-> v, value |-> None] PROVE entry'[p][i] = [key |-> v, value |-> None]
    OBVIOUS
  <2>1. entry[p][i].key = v
    OBVIOUS
  <2> QED
    BY <1>3, <2>1
<1>5. Len(entry'[p]) = Len(entry[p])
  BY DEF LostValue, SameRing
<1>6. Rewound(p) => Rewound(p)'
  BY <1>1, <1>2, <1>4 DEF Rewound
<1>7. Keyed(p)'
  <2>1. \A i \in 1 .. Len(entry[p]) : entry'[p][i].value # None => entry'[p][i] = entry[p][i]
    <3>1. SUFFICES ASSUME NEW i \in 1 .. Len(entry[p]), entry'[p][i] # entry[p][i] PROVE entry'[p][i].value = None
      OBVIOUS
    <3>2. entry'[p][i] = [key |-> entry[p][i].key, value |-> None]
      BY <1>3, <3>1
    <3> QED
      BY <3>2
  <2>2. \A i \in 1 .. Len(entry[p]) : entry'[p][i].value # None => entry'[p][i].key # INVALID_BLOCK_BASE
    BY <1>0, <2>1 DEF Keyed
  <2> QED
    BY <1>5, <2>2 DEF Keyed
<1>8. ASSUME NEW CONSTANT k \in 0 .. Filled(p), Live(p, k) PROVE BlockOf(p, k)' = BlockOf(p, k) /\ Linking(p, k)'
  <2>1. Linking(p, k) /\ k \in Nat /\ k <= Filled(p)
    BY <1>8, ProducerIs DEF LiveLinked
  <2>2. PICK a : a = EntryOf(p, k) /\ a \in 1 .. Len(entry[p])
    BY <2>1, BlockOfType
  <2>3. a # e
    BY <1>8, <2>2 DEF LostValue
  <2>4. EntryOf(p, k)' = a /\ entry'[p][a] = entry[p][a]
    BY <1>2, <2>2, <2>3 DEF LostValue
  <2>5. BlockOf(p, k)' = BlockOf(p, k)
    BY <2>2, <2>4 DEF BlockOf
  <2> QED
    BY <1>1, <1>5, <2>1, <2>2, <2>4, <2>5 DEF Linking
<1>9. Inserts(p)'
  <2>1. \A a \in 1 .. Len(entry[p]) : Fresh(p, a) => Fresh(p, a)'
    BY <1>4 DEF Fresh
  <2>2. ipc[p] = "inserttail" => loc[p].e = NextEntry(p) /\ Fresh(p, loc[p].e)'
    BY <1>0, <1>2, <2>1 DEF Inserts
  <2>3. ipc[p] \in Getting => loc[p].e = BlockIndex(p).slot[BlockIndex(p).tail] /\ Fresh(p, loc[p].e)'
    <3>1. SUFFICES ASSUME ipc[p] \in Getting PROVE loc[p].e = BlockIndex(p).slot[BlockIndex(p).tail] /\ Fresh(p, loc[p].e)'
      OBVIOUS
    <3>2. loc[p].e = BlockIndex(p).slot[BlockIndex(p).tail] /\ Fresh(p, loc[p].e)
      BY <1>0, <3>1 DEF Inserts
    <3>3. loc[p].e \in 1 .. Len(entry[p])
      <4>1. PICK n, t, s : RingIs(p, n, t, s)
        BY <1>0, RingOf
      <4> QED
        BY <3>2, <4>1 DEF RingIs
    <3> QED
      BY <2>1, <3>2, <3>3
  <2>4. Filling(p) => tailBlock[p] = BlockOf(p, Filled(p))'
    <3>1. SUFFICES ASSUME Filling(p) PROVE tailBlock[p] = BlockOf(p, Filled(p))'
      OBVIOUS
    <3>2. PICK k : k = Filled(p) /\ k \in 0 .. Filled(p) /\ Live(p, k)
      BY <3>1, FilledLives
    <3>3. BlockOf(p, k)' = BlockOf(p, k)
      BY <1>8, <3>2
    <3>4. BlockOf(p, Filled(p))' = BlockOf(p, k)'
      BY <1>1, <3>2 DEF BlockOf, EntryOf
    <3>5. tailBlock[p] = BlockOf(p, k)
      BY <1>0, <3>1, <3>2 DEF Inserts, BlockOf
    <3> QED
      BY <3>3, <3>4, <3>5
  <2>5. Fresh(p, loc[p].e)' <=> Fresh(p, loc[p].e)'
    OBVIOUS
  <2> QED
    BY <1>0, <1>2, <2>2, <2>3, <2>4 DEF Inserts, Filling, Fresh, BlockOf
<1>10. Indexed(p)'
  BY <1>0, <1>2, <1>6, <1>7, <1>9 DEF Indexed
<1> QED
  BY <1>1, <1>2, <1>8, <1>10

\* What a step leaves of the index of p, seen by those who have an element.
KeepsBlocks(p) ==
  /\ Filled(p)' = Filled(p)
  /\ \A k \in 0 .. Filled(p) : Live(p, k) =>
       EntryOf(p, k)' = EntryOf(p, k) /\ BlockOf(p, k)' = BlockOf(p, k) /\ Linking(p, k)'
  /\ \A k \in 0 .. Filled(p) : \A h, a : Live(p, k) /\ Finds(p, k, h, a) => Finds(p, k, h, a)'
  /\ \A n \in Int : Open(p, n)' <=> Open(p, n)
  /\ \A n \in Int : Waits(p, n)' <=> Waits(p, n)

LEMMA KeptElements ==
  ASSUME BlockState, NEW CONSTANT p \in IProducers, KeepsBlocks(p), UNCHANGED blocks, tailIndex'[p] = tailIndex[p]
  PROVE  LiveLinked(p)' /\ Stay(p)' /\ \A k : Live(p, k)' <=> Live(p, k)
<1>1. LiveLinked(p) /\ Stay(p)
  BY ProducerIs
<1>2. elements' = elements /\ elementsCompletelyDequeued' = elementsCompletelyDequeued
  BY DEF blocks
<1>3. LiveLinked(p)' /\ \A k : Live(p, k)' <=> Live(p, k)
  BY <1>1, <1>2, LiveLinkedKept DEF KeepsBlocks
<1>4. ASSUME NEW CONSTANT n \in 0 .. (tailIndex[p] - 1), Waits(p, n)'
      PROVE  /\ Waits(p, n)
             /\ elements'[BlockOf(p, n \div BLOCK_SIZE)'][n % BLOCK_SIZE] = elements[BlockOf(p, n \div BLOCK_SIZE)][n % BLOCK_SIZE]
  <2>1. n \in Nat /\ n < tailIndex[p] /\ n \in Int
    BY ProducerIs
  <2>2. Waits(p, n) /\ Open(p, n)
    BY <1>4, <2>1 DEF KeepsBlocks, Waits, Open, ToMove, IHeld
  <2>3. PICK k : k = n \div BLOCK_SIZE
    OBVIOUS
  <2>4. k \in 0 .. Filled(p) /\ Live(p, k)
    BY <2>1, <2>2, <2>3, OpenLives
  <2>5. BlockOf(p, k)' = BlockOf(p, k)
    BY <2>4 DEF KeepsBlocks
  <2>6. BlockOf(p, n \div BLOCK_SIZE)' = BlockOf(p, k)'
    BY <2>3 DEF BlockOf, EntryOf
  <2> QED
    BY <1>2, <2>2, <2>3, <2>5, <2>6
<1>5. Stay(p)'
  BY <1>1, <1>4, StayKept
<1> QED
  BY <1>3, <1>5

\* Old indices are kept, with tails that lead to the blocks in use.
KeepsHeaders(p) ==
  /\ Len(header[p]) \in Nat /\ Len(header'[p]) \in Nat /\ Len(header'[p]) >= Len(header[p])
  /\ \A i \in 1 .. Len(header[p]) : header'[p][i].slot = header[p][i].slot
  /\ \A i \in 1 .. Len(header[p]), k \in 0 .. Filled(p) :
       Live(p, k) /\ Finds(p, k, header[p][i], header[p][i].tail) => Finds(p, k, header[p][i], header[p][i].tail)'

LEMMA KeptSearch ==
  ASSUME BlockState, NEW CONSTANT d \in IConsumers, ipc'[d] = ipc[d], loc'[d] = loc[d], UNCHANGED headIndex,
         NEW CONSTANT p, p = loc[d].ptr,
         p \in IProducers => KeepsBlocks(p) /\ KeepsHeaders(p) /\ (\A k : Live(p, k)' <=> Live(p, k)),
         p \in IProducers /\ ipc[d] \in {"move", "setempty", "unlink"} =>
           loc[d].e \in 1 .. Len(entry'[p]) /\ entry'[p][loc[d].e].value = entry[p][loc[d].e].value
  PROVE  Searches(d)'
<1>1. CASE ipc[d] \in Busy
  <2>1. ipc[d] # "idle"
    BY <1>1 DEF Busy, HoldLabels
  <2>2. p \in IProducers /\ loc[d].x \in Nat /\ Searches(d)
    BY <2>1, ConsumerIs DEF Locals
  <2>3. headIndex[p] \in Nat /\ headIndex' = headIndex
    BY <2>2, ProducerIs
  <2>4. PICK k, h, e : k = loc[d].x \div BLOCK_SIZE /\ h = header[p][loc[d].h] /\ e = loc[d].e
    OBVIOUS
  <2>12. ipc[d] \in HoldLabels => k \in 0 .. Filled(p) /\ Live(p, k)
    BY <2>4, HolderLives
  <2>5. ipc[d] \in {"looktail", "lookkey"} => loc[d].h \in 1 .. Len(header[p]) /\ loc[d].h \in 1 .. Len(header'[p])
    BY <2>2 DEF Searches, KeepsHeaders
  <2>6. ipc[d] = "lookkey" => Finds(p, loc[d].x \div BLOCK_SIZE, header[p][loc[d].h], loc[d].e)'
    <3>1. SUFFICES ASSUME ipc[d] = "lookkey" PROVE Finds(p, loc[d].x \div BLOCK_SIZE, header[p][loc[d].h], loc[d].e)'
      OBVIOUS
    <3>2. Finds(p, k, h, e)
      BY <2>2, <2>4, <3>1 DEF Searches
    <3>3. Finds(p, k, h, e)'
      BY <2>2, <2>12, <3>1, <3>2 DEF KeepsBlocks, HoldLabels
    <3>4. header'[p][loc[d].h].slot = h.slot
      BY <2>2, <2>4, <2>5, <3>1 DEF KeepsHeaders
    <3>5. PICK g : g = header'[p][loc[d].h] /\ g.slot = h.slot
      BY <3>4
    <3>6. Finds(p, k, g, e)'
      BY <3>3, <3>5 DEF Finds, Slot, IndexCapacity
    <3> QED
      BY <2>4, <3>5, <3>6
  <2>7. ipc[d] \in HoldLabels => EntryOf(p, loc[d].x \div BLOCK_SIZE)' = EntryOf(p, loc[d].x \div BLOCK_SIZE)
    <3>1. EntryOf(p, loc[d].x \div BLOCK_SIZE)' = EntryOf(p, k)'
      BY <2>4
    <3> QED
      BY <2>2, <2>4, <2>12, <3>1 DEF KeepsBlocks
  <2>13. ipc[d] \in {"loadblock", "move", "setempty"} => EntryOf(p, loc[d].x \div BLOCK_SIZE)' = EntryOf(p, loc[d].x \div BLOCK_SIZE)
    BY <2>7 DEF HoldLabels
  <2>8. ipc[d] = "unlink" => \A m \in 0 .. Filled(p)' : Live(p, m)' => EntryOf(p, m)' # loc[d].e
    BY <2>2 DEF Searches, KeepsBlocks
  <2>9. ipc[d] = "looktail" => Finds(p, loc[d].x \div BLOCK_SIZE, header[p][loc[d].h], header[p][loc[d].h].tail)'
    <3>1. SUFFICES ASSUME ipc[d] = "looktail" PROVE Finds(p, loc[d].x \div BLOCK_SIZE, header[p][loc[d].h], header[p][loc[d].h].tail)'
      OBVIOUS
    <3>2. PICK i \in 1 .. Len(header[p]) : i = loc[d].h /\ i = loc'[d].h
      BY <2>5, <3>1
    <3>3. Finds(p, k, header[p][i], header[p][i].tail)
      BY <2>2, <2>4, <3>1, <3>2 DEF Searches
    <3>4. Finds(p, k, header[p][i], header[p][i].tail)'
      BY <2>2, <2>12, <3>1, <3>3 DEF KeepsHeaders, HoldLabels
    <3> QED
      BY <2>4, <3>2, <3>4
  <2>10. ipc[d] \in {"move", "setempty", "unlink"} =>
           loc[d].e \in 1 .. Len(entry'[p]) /\ entry'[p][loc[d].e].value = entry[p][loc[d].e].value
    BY <2>2
  <2>11. headIndex'[p] >= headIndex[p] /\ headIndex'[p] \in Nat
    BY <2>3
  <2> QED
    BY <2>2, <2>3, <2>5, <2>6, <2>13, <2>8, <2>9, <2>10, <2>11, SearchKept
<1>2. CASE ipc[d] \notin Busy
  BY <1>2 DEF Searches, Busy, HoldLabels
<1> QED
  BY <1>1, <1>2

LEMMA KeepsSame ==
  ASSUME BlockState, NEW CONSTANT q \in IProducers, SameIndex(q), SameHolders(q)
  PROVE  KeepsBlocks(q) /\ Indexed(q)' /\ OneHolder(q)'
<1>1. Indexed(q) /\ OneHolder(q) /\ LiveLinked(q)
  BY ProducerIs
<1>2. /\ Filled(q)' = Filled(q) 
      /\ \A k : EntryOf(q, k)' = EntryOf(q, k)
      /\ \A k : BlockOf(q, k)' = BlockOf(q, k)
      /\ \A k : Linking(q, k) => Linking(q, k)'
      /\ \A k, h, e : Finds(q, k, h, e) => Finds(q, k, h, e)'
      /\ Indexed(q)'
  BY <1>1, IndexFrame
<1>3. /\ \A n : Open(q, n)' <=> Open(q, n)
      /\ \A n : Waits(q, n)' <=> Waits(q, n)
      /\ OneHolder(q)'
  BY <1>1, HoldFrame
<1>4. \A k \in 0 .. Filled(q) : Live(q, k) => Linking(q, k)
  BY <1>1 DEF LiveLinked
<1> QED
  BY <1>2, <1>3, <1>4 DEF KeepsBlocks

\* Blocks in hand and in the index, after an entry lost its block to who had to unlink it.
LEMMA UnlinkHomes ==
  ASSUME BlockState, NEW CONSTANT c \in IConsumers, Apart(c), load' = load, UNCHANGED pool,
         ipc[c] = "unlink", ipc'[c] = "give", loc'[c] = loc[c],
         NEW CONSTANT p \in IProducers, NEW CONSTANT e, NEW CONSTANT b, b = loc[c].b, e \in 1 .. Len(entry[p]), b = entry[p][e].value, b # None,
         LostValue(p, e), \A q \in IProducers : q # p => entry'[q] = entry[q]
  PROVE  Homes'
<1>0. Homes /\ c \in IThreads /\ IConsumers \subseteq IThreads
  BY SubThreads DEF BlockState, BlockInv
<1>1. IProducers' = IProducers /\ IThreads' = IThreads
  BY DEF IProducers, IThreads, NProducers
<1>2. \A q \in IProducers : Len(entry'[q]) = Len(entry[q])
  BY DEF LostValue, SameRing
<1>3. \A q \in IProducers : \A i \in 1 .. Len(entry[q]) :
        entry'[q][i].value # None => entry'[q][i].value = entry[q][i].value /\ ~(q = p /\ i = e)
  <2> SUFFICES ASSUME NEW q \in IProducers, NEW i \in 1 .. Len(entry[q]), entry'[q][i].value # None
               PROVE  entry'[q][i].value = entry[q][i].value /\ ~(q = p /\ i = e)
    OBVIOUS
  <2>1. entry'[p][e].value = None
    BY DEF LostValue
  <2>2. ~(q = p /\ i = e)
    BY <2>1
  <2>3. entry'[q][i] = entry[q][i]
    BY <2>2 DEF LostValue
  <2> QED
    BY <2>2, <2>3
<1>4. InUse' = InUse /\ freeList' = freeList
  BY DEF pool, InUse
<1>5. \A u \in IThreads : u # c => (InHand(u)' <=> InHand(u)) /\ loc'[u] = loc[u]
  BY DEF Apart, InHand
<1>6. InHand(c)' /\ loc'[c].b = b
  BY DEF InHand
<1>7. LinksApart'
  <2>1. LinksApart
    BY <1>0 DEF Homes
  <2> QED
    BY <1>1, <1>2, <1>3, <2>1, SMTT(30) DEF LinksApart
<1>8. LinksHold' /\ b \in InUse \ freeList
  BY <1>0, <1>1, <1>2, <1>3, <1>4 DEF Homes, LinksHold
<1>9. \A u \in IThreads : InHand(u) => loc[u].b # b
  <2>1. HandsHold
    BY <1>0 DEF Homes
  <2>2. ASSUME NEW u \in IThreads, InHand(u) PROVE loc[u].b # entry[p][e].value
    BY <2>1, <2>2 DEF HandsHold
  <2> QED
    BY <2>2
<1>10. HandsApart'
  <2> SUFFICES ASSUME NEW u \in IThreads, NEW w \in IThreads, InHand(u)', InHand(w)', loc'[u].b = loc'[w].b PROVE u = w
    BY <1>1 DEF HandsApart
  <2>1. CASE u = c \/ w = c
    BY <1>5, <1>6, <1>9, <2>1
  <2>2. CASE u # c /\ w # c
    BY <1>0, <1>5, <2>2 DEF Homes, HandsApart
  <2> QED
    BY <2>1, <2>2
<1>11. \A q \in IProducers : \A i \in 1 .. Len(entry'[q]) : entry'[q][i].value # b
  <2> SUFFICES ASSUME NEW q \in IProducers, NEW i \in 1 .. Len(entry'[q]), entry'[q][i].value = b PROVE FALSE
    OBVIOUS
  <2>1. i \in 1 .. Len(entry[q]) /\ entry[q][i].value = b /\ ~(q = p /\ i = e)
    BY <1>2, <1>3
  <2> QED
    BY <1>0, <2>1 DEF Homes, LinksApart
<1>12. HandsHold'
  <2> SUFFICES ASSUME NEW u \in IThreads, InHand(u)'
               PROVE  /\ loc'[u].b \in InUse \ freeList
                      /\ \A q \in IProducers : \A i \in 1 .. Len(entry'[q]) : entry'[q][i].value # loc'[u].b
    BY <1>1, <1>4 DEF HandsHold
  <2>1. CASE u = c
    BY <1>6, <1>8, <1>11, <2>1
  <2>2. CASE u # c
    <3>1. PICK a : a = loc[u].b /\ a = loc'[u].b /\ InHand(u)
      BY <1>5, <2>2
    <3>2. a \in InUse \ freeList /\ \A q \in IProducers : \A i \in 1 .. Len(entry[q]) : entry[q][i].value # a
      BY <1>0, <3>1 DEF Homes, HandsHold
    <3>3. a # None
      <4>1. InUse \subseteq Nat
        <5>1. created \subseteq MemBlocks
          BY DEF BlockState, BlockTypes
        <5>2. Memory \in Nat /\ PoolSize \in Nat
          BY IQAssumption
        <5>3. (1 .. Memory) \subseteq Nat /\ (1 .. PoolSize) \subseteq Nat
          BY <5>2
        <5>4. ASSUME NEW n \in InUse PROVE n \in Nat
          <6>1. n \in created \/ n \in 1 .. PoolSize
            BY <5>4 DEF InUse
          <6> QED
            BY <5>1, <5>3, <6>1 DEF MemBlocks
        <5> QED
          BY <5>4
      <4> QED
        BY <3>2, <4>1, IQAssumption
    <3>4. \A q \in IProducers : \A i \in 1 .. Len(entry'[q]) : entry'[q][i].value # a
      BY <1>2, <1>3, <3>2, <3>3
    <3> QED
      BY <3>1, <3>2, <3>4
  <2> QED
    BY <2>1, <2>2
<1>13. UnlinksApart'
  <2>1. \A d \in IConsumers : ipc'[d] = "unlink" => ipc[d] = "unlink" /\ loc'[d] = loc[d]
    BY <1>0 DEF Apart
  <2> QED
    BY <1>0, <2>1 DEF Homes, UnlinksApart
<1> QED
  BY <1>0, <1>4, <1>7, <1>8, <1>10, <1>12, <1>13 DEF Homes

LEMMA UnlinkBlocks ==
  ASSUME BlockState, load' = load, NEW CONSTANT c \in IConsumers, Unlink(c)
  PROVE  (BlockInv' /\ BlockTypes' /\ ThreadTypes') /\ \E r : Goes(c, "give", r)
<1>1. CountTypes /\ BlockTypes /\ ThreadTypes /\ c \in IThreads /\ c \notin IProducers
  BY ConsumerIs DEF BlockState
<1>2. /\ ipc[c] = "unlink" /\ IGo(c, "give") /\ loc' = loc /\ header' = header /\ tailBlock' = tailBlock
      /\ UNCHANGED counters /\ UNCHANGED blocks /\ UNCHANGED pool
      /\ entry' = [entry EXCEPT ![loc[c].ptr][loc[c].e].value = None]
  BY DEF Unlink
<1>3. Goes(c, "give", loc[c])
  <2>1. "give" \in PopLabels /\ ipc[c] # "idle"
    BY <1>2 DEF PopLabels, Busy
  <2> QED
    BY <1>1, <1>2, <2>1, StaysGoes
<1>4. Apart(c) /\ ipc'[c] = "give" /\ loc'[c] = loc[c] /\ ThreadTypes' /\ IProducers' = IProducers
  BY <1>1, <1>3, Gone
<1>5. PICK p \in IProducers : p = loc[c].ptr
  BY <1>2, ConsumerIs
<1>6. PICK e, b : e = loc[c].e /\ b = loc[c].b
  OBVIOUS
<1>7. e \in 1 .. Len(entry[p]) /\ b = entry[p][e].value /\ b # None /\ \A m \in 0 .. Filled(p) : Live(p, m) => EntryOf(p, m) # e
  BY <1>2, <1>5, <1>6, ConsumerIs DEF Searches
<1>8. /\ entry' \in [IProducers -> Seq(Entries)] /\ \A q \in IProducers : q # p => entry'[q] = entry[q]
      /\ Len(entry'[p]) = Len(entry[p])
      /\ \A i \in 1 .. Len(entry[p]) : entry'[p][i].key = entry[p][i].key /\ (i # e => entry'[p][i] = entry[p][i])
      /\ entry'[p][e] = [key |-> entry[p][e].key, value |-> None]
  <2>1. SetsValue(p, e, None) /\ None \in MemBlocks \cup {None}
    BY <1>2, <1>5, <1>6 DEF SetsValue
  <2> QED
    BY <1>1, <1>7, <2>1, ValueSet
<1>9. LostValue(p, e)
  BY <1>2, <1>7, <1>8 DEF LostValue, SameRing
<1>10. headIndex' = headIndex /\ tailIndex' = tailIndex
  BY <1>2 DEF counters
<1>11. \A q \in IProducers : ipc'[q] = ipc[q] /\ loc'[q] = loc[q]
  BY <1>1, <1>4, SubThreads DEF Apart
<1>12. \A q \in IProducers : SameHolders(q)
  <2> SUFFICES ASSUME NEW CONSTANT q \in IProducers PROVE SameHolders(q)
    OBVIOUS
  <2>1. NoHolder(c, q)
    BY <1>2, <1>4 DEF NoHolder, HoldLabels
  <2> QED
    BY <1>4, <1>10, <2>1, HoldersApart
<1>13. ASSUME NEW CONSTANT q \in IProducers PROVE KeepsBlocks(q) /\ Indexed(q)' /\ OneHolder(q)'
  <2>1. CASE q # p
    <3>1. SameIndex(q)
      BY <1>2, <1>8, <1>10, <1>11, <2>1 DEF SameIndex
    <3> QED
      BY <1>12, <3>1, KeepsSame
  <2>2. CASE q = p
    <3>1. /\ Indexed(p)' /\ Filled(p)' = Filled(p)
          /\ \A k : EntryOf(p, k)' = EntryOf(p, k)
          /\ \A k \in 0 .. Filled(p) : Live(p, k) => BlockOf(p, k)' = BlockOf(p, k) /\ Linking(p, k)'
          /\ \A k, h, a : Finds(p, k, h, a) => Finds(p, k, h, a)'
      BY <1>2, <1>9, <1>10, <1>11, LostIndexed
    <3>2. SameHolders(p) /\ OneHolder(p)
      BY <1>12, ProducerIs
    <3>3. /\ \A n : Open(p, n)' <=> Open(p, n)
          /\ \A n : Waits(p, n)' <=> Waits(p, n)
          /\ OneHolder(p)'
      BY <3>2, HoldFrame
    <3> QED
      BY <2>2, <3>1, <3>3 DEF KeepsBlocks
  <2> QED
    BY <2>1, <2>2
<1>14. ASSUME NEW CONSTANT q \in IProducers PROVE LiveLinked(q)' /\ Stay(q)' /\ \A k : Live(q, k)' <=> Live(q, k)
  BY <1>2, <1>10, <1>13, KeptElements
<1>15. ASSUME NEW CONSTANT d \in IConsumers PROVE Searches(d)'
  <2>1. CASE d = c
    BY <1>4, <2>1 DEF Searches, HoldLabels
  <2>2. CASE d # c
    <3>1. PICK q : q = loc[d].ptr
      OBVIOUS
    <3>2. ipc'[d] = ipc[d] /\ loc'[d] = loc[d]
      BY <1>4, <2>2, SubThreads DEF Apart
    <3>3. ASSUME q \in IProducers PROVE KeepsHeaders(q)
      <4>1. header' = header /\ Len(header[q]) \in Nat
        BY <1>1, <1>2, <3>3 DEF BlockTypes
      <4>2. ASSUME NEW CONSTANT i \in 1 .. Len(header[q]), NEW CONSTANT k \in 0 .. Filled(q), Live(q, k),
                   Finds(q, k, header[q][i], header[q][i].tail)
            PROVE  Finds(q, k, header[q][i], header[q][i].tail)'
        <5>1. PICK h, a : h = header[q][i] /\ a = header[q][i].tail
          OBVIOUS
        <5>2. Finds(q, k, h, a)'
          BY <1>13, <3>3, <4>2, <5>1 DEF KeepsBlocks
        <5> QED
          BY <4>1, <5>1, <5>2
      <4> QED
        BY <4>1, <4>2 DEF KeepsHeaders
    <3>5. ASSUME q \in IProducers, ipc[d] \in {"move", "setempty", "unlink"}
          PROVE  loc[d].e \in 1 .. Len(entry'[q]) /\ entry'[q][loc[d].e].value = entry[q][loc[d].e].value
      <4>0. loc[d].e \in 1 .. Len(entry[q]) /\ loc[d].b = entry[q][loc[d].e].value
        BY <3>1, <3>5, ConsumerIs DEF Searches
      <4>1. PICK f : f = loc[d].e /\ f \in 1 .. Len(entry[q]) /\ loc[d].b = entry[q][f].value
        BY <4>0
      <4>2. CASE q # p
        BY <1>8, <3>5, <4>1, <4>2
      <4>3. CASE q = p
        <5>1. f # e
          <6>1. CASE ipc[d] = "unlink"
            <7>1. UnlinksApart
              BY DEF BlockState, BlockInv, Homes
            <7> QED
              BY <1>2, <1>6, <1>7, <2>2, <4>1, <4>3, <6>1, <7>1 DEF UnlinksApart
          <6>2. CASE ipc[d] \in {"move", "setempty"}
            <7>1. PICK s, k : s \in IProducers /\ s = loc[d].ptr /\ k \in 0 .. Filled(s) /\ Live(s, k) /\ loc[d].e = EntryOf(s, k)
              BY <6>2, HeldBlock
            <7> QED
              BY <1>7, <3>1, <4>1, <4>3, <7>1
          <6> QED
            BY <3>5, <6>1, <6>2
        <5> QED
          BY <1>8, <4>1, <4>3, <5>1
      <4> QED
        BY <4>2, <4>3
    <3>6. headIndex' = headIndex /\ header' = header
      BY <1>2, <1>10
    <3> QED
      BY <1>13, <1>14, <3>1, <3>2, <3>3, <3>5, <3>6, KeptSearch
  <2> QED
    BY <2>1, <2>2
<1>16. CountsInBlock'
  BY <1>2 DEF CountsInBlock, BlockState, BlockInv, blocks
<1>17. Homes'
  BY <1>2, <1>4, <1>6, <1>7, <1>8, <1>9, UnlinkHomes
<1>18. BlockInv'
  BY <1>4, <1>13, <1>14, <1>15, <1>16, <1>17, BlockInvNext
<1>19. BlockTypes'
  BY <1>1, <1>2, <1>4, <1>8 DEF BlockTypes, blocks, pool
<1> QED
  BY <1>3, <1>4, <1>18, <1>19

LEMMA InUseAre ==
  ASSUME BlockTypes
  PROVE  \A b \in InUse : b \in MemBlocks /\ b \in Nat /\ b # None
<1> SUFFICES ASSUME NEW b \in InUse PROVE b \in MemBlocks /\ b \in Nat /\ b # None
  OBVIOUS
<1>1. created \subseteq MemBlocks
  BY DEF BlockTypes
<1>2. Memory \in Nat /\ PoolSize \in Nat /\ PoolSize <= Memory /\ None \notin Nat
  BY IQAssumption
<1>3. b \in created \/ b \in 1 .. PoolSize
  BY DEF InUse
<1>4. b \in 1 .. Memory
  <2>1. CASE b \in created
    BY <1>1, <2>1 DEF MemBlocks
  <2>2. CASE b \in 1 .. PoolSize
    BY <1>2, <2>2
  <2> QED
    BY <1>3, <2>1, <2>2
<1>5. b \in Nat
  BY <1>2, <1>4
<1> QED
  BY <1>2, <1>4, <1>5 DEF MemBlocks

LEMMA GivenHomes ==
  ASSUME BlockState, NEW CONSTANT c \in IConsumers, Apart(c), UNCHANGED <<load, entry>>,
         UNCHANGED <<initialBlockPoolIndex, created>>,
         ipc[c] = "give", ipc'[c] = "idle", freeList' = freeList \cup {loc[c].b}
  PROVE  Homes' /\ freeList' \subseteq MemBlocks
<1>0. Homes /\ BlockTypes /\ c \in IThreads /\ IConsumers \subseteq IThreads
  BY SubThreads DEF BlockState, BlockInv
<1>1. IProducers' = IProducers /\ IThreads' = IThreads /\ entry' = entry /\ InUse' = InUse
  BY DEF IProducers, IThreads, NProducers, InUse
<1>2. PICK b : b = loc[c].b
  OBVIOUS
<1>3. b \in InUse \ freeList /\ \A p \in IProducers : \A i \in 1 .. Len(entry[p]) : entry[p][i].value # b
  BY <1>0, <1>2 DEF Homes, HandsHold, InHand
<1>4. freeList' = freeList \cup {b}
  BY <1>2
<1>5. \A u \in IThreads : InHand(u)' => InHand(u) /\ loc'[u] = loc[u] /\ u # c
  BY DEF Apart, InHand
<1>6. \A u \in IThreads : InHand(u)' => loc[u].b # b
  BY <1>0, <1>2, <1>5 DEF Homes, HandsApart, InHand
<1>7. LinksApart'
  BY <1>0, <1>1 DEF Homes, LinksApart
<1>8. LinksHold'
  BY <1>0, <1>1, <1>3, <1>4 DEF Homes, LinksHold
<1>9. HandsApart'
  BY <1>0, <1>1, <1>5 DEF Homes, HandsApart
<1>10. HandsHold'
  BY <1>0, <1>1, <1>4, <1>5, <1>6 DEF Homes, HandsHold
<1>11. UnlinksApart'
  <2>1. \A d \in IConsumers : ipc'[d] = "unlink" => ipc[d] = "unlink" /\ loc'[d] = loc[d]
    BY <1>0 DEF Apart
  <2> QED
    BY <1>0, <2>1 DEF Homes, UnlinksApart
<1>12. freeList' \subseteq InUse
  BY <1>0, <1>3, <1>4 DEF Homes
<1>13. freeList' \subseteq MemBlocks
  BY <1>0, <1>12, InUseAre
<1> QED
  BY <1>1, <1>7, <1>8, <1>9, <1>10, <1>11, <1>12, <1>13 DEF Homes

LEMMA FreeListAddBlocks ==
  ASSUME BlockState, load' = load, NEW CONSTANT c \in IConsumers, FreeListAdd(c)
  PROVE  (BlockInv' /\ BlockTypes' /\ ThreadTypes') /\ \E r : Goes(c, "idle", r)
<1>1. c \in IThreads /\ ThreadTypes /\ CountTypes /\ BlockTypes
  BY ConsumerIs DEF BlockState
<1>2. Goes(c, "idle", NoCall)
  BY <1>1, ReturnGoes DEF FreeListAdd
<1>3. Apart(c) /\ ipc'[c] = "idle" /\ loc'[c] = NoCall /\ ThreadTypes' /\ IProducers' = IProducers
  BY <1>1, <1>2, Gone
<1>4. /\ ipc[c] = "give" /\ SameLinks /\ UNCHANGED blocks /\ UNCHANGED headIndex
      /\ UNCHANGED <<initialBlockPoolIndex, created>> /\ UNCHANGED <<load, entry>>
      /\ freeList' = freeList \cup {loc[c].b}
  BY DEF FreeListAdd, SameLinks, counters, index
<1>5. Homes' /\ freeList' \subseteq MemBlocks
  BY <1>3, <1>4, GivenHomes
<1>6. SamePlaces
  <2> SUFFICES ASSUME NEW CONSTANT p \in IProducers
               PROVE  /\ \A n \in Int : Open(p, n)' <=> Open(p, n)
                      /\ \A n \in Int : Waits(p, n)' => Waits(p, n)
                      /\ OneHolder(p)'
                      /\ headIndex'[p] \in Nat /\ headIndex'[p] >= headIndex[p]
    BY DEF SamePlaces
  <2>1. NoHolder(c, p)
    BY <1>3, <1>4 DEF NoHolder, HoldLabels
  <2>2. SameHolders(p)
    BY <1>3, <1>4, <2>1, HoldersApart
  <2>3. headIndex[p] \in Nat /\ OneHolder(p)
    BY ProducerIs
  <2> QED
    BY <1>4, <2>2, <2>3, HoldFrame
<1>7. Searches(c)'
  BY <1>3 DEF Searches, HoldLabels
<1>8. /\ \A p \in IProducers' : Indexed(p)' /\ LiveLinked(p)' /\ Stay(p)' /\ OneHolder(p)'
      /\ \A d \in IConsumers : Searches(d)'
      /\ CountsInBlock'
  BY <1>3, <1>4, <1>6, <1>7, ConsumerKeeps
<1>9. BlockInv'
  BY <1>5, <1>8, BlockInvNext
<1>10. BlockTypes'
  BY <1>1, <1>3, <1>4, <1>5 DEF BlockTypes, SameLinks, blocks
<1> QED
  BY <1>2, <1>3, <1>9, <1>10

(* A step of a consumer keeps the invariant. *)
HoldSteps(c) ==
  \/ LookHeader(c) \/ LookTail(c) \/ LookKey(c) \/ LoadBlock(c)
  \/ MoveElement(c) \/ SetEmpty(c) \/ Unlink(c) \/ FreeListAdd(c)

LEMMA HoldStepGoes ==
  ASSUME BlockState, load' = load, NEW CONSTANT c \in IConsumers, HoldSteps(c)
  PROVE  (BlockInv' /\ BlockTypes' /\ ThreadTypes') /\ \E l \in Busy \cup {"idle"} : \E r : Goes(c, l, r)
<1> DEFINE L == Busy \cup {"idle"}
<1>1. /\ "looktail" \in L /\ "lookkey" \in L /\ "loadblock" \in L /\ "move" \in L /\ "setempty" \in L
      /\ "unlink" \in L /\ "give" \in L /\ "idle" \in L
  BY DEF Busy, HoldLabels
<1> HIDE DEF L
<1> SUFFICES (BlockInv' /\ BlockTypes' /\ ThreadTypes') /\ \E l \in L : \E r : Goes(c, l, r)
  BY DEF L
<1>2. CASE LookHeader(c)
  BY <1>1, <1>2, LookHeaderBlocks
<1>3. CASE LookTail(c)
  BY <1>1, <1>3, LookTailBlocks
<1>4. CASE LookKey(c)
  BY <1>1, <1>4, LookKeyBlocks
<1>5. CASE LoadBlock(c)
  BY <1>1, <1>5, LoadBlockBlocks
<1>6. CASE MoveElement(c)
  BY <1>1, <1>6, MoveElementBlocks
<1>7. CASE SetEmpty(c)
  BY <1>1, <1>7, SetEmptyBlocks
<1>8. CASE Unlink(c)
  BY <1>1, <1>8, UnlinkBlocks
<1>9. CASE FreeListAdd(c)
  BY <1>1, <1>9, FreeListAddBlocks
<1> QED
  BY <1>2, <1>3, <1>4, <1>5, <1>6, <1>7, <1>8, <1>9 DEF HoldSteps

LEMMA HoldStepKeeps ==
  ASSUME IQInv, load' = load, NEW CONSTANT c \in IConsumers, HoldSteps(c)
  PROVE  IQInv'
<1>1. BlockState /\ CountInv /\ CountTypes /\ ThreadTypes
  BY BlockStateIs DEF BlockState
<1>2. BlockInv' /\ BlockTypes' /\ ThreadTypes' /\ \E l \in Busy \cup {"idle"} : \E r : Goes(c, l, r)
  BY <1>1, HoldStepGoes
<1>3. PICK l, r : l \in Busy \cup {"idle"} /\ Goes(c, l, r)
  BY <1>2
<1>4. UNCHANGED counters /\ ipc[c] \notin CountLabels
  BY DEF HoldSteps, LookHeader, LookTail, LookKey, LoadBlock, MoveElement, SetEmpty, Unlink, FreeListAdd, CountLabels
<1>5. c \in IThreads /\ l \notin CountLabels \cup {"check", "claim"}
  BY <1>3, SubThreads DEF Busy, HoldLabels, CountLabels
<1>6. CountTypes' /\ CountInv'
  BY <1>1, <1>3, <1>4, <1>5, CountsUntouched
<1> QED
  BY <1>2, <1>6 DEF IQInv, IQTypes

LEMMA LooksKeeps ==
  ASSUME IQInv, load' = load, NEW CONSTANT c \in IConsumers, Looks(c) \/ TakeHead(c)
  PROVE  IQInv'
<1>1. BlockState /\ CountInv /\ CountTypes /\ ThreadTypes
  BY BlockStateIs DEF BlockState
<1>2. CountTypes' /\ CountInv'
  <2>1. CASE TryDequeue(c) \/ SizeTail(c) \/ SizeHead(c) \/ LoadTail(c) \/ LooksEmpty(c)
    BY <1>1, <2>1, LooksQuiet
  <2>2. CASE LoadOvercommit(c)
    BY <1>1, <2>2, LoadOvercommitCounts
  <2>3. CASE LooksFull(c)
    BY <1>1, <2>3, LooksFullCounts
  <2>4. CASE Claim(c)
    BY <1>1, <2>4, ClaimCounts
  <2>5. CASE Recheck(c)
    BY <1>1, <2>5, RecheckCounts
  <2>6. CASE GiveUp(c)
    BY <1>1, <2>6, GiveUpCounts
  <2>7. CASE TakeHead(c)
    BY <1>1, <2>7, TakeHeadCounts
  <2> QED
    BY <2>1, <2>2, <2>3, <2>4, <2>5, <2>6, <2>7 DEF Looks
<1>3. BlockInv' /\ BlockTypes' /\ ThreadTypes'
  BY <1>1, LooksBlocks, TakeHeadBlocks
<1> QED
  BY <1>2, <1>3 DEF IQInv, IQTypes

(* Steps of a producer. *)
OthersIndex(p) == \A q \in IProducers : q # p =>
  header'[q] = header[q] /\ entry'[q] = entry[q] /\ tailIndex'[q] = tailIndex[q] /\ tailBlock'[q] = tailBlock[q]

LEMMA ProducerFrame ==
  ASSUME BlockState, NEW CONSTANT p \in IProducers, NEW CONSTANT l, NEW CONSTANT r, Goes(p, l, r),
         UNCHANGED headIndex, OthersIndex(p)
  PROVE  /\ Apart(p) /\ ipc'[p] = l /\ loc'[p] = r /\ ThreadTypes' /\ IProducers' = IProducers /\ IThreads' = IThreads
         /\ \A q \in IProducers : SameHolders(q) /\ OneHolder(q)'
         /\ \A q \in IProducers : q # p => KeepsBlocks(q) /\ Indexed(q)'
         /\ \A d \in IConsumers : ipc'[d] = ipc[d] /\ loc'[d] = loc[d]
<1>1. p \in IThreads /\ p \notin IConsumers /\ ThreadTypes
  BY ProducerIs DEF BlockState
<1>2. Apart(p) /\ ipc'[p] = l /\ loc'[p] = r /\ ThreadTypes' /\ IProducers' = IProducers /\ IThreads' = IThreads
  BY <1>1, Gone
<1>3. \A d \in IConsumers : ipc'[d] = ipc[d] /\ loc'[d] = loc[d]
  BY <1>1, <1>2, SubThreads DEF Apart
<1>4. \A q \in IProducers : SameHolders(q)
  BY <1>1, <1>2, HoldersApart
<1>5. \A q \in IProducers : OneHolder(q)'
  <2> SUFFICES ASSUME NEW CONSTANT q \in IProducers PROVE OneHolder(q)'
    OBVIOUS
  <2>1. SameHolders(q) /\ OneHolder(q)
    BY <1>4, ProducerIs
  <2> QED
    BY <2>1, HoldFrame
<1>6. ASSUME NEW CONSTANT q \in IProducers, q # p PROVE KeepsBlocks(q) /\ Indexed(q)'
  <2>1. ipc'[q] = ipc[q] /\ loc'[q] = loc[q]
    BY <1>2, <1>6, SubThreads DEF Apart
  <2>2. SameIndex(q)
    BY <1>6, <2>1 DEF SameIndex, OthersIndex
  <2> QED
    BY <1>4, <2>2, KeepsSame
<1> QED
  BY <1>2, <1>3, <1>4, <1>5, <1>6

SameValues(p) ==
  /\ Len(entry[p]) \in Nat /\ Len(entry'[p]) \in Nat /\ Len(entry'[p]) >= Len(entry[p])
  /\ \A i \in 1 .. Len(entry[p]) : entry'[p][i].value = entry[p][i].value

LEMMA HeadersSame ==
  ASSUME BlockTypes, NEW CONSTANT q \in IProducers, header'[q] = header[q], KeepsBlocks(q)
  PROVE  KeepsHeaders(q)
<1>1. Len(header[q]) \in Nat
  BY DEF BlockTypes
<1>2. ASSUME NEW CONSTANT i \in 1 .. Len(header[q]), NEW CONSTANT k \in 0 .. Filled(q), Live(q, k),
             Finds(q, k, header[q][i], header[q][i].tail)
      PROVE  Finds(q, k, header[q][i], header[q][i].tail)'
  <2>1. PICK h, a : h = header[q][i] /\ a = header[q][i].tail
    OBVIOUS
  <2>2. Finds(q, k, h, a)'
    BY <1>2, <2>1 DEF KeepsBlocks
  <2> QED
    BY <2>1, <2>2
<1> QED
  BY <1>1, <1>2 DEF KeepsHeaders

LEMMA ValuesSame ==
  ASSUME BlockTypes, NEW CONSTANT q \in IProducers, entry'[q] = entry[q]
  PROVE  SameValues(q)
<1>1. Len(entry[q]) \in Nat
  BY DEF BlockTypes
<1> QED
  BY <1>1 DEF SameValues

\* A step that leaves the blocks as they are.
LEMMA ProducerKeeps ==
  ASSUME BlockState, NEW CONSTANT p \in IProducers, NEW CONSTANT l, NEW CONSTANT r, Goes(p, l, r),
         UNCHANGED headIndex, UNCHANGED tailIndex, UNCHANGED blocks, OthersIndex(p),
         KeepsBlocks(p), KeepsHeaders(p), SameValues(p), Indexed(p)', Homes'
  PROVE  BlockInv'
<1>1. /\ IProducers' = IProducers
      /\ \A q \in IProducers : OneHolder(q)'
      /\ \A q \in IProducers : q # p => KeepsBlocks(q) /\ Indexed(q)'
      /\ \A d \in IConsumers : ipc'[d] = ipc[d] /\ loc'[d] = loc[d]
  BY ProducerFrame
<1>2. \A q \in IProducers : KeepsBlocks(q) /\ Indexed(q)'
  BY <1>1
<1>3. ASSUME NEW CONSTANT q \in IProducers PROVE LiveLinked(q)' /\ Stay(q)' /\ \A k : Live(q, k)' <=> Live(q, k)
  <2>1. tailIndex'[q] = tailIndex[q]
    OBVIOUS
  <2> QED
    BY <1>2, <2>1, KeptElements
<1>4. ASSUME NEW CONSTANT q \in IProducers PROVE KeepsHeaders(q) /\ SameValues(q)
  <2>1. BlockTypes
    BY DEF BlockState
  <2>2. CASE q # p
    BY <1>2, <2>1, <2>2, HeadersSame, ValuesSame DEF OthersIndex
  <2> QED
    BY <2>2
<1>5. ASSUME NEW CONSTANT d \in IConsumers PROVE Searches(d)'
  <2>1. PICK q : q = loc[d].ptr
    OBVIOUS
  <2>2. q \in IProducers => KeepsBlocks(q) /\ KeepsHeaders(q) /\ (\A k : Live(q, k)' <=> Live(q, k))
    BY <1>2, <1>3, <1>4
  <2>3. ASSUME q \in IProducers, ipc[d] \in {"move", "setempty", "unlink"}
        PROVE  loc[d].e \in 1 .. Len(entry'[q]) /\ entry'[q][loc[d].e].value = entry[q][loc[d].e].value
    <3>1. loc[d].e \in 1 .. Len(entry[q])
      BY <2>1, <2>3, ConsumerIs DEF Searches
    <3> QED
      BY <1>4, <2>3, <3>1 DEF SameValues
  <2>4. ipc'[d] = ipc[d] /\ loc'[d] = loc[d]
    BY <1>1
  <2> QED
    BY <2>1, <2>2, <2>3, <2>4, KeptSearch
<1>6. CountsInBlock'
  BY DEF CountsInBlock, BlockState, BlockInv, blocks
<1> QED
  BY <1>1, <1>2, <1>3, <1>5, <1>6, BlockInvNext

\* A step that leaves the whole index as it is, and is about no block.
LEMMA ProducerGoesOn ==
  ASSUME BlockState, NEW CONSTANT p \in IProducers, NEW CONSTANT l, NEW CONSTANT r, Goes(p, l, r),
         UNCHANGED counters, UNCHANGED index, UNCHANGED blocks, tailBlock' = tailBlock,
         Filled(p)' = Filled(p), Top(p)' = Top(p), Inserts(p)', Rewound(p) => Rewound(p)', Homes'
  PROVE  BlockInv'
<1>1. headIndex' = headIndex /\ tailIndex' = tailIndex /\ header' = header /\ entry' = entry
  BY DEF counters, index
<1>2. OthersIndex(p)
  BY <1>1 DEF OthersIndex
<1>3. SameHolders(p)
  BY <1>1, <1>2, ProducerFrame
<1>4. CountTypes /\ BlockTypes /\ RingTypes(p) /\ RingKeys(p) /\ Keyed(p) /\ LiveLinked(p)
  BY ProducerIs DEF BlockState
<1>5. SameRing(p)
  BY <1>1 DEF SameRing
<1>6. /\ \A k : EntryOf(p, k)' = EntryOf(p, k)
      /\ RingTypes(p)' /\ RingKeys(p)'
      /\ \A k, h, e : Finds(p, k, h, e) => Finds(p, k, h, e)'
  BY <1>4, <1>5, RingFrame
<1>7. Keyed(p)'
  BY <1>1, <1>4 DEF Keyed
<1>8. Indexed(p)'
  BY <1>6, <1>7 DEF Indexed
<1>9. KeepsBlocks(p)
  <2>1. \A k : BlockOf(p, k)' = BlockOf(p, k)
    BY <1>1, <1>6 DEF BlockOf
  <2>2. \A k \in 0 .. Filled(p) : Live(p, k) => Linking(p, k)
    BY <1>4 DEF LiveLinked
  <2>3. \A k : Linking(p, k) => Linking(p, k)'
    BY <1>1, <1>6, <2>1 DEF Linking
  <2>4. /\ \A n : Open(p, n)' <=> Open(p, n)
        /\ \A n : Waits(p, n)' <=> Waits(p, n)
    BY <1>3, HoldFrame
  <2> QED
    BY <1>6, <2>1, <2>2, <2>3, <2>4 DEF KeepsBlocks
<1>10. KeepsHeaders(p) /\ SameValues(p)
  BY <1>1, <1>4, <1>9, HeadersSame, ValuesSame
<1> QED
  BY <1>1, <1>2, <1>8, <1>9, <1>10, ProducerKeeps

\* The block that is being filled, if the index is as it was.
LEMMA FillingKept ==
  ASSUME NEW CONSTANT p, Inserts(p), Filling(p), UNCHANGED index, tailBlock' = tailBlock, Filled(p)' = Filled(p), Top(p)' = Top(p)
  PROVE  tailBlock'[p] = entry'[p][EntryOf(p, Filled(p))'].value
<1>1. header' = header /\ entry' = entry
  BY DEF index
<1>2. BlockIndex(p)' = BlockIndex(p)
  BY <1>1 DEF BlockIndex
<1>3. EntryOf(p, Filled(p))' = EntryOf(p, Filled(p))
  BY <1>2 DEF EntryOf, Slot, IndexCapacity
<1> QED
  BY <1>1, <1>3 DEF Inserts

\* The calls of a producer that change nothing but where it is.
LEMMA EnqueueKeeps ==
  ASSUME BlockState, CountInv, load' = load, NEW CONSTANT p \in IProducers, Enqueue(p)
  PROVE  CountTypes' /\ CountInv' /\ BlockInv' /\ BlockTypes' /\ ThreadTypes'
<1>1. PICK l : l = (IF tailIndex[p] % BLOCK_SIZE = 0 THEN "insert" ELSE "publish")
  OBVIOUS
<1>2. /\ ipc[p] = "idle" /\ IGo(p, l) /\ loc' = loc /\ tailBlock' = tailBlock
      /\ UNCHANGED counters /\ UNCHANGED index /\ UNCHANGED blocks /\ UNCHANGED pool
  BY <1>1 DEF Enqueue
<1>3. p \in IThreads /\ p \notin IConsumers /\ CountTypes /\ BlockTypes /\ ThreadTypes /\ Inserts(p) /\ l \in PushLabels
  BY <1>1, ProducerIs DEF BlockState, PushLabels
<1>4. Goes(p, l, loc[p])
  BY <1>2, <1>3, StaysGoes
<1>5. Apart(p) /\ ipc'[p] = l /\ loc'[p] = loc[p] /\ ThreadTypes' /\ IProducers' = IProducers
  BY <1>3, <1>4, Gone
<1>6. tailIndex' = tailIndex /\ header' = header /\ entry' = entry
  BY <1>2 DEF counters, index
<1>7. Filled(p)' = Filled(p)
  <2>1. Filled(p)' = IF l = "publish" THEN tailIndex[p] \div BLOCK_SIZE ELSE (tailIndex[p] - 1) \div BLOCK_SIZE
    BY <1>5, <1>6 DEF Filled
  <2>2. Filled(p) = (tailIndex[p] - 1) \div BLOCK_SIZE
    BY <1>2 DEF Filled
  <2>3. l = "publish" => Filled(p) = tailIndex[p] \div BLOCK_SIZE
    BY <1>1, <1>3, NumbersAre
  <2> QED
    BY <2>1, <2>2, <2>3
<1>8. Top(p)' = Top(p)
  BY <1>1, <1>2, <1>5, <1>7 DEF Top, Getting
<1>9. Inserts(p)'
  <2>1. Filling(p)' => Filling(p)
    BY <1>1, <1>5, <1>6 DEF Filling
  <2>2. Filling(p)' => tailBlock'[p] = entry'[p][EntryOf(p, Filled(p))'].value
    BY <1>2, <1>3, <1>7, <1>8, <2>1, FillingKept
  <2>3. l \in {"insert", "inserttail"} \cup Getting => tailIndex'[p] % BLOCK_SIZE = 0
    BY <1>1, <1>6 DEF Getting
  <2>4. l # "inserttail" /\ l \notin Getting
    BY <1>1 DEF Getting
  <2> QED
    BY <1>5, <2>2, <2>3, <2>4 DEF Inserts
<1>10. Rewound(p) => Rewound(p)'
  <2> SUFFICES ASSUME Rewound(p) PROVE Rewound(p)'
    OBVIOUS
  <2>1. BlockIndex(p)' = BlockIndex(p)
    BY <1>6 DEF BlockIndex
  <2>2. NextEntry(p)' = NextEntry(p)
    BY <2>1 DEF NextEntry, NewTail, IndexCapacity
  <2>3. tailIndex[p] % BLOCK_SIZE = 0
    <3>1. PICK k \in Int : k = Top(p) + 1
      BY <1>3, NumbersAre
    <3>2. PICK x \in Nat : x = tailIndex[p] /\ x = k * BLOCK_SIZE
      BY <3>1, ProducerIs DEF Rewound
    <3>3. x = k * BLOCK_SIZE + 0 /\ 0 \in 0 .. (BLOCK_SIZE - 1) /\ x \in Int
      BY <3>1, <3>2, BlockSizeIs, BlockMultiples
    <3> QED
      BY <3>1, <3>2, <3>3, BlockUnique
  <2>4. ipc'[p] = "insert"
    BY <1>1, <1>5, <2>3
  <2> QED
    BY <1>6, <1>8, <2>2, <2>4 DEF Rewound
<1>11. Homes'
  <2>1. UNCHANGED <<load, entry>> /\ ~InHand(p)'
    BY <1>1, <1>5, <1>6 DEF InHand
  <2> QED
    BY <1>2, <1>3, <1>5, <2>1, HomesFrame
<1>12. BlockInv'
  BY <1>2, <1>4, <1>7, <1>8, <1>9, <1>10, <1>11, ProducerGoesOn
<1>13. BlockTypes'
  BY <1>2, <1>3, <1>6, BlockTypesStay
<1>14. CountTypes' /\ CountInv'
  BY <1>2, <1>3, <1>4, CountsUntouched
<1> QED
  BY <1>5, <1>12, <1>13, <1>14

LEMMA InsertFailsKeeps ==
  ASSUME BlockState, CountInv, load' = load, NEW CONSTANT p \in IProducers, InsertFails(p)
  PROVE  CountTypes' /\ CountInv' /\ BlockInv' /\ BlockTypes' /\ ThreadTypes'
<1>2. /\ ipc[p] = "insert" /\ IReturn(p) /\ tailBlock' = tailBlock
      /\ UNCHANGED counters /\ UNCHANGED index /\ UNCHANGED blocks /\ UNCHANGED pool
  BY DEF InsertFails
<1>3. p \in IThreads /\ p \notin IConsumers /\ CountTypes /\ BlockTypes /\ ThreadTypes /\ Inserts(p)
  BY ProducerIs DEF BlockState
<1>4. Goes(p, "idle", NoCall)
  BY <1>2, <1>3, ReturnGoes
<1>5. Apart(p) /\ ipc'[p] = "idle" /\ loc'[p] = NoCall /\ ThreadTypes' /\ IProducers' = IProducers
  BY <1>3, <1>4, Gone
<1>6. tailIndex' = tailIndex /\ header' = header /\ entry' = entry
  BY <1>2 DEF counters, index
<1>7. Filled(p)' = Filled(p)
  BY <1>2, <1>5, <1>6 DEF Filled
<1>8. Top(p)' = Top(p)
  BY <1>2, <1>5, <1>7 DEF Top, Getting
<1>9. Inserts(p)'
  <2>1. ~Filling(p)'
    BY <1>2, <1>3, <1>5, <1>6 DEF Filling, Inserts
  <2> QED
    BY <1>5, <2>1 DEF Inserts, Getting
<1>10. Rewound(p) => Rewound(p)'
  <2>1. BlockIndex(p)' = BlockIndex(p)
    BY <1>6 DEF BlockIndex
  <2>2. NextEntry(p)' = NextEntry(p)
    BY <2>1 DEF NextEntry, NewTail, IndexCapacity
  <2> QED
    BY <1>5, <1>6, <1>8, <2>2 DEF Rewound
<1>11. Homes'
  <2>1. UNCHANGED <<load, entry>> /\ ~InHand(p)'
    BY <1>5, <1>6 DEF InHand
  <2> QED
    BY <1>2, <1>3, <1>5, <2>1, HomesFrame
<1>12. BlockInv'
  BY <1>2, <1>4, <1>7, <1>8, <1>9, <1>10, <1>11, ProducerGoesOn
<1>13. BlockTypes'
  BY <1>2, <1>3, <1>6, BlockTypesStay
<1>14. CountTypes' /\ CountInv'
  BY <1>2, <1>3, <1>4, CountsUntouched
<1> QED
  BY <1>5, <1>12, <1>13, <1>14

\* requisition_block: a producer goes on looking for a block, or has one.
LEMMA GettingKeeps ==
  ASSUME BlockState, CountInv, NEW CONSTANT p \in IProducers, ipc[p] \in Getting,
         NEW CONSTANT l \in Getting, NEW CONSTANT r, r.e = loc[p].e, Goes(p, l, r),
         UNCHANGED counters, UNCHANGED index, UNCHANGED blocks, tailBlock' = tailBlock, Homes', BlockTypes'
  PROVE  CountTypes' /\ CountInv' /\ BlockInv' /\ BlockTypes' /\ ThreadTypes'
<1>3. p \in IThreads /\ p \notin IConsumers /\ CountTypes /\ ThreadTypes /\ Inserts(p)
  BY ProducerIs DEF BlockState
<1>5. Apart(p) /\ ipc'[p] = l /\ loc'[p] = r /\ ThreadTypes' /\ IProducers' = IProducers
  BY <1>3, Gone
<1>6. tailIndex' = tailIndex /\ header' = header /\ entry' = entry
  BY DEF counters, index
<1>7. Filled(p)' = Filled(p)
  BY <1>5, <1>6 DEF Filled, Getting
<1>8. Top(p)' = Top(p)
  BY <1>5, <1>7 DEF Top
<1>9. Inserts(p)'
  <2>1. tailIndex[p] % BLOCK_SIZE = 0 /\ loc[p].e = BlockIndex(p).slot[BlockIndex(p).tail] /\ Fresh(p, loc[p].e)
    BY <1>3 DEF Inserts
  <2>2. ~Filling(p)'
    BY <1>5, <1>6, <2>1 DEF Filling, Getting
  <2>3. BlockIndex(p)' = BlockIndex(p)
    BY <1>6 DEF BlockIndex
  <2>4. Fresh(p, loc[p].e)'
    BY <1>5, <1>6, <2>1 DEF Fresh
  <2>5. l # "inserttail"
    BY DEF Getting
  <2> QED
    BY <1>5, <1>6, <2>1, <2>2, <2>3, <2>4, <2>5 DEF Inserts
<1>10. ~Rewound(p)
  BY DEF Rewound, Getting
<1>12. BlockInv'
  BY <1>7, <1>8, <1>9, <1>10, ProducerGoesOn
<1>14. CountTypes' /\ CountInv'
  BY <1>3, CountsUntouched
<1> QED
  BY <1>5, <1>12, <1>14

LEMMA InUseAll == BlockTypes => \A a \in InUse : a \in MemBlocks /\ a \in Nat /\ a # None
  BY InUseAre

LEMMA InUseNext == (BlockTypes => \A a \in InUse : a \in MemBlocks /\ a \in Nat /\ a # None)'
  BY InUseAll, PTL

\* A block that nobody has, or that is in the free list.
LEMMA GotHomes ==
  ASSUME BlockState, NEW CONSTANT p \in IProducers, Apart(p), load' = load, entry' = entry,
         NEW CONSTANT b, b \in freeList \/ b \notin InUse, b \in InUse', InUse \subseteq InUse',
         freeList' \subseteq freeList, b \notin freeList', loc'[p].b = b, ipc'[p] \in PushLabels, BlockTypes'
  PROVE  Homes'
<1>0. Homes /\ p \in IThreads /\ p \notin IConsumers /\ IConsumers \subseteq IThreads
  BY ProducerIs, SubThreads DEF BlockState, BlockInv
<1>1. IProducers' = IProducers /\ IThreads' = IThreads
  BY DEF IProducers, IThreads, NProducers
<1>2. \A u \in IThreads : u # p /\ InHand(u)' => InHand(u) /\ loc'[u] = loc[u]
  BY DEF Apart, InHand
<1>3. b # None
  <2>1. \A a \in InUse' : a # None
    BY InUseNext
  <2> QED
    BY <2>1
<1>4. \A u \in IThreads : InHand(u) => loc[u].b # b
  BY <1>0 DEF Homes, HandsHold
<1>5. \A q \in IProducers : \A i \in 1 .. Len(entry[q]) : entry[q][i].value # b
  BY <1>0, <1>3 DEF Homes, LinksHold
<1>6. LinksApart'
  BY <1>0, <1>1 DEF Homes, LinksApart
<1>7. LinksHold'
  BY <1>0, <1>1 DEF Homes, LinksHold
<1>8. HandsApart'
  <2> SUFFICES ASSUME NEW u \in IThreads, NEW w \in IThreads, InHand(u)', InHand(w)', loc'[u].b = loc'[w].b PROVE u = w
    BY <1>1 DEF HandsApart
  <2>1. CASE u = p \/ w = p
    BY <1>2, <1>4, <2>1
  <2>2. CASE u # p /\ w # p
    BY <1>0, <1>2, <2>2 DEF Homes, HandsApart
  <2> QED
    BY <2>1, <2>2
<1>9. HandsHold'
  <2> SUFFICES ASSUME NEW u \in IThreads, InHand(u)'
               PROVE  /\ loc'[u].b \in InUse' \ freeList'
                      /\ \A q \in IProducers : \A i \in 1 .. Len(entry[q]) : entry[q][i].value # loc'[u].b
    BY <1>1 DEF HandsHold
  <2>1. CASE u = p
    BY <1>5, <2>1
  <2>2. CASE u # p
    <3>1. PICK a : a = loc[u].b /\ a = loc'[u].b /\ InHand(u)
      BY <1>2, <2>2
    <3>2. a \in InUse \ freeList /\ \A q \in IProducers : \A i \in 1 .. Len(entry[q]) : entry[q][i].value # a
      BY <1>0, <3>1 DEF Homes, HandsHold
    <3> QED
      BY <3>1, <3>2
  <2> QED
    BY <2>1, <2>2
<1>10. UnlinksApart'
  <2>1. \A d \in IConsumers : ipc'[d] = ipc[d] /\ loc'[d] = loc[d]
    BY <1>0 DEF Apart
  <2> QED
    BY <1>0, <2>1 DEF Homes, UnlinksApart
<1>11. freeList' \subseteq InUse'
  BY <1>0 DEF Homes
<1> QED
  BY <1>6, <1>7, <1>8, <1>9, <1>10, <1>11 DEF Homes

LEMMA PoolLoadKeeps ==
  ASSUME BlockState, CountInv, load' = load, NEW CONSTANT p \in IProducers, PoolLoad(p)
  PROVE  CountTypes' /\ CountInv' /\ BlockInv' /\ BlockTypes' /\ ThreadTypes'
<1>1. PICK l : l = (IF initialBlockPoolIndex < PoolSize THEN "pooltake" ELSE "freelist")
  OBVIOUS
<1>2. /\ ipc[p] = "pool" /\ IGo(p, l) /\ loc' = loc /\ tailBlock' = tailBlock
      /\ UNCHANGED counters /\ UNCHANGED index /\ UNCHANGED blocks /\ UNCHANGED pool
  BY <1>1 DEF PoolLoad
<1>3. p \in IThreads /\ p \notin IConsumers /\ CountTypes /\ BlockTypes /\ ThreadTypes
  BY ProducerIs DEF BlockState
<1>4. l \in PushLabels /\ l \in Getting /\ ipc[p] \in Getting /\ l # "value"
  BY <1>1, <1>2 DEF PushLabels, Getting
<1>5. Goes(p, l, loc[p])
  BY <1>2, <1>3, <1>4, StaysGoes
<1>6. Apart(p) /\ ipc'[p] = l
  BY <1>3, <1>5, Gone
<1>7. Homes'
  <2>1. UNCHANGED <<load, entry>> /\ ~InHand(p)'
    BY <1>1, <1>2, <1>6 DEF InHand, index
  <2> QED
    BY <1>2, <1>3, <1>6, <2>1, HomesFrame
<1>8. BlockTypes'
  BY <1>2, <1>3, BlockTypesStay DEF index
<1> QED
  BY <1>2, <1>4, <1>5, <1>7, <1>8, GettingKeeps

\* What a producer does with the block that it has found.
LEMMA GotBlockKeeps ==
  ASSUME BlockState, CountInv, load' = load, NEW CONSTANT p \in IProducers, ipc[p] \in {"pooltake", "freelist"},
         UNCHANGED counters, UNCHANGED index, UNCHANGED blocks, tailBlock' = tailBlock,
         NEW CONSTANT b \in Nat, GotBlock(p, b), b \in freeList \/ b \notin InUse, b \in InUse', InUse \subseteq InUse',
         freeList' \subseteq freeList, b \notin freeList', BlockTypes'
  PROVE  CountTypes' /\ CountInv' /\ BlockInv' /\ BlockTypes' /\ ThreadTypes'
<1>1. p \in IThreads /\ p \notin IConsumers /\ CountTypes /\ ThreadTypes /\ loc[p] \in Locals
  BY ProducerIs DEF BlockState
<1>2. "value" \in PushLabels /\ "value" \in Getting /\ ipc[p] \in Getting /\ ipc[p] # "idle"
  BY DEF PushLabels, Getting
<1>3. IGo(p, "value") /\ Know(p, "b", b)
  BY DEF GotBlock
<1>4. PICK r : r = [loc[p] EXCEPT !["b"] = b]
  OBVIOUS
<1>5. Goes(p, "value", r) /\ r = [loc[p] EXCEPT !.b = b]
  BY <1>1, <1>2, <1>3, <1>4, KnowGoes
<1>6. r.e = loc[p].e /\ r.b = b
  BY <1>1, <1>5, OneSet
<1>7. Apart(p) /\ ipc'[p] = "value" /\ loc'[p] = r
  BY <1>1, <1>5, Gone
<1>8. Homes'
  <2>1. entry' = entry
    BY DEF index
  <2> QED
    BY <1>2, <1>6, <1>7, <2>1, GotHomes
<1> QED
  BY <1>2, <1>5, <1>6, <1>8, GettingKeeps

LEMMA PoolTypesNext ==
  ASSUME BlockTypes, load' = load, tailBlock' = tailBlock, UNCHANGED index, UNCHANGED blocks,
         initialBlockPoolIndex' \in Nat, freeList' \subseteq MemBlocks, created' \subseteq MemBlocks \ (1 .. PoolSize)
  PROVE  BlockTypes'
<1>1. IProducers' = IProducers
  BY DEF IProducers, NProducers
<1> QED
  BY <1>1 DEF BlockTypes, blocks, index

LEMMA SameHomes ==
  ASSUME BlockState, NEW CONSTANT p \in IProducers, Apart(p), load' = load, entry' = entry,
         InUse' = InUse, freeList' = freeList, ipc'[p] \notin {"value", "give", "unlink"}
  PROVE  Homes'
<1>1. IProducers' = IProducers /\ IThreads' = IThreads /\ p \notin IConsumers /\ IConsumers \subseteq IThreads
  BY ProducerIs, SubThreads DEF IProducers, IThreads, NProducers
<1>2. Homes
  BY DEF BlockState, BlockInv
<1>3. \A u \in IThreads : InHand(u)' => InHand(u) /\ loc'[u].b = loc[u].b
  BY DEF Apart, InHand
<1>4. \A c \in IConsumers : ipc'[c] = ipc[c] /\ loc'[c] = loc[c]
  BY <1>1 DEF Apart
<1>5. LinksApart' /\ LinksHold'
  BY <1>1, <1>2 DEF Homes, LinksApart, LinksHold
<1>6. HandsApart'
  BY <1>1, <1>2, <1>3 DEF Homes, HandsApart
<1>7. HandsHold'
  BY <1>1, <1>2, <1>3 DEF Homes, HandsHold
<1>8. UnlinksApart'
  BY <1>2, <1>4 DEF Homes, UnlinksApart
<1> QED
  BY <1>2, <1>5, <1>6, <1>7, <1>8 DEF Homes

LEMMA PoolTakeKeeps ==
  ASSUME BlockState, CountInv, load' = load, NEW CONSTANT p \in IProducers, PoolTake(p)
  PROVE  CountTypes' /\ CountInv' /\ BlockInv' /\ BlockTypes' /\ ThreadTypes'
<1>1. /\ ipc[p] = "pooltake" /\ initialBlockPoolIndex' = initialBlockPoolIndex + 1
      /\ UNCHANGED counters /\ UNCHANGED index /\ UNCHANGED blocks /\ tailBlock' = tailBlock
      /\ freeList' = freeList /\ created' = created
  BY DEF PoolTake
<1>2. PICK i \in Nat : i = initialBlockPoolIndex /\ initialBlockPoolIndex' = i + 1
  BY <1>1 DEF BlockState, BlockTypes
<1>3. p \in IThreads /\ p \notin IConsumers /\ CountTypes /\ BlockTypes /\ ThreadTypes
  BY ProducerIs DEF BlockState
<1>4. created \subseteq MemBlocks \ (1 .. PoolSize) /\ freeList \subseteq MemBlocks /\ PoolSize \in Nat
  BY <1>3, IQAssumption DEF BlockTypes
<1>5. BlockTypes'
  <2>1. i + 1 \in Nat
    OBVIOUS
  <2> QED
    BY <1>1, <1>2, <1>3, <1>4, <2>1, PoolTypesNext
<1>6. InUse = created \cup {b \in 1 .. PoolSize : b <= i} /\ InUse' = created \cup {b \in 1 .. PoolSize : b <= i + 1}
  BY <1>1, <1>2 DEF InUse
<1>7. InUse \subseteq InUse'
  BY <1>4, <1>6
<1>8. CASE i < PoolSize /\ GotBlock(p, i + 1)
  <2>1. PICK b \in Nat : b = i + 1
    OBVIOUS
  <2>2. b \in 1 .. PoolSize
    BY <1>4, <1>8, <2>1
  <2>3. b \in InUse'
    BY <1>6, <2>1, <2>2
  <2>4. b \notin InUse
    <3>1. b \notin created
      BY <1>4, <2>2
    <3> QED
      BY <1>6, <2>1, <3>1
  <2>5. b \notin freeList'
    BY <1>1, <2>4 DEF BlockState, BlockInv, Homes
  <2>6. GotBlock(p, b)
    BY <1>8, <2>1
  <2> QED
    BY <1>1, <1>5, <1>7, <2>3, <2>4, <2>5, <2>6, GotBlockKeeps
<1>9. CASE i >= PoolSize /\ IGo(p, "freelist") /\ loc' = loc
  <2>1. "freelist" \in PushLabels /\ "freelist" \in Getting /\ ipc[p] \in Getting /\ ipc[p] # "idle"
    BY <1>1 DEF PushLabels, Getting
  <2>2. Goes(p, "freelist", loc[p])
    BY <1>3, <1>9, <2>1, StaysGoes
  <2>3. Apart(p) /\ ipc'[p] = "freelist"
    BY <1>3, <2>2, Gone
  <2>4. Homes'
    <3>1. InUse' = InUse
      BY <1>4, <1>6, <1>9
    <3> QED
      BY <1>1, <1>3, <2>3, <3>1, SameHomes DEF index
  <2> QED
    BY <1>1, <1>5, <2>1, <2>2, <2>4, GettingKeeps
<1> QED
  <2>1. \/ initialBlockPoolIndex < PoolSize /\ GotBlock(p, initialBlockPoolIndex + 1)
        \/ initialBlockPoolIndex >= PoolSize /\ IGo(p, "freelist") /\ loc' = loc
    BY DEF PoolTake
  <2> QED
    BY <1>2, <1>8, <1>9, <2>1

LEMMA FreeListGetKeeps ==
  ASSUME BlockState, CountInv, load' = load, NEW CONSTANT p \in IProducers, FreeListGet(p)
  PROVE  CountTypes' /\ CountInv' /\ BlockInv' /\ BlockTypes' /\ ThreadTypes'
<1>1. /\ ipc[p] = "freelist" /\ UNCHANGED counters /\ UNCHANGED index /\ UNCHANGED blocks /\ tailBlock' = tailBlock
      /\ initialBlockPoolIndex' = initialBlockPoolIndex /\ created' = created
  BY DEF FreeListGet
<1>2. PICK b \in freeList : freeList' = freeList \ {b} /\ GotBlock(p, b)
  BY DEF FreeListGet
<1>3. BlockTypes
  BY DEF BlockState
<1>4. BlockTypes'
  <2>1. /\ initialBlockPoolIndex' \in Nat /\ freeList' \subseteq MemBlocks /\ created' \subseteq MemBlocks \ (1 .. PoolSize)
    BY <1>1, <1>2, <1>3 DEF BlockTypes
  <2> QED
    BY <1>1, <1>3, <2>1, PoolTypesNext
<1>5. InUse' = InUse
  BY <1>1 DEF InUse
<1>6. b \in InUse /\ b \in Nat
  <2>1. b \in InUse
    BY DEF BlockState, BlockInv, Homes
  <2> QED
    BY <1>3, <2>1, InUseAre
<1> QED
  BY <1>1, <1>2, <1>4, <1>5, <1>6, GotBlockKeeps

LEMMA CreateKeeps ==
  ASSUME BlockState, CountInv, load' = load, NEW CONSTANT p \in IProducers, Create(p)
  PROVE  CountTypes' /\ CountInv' /\ BlockInv' /\ BlockTypes' /\ ThreadTypes'
<1>1. /\ ipc[p] = "freelist" /\ UNCHANGED counters /\ UNCHANGED index /\ UNCHANGED blocks /\ tailBlock' = tailBlock
      /\ initialBlockPoolIndex' = initialBlockPoolIndex /\ freeList' = freeList /\ Unused # {}
  BY DEF Create
<1>2. PICK b : b \in Unused /\ created' = created \cup {b} /\ GotBlock(p, b)
  BY DEF Create
<1>3. BlockTypes
  BY DEF BlockState
<1>4. b \in MemBlocks /\ b \notin created /\ b \notin 1 .. PoolSize
  BY <1>2 DEF Unused
<1>5. BlockTypes'
  <2>1. /\ initialBlockPoolIndex' \in Nat /\ freeList' \subseteq MemBlocks /\ created' \subseteq MemBlocks \ (1 .. PoolSize)
    BY <1>1, <1>2, <1>3, <1>4 DEF BlockTypes
  <2> QED
    BY <1>1, <1>3, <2>1, PoolTypesNext
<1>6. b \in InUse' /\ InUse \subseteq InUse' /\ b \notin InUse
  BY <1>1, <1>2, <1>4 DEF InUse
<1>7. b \in Nat
  <2>1. Memory \in Nat
    BY IQAssumption
  <2> QED
    BY <1>4, <2>1 DEF MemBlocks
<1>8. b \notin freeList'
  BY <1>1, <1>6 DEF BlockState, BlockInv, Homes
<1> QED
  BY <1>1, <1>2, <1>5, <1>6, <1>7, <1>8, GotBlockKeeps

\* The tail of the last index of p is moved.
MovesTail(p, u) == header' = [header EXCEPT ![p][Len(header[p])].tail = u]

LEMMA TailMoved ==
  ASSUME CountTypes, BlockTypes, NEW CONSTANT p \in IProducers, RingTypes(p),
         NEW CONSTANT n, NEW CONSTANT t, NEW CONSTANT s, RingIs(p, n, t, s), NEW CONSTANT u \in 0 .. (n - 1), MovesTail(p, u)
  PROVE  /\ header' \in [IProducers -> Seq(Headers)] /\ \A q \in IProducers : q # p => header'[q] = header[q]
         /\ Len(header[p]) \in Nat /\ Len(header[p]) >= 1 /\ Len(header'[p]) = Len(header[p]) /\ header'[p] # <<>>
         /\ \A i \in 1 .. Len(header[p]) : i # Len(header[p]) => header'[p][i] = header[p][i]
         /\ BlockIndex(p)' = [slot |-> s, tail |-> u]
<1>0. header \in [IProducers -> Seq(Headers)]
  BY DEF BlockTypes
<1>1. PICK g : g = header[p] /\ g \in Seq(Headers)
  BY <1>0
<1>2. Len(g) \in Nat /\ Len(g) >= 1
  BY <1>1 DEF RingTypes
<1>3. PICK m \in Nat : m = Len(g) /\ m >= 1
  BY <1>2
<1>4. PICK h : h = g[m] /\ h \in Headers /\ h = BlockIndex(p)
  BY <1>1, <1>3 DEF BlockIndex
<1>5. h.slot = s /\ h.tail = t
  BY <1>4 DEF RingIs
<1>6. PICK w : w = [h EXCEPT !.tail = u]
  OBVIOUS
<1>7. n \in Nat /\ n > 0 /\ s \in [0 .. (n - 1) -> 1 .. n]
  BY DEF RingIs
<1>8. w = [slot |-> s, tail |-> u]
  <2>1. PICK z \in Nat \ {0} : h \in [slot : [0 .. (z - 1) -> 1 .. z], tail : 0 .. (z - 1)]
    BY <1>4 DEF Headers
  <2> QED
    BY <1>5, <1>6, <2>1
<1>9. w \in Headers
  <2>1. w \in [slot : [0 .. (n - 1) -> 1 .. n], tail : 0 .. (n - 1)]
    BY <1>7, <1>8
  <2>2. n \in Nat \ {0}
    BY <1>7
  <2>3. \E z \in Nat \ {0} : w \in [slot : [0 .. (z - 1) -> 1 .. z], tail : 0 .. (z - 1)]
    BY <2>1, <2>2
  <2> QED
    BY <2>3 DEF Headers
<1>10. PICK f : f = [g EXCEPT ![m] = w]
  OBVIOUS
<1>11. f \in Seq(Headers) /\ Len(f) = m /\ f[m] = w /\ \A i \in 1 .. m : i # m => f[i] = g[i]
  BY <1>1, <1>3, <1>9, <1>10
<1>12. header' = [header EXCEPT ![p] = f]
  BY <1>0, <1>1, <1>3, <1>4, <1>6, <1>10 DEF MovesTail
<1>13. header'[p] = f /\ header' \in [IProducers -> Seq(Headers)] /\ \A q \in IProducers : q # p => header'[q] = header[q]
  BY <1>0, <1>11, <1>12
<1>14. BlockIndex(p)' = w
  BY <1>11, <1>13 DEF BlockIndex
<1>15. f # <<>>
  BY <1>3, <1>11
<1> QED
  BY <1>1, <1>3, <1>8, <1>11, <1>13, <1>14, <1>15

\* Its entries are then counted from there.
LEMMA TurnedRing ==
  ASSUME NEW CONSTANT p, NEW CONSTANT n, NEW CONSTANT t, NEW CONSTANT s, RingIs(p, n, t, s), NEW CONSTANT u \in 0 .. (n - 1),
         BlockIndex(p)' = [slot |-> s, tail |-> u], header'[p] # <<>>, entry'[p] = entry[p]
  PROVE  /\ RingTypes(p)' /\ RingIs(p, n, u, s)'
         /\ \A j : Back(p, j)' = s[Ago(u, j, n)]
         /\ \A j : KeyAgo(p, j)' = entry[p][s[Ago(u, j, n)]].key
         /\ NextEntry(p)' = s[Ago(u, n - 1, n)]
<1>1. n \in Nat /\ n > 0 /\ s \in [0 .. (n - 1) -> 1 .. n] /\ n = Len(entry[p]) /\ \A i, j \in 0 .. (n - 1) : s[i] = s[j] => i = j
  BY DEF RingIs
<1>2. PICK g : g = [slot |-> s, tail |-> u] /\ BlockIndex(p)' = g /\ g.slot = s /\ g.tail = u
  OBVIOUS
<1>3. IndexCapacity(g) = n
  <2>1. DOMAIN g.slot = 0 .. (n - 1)
    BY <1>1, <1>2
  <2> QED
    BY <1>1, <2>1, CapacityIs
<1>4. IndexCapacity(BlockIndex(p))' = n
  BY <1>2, <1>3 DEF IndexCapacity
<1>5. RingTypes(p)'
  BY <1>1, <1>2 DEF RingTypes
<1>6. RingIs(p, n, u, s)'
  BY <1>1, <1>2, <1>4 DEF RingIs
<1>7. \A j : Back(p, j)' = s[Ago(u, j, n)]
  BY <1>2, <1>3 DEF Back, Slot, IndexCapacity
<1>8. \A j : KeyAgo(p, j)' = entry[p][s[Ago(u, j, n)]].key
  BY <1>2, <1>3 DEF KeyAgo, Slot, IndexCapacity
<1>9. NextEntry(p)' = s[(u + 1) % n]
  BY <1>2, <1>3 DEF NextEntry, NewTail, IndexCapacity
<1>10. (u + 1) % n = Ago(u, n - 1, n)
  BY <1>1, AgoIs
<1> QED
  BY <1>5, <1>6, <1>7, <1>8, <1>9, <1>10

LEMMA NumbersAll == CountTypes => \A p \in IProducers : Filled(p) \in Int /\ Top(p) \in Int /\ Filled(p) <= Top(p)
  BY NumbersAre

LEMMA NumbersNext == (CountTypes => \A p \in IProducers : Filled(p) \in Int /\ Top(p) \in Int /\ Filled(p) <= Top(p))'
  BY NumbersAll, PTL

\* Who has an element finds it from the new tail.
LEMMA TailKeeps ==
  ASSUME BlockState, CountTypes', BlockTypes', IProducers' = IProducers, NEW CONSTANT p \in IProducers,
         SameHolders(p), Filled(p)' = Filled(p), entry'[p] = entry[p], Indexed(p)',
         Len(header'[p]) = Len(header[p]), \A i \in 1 .. Len(header[p]) : i # Len(header[p]) => header'[p][i] = header[p][i],
         BlockIndex(p)'.slot = BlockIndex(p).slot,
         \A k \in 0 .. Filled(p) : Live(p, k) => EntryOf(p, k)' = EntryOf(p, k) /\ Top(p)' - k < Len(entry[p])
  PROVE  KeepsBlocks(p) /\ KeepsHeaders(p) /\ SameValues(p)
<1>1. LiveLinked(p) /\ CountTypes /\ BlockTypes
  BY ProducerIs DEF BlockState
<1>2. ASSUME NEW CONSTANT k \in 0 .. Filled(p), Live(p, k)
      PROVE  EntryOf(p, k)' = EntryOf(p, k) /\ BlockOf(p, k)' = BlockOf(p, k) /\ Linking(p, k)'
  <2>1. Linking(p, k)
    BY <1>1, <1>2 DEF LiveLinked
  <2>2. EntryOf(p, k)' = EntryOf(p, k) /\ Top(p)' - k < Len(entry[p])
    BY <1>2
  <2>3. BlockOf(p, k)' = BlockOf(p, k)
    BY <2>2 DEF BlockOf
  <2> QED
    BY <2>1, <2>2, <2>3 DEF Linking
<1>3. ASSUME NEW CONSTANT k \in 0 .. Filled(p), NEW CONSTANT h, NEW CONSTANT a, Live(p, k), Finds(p, k, h, a) PROVE Finds(p, k, h, a)'
  <2>1. EntryOf(p, k)' = EntryOf(p, k)
    BY <1>2, <1>3
  <2> QED
    BY <1>3, <2>1 DEF Finds, Slot, IndexCapacity
<1>4. /\ \A n : Open(p, n)' <=> Open(p, n)
      /\ \A n : Waits(p, n)' <=> Waits(p, n)
  BY HoldFrame
<1>5. KeepsBlocks(p)
  BY <1>2, <1>3, <1>4 DEF KeepsBlocks
<1>6. Len(header[p]) \in Nat /\ Len(entry[p]) \in Nat
  BY <1>1 DEF BlockTypes
<1>7. ASSUME NEW CONSTANT i \in 1 .. Len(header[p]), NEW CONSTANT k \in 0 .. Filled(p), Live(p, k),
             Finds(p, k, header[p][i], header[p][i].tail)
      PROVE  Finds(p, k, header[p][i], header[p][i].tail)'
  <2>1. CASE i # Len(header[p])
    <3>1. PICK h, a : h = header[p][i] /\ a = header[p][i].tail
      OBVIOUS
    <3>2. Finds(p, k, h, a)'
      BY <1>3, <1>7, <3>1
    <3> QED
      BY <2>1, <3>1, <3>2
  <2>2. CASE i = Len(header[p])
    <3>1. k \in Nat /\ k <= Top(p)'
      <4>1. Filled(p)' <= Top(p)' /\ Filled(p)' \in Int /\ Top(p)' \in Int
        BY NumbersNext
      <4> QED
        BY <4>1
    <3>2. Linking(p, k)'
      BY <1>2, <1>7
    <3>3. Finds(p, k, BlockIndex(p), BlockIndex(p).tail)'
      BY <3>1, <3>2, CurrentFindsNext
    <3>4. PICK g : g = BlockIndex(p)' /\ g = header'[p][i]
      BY <2>2 DEF BlockIndex
    <3>5. Finds(p, k, g, g.tail)'
      BY <3>3, <3>4
    <3> QED
      BY <3>4, <3>5
  <2> QED
    BY <2>1, <2>2
<1>8. \A i \in 1 .. Len(header[p]) : header'[p][i].slot = header[p][i].slot
  BY DEF BlockIndex
<1>9. KeepsHeaders(p)
  BY <1>6, <1>7, <1>8 DEF KeepsHeaders
<1> QED
  BY <1>5, <1>6, <1>9, ValuesSame, <1>1

LEMMA AgoOn ==
  ASSUME NEW n \in Nat, NEW t \in 0 .. (n - 1), NEW u, u = (t + 1) % n
  PROVE  /\ u \in 0 .. (n - 1) /\ Ago(u, 0, n) = Ago(t, n - 1, n)
         /\ \A j \in 1 .. (n - 1) : Ago(u, j, n) = Ago(t, j - 1, n)
<1>1. u = IF t + 1 < 0 THEN t + 1 + n ELSE IF t + 1 < n THEN t + 1 ELSE t + 1 - n
  BY Remainder
<1> QED
  BY <1>1 DEF Ago

LEMMA AgoOff ==
  ASSUME NEW n \in Nat, NEW t \in 0 .. (n - 1), NEW u, u = (t - 1) % n
  PROVE  /\ u \in 0 .. (n - 1) /\ Ago(u, n - 1, n) = t /\ Ago(t, 0, n) = t
         /\ \A j \in 0 .. (n - 2) : Ago(u, j, n) = Ago(t, j + 1, n)
<1>1. u = IF t - 1 < 0 THEN t - 1 + n ELSE IF t - 1 < n THEN t - 1 ELSE t - 1 - n
  BY Remainder
<1> QED
  BY <1>1 DEF Ago

\* The tail is moved to the entry after it.
LEMMA InsertTailKeys ==
  ASSUME CountTypes, BlockTypes, NEW CONSTANT p \in IProducers, RingKeys(p), Fresh(p, NextEntry(p)),
         NEW CONSTANT n, NEW CONSTANT t, NEW CONSTANT s, RingIs(p, n, t, s), NEW CONSTANT u, u = (t + 1) % n,
         \A j : KeyAgo(p, j)' = entry[p][s[Ago(u, j, n)]].key, entry'[p] = entry[p],
         NEW CONSTANT v \in Int, Top(p) = v, Top(p)' = v + 1, tailIndex[p] = (v + 1) * BLOCK_SIZE
  PROVE  RingKeys(p)'
<1>1. n \in Nat /\ n > 0 /\ t \in 0 .. (n - 1) /\ s \in [0 .. (n - 1) -> 1 .. n] /\ n = Len(entry[p])
  BY DEF RingIs
<1>2. /\ u \in 0 .. (n - 1) /\ Ago(u, 0, n) = Ago(t, n - 1, n)
      /\ \A j \in 1 .. (n - 1) : Ago(u, j, n) = Ago(t, j - 1, n)
  BY <1>1, AgoOn
<1>3. \A j : KeyAgo(p, j) = entry[p][s[Ago(t, j, n)]].key
  BY DEF KeyAgo, Slot, RingIs
<1>4. KeyAgo(p, 0)' = (v + 1) * BLOCK_SIZE
  <2>1. NextEntry(p) = s[Ago(t, n - 1, n)]
    BY BackIs
  <2> QED
    BY <1>2, <2>1 DEF Fresh
<1>5. IsKey(p, 0)'
  <2>1. Top(p)' - 0 = v + 1
    OBVIOUS
  <2> QED
    BY <1>4, <2>1 DEF IsKey
<1>6. ASSUME NEW j \in 1 .. (n - 1) PROVE KeyAgo(p, j)' = KeyAgo(p, j - 1) /\ (IsKey(p, j)' <=> IsKey(p, j - 1))
  <2>1. KeyAgo(p, j)' = KeyAgo(p, j - 1)
    BY <1>2, <1>3
  <2>2. Top(p)' - j = Top(p) - (j - 1)
    OBVIOUS
  <2> QED
    BY <2>1, <2>2 DEF IsKey
<1>7. ASSUME NEW j \in 0 .. (n - 1)
      PROVE  /\ IsKey(p, j)' \/ KeyAgo(p, j)' = INVALID_BLOCK_BASE
             /\ IsKey(p, j)' => \A i \in 0 .. j : IsKey(p, i)'
  <2>1. CASE j = 0
    <3>1. \A i \in 0 .. 0 : i = 0
      OBVIOUS
    <3> QED
      BY <1>5, <2>1, <3>1
  <2>2. CASE j # 0
    <3>1. j \in 1 .. (n - 1) /\ j - 1 \in 0 .. (n - 1) /\ j - 1 # n - 1
      BY <1>1, <2>2
    <3>2. /\ IsKey(p, j - 1) \/ KeyAgo(p, j - 1) = INVALID_BLOCK_BASE
          /\ IsKey(p, j - 1) => \A i \in 0 .. (j - 1) : IsKey(p, i)
      BY <1>1, <3>1 DEF RingKeys
    <3>3. ASSUME IsKey(p, j)', NEW i \in 0 .. j PROVE IsKey(p, i)'
      <4>1. CASE i = 0
        BY <1>5, <4>1
      <4>2. CASE i # 0
        <5>1. i \in 1 .. (n - 1) /\ i - 1 \in 0 .. (j - 1)
          BY <1>1, <4>2
        <5>2. IsKey(p, j - 1)
          BY <1>6, <3>1, <3>3
        <5> QED
          BY <1>6, <3>2, <5>1, <5>2
      <4> QED
        BY <4>1, <4>2
    <3> QED
      BY <1>6, <3>1, <3>2, <3>3
  <2> QED
    BY <2>1, <2>2
<1> QED
  BY <1>1, <1>7 DEF RingKeys

\* The tail is moved back over the last.
LEMMA RewoundKeys ==
  ASSUME CountTypes, BlockTypes, NEW CONSTANT p \in IProducers, RingKeys(p), ~Rewound(p),
         NEW CONSTANT n, NEW CONSTANT t, NEW CONSTANT s, RingIs(p, n, t, s), NEW CONSTANT u, u = (t - 1) % n,
         \A j : KeyAgo(p, j)' = entry[p][s[Ago(u, j, n)]].key, entry'[p] = entry[p], Rewound(p)',
         NEW CONSTANT v \in Int, Top(p) = v + 1, Top(p)' = v, Fresh(p, s[t]), tailIndex[p] = (v + 1) * BLOCK_SIZE
  PROVE  RingKeys(p)'
<1>1. n \in Nat /\ n > 0 /\ t \in 0 .. (n - 1) /\ s \in [0 .. (n - 1) -> 1 .. n] /\ n = Len(entry[p])
  BY DEF RingIs
<1>2. /\ u \in 0 .. (n - 1) /\ Ago(u, n - 1, n) = t
      /\ \A j \in 0 .. (n - 2) : Ago(u, j, n) = Ago(t, j + 1, n)
  <2>1. n \in Nat /\ t \in 0 .. (n - 1)
    BY <1>1
  <2> QED
    BY ONLY <2>1, u = (t - 1) % n, AgoOff
<1>3. \A j : KeyAgo(p, j) = entry[p][s[Ago(t, j, n)]].key
  BY DEF KeyAgo, Slot, RingIs
<1>4. ~IsKey(p, n - 1)'
  <2>1. KeyAgo(p, n - 1)' = (v + 1) * BLOCK_SIZE
    <3>1. entry[p][s[t]].key = (v + 1) * BLOCK_SIZE
      BY DEF Fresh
    <3>2. KeyAgo(p, n - 1)' = entry[p][s[Ago(u, n - 1, n)]].key
      OBVIOUS
    <3> QED
      BY <1>2, <3>1, <3>2
  <2>4. n \in Nat /\ n > 0
    BY <1>1
  <2>2. v - (n - 1) \in Int /\ v - (n - 1) # v + 1 /\ v + 1 \in Int
    BY <2>4
  <2>5. (v - (n - 1)) * BLOCK_SIZE # (v + 1) * BLOCK_SIZE
    BY <2>2, BlockMultiples
  <2>3. (Top(p)' - (n - 1)) * BLOCK_SIZE # (v + 1) * BLOCK_SIZE
    BY <2>5
  <2> QED
    BY <2>1, <2>3 DEF IsKey
<1>5. ASSUME NEW j \in 0 .. (n - 2) PROVE KeyAgo(p, j)' = KeyAgo(p, j + 1) /\ (IsKey(p, j)' <=> IsKey(p, j + 1))
  <2>1. KeyAgo(p, j)' = KeyAgo(p, j + 1)
    BY <1>2, <1>3
  <2>2. Top(p)' - j = Top(p) - (j + 1)
    OBVIOUS
  <2> QED
    BY <2>1, <2>2 DEF IsKey
<1>6. ASSUME NEW j \in 0 .. (n - 1)
      PROVE  /\ IsKey(p, j)' \/ KeyAgo(p, j)' = INVALID_BLOCK_BASE \/ j = n - 1
             /\ IsKey(p, j)' => \A i \in 0 .. j : IsKey(p, i)'
  <2>1. CASE j = n - 1
    BY <1>4, <2>1
  <2>2. CASE j # n - 1
    <3>2. j \in 0 .. (n - 2) /\ j + 1 \in 0 .. (n - 1)
      BY <1>1, <2>2
    <3>3. /\ IsKey(p, j + 1) \/ KeyAgo(p, j + 1) = INVALID_BLOCK_BASE
          /\ IsKey(p, j + 1) => \A i \in 0 .. (j + 1) : IsKey(p, i)
      BY <1>1, <3>2 DEF RingKeys
    <3>4. ASSUME IsKey(p, j)', NEW i \in 0 .. j PROVE IsKey(p, i)'
      <4>4. n \in Nat /\ j \in 0 .. (n - 2)
        BY <1>1, <3>2
      <4>1. i \in 0 .. (n - 2) /\ i + 1 \in 0 .. (j + 1)
        BY <4>4
      <4>2. IsKey(p, j + 1)
        BY <1>5, <3>2, <3>4
      <4>3. IsKey(p, i + 1)
        BY <3>3, <4>1, <4>2
      <4> QED
        BY <1>5, <4>1, <4>3
    <3> QED
      BY <1>5, <3>2, <3>3, <3>4
  <2> QED
    BY <2>1, <2>2
<1> QED
  BY <1>1, <1>6 DEF RingKeys

LEMMA IndexTypesNext ==
  ASSUME BlockTypes, load' = load, tailBlock' \in [IProducers -> MemBlocks \cup {None}],
         header' \in [IProducers -> Seq(Headers)], entry' \in [IProducers -> Seq(Entries)],
         elements' = elements, elementsCompletelyDequeued' \in [MemBlocks -> Nat], UNCHANGED pool
  PROVE  BlockTypes'
<1>1. IProducers' = IProducers
  BY DEF IProducers, NProducers
<1> QED
  BY <1>1 DEF BlockTypes, pool

\* The key is in, and now the tail.
LEMMA InsertTailKeeps ==
  ASSUME BlockState, CountInv, load' = load, NEW CONSTANT p \in IProducers, InsertTail(p)
  PROVE  CountTypes' /\ CountInv' /\ BlockInv' /\ BlockTypes' /\ ThreadTypes'
<1>1. /\ ipc[p] = "inserttail" /\ IGo(p, "pool") /\ loc' = loc /\ tailBlock' = tailBlock /\ entry' = entry
      /\ UNCHANGED counters /\ UNCHANGED blocks /\ UNCHANGED pool
  BY DEF InsertTail
<1>2. /\ p \in IThreads /\ p \notin IConsumers /\ CountTypes /\ BlockTypes /\ ThreadTypes
      /\ RingTypes(p) /\ RingKeys(p) /\ Keyed(p) /\ Inserts(p) /\ LiveLinked(p)
  BY ProducerIs DEF BlockState
<1>3. PICK n, t, s : RingIs(p, n, t, s)
  BY <1>2, RingOf
<1>4. /\ n \in Nat /\ n > 0 /\ t \in 0 .. (n - 1) /\ s \in [0 .. (n - 1) -> 1 .. n] /\ n = Len(entry[p])
      /\ s = BlockIndex(p).slot /\ t = BlockIndex(p).tail /\ IndexCapacity(BlockIndex(p)) = n
  BY <1>3 DEF RingIs
<1>5. PICK u : u = (t + 1) % n /\ u = NewTail(BlockIndex(p))
  BY <1>4 DEF NewTail
<1>6. /\ u \in 0 .. (n - 1) /\ Ago(u, 0, n) = Ago(t, n - 1, n)
      /\ \A j \in 1 .. (n - 1) : Ago(u, j, n) = Ago(t, j - 1, n)
  BY <1>4, <1>5, AgoOn
<1>7. MovesTail(p, u)
  BY <1>5 DEF MovesTail, InsertTail
<1>8. /\ header' \in [IProducers -> Seq(Headers)] /\ \A q \in IProducers : q # p => header'[q] = header[q]
      /\ Len(header'[p]) = Len(header[p]) /\ header'[p] # <<>>
      /\ \A i \in 1 .. Len(header[p]) : i # Len(header[p]) => header'[p][i] = header[p][i]
      /\ BlockIndex(p)' = [slot |-> s, tail |-> u]
  BY <1>2, <1>3, <1>6, <1>7, TailMoved
<1>9. /\ RingTypes(p)'
      /\ \A j : Back(p, j)' = s[Ago(u, j, n)]
      /\ \A j : KeyAgo(p, j)' = entry[p][s[Ago(u, j, n)]].key
  BY <1>1, <1>3, <1>6, <1>8, TurnedRing
<1>10. Goes(p, "pool", loc[p])
  <2>1. "pool" \in PushLabels
    BY DEF PushLabels, Getting
  <2> QED
    BY <1>1, <1>2, <2>1, StaysGoes
<1>11. Apart(p) /\ ipc'[p] = "pool" /\ loc'[p] = loc[p] /\ ThreadTypes' /\ IProducers' = IProducers
  BY <1>2, <1>10, Gone
<1>12. tailIndex' = tailIndex /\ headIndex' = headIndex
  BY <1>1 DEF counters
<1>13. Filled(p)' = Filled(p)
  BY <1>1, <1>11, <1>12 DEF Filled
<1>14. PICK v \in Int : v = Filled(p) /\ Top(p) = v /\ Top(p)' = v + 1 /\ tailIndex[p] = (v + 1) * BLOCK_SIZE
  <2>1. tailIndex[p] % BLOCK_SIZE = 0 /\ ipc[p] \notin Getting /\ ipc'[p] \in Getting
    BY <1>1, <1>2, <1>11 DEF Inserts, Getting
  <2>2. Filled(p) \in Int /\ Top(p) = Filled(p) /\ tailIndex[p] = (Filled(p) + 1) * BLOCK_SIZE
    BY <1>1, <1>2, <2>1, NumbersAre
  <2>3. Top(p)' = Filled(p) + 1
    BY <1>13, <2>1 DEF Top
  <2> QED
    BY <2>2, <2>3
<1>15. loc[p].e = NextEntry(p) /\ Fresh(p, NextEntry(p)) /\ NextEntry(p) = s[u] /\ NextEntry(p) = s[Ago(t, n - 1, n)]
  <2>1. loc[p].e = NextEntry(p) /\ Fresh(p, NextEntry(p))
    BY <1>1, <1>2 DEF Inserts
  <2>2. NextEntry(p) = s[u]
    BY <1>4, <1>5 DEF NextEntry
  <2>3. Ago(u, 0, n) = u
    BY <1>4, <1>6, AgoIs
  <2> QED
    BY <1>6, <2>1, <2>2, <2>3
<1>16. RingKeys(p)'
  BY <1>1, <1>2, <1>3, <1>5, <1>9, <1>14, <1>15, InsertTailKeys
<1>17. Keyed(p)'
  BY <1>1, <1>2 DEF Keyed
<1>18. Inserts(p)'
  <2>1. tailIndex[p] % BLOCK_SIZE = 0
    BY <1>1, <1>2 DEF Inserts
  <2>2. loc'[p].e = BlockIndex(p)'.slot[BlockIndex(p)'.tail]
    <3>1. BlockIndex(p)'.slot = s /\ BlockIndex(p)'.tail = u
      BY <1>8
    <3>2. loc'[p].e = s[u]
      BY <1>11, <1>15
    <3> QED
      BY <3>1, <3>2
  <2>3. Fresh(p, loc[p].e)'
    BY <1>1, <1>11, <1>12, <1>15 DEF Fresh
  <2>4. ~Filling(p)'
    BY <1>11, <1>12, <2>1 DEF Filling
  <2> QED
    BY <1>11, <1>12, <2>1, <2>2, <2>3, <2>4 DEF Inserts
<1>19. Indexed(p)'
  BY <1>9, <1>16, <1>17, <1>18 DEF Indexed
<1>20. ASSUME NEW CONSTANT k \in 0 .. Filled(p), Live(p, k)
       PROVE  EntryOf(p, k)' = EntryOf(p, k) /\ Top(p)' - k < n
  <2>1. k \in Nat /\ k <= v /\ Linking(p, k)
    BY <1>2, <1>14, <1>20 DEF LiveLinked
  <2>2. v - k \in 0 .. (n - 1) /\ EntryOf(p, k) = s[Ago(t, v - k, n)] /\ entry[p][EntryOf(p, k)].value # None
    <3>1. v - k < n
      BY <1>4, <1>14, <2>1 DEF Linking
    <3>2. EntryOf(p, k) = s[Ago(t, v - k, n)]
      BY <1>4, <1>14 DEF EntryOf, Slot
    <3>3. BlockOf(p, k) # None
      BY <2>1 DEF Linking
    <3> QED
      BY <1>4, <2>1, <3>1, <3>2, <3>3 DEF BlockOf
  <2>3. v - k # n - 1
    <3>1. entry[p][NextEntry(p)].value = None
      BY <1>15 DEF Fresh
    <3> QED
      BY <1>15, <2>2, <3>1
  <2>4. (v + 1) - k \in 1 .. (n - 1) /\ ((v + 1) - k) - 1 = v - k
    BY <1>4, <2>1, <2>2, <2>3, SMTT(30)
  <2>5. EntryOf(p, k)' = Back(p, (v + 1) - k)'
    BY <1>14 DEF EntryOf, Back
  <2>6. EntryOf(p, k)' = s[Ago(u, (v + 1) - k, n)]
    BY <1>9, <2>5
  <2>7. Ago(u, (v + 1) - k, n) = Ago(t, v - k, n)
    BY <1>6, <2>4
  <2> QED
    BY <1>4, <1>14, <2>2, <2>4, <2>6, <2>7
<1>21. SameHolders(p)
  BY <1>2, <1>11, <1>12, HoldersApart
<1>22. CountTypes' /\ CountInv'
  BY <1>1, <1>2, <1>10, CountsUntouched
<1>23. BlockTypes'
  BY <1>1, <1>2, <1>8, IndexTypesNext DEF BlockTypes, blocks
<1>24. KeepsBlocks(p) /\ KeepsHeaders(p) /\ SameValues(p)
  <2>1. BlockIndex(p)'.slot = BlockIndex(p).slot
    BY <1>4, <1>8
  <2> QED
    BY <1>1, <1>4, <1>8, <1>11, <1>13, <1>19, <1>20, <1>21, <1>22, <1>23, <2>1, TailKeeps
<1>25. Homes'
  <2>1. UNCHANGED <<load, entry>> /\ ~InHand(p)'
    BY <1>1, <1>11 DEF InHand
  <2> QED
    BY <1>1, <1>2, <1>11, <2>1, HomesFrame
<1>26. OthersIndex(p)
  BY <1>1, <1>8, <1>12 DEF OthersIndex
<1>27. BlockInv'
  BY <1>1, <1>10, <1>12, <1>19, <1>24, <1>25, <1>26, ProducerKeeps
<1> QED
  BY <1>11, <1>22, <1>23, <1>27

\* An entry that has no block is left as it is.
LEMMA NothingSet ==
  ASSUME BlockTypes, NEW CONSTANT p \in IProducers, NEW CONSTANT e \in 1 .. Len(entry[p]), SetsValue(p, e, None), entry[p][e].value = None
  PROVE  entry' = entry
<1>0. entry \in [IProducers -> Seq(Entries)]
  BY DEF BlockTypes
<1>1. PICK s : s = entry[p] /\ s \in Seq(Entries) /\ e \in 1 .. Len(s)
  BY <1>0
<1>2. PICK r : r = s[e] /\ r \in Entries /\ r.value = None
  BY <1>1
<1>3. [r EXCEPT !.value = None] = r
  BY <1>2 DEF Entries
<1>4. [s EXCEPT ![e] = r] = s
  BY <1>1, <1>2
<1>5. [entry EXCEPT ![p] = s] = entry
  BY <1>0, <1>1
<1>6. entry' = [entry EXCEPT ![p] = [s EXCEPT ![e] = [r EXCEPT !.value = None]]]
  BY <1>0, <1>1, <1>2 DEF SetsValue
<1> QED
  BY <1>3, <1>4, <1>5, <1>6

\* There is no block: the tail goes back.
LEMMA NoBlockKeeps ==
  ASSUME BlockState, CountInv, load' = load, NEW CONSTANT p \in IProducers, NoBlock(p)
  PROVE  CountTypes' /\ CountInv' /\ BlockInv' /\ BlockTypes' /\ ThreadTypes'
<1>1. /\ ipc[p] = "freelist" /\ IReturn(p) /\ tailBlock' = tailBlock /\ SetsValue(p, loc[p].e, None)
      /\ UNCHANGED counters /\ UNCHANGED blocks /\ UNCHANGED pool
  BY DEF NoBlock, SetsValue
<1>2. /\ p \in IThreads /\ p \notin IConsumers /\ CountTypes /\ BlockTypes /\ ThreadTypes
      /\ RingTypes(p) /\ RingKeys(p) /\ Keyed(p) /\ Inserts(p) /\ LiveLinked(p)
  BY ProducerIs DEF BlockState
<1>3. PICK n, t, s : RingIs(p, n, t, s)
  BY <1>2, RingOf
<1>4. /\ n \in Nat /\ n > 0 /\ t \in 0 .. (n - 1) /\ s \in [0 .. (n - 1) -> 1 .. n] /\ n = Len(entry[p])
      /\ s = BlockIndex(p).slot /\ t = BlockIndex(p).tail /\ IndexCapacity(BlockIndex(p)) = n
  BY <1>3 DEF RingIs
<1>5. PICK u : u = (t - 1) % n
  OBVIOUS
<1>6. /\ u \in 0 .. (n - 1) /\ Ago(u, n - 1, n) = t /\ Ago(t, 0, n) = t
      /\ \A j \in 0 .. (n - 2) : Ago(u, j, n) = Ago(t, j + 1, n)
  <2>1. n \in Nat /\ t \in 0 .. (n - 1)
    BY <1>4
  <2> QED
    BY ONLY <1>5, <2>1, AgoOff
<1>7. MovesTail(p, u)
  <2>1. header[p][Len(header[p])].tail = t
    BY <1>4 DEF BlockIndex
  <2> QED
    BY <1>4, <1>5, <2>1 DEF MovesTail, NoBlock
<1>15. loc[p].e = s[t] /\ Fresh(p, s[t]) /\ tailIndex[p] % BLOCK_SIZE = 0
  <2>1. ipc[p] \in Getting
    BY <1>1 DEF Getting
  <2> QED
    BY <1>2, <1>4, <2>1 DEF Inserts
<1>28. entry' = entry
  <2>1. s[t] \in 1 .. Len(entry[p])
    BY <1>4
  <2>2. entry[p][s[t]].value = None
    BY <1>15 DEF Fresh
  <2> QED
    BY <1>1, <1>2, <1>15, <2>1, <2>2, NothingSet
<1>8. /\ header' \in [IProducers -> Seq(Headers)] /\ \A q \in IProducers : q # p => header'[q] = header[q]
      /\ Len(header'[p]) = Len(header[p]) /\ header'[p] # <<>>
      /\ \A i \in 1 .. Len(header[p]) : i # Len(header[p]) => header'[p][i] = header[p][i]
      /\ BlockIndex(p)' = [slot |-> s, tail |-> u]
  BY <1>2, <1>3, <1>6, <1>7, TailMoved
<1>9. /\ RingTypes(p)'
      /\ \A j : Back(p, j)' = s[Ago(u, j, n)]
      /\ \A j : KeyAgo(p, j)' = entry[p][s[Ago(u, j, n)]].key
      /\ NextEntry(p)' = s[Ago(u, n - 1, n)]
  BY <1>3, <1>6, <1>8, <1>28, TurnedRing
<1>10. Goes(p, "idle", NoCall)
  BY <1>1, <1>2, ReturnGoes
<1>11. Apart(p) /\ ipc'[p] = "idle" /\ loc'[p] = NoCall /\ ThreadTypes' /\ IProducers' = IProducers
  BY <1>2, <1>10, Gone
<1>12. tailIndex' = tailIndex /\ headIndex' = headIndex
  BY <1>1 DEF counters
<1>13. Filled(p)' = Filled(p)
  BY <1>1, <1>11, <1>12 DEF Filled
<1>14. PICK v \in Int : v = Filled(p) /\ Top(p) = v + 1 /\ Top(p)' = v /\ tailIndex[p] = (v + 1) * BLOCK_SIZE
  <2>1. ipc[p] \in Getting /\ ipc'[p] \notin Getting
    BY <1>1, <1>11 DEF Getting
  <2>2. Filled(p) \in Int /\ Top(p) = Filled(p) + 1 /\ tailIndex[p] = (Filled(p) + 1) * BLOCK_SIZE
    BY <1>1, <1>2, <1>15, <2>1, NumbersAre
  <2>3. Top(p)' = Filled(p) + 0
    BY <1>13, <2>1 DEF Top
  <2> QED
    BY <2>2, <2>3
<1>29. Rewound(p)' /\ ~Rewound(p)
  <2>1. NextEntry(p)' = s[t]
    BY <1>6, <1>9
  <2>2. entry[p][s[t]] = [key |-> tailIndex[p], value |-> None]
    BY <1>15 DEF Fresh
  <2>3. entry'[p][NextEntry(p)'] = [key |-> tailIndex[p], value |-> None]
    BY <1>28, <2>1, <2>2
  <2> QED
    BY <1>1, <1>11, <1>12, <1>14, <2>3 DEF Rewound
<1>16. RingKeys(p)'
  BY <1>2, <1>3, <1>5, <1>9, <1>14, <1>15, <1>28, <1>29, RewoundKeys
<1>17. Keyed(p)'
  BY <1>28, <1>2 DEF Keyed
<1>18. Inserts(p)'
  <2>1. ~Filling(p)'
    BY <1>11, <1>12, <1>15 DEF Filling
  <2> QED
    BY <1>11, <2>1 DEF Inserts, Getting
<1>19. Indexed(p)'
  BY <1>9, <1>16, <1>17, <1>18 DEF Indexed
<1>20. ASSUME NEW CONSTANT k \in 0 .. Filled(p), Live(p, k)
       PROVE  EntryOf(p, k)' = EntryOf(p, k) /\ Top(p)' - k < n
  <2>1. k \in Nat /\ k <= v /\ Linking(p, k)
    BY <1>2, <1>14, <1>20 DEF LiveLinked
  <2>2. (v + 1) - k < n /\ EntryOf(p, k) = s[Ago(t, (v + 1) - k, n)]
    <3>1. (v + 1) - k < n
      BY <1>4, <1>14, <2>1 DEF Linking
    <3>2. EntryOf(p, k) = s[Ago(t, (v + 1) - k, n)]
      BY <1>4, <1>14 DEF EntryOf, Slot
    <3> QED
      BY <3>1, <3>2
  <2>4. v - k \in 0 .. (n - 2) /\ (v - k) + 1 = (v + 1) - k
    BY <1>4, <2>1, <2>2
  <2>5. EntryOf(p, k)' = Back(p, v - k)'
    BY <1>14 DEF EntryOf, Back
  <2>6. EntryOf(p, k)' = s[Ago(u, v - k, n)]
    BY <1>9, <2>5
  <2>7. Ago(u, v - k, n) = Ago(t, (v + 1) - k, n)
    <3>1. Ago(u, v - k, n) = Ago(t, (v - k) + 1, n)
      BY <1>6, <2>4
    <3> QED
      BY <2>4, <3>1
  <2> QED
    BY <1>4, <1>14, <2>2, <2>4, <2>6, <2>7
<1>21. SameHolders(p)
  BY <1>2, <1>11, <1>12, HoldersApart
<1>22. CountTypes' /\ CountInv'
  BY <1>1, <1>2, <1>10, CountsUntouched
<1>23. BlockTypes'
  BY <1>1, <1>2, <1>8, <1>28, IndexTypesNext DEF BlockTypes, blocks
<1>24. KeepsBlocks(p) /\ KeepsHeaders(p) /\ SameValues(p)
  <2>1. BlockIndex(p)'.slot = BlockIndex(p).slot
    BY <1>4, <1>8
  <2> QED
    BY <1>4, <1>8, <1>11, <1>13, <1>19, <1>20, <1>21, <1>22, <1>23, <1>28, <2>1, TailKeeps
<1>25. Homes'
  <2>1. UNCHANGED <<load, entry>> /\ ~InHand(p)'
    BY <1>11, <1>28 DEF InHand
  <2> QED
    BY <1>1, <1>2, <1>11, <2>1, HomesFrame
<1>26. OthersIndex(p)
  BY <1>1, <1>8, <1>12, <1>28 DEF OthersIndex
<1>27. BlockInv'
  BY <1>1, <1>10, <1>12, <1>19, <1>24, <1>25, <1>26, ProducerKeeps
<1> QED
  BY <1>11, <1>22, <1>23, <1>27

\* No entry gets a block.
NoNewLinks == \A q \in IProducers : \A i \in 1 .. Len(entry'[q]) :
  entry'[q][i].value # None => i \in 1 .. Len(entry[q]) /\ entry'[q][i].value = entry[q][i].value

LEMMA LinksHomes ==
  ASSUME BlockState, NEW CONSTANT p \in IProducers, Apart(p), load' = load, NoNewLinks,
         UNCHANGED pool, ipc'[p] \notin {"value", "give", "unlink"}
  PROVE  Homes'
<1>1. IProducers' = IProducers /\ IThreads' = IThreads /\ p \notin IConsumers /\ IConsumers \subseteq IThreads
  BY ProducerIs, SubThreads DEF IProducers, IThreads, NProducers
<1>2. Homes /\ InUse' = InUse /\ freeList' = freeList
  BY DEF BlockState, BlockInv, InUse, pool
<1>3. \A u \in IThreads : InHand(u)' => InHand(u) /\ loc'[u].b = loc[u].b
  BY DEF Apart, InHand
<1>4. \A c \in IConsumers : ipc'[c] = ipc[c] /\ loc'[c] = loc[c]
  BY <1>1 DEF Apart
<1>5. LinksApart'
  <2> SUFFICES ASSUME NEW q \in IProducers, NEW w \in IProducers, NEW i \in 1 .. Len(entry'[q]), NEW j \in 1 .. Len(entry'[w]),
                      entry'[q][i].value # None, entry'[q][i].value = entry'[w][j].value
               PROVE  q = w /\ i = j
    BY <1>1 DEF LinksApart
  <2>1. /\ i \in 1 .. Len(entry[q]) /\ entry'[q][i].value = entry[q][i].value
        /\ j \in 1 .. Len(entry[w]) /\ entry'[w][j].value = entry[w][j].value
    BY DEF NoNewLinks
  <2>2. entry[q][i].value # None /\ entry[q][i].value = entry[w][j].value
    BY <2>1
  <2>3. LinksApart
    BY <1>2 DEF Homes
  <2> QED
    BY <2>1, <2>2, <2>3 DEF LinksApart
<1>6. LinksHold'
  BY <1>1, <1>2 DEF Homes, LinksHold, NoNewLinks
<1>7. HandsApart'
  BY <1>1, <1>2, <1>3 DEF Homes, HandsApart
<1>8. HandsHold'
  <2> SUFFICES ASSUME NEW u \in IThreads, InHand(u)'
               PROVE  /\ loc'[u].b \in InUse \ freeList
                      /\ \A q \in IProducers : \A i \in 1 .. Len(entry'[q]) : entry'[q][i].value # loc'[u].b
    BY <1>1, <1>2 DEF HandsHold
  <2>1. PICK a : a = loc[u].b /\ a = loc'[u].b /\ InHand(u)
    BY <1>3
  <2>2. a \in InUse \ freeList /\ \A q \in IProducers : \A i \in 1 .. Len(entry[q]) : entry[q][i].value # a
    BY <1>2, <2>1 DEF Homes, HandsHold
  <2>3. a # None
    BY <2>2, InUseAre DEF BlockState
  <2> QED
    BY <2>1, <2>2, <2>3 DEF NoNewLinks
<1>9. UnlinksApart'
  BY <1>2, <1>4 DEF Homes, UnlinksApart
<1> QED
  BY <1>2, <1>5, <1>6, <1>7, <1>8, <1>9 DEF Homes

\* The key of the next entry is set: whoever comes by it finds its block as before.
LEMMA KeyFinds ==
  ASSUME BlockState, NEW CONSTANT p \in IProducers, NEW CONSTANT n, NEW CONSTANT t, NEW CONSTANT s, RingIs(p, n, t, s),
         NEW CONSTANT e, e = NextEntry(p), entry[p][e].value = None, entry'[p][e].key = tailIndex[p],
         Len(entry'[p]) = n, \A i \in 1 .. n : i # e => entry'[p][i] = entry[p][i],
         NEW CONSTANT k \in 0 .. Filled(p), Linking(p, k), ipc[p] \notin Getting, EntryOf(p, k)' = EntryOf(p, k),
         NEW CONSTANT h, NEW CONSTANT a, Finds(p, k, h, a)
  PROVE  Finds(p, k, h, a)'
<1>1. n \in Nat /\ n > 0 /\ n = Len(entry[p])
  BY DEF RingIs
<1>2. PICK m : m = h.slot[a] /\ m \in 1 .. n /\ a \in 0 .. (IndexCapacity(h) - 1)
  BY <1>1 DEF Finds
<1>3. PICK j \in 0 .. (IndexCapacity(h) - 1) : entry[p][m].key = (k + j) * BLOCK_SIZE /\ Slot(h, a, j) = EntryOf(p, k)
  BY <1>2 DEF Finds
<1>4. entry'[p][m].key = entry[p][m].key
  <2>1. CASE m # e
    BY <1>2, <2>1
  <2>2. CASE m = e
    <3>1. PICK v \in Int : v = Top(p) /\ v = Filled(p) /\ k \in Nat /\ k <= v
      <4>1. Top(p) = Filled(p) /\ Filled(p) \in Int
        BY NumbersAre DEF BlockState
      <4> QED
        BY <4>1
    <3>2. e = Back(p, n - 1) /\ KeyAgo(p, n - 1) = entry[p][e].key
      <4>1. e = Back(p, n - 1)
        BY BackIs
      <4> QED
        BY <4>1 DEF Back, KeyAgo
    <3>3. IsKey(p, n - 1) \/ KeyAgo(p, n - 1) = INVALID_BLOCK_BASE \/ Rewound(p)
      <4>1. n - 1 \in 0 .. (n - 1)
        BY <1>1
      <4> QED
        BY <1>1, <4>1, ProducerIs DEF RingKeys
    <3>4. KeyAgo(p, n - 1) # INVALID_BLOCK_BASE
      <4>1. k + j \in Int
        BY <1>3, <3>1
      <4> QED
        BY <1>3, <2>2, <3>2, <4>1, BlockMultiples
    <3>5. ~IsKey(p, n - 1)
      <4> SUFFICES ASSUME IsKey(p, n - 1) PROVE FALSE
        OBVIOUS
      <4>1. (v - (n - 1)) * BLOCK_SIZE = (k + j) * BLOCK_SIZE
        BY <1>3, <2>2, <3>1, <3>2 DEF IsKey
      <4>2. v - (n - 1) \in Int /\ k + j \in Int /\ j \in Nat
        BY <1>1, <1>3, <3>1
      <4>3. v - (n - 1) = k + j
        BY <4>1, <4>2, BlockMultiples
      <4>4. v - k < n
        BY <1>1, <3>1 DEF Linking
      <4>5. v - k = n - 1
        BY <1>1, <3>1, <4>2, <4>3, <4>4
      <4>6. EntryOf(p, k) = e
        BY <3>1, <3>2, <4>5 DEF EntryOf, Back
      <4> QED
        BY <4>6 DEF Linking, BlockOf
    <3>6. entry[p][e].key = tailIndex[p]
      BY <3>3, <3>4, <3>5 DEF Rewound
    <3> QED
      BY <2>2, <3>6
  <2> QED
    BY <2>1, <2>2
<1> QED
  BY <1>2, <1>3, <1>4 DEF Finds, Slot, IndexCapacity

\* The key is stored: the entry after the tail is the producer's.
LEMMA InsertKeyKeeps ==
  ASSUME BlockState, CountInv, load' = load, NEW CONSTANT p \in IProducers, InsertKey(p)
  PROVE  CountTypes' /\ CountInv' /\ BlockInv' /\ BlockTypes' /\ ThreadTypes'
<1>1. /\ ipc[p] = "insert" /\ IGo(p, "inserttail") /\ Know(p, "e", NextEntry(p)) /\ IsFree(entry[p][NextEntry(p)])
      /\ SetsKey(p, NextEntry(p), tailIndex[p]) /\ header' = header /\ tailBlock' = tailBlock
      /\ UNCHANGED counters /\ UNCHANGED blocks /\ UNCHANGED pool
  BY DEF InsertKey, SetsKey
<1>2. /\ p \in IThreads /\ p \notin IConsumers /\ CountTypes /\ BlockTypes /\ ThreadTypes /\ loc[p] \in Locals
      /\ RingTypes(p) /\ RingKeys(p) /\ Keyed(p) /\ Inserts(p) /\ LiveLinked(p) /\ tailIndex[p] \in Nat
  BY ProducerIs DEF BlockState
<1>3. PICK n, t, s : RingIs(p, n, t, s)
  BY <1>2, RingOf
<1>4. /\ n \in Nat /\ n > 0 /\ t \in 0 .. (n - 1) /\ s \in [0 .. (n - 1) -> 1 .. n] /\ n = Len(entry[p])
  BY <1>3 DEF RingIs
<1>5. PICK e : e = NextEntry(p)
  OBVIOUS
<1>6. e = Back(p, n - 1) /\ e \in 1 .. n /\ \A i, j \in 0 .. (n - 1) : Back(p, i) = Back(p, j) => i = j
  <2>1. n - 1 \in 0 .. (n - 1)
    BY <1>4
  <2> QED
    BY <1>3, <1>5, <2>1, BackIs
<1>7. entry[p][e].value = None
  BY <1>1, <1>2, <1>4, <1>5, <1>6 DEF IsFree, Keyed
<1>8. /\ entry' \in [IProducers -> Seq(Entries)] /\ \A q \in IProducers : q # p => entry'[q] = entry[q]
      /\ Len(entry'[p]) = n
      /\ \A i \in 1 .. n : entry'[p][i].value = entry[p][i].value /\ (i # e => entry'[p][i] = entry[p][i])
      /\ entry'[p][e].key = tailIndex[p] /\ entry'[p][e] = [key |-> tailIndex[p], value |-> None]
  BY <1>1, <1>2, <1>4, <1>5, <1>6, <1>7, KeySet
<1>9. e \in Nat
  BY <1>4, <1>6
<1>10. PICK r : r = [loc[p] EXCEPT !["e"] = e]
  OBVIOUS
<1>11. Goes(p, "inserttail", r) /\ r = [loc[p] EXCEPT !.e = e]
  <2>1. "inserttail" \in PushLabels /\ ipc[p] # "idle"
    BY <1>1 DEF PushLabels
  <2> QED
    BY <1>1, <1>2, <1>5, <1>9, <1>10, <2>1, KnowGoes
<1>12. r.e = e
  BY <1>2, <1>9, <1>11, OneSet
<1>13. Apart(p) /\ ipc'[p] = "inserttail" /\ loc'[p] = r /\ ThreadTypes' /\ IProducers' = IProducers
  BY <1>2, <1>11, Gone
<1>14. tailIndex' = tailIndex /\ headIndex' = headIndex
  BY <1>1 DEF counters
<1>15. Filled(p)' = Filled(p)
  BY <1>1, <1>13, <1>14 DEF Filled
<1>16. PICK v \in Int : v = Filled(p) /\ Top(p) = v /\ Top(p)' = v /\ tailIndex[p] = (v + 1) * BLOCK_SIZE
  <2>1. tailIndex[p] % BLOCK_SIZE = 0 /\ ipc[p] \notin Getting /\ ipc'[p] \notin Getting
    BY <1>1, <1>2, <1>13 DEF Inserts, Getting
  <2>2. Filled(p) \in Int /\ Top(p) = Filled(p) /\ tailIndex[p] = (Filled(p) + 1) * BLOCK_SIZE
    BY <1>1, <1>2, <2>1, NumbersAre
  <2>3. Top(p)' = Filled(p) + 0
    BY <1>15, <2>1 DEF Top
  <2> QED
    BY <2>2, <2>3
<1>17. BlockIndex(p)' = BlockIndex(p)
  BY <1>1 DEF BlockIndex
<1>18. NextEntry(p)' = e /\ (\A k : EntryOf(p, k)' = EntryOf(p, k)) /\ \A j : Back(p, j)' = Back(p, j)
  BY <1>5, <1>16, <1>17 DEF NextEntry, NewTail, IndexCapacity, EntryOf, Slot, Back
<1>19. RingTypes(p)'
  BY <1>1, <1>2, <1>4, <1>8, <1>17 DEF RingTypes
<1>20. Rewound(p)'
  BY <1>8, <1>13, <1>14, <1>16, <1>18 DEF Rewound
<1>21. RingKeys(p)'
  <2>1. ASSUME NEW j \in 0 .. (n - 1), j # n - 1
        PROVE  KeyAgo(p, j)' = KeyAgo(p, j) /\ (IsKey(p, j)' <=> IsKey(p, j))
    <3>1. n - 1 \in 0 .. (n - 1) /\ Back(p, j) # e
      BY <1>4, <1>6, <2>1
    <3>2. Back(p, j) \in 1 .. n
      BY <1>3, BackIs
    <3>3. KeyAgo(p, j) = entry[p][Back(p, j)].key /\ KeyAgo(p, j)' = entry'[p][Back(p, j)].key
      BY <1>18 DEF KeyAgo, Back
    <3>4. KeyAgo(p, j)' = KeyAgo(p, j)
      BY <1>8, <3>1, <3>2, <3>3
    <3> QED
      BY <1>16, <3>4 DEF IsKey
  <2>2. ~IsKey(p, n - 1)'
    <3>1. KeyAgo(p, n - 1)' = (v + 1) * BLOCK_SIZE
      <4>1. KeyAgo(p, n - 1)' = entry'[p][Back(p, n - 1)'].key
        BY DEF KeyAgo, Back
      <4> QED
        BY <1>6, <1>8, <1>16, <1>18, <4>1
    <3>4. n \in Nat /\ n > 0
      BY <1>4
    <3>2. v - (n - 1) \in Int /\ v - (n - 1) # v + 1 /\ v + 1 \in Int
      BY <3>4
    <3>3. (v - (n - 1)) * BLOCK_SIZE # (v + 1) * BLOCK_SIZE
      BY <3>2, BlockMultiples
    <3> QED
      BY <1>16, <3>1, <3>3 DEF IsKey
  <2>3. ASSUME NEW j \in 0 .. (n - 1)
        PROVE  /\ IsKey(p, j)' \/ KeyAgo(p, j)' = INVALID_BLOCK_BASE \/ j = n - 1
               /\ IsKey(p, j)' => \A i \in 0 .. j : IsKey(p, i)'
    <3>1. CASE j = n - 1
      BY <2>2, <3>1
    <3>2. CASE j # n - 1
      <4>1. /\ IsKey(p, j) \/ KeyAgo(p, j) = INVALID_BLOCK_BASE
            /\ IsKey(p, j) => \A i \in 0 .. j : IsKey(p, i)
        BY <1>2, <1>4, <3>2 DEF RingKeys
      <4>2. \A i \in 0 .. j : i \in 0 .. (n - 1) /\ i # n - 1
        BY <1>4, <3>2
      <4> QED
        BY <2>1, <3>2, <4>1, <4>2
    <3> QED
      BY <3>1, <3>2
  <2> QED
    BY <1>8, <1>20, <2>3 DEF RingKeys
<1>22. Keyed(p)'
  <2>1. \A i \in 1 .. n : entry'[p][i].value # None => i # e /\ entry'[p][i] = entry[p][i]
    BY <1>7, <1>8
  <2>2. \A i \in 1 .. n : entry'[p][i].value # None => entry'[p][i].key # INVALID_BLOCK_BASE
    BY <1>2, <1>4, <2>1 DEF Keyed
  <2> QED
    BY <1>8, <2>2 DEF Keyed
<1>23. Inserts(p)'
  <2>1. tailIndex[p] % BLOCK_SIZE = 0
    BY <1>1, <1>2 DEF Inserts
  <2>2. loc'[p].e = NextEntry(p)' /\ Fresh(p, loc[p].e)'
    BY <1>8, <1>12, <1>13, <1>14, <1>18 DEF Fresh
  <2>3. ~Filling(p)'
    BY <1>13, <1>14, <2>1 DEF Filling
  <2> QED
    BY <1>13, <1>14, <2>1, <2>2, <2>3 DEF Inserts, Getting
<1>24. Indexed(p)'
  BY <1>19, <1>21, <1>22, <1>23 DEF Indexed
<1>25. ASSUME NEW CONSTANT k \in 0 .. Filled(p), Live(p, k)
       PROVE  Linking(p, k) /\ EntryOf(p, k)' = EntryOf(p, k) /\ BlockOf(p, k)' = BlockOf(p, k) /\ Linking(p, k)'
  <2>1. Linking(p, k) /\ k \in Nat /\ k <= Filled(p)
    BY <1>2, <1>16, <1>25 DEF LiveLinked
  <2>2. PICK a : a = EntryOf(p, k) /\ a \in 1 .. n /\ a = EntryOf(p, k)'
    <3>1. EntryOf(p, k) \in 1 .. Len(entry[p])
      BY <2>1, BlockOfType
    <3> QED
      BY <1>4, <1>18, <3>1
  <2>3. a # e
    BY <1>7, <2>1, <2>2 DEF Linking, BlockOf
  <2>4. entry'[p][a] = entry[p][a]
    BY <1>8, <2>2, <2>3
  <2>5. BlockOf(p, k)' = BlockOf(p, k)
    BY <2>2, <2>4 DEF BlockOf
  <2>6. Top(p)' - k < Len(entry'[p])
    BY <1>4, <1>8, <1>16, <2>1 DEF Linking
  <2> QED
    BY <2>1, <2>2, <2>4, <2>5, <2>6 DEF Linking
<1>26. ASSUME NEW CONSTANT k \in 0 .. Filled(p), NEW CONSTANT h, NEW CONSTANT a, Live(p, k), Finds(p, k, h, a) PROVE Finds(p, k, h, a)'
  <2>1. Linking(p, k) /\ EntryOf(p, k)' = EntryOf(p, k)
    BY <1>25, <1>26
  <2>2. ipc[p] \notin Getting
    BY <1>1 DEF Getting
  <2> QED
    BY <1>3, <1>5, <1>7, <1>8, <1>26, <2>1, <2>2, KeyFinds
<1>27. SameHolders(p)
  BY <1>2, <1>13, <1>14, HoldersApart
<1>28. KeepsBlocks(p)
  <2>1. /\ \A m : Open(p, m)' <=> Open(p, m)
        /\ \A m : Waits(p, m)' <=> Waits(p, m)
    BY <1>27, HoldFrame
  <2> QED
    BY <1>15, <1>25, <1>26, <2>1 DEF KeepsBlocks
<1>29. KeepsHeaders(p)
  BY <1>1, <1>2, <1>28, HeadersSame
<1>30. SameValues(p)
  BY <1>4, <1>8 DEF SameValues
<1>31. CountTypes' /\ CountInv'
  BY <1>1, <1>2, <1>11, CountsUntouched
<1>32. BlockTypes'
  BY <1>1, <1>2, <1>8, IndexTypesNext DEF BlockTypes, blocks
<1>33. Homes'
  <2>1. NoNewLinks
    <3> SUFFICES ASSUME NEW q \in IProducers, NEW i \in 1 .. Len(entry'[q])
                 PROVE  i \in 1 .. Len(entry[q]) /\ entry'[q][i].value = entry[q][i].value
      BY DEF NoNewLinks
    <3> QED
      BY <1>4, <1>8
  <2> QED
    BY <1>1, <1>13, <2>1, LinksHomes
<1>34. OthersIndex(p)
  BY <1>1, <1>8, <1>14 DEF OthersIndex
<1>35. BlockInv'
  BY <1>1, <1>11, <1>14, <1>24, <1>28, <1>29, <1>30, <1>33, <1>34, ProducerKeeps
<1> QED
  BY <1>13, <1>31, <1>32, <1>35

\* The oldest first: where the entries are in the index that is twice as large.
LEMMA TurnIs ==
  ASSUME NEW n \in Nat, NEW t \in 0 .. (n - 1)
  PROVE  /\ \A i \in 0 .. (n - 1) : (t + 1 + i) % n \in 0 .. (n - 1)
         /\ \A i, j \in 0 .. (n - 1) : (t + 1 + i) % n = (t + 1 + j) % n => i = j
         /\ \A j \in 0 .. (n - 1) : (t + 1 + ((n - 1) - j)) % n = Ago(t, j, n)
<1>1. ASSUME NEW i \in 0 .. (n - 1) PROVE (t + 1 + i) % n = IF t + 1 + i < n THEN t + 1 + i ELSE t + 1 + i - n
  <2>1. PICK a \in Int : a = t + 1 + i /\ 0 < a /\ a < 2 * n
    OBVIOUS
  <2>2. a % n = IF a < 0 THEN a + n ELSE IF a < n THEN a ELSE a - n
    BY <2>1, Remainder
  <2> QED
    BY <2>1, <2>2
<1>2. ASSUME NEW j \in 0 .. (n - 1) PROVE (t + 1 + ((n - 1) - j)) % n = Ago(t, j, n)
  <2>1. PICK i \in 0 .. (n - 1) : i = (n - 1) - j
    OBVIOUS
  <2> QED
    BY <1>1, <2>1 DEF Ago
<1>3. ASSUME NEW i \in 0 .. (n - 1) PROVE (t + 1 + i) % n \in 0 .. (n - 1)
  BY <1>1
<1>4. ASSUME NEW i \in 0 .. (n - 1), NEW j \in 0 .. (n - 1), (t + 1 + i) % n = (t + 1 + j) % n PROVE i = j
  <2>1. PICK a \in Int, b \in Int : a = (t + 1 + i) % n /\ b = (t + 1 + j) % n /\ a = b
    BY <1>3, <1>4
  <2>2. (a = IF t + 1 + i < n THEN t + 1 + i ELSE t + 1 + i - n) /\ (b = IF t + 1 + j < n THEN t + 1 + j ELSE t + 1 + j - n)
    BY <1>1, <2>1
  <2> QED
    BY <2>1, <2>2
<1> QED
  BY <1>2, <1>3, <1>4

GrownSlot(n, t, s) == [i \in 0 .. (2 * n - 1) |-> IF i < n THEN s[(t + 1 + i) % n] ELSE i + 1]

LEMMA GrownSlots ==
  ASSUME NEW n \in Nat, n > 0, NEW t \in 0 .. (n - 1), NEW s \in [0 .. (n - 1) -> 1 .. n], \A i, j \in 0 .. (n - 1) : s[i] = s[j] => i = j
  PROVE  /\ GrownSlot(n, t, s) \in [0 .. (2 * n - 1) -> 1 .. (2 * n)]
         /\ \A i, j \in 0 .. (2 * n - 1) : GrownSlot(n, t, s)[i] = GrownSlot(n, t, s)[j] => i = j
         /\ \A j \in 0 .. (n - 1) : GrownSlot(n, t, s)[Ago(n - 1, j, 2 * n)] = s[Ago(t, j, n)]
         /\ \A j \in n .. (2 * n - 1) : GrownSlot(n, t, s)[Ago(n - 1, j, 2 * n)] \in (n + 1) .. (2 * n)
<1>1. /\ \A i \in 0 .. (n - 1) : (t + 1 + i) % n \in 0 .. (n - 1)
      /\ \A i, j \in 0 .. (n - 1) : (t + 1 + i) % n = (t + 1 + j) % n => i = j
      /\ \A j \in 0 .. (n - 1) : (t + 1 + ((n - 1) - j)) % n = Ago(t, j, n)
  BY TurnIs
<1>2. PICK f : f = GrownSlot(n, t, s)
  OBVIOUS
<1>3. ASSUME NEW i \in 0 .. (2 * n - 1)
      PROVE  /\ i < n => f[i] = s[(t + 1 + i) % n] /\ f[i] \in 1 .. n /\ i \in 0 .. (n - 1)
             /\ i >= n => f[i] = i + 1
  <2>1. f[i] = IF i < n THEN s[(t + 1 + i) % n] ELSE i + 1
    BY <1>2 DEF GrownSlot
  <2>2. i < n => i \in 0 .. (n - 1)
    OBVIOUS
  <2>3. i < n => s[(t + 1 + i) % n] \in 1 .. n
    BY <1>1, <2>2
  <2> QED
    BY <2>1, <2>2, <2>3
<1>4. f \in [0 .. (2 * n - 1) -> 1 .. (2 * n)]
  <2>1. DOMAIN f = 0 .. (2 * n - 1) /\ f = [i \in 0 .. (2 * n - 1) |-> f[i]]
    BY <1>2 DEF GrownSlot
  <2>2. \A i \in 0 .. (2 * n - 1) : f[i] \in 1 .. (2 * n)
    BY <1>3
  <2> QED
    BY <2>1, <2>2
<1>5. ASSUME NEW i \in 0 .. (2 * n - 1), NEW j \in 0 .. (2 * n - 1), f[i] = f[j] PROVE i = j
  <2>1. CASE i < n /\ j < n
    <3>1. i \in 0 .. (n - 1) /\ j \in 0 .. (n - 1) /\ s[(t + 1 + i) % n] = s[(t + 1 + j) % n]
      BY <1>3, <1>5, <2>1
    <3>2. (t + 1 + i) % n = (t + 1 + j) % n
      BY <1>1, <3>1
    <3> QED
      BY <1>1, <3>1, <3>2
  <2>2. CASE ~(i < n /\ j < n)
    BY <1>3, <1>5, <2>2
  <2> QED
    BY <2>1, <2>2
<1>6. ASSUME NEW j \in 0 .. (n - 1) PROVE f[Ago(n - 1, j, 2 * n)] = s[Ago(t, j, n)]
  <2>1. PICK i : i = Ago(n - 1, j, 2 * n) /\ i = (n - 1) - j /\ i \in 0 .. (2 * n - 1) /\ i < n
    BY DEF Ago
  <2>2. f[i] = s[(t + 1 + i) % n]
    BY <1>3, <2>1
  <2>3. (t + 1 + i) % n = Ago(t, j, n)
    BY <1>1, <2>1
  <2> QED
    BY <2>1, <2>2, <2>3
<1>7. ASSUME NEW j \in n .. (2 * n - 1) PROVE f[Ago(n - 1, j, 2 * n)] \in (n + 1) .. (2 * n)
  <2>1. PICK i : i = Ago(n - 1, j, 2 * n) /\ i \in n .. (2 * n - 1) /\ i \in 0 .. (2 * n - 1)
    BY DEF Ago
  <2>2. f[i] = i + 1
    BY <1>3, <2>1
  <2> QED
    BY <2>1, <2>2
<1> QED
  BY <1>2, <1>4, <1>5, <1>6, <1>7

LEMMA GrownIs ==
  ASSUME NEW CONSTANT p, NEW CONSTANT n, NEW CONSTANT t, NEW CONSTANT s, RingIs(p, n, t, s)
  PROVE  Grown(p) = [slot |-> GrownSlot(n, t, s), tail |-> n - 1] /\ Grown(p) \in Headers
<1>1. /\ n \in Nat /\ n > 0 /\ t \in 0 .. (n - 1) /\ s \in [0 .. (n - 1) -> 1 .. n]
      /\ s = BlockIndex(p).slot /\ t = BlockIndex(p).tail /\ IndexCapacity(BlockIndex(p)) = n
      /\ \A i, j \in 0 .. (n - 1) : s[i] = s[j] => i = j
  BY DEF RingIs
<1>2. PICK g : g = [slot |-> GrownSlot(n, t, s), tail |-> n - 1]
  OBVIOUS
<1>3. Grown(p) = g
  <2>1. PICK h : h = BlockIndex(p) /\ h.slot = s /\ h.tail = t /\ IndexCapacity(h) = n
    BY <1>1
  <2>2. Grown(p) = [slot |-> [i \in 0 .. (2 * IndexCapacity(h) - 1) |->
                     IF i < IndexCapacity(h) THEN h.slot[(h.tail + 1 + i) % IndexCapacity(h)] ELSE i + 1],
                    tail |-> IndexCapacity(h) - 1]
    BY <2>1 DEF Grown
  <2> QED
    BY <1>2, <2>1, <2>2 DEF GrownSlot
<1>4. GrownSlot(n, t, s) \in [0 .. (2 * n - 1) -> 1 .. (2 * n)]
  <2>1. /\ n \in Nat /\ n > 0 /\ t \in 0 .. (n - 1) /\ s \in [0 .. (n - 1) -> 1 .. n]
        /\ \A i, j \in 0 .. (n - 1) : s[i] = s[j] => i = j
    BY <1>1
  <2> QED
    BY ONLY <2>1, GrownSlots
<1>5. 2 * n \in Nat \ {0} /\ n - 1 \in 0 .. (2 * n - 1)
  BY <1>1
<1>6. PICK z \in Nat \ {0} : z = 2 * n
  BY <1>5
<1>7. g \in [slot : [0 .. (z - 1) -> 1 .. z], tail : 0 .. (z - 1)]
  BY <1>2, <1>4, <1>5, <1>6
<1>8. \E y \in Nat \ {0} : g \in [slot : [0 .. (y - 1) -> 1 .. y], tail : 0 .. (y - 1)]
  BY <1>7
<1> QED
  BY <1>2, <1>3, <1>8 DEF Headers

LEMMA Lengthened ==
  ASSUME NEW S, NEW f \in Seq(S), NEW g \in S
  PROVE  /\ Append(f, g) \in Seq(S) /\ Len(f) \in Nat /\ Len(Append(f, g)) = Len(f) + 1
         /\ Append(f, g)[Len(f) + 1] = g /\ \A i \in 1 .. Len(f) : Append(f, g)[i] = f[i]
  OBVIOUS

LEMMA Joined ==
  ASSUME NEW S, NEW a \in Seq(S), NEW b \in Seq(S), Len(b) = Len(a)
  PROVE  /\ a \o b \in Seq(S) /\ Len(a \o b) = 2 * Len(a)
         /\ \A i \in 1 .. Len(a) : (a \o b)[i] = a[i]
         /\ \A i \in (Len(a) + 1) .. (2 * Len(a)) : (a \o b)[i] = b[i - Len(a)] /\ i - Len(a) \in 1 .. Len(a)
<1>1. Len(a) \in Nat /\ a \o b \in Seq(S) /\ Len(a \o b) = 2 * Len(a)
  OBVIOUS
<1>2. ASSUME NEW i \in 1 .. Len(a) PROVE (a \o b)[i] = a[i]
  BY <1>1
<1>3. ASSUME NEW i \in (Len(a) + 1) .. (2 * Len(a)) PROVE (a \o b)[i] = b[i - Len(a)] /\ i - Len(a) \in 1 .. Len(a)
  BY <1>1
<1> QED
  BY <1>1, <1>2, <1>3

\* A larger index of p, and more entries.
GrowsIndex(p) ==
  /\ header' = [header EXCEPT ![p] = Append(@, Grown(p))]
  /\ entry' = [entry EXCEPT ![p] = @ \o NewEntries(Len(@))]

Enlarged(p, n, t, s) ==
  /\ header' \in [IProducers -> Seq(Headers)] /\ entry' \in [IProducers -> Seq(Entries)]
  /\ \A q \in IProducers : q # p => header'[q] = header[q] /\ entry'[q] = entry[q]
  /\ Len(header[p]) \in Nat /\ Len(header'[p]) = Len(header[p]) + 1 /\ header'[p] # <<>>
  /\ \A i \in 1 .. Len(header[p]) : header'[p][i] = header[p][i]
  /\ BlockIndex(p)' = [slot |-> GrownSlot(n, t, s), tail |-> n - 1]
  /\ n = Len(entry[p]) /\ Len(entry'[p]) = 2 * n
  /\ \A i \in 1 .. n : entry'[p][i] = entry[p][i]
  /\ \A i \in (n + 1) .. (2 * n) : entry'[p][i] = [key |-> INVALID_BLOCK_BASE, value |-> None]

LEMMA IndexGrown ==
  ASSUME BlockState, NEW CONSTANT p \in IProducers, NEW CONSTANT n, NEW CONSTANT t, NEW CONSTANT s, RingIs(p, n, t, s),
         GrowsIndex(p)
  PROVE  Enlarged(p, n, t, s)
<1>1. header \in [IProducers -> Seq(Headers)] /\ entry \in [IProducers -> Seq(Entries)]
  BY DEF BlockState, BlockTypes
<1>2. PICK f, g : f = header[p] /\ f \in Seq(Headers) /\ g = Grown(p) /\ g = [slot |-> GrownSlot(n, t, s), tail |-> n - 1] /\ g \in Headers
  BY <1>1, GrownIs
<1>3. PICK h : h = Append(f, g) /\ h \in Seq(Headers) /\ Len(f) \in Nat /\ Len(h) = Len(f) + 1
               /\ h[Len(f) + 1] = g /\ \A i \in 1 .. Len(f) : h[i] = f[i]
  <2>1. f \in Seq(Headers) /\ g \in Headers
    BY <1>2
  <2>2. /\ Append(f, g) \in Seq(Headers) /\ Len(f) \in Nat /\ Len(Append(f, g)) = Len(f) + 1
        /\ Append(f, g)[Len(f) + 1] = g /\ \A i \in 1 .. Len(f) : Append(f, g)[i] = f[i]
    BY ONLY <2>1, Lengthened
  <2> QED
    BY <2>2
<1>4. header' = [header EXCEPT ![p] = h]
  BY <1>2, <1>3 DEF GrowsIndex
<1>5. header'[p] = h /\ header' \in [IProducers -> Seq(Headers)] /\ \A q \in IProducers : q # p => header'[q] = header[q]
  BY <1>1, <1>3, <1>4
<1>6. BlockIndex(p)' = g /\ h # <<>>
  BY <1>3, <1>5 DEF BlockIndex
<1>7. PICK a : a = entry[p] /\ a \in Seq(Entries) /\ n = Len(a) /\ n \in Nat
  BY <1>1 DEF RingIs
<1>8. PICK e : e = [key |-> INVALID_BLOCK_BASE, value |-> None] /\ e \in Entries
  <2>1. [key |-> INVALID_BLOCK_BASE, value |-> None] \in Entries
    BY DEF Entries, INVALID_BLOCK_BASE
  <2> QED
    BY <2>1
<1>14. PICK b : b = NewEntries(n) /\ b \in Seq(Entries) /\ Len(b) = n /\ \A i \in 1 .. n : b[i] = e
  <2>1. NewEntries(n) = [i \in 1 .. n |-> e]
    BY <1>8 DEF NewEntries
  <2>2. PICK b : b = [i \in 1 .. n |-> e]
    OBVIOUS
  <2>3. b \in Seq(Entries) /\ Len(b) = n /\ \A i \in 1 .. n : b[i] = e
    BY <1>7, <1>8, <2>2
  <2> QED
    BY <2>1, <2>2, <2>3
<1>9. PICK c : c = a \o b
  OBVIOUS
<1>10. /\ c \in Seq(Entries) /\ Len(c) = 2 * n /\ (\A i \in 1 .. n : c[i] = a[i])
       /\ \A i \in (n + 1) .. (2 * n) : c[i] = b[i - n] /\ i - n \in 1 .. n
  <2>1. a \in Seq(Entries) /\ b \in Seq(Entries) /\ Len(b) = Len(a)
    BY <1>7, <1>14
  <2>2. /\ a \o b \in Seq(Entries) /\ Len(a \o b) = 2 * Len(a)
        /\ \A i \in 1 .. Len(a) : (a \o b)[i] = a[i]
        /\ \A i \in (Len(a) + 1) .. (2 * Len(a)) : (a \o b)[i] = b[i - Len(a)] /\ i - Len(a) \in 1 .. Len(a)
    BY ONLY <2>1, Joined
  <2> QED
    BY <1>7, <1>9, <2>2
<1>11. ASSUME NEW i \in (n + 1) .. (2 * n) PROVE c[i] = [key |-> INVALID_BLOCK_BASE, value |-> None]
  BY <1>8, <1>10, <1>14
<1>12. entry' = [entry EXCEPT ![p] = c]
  BY <1>7, <1>9, <1>14 DEF GrowsIndex
<1>13. entry'[p] = c /\ entry' \in [IProducers -> Seq(Entries)] /\ \A q \in IProducers : q # p => entry'[q] = entry[q]
  BY <1>1, <1>10, <1>12
<1>15. /\ Len(header[p]) \in Nat /\ Len(header'[p]) = Len(header[p]) + 1 /\ header'[p] # <<>>
       /\ \A i \in 1 .. Len(header[p]) : header'[p][i] = header[p][i]
       /\ BlockIndex(p)' = [slot |-> GrownSlot(n, t, s), tail |-> n - 1]
  BY <1>2, <1>3, <1>5, <1>6
<1>16. /\ n = Len(entry[p]) /\ Len(entry'[p]) = 2 * n
       /\ \A i \in 1 .. n : entry'[p][i] = entry[p][i]
       /\ \A i \in (n + 1) .. (2 * n) : entry'[p][i] = [key |-> INVALID_BLOCK_BASE, value |-> None]
  BY <1>7, <1>10, <1>11, <1>13
<1> QED
  BY <1>5, <1>13, <1>15, <1>16 DEF Enlarged

LEMMA GrownRing ==
  ASSUME NEW CONSTANT p, NEW CONSTANT n, NEW CONSTANT t, NEW CONSTANT s, RingIs(p, n, t, s),
         BlockIndex(p)' = [slot |-> GrownSlot(n, t, s), tail |-> n - 1], header'[p] # <<>>, Len(entry'[p]) = 2 * n
  PROVE  /\ RingTypes(p)'
         /\ \A j : Back(p, j)' = GrownSlot(n, t, s)[Ago(n - 1, j, 2 * n)]
         /\ \A j : KeyAgo(p, j)' = entry'[p][GrownSlot(n, t, s)[Ago(n - 1, j, 2 * n)]].key
<1>1. n \in Nat /\ n > 0 /\ t \in 0 .. (n - 1) /\ s \in [0 .. (n - 1) -> 1 .. n] /\ \A i, j \in 0 .. (n - 1) : s[i] = s[j] => i = j
  BY DEF RingIs
<1>8. GrownSlot(n, t, s) \in [0 .. (2 * n - 1) -> 1 .. (2 * n)]
  BY ONLY <1>1, GrownSlots
<1>9. \A i, j \in 0 .. (2 * n - 1) : GrownSlot(n, t, s)[i] = GrownSlot(n, t, s)[j] => i = j
  BY ONLY <1>1, GrownSlots, SMTT(30)
<1>2. PICK f : f = GrownSlot(n, t, s) /\ f \in [0 .. (2 * n - 1) -> 1 .. (2 * n)] /\ \A i, j \in 0 .. (2 * n - 1) : f[i] = f[j] => i = j
  BY <1>8, <1>9
<1>3. PICK g : g = BlockIndex(p)' /\ g.slot = f /\ g.tail = n - 1
  BY <1>2
<1>4. IndexCapacity(g) = 2 * n
  <2>1. DOMAIN g.slot = 0 .. (2 * n - 1) /\ 2 * n \in Nat
    BY <1>1, <1>2, <1>3
  <2> QED
    BY <2>1, CapacityIs
<1>5. RingTypes(p)'
  <2>1. PICK m \in Nat : m = 2 * n /\ m >= 1 /\ m = Len(entry'[p]) /\ n - 1 \in 0 .. (m - 1)
    BY <1>1
  <2>2. g.slot \in [0 .. (m - 1) -> 1 .. m] /\ \A i, j \in 0 .. (m - 1) : g.slot[i] = g.slot[j] => i = j
    BY <1>2, <1>3, <2>1
  <2> QED
    BY <1>3, <2>1, <2>2 DEF RingTypes
<1>6. \A j : Back(p, j)' = f[Ago(n - 1, j, 2 * n)]
  BY <1>3, <1>4 DEF Back, Slot, IndexCapacity
<1>7. \A j : KeyAgo(p, j)' = entry'[p][f[Ago(n - 1, j, 2 * n)]].key
  BY <1>3, <1>4 DEF KeyAgo, Slot, IndexCapacity
<1> QED
  BY <1>2, <1>5, <1>6, <1>7

LEMMA NewBlockIndexKeeps ==
  ASSUME BlockState, CountInv, load' = load, NEW CONSTANT p \in IProducers, NewBlockIndex(p)
  PROVE  CountTypes' /\ CountInv' /\ BlockInv' /\ BlockTypes' /\ ThreadTypes'
<1>1. /\ ipc[p] = "insert" /\ ipc' = ipc /\ loc' = loc /\ ~IsFree(entry[p][NextEntry(p)]) /\ tailBlock' = tailBlock
      /\ UNCHANGED counters /\ UNCHANGED blocks /\ UNCHANGED pool
  BY DEF NewBlockIndex
<1>2. /\ p \in IThreads /\ p \notin IConsumers /\ CountTypes /\ BlockTypes /\ ThreadTypes /\ loc[p] \in Locals
      /\ RingTypes(p) /\ RingKeys(p) /\ Keyed(p) /\ Inserts(p) /\ LiveLinked(p) /\ tailIndex[p] \in Nat
  BY ProducerIs DEF BlockState
<1>3. PICK n, t, s : RingIs(p, n, t, s)
  BY <1>2, RingOf
<1>4. n \in Nat /\ n > 0 /\ t \in 0 .. (n - 1) /\ s \in [0 .. (n - 1) -> 1 .. n] /\ n = Len(entry[p])
      /\ \A i, j \in 0 .. (n - 1) : s[i] = s[j] => i = j
  BY <1>3 DEF RingIs
<1>5. /\ header' \in [IProducers -> Seq(Headers)] /\ entry' \in [IProducers -> Seq(Entries)]
      /\ \A q \in IProducers : q # p => header'[q] = header[q] /\ entry'[q] = entry[q]
      /\ Len(header[p]) \in Nat /\ Len(header'[p]) = Len(header[p]) + 1 /\ header'[p] # <<>>
      /\ \A i \in 1 .. Len(header[p]) : header'[p][i] = header[p][i]
      /\ BlockIndex(p)' = [slot |-> GrownSlot(n, t, s), tail |-> n - 1]
      /\ Len(entry'[p]) = 2 * n
      /\ \A i \in 1 .. n : entry'[p][i] = entry[p][i]
      /\ \A i \in (n + 1) .. (2 * n) : entry'[p][i] = [key |-> INVALID_BLOCK_BASE, value |-> None]
  <2>1. GrowsIndex(p)
    BY DEF NewBlockIndex, GrowsIndex
  <2>2. Enlarged(p, n, t, s)
    BY <1>3, <2>1, IndexGrown
  <2> QED
    BY <1>3, <2>2 DEF Enlarged
<1>6. PICK f : /\ f = GrownSlot(n, t, s)
               /\ \A j \in 0 .. (n - 1) : f[Ago(n - 1, j, 2 * n)] = s[Ago(t, j, n)]
               /\ \A j \in n .. (2 * n - 1) : f[Ago(n - 1, j, 2 * n)] \in (n + 1) .. (2 * n)
  <2>3. /\ n \in Nat /\ n > 0 /\ t \in 0 .. (n - 1) /\ s \in [0 .. (n - 1) -> 1 .. n]
        /\ \A i, j \in 0 .. (n - 1) : s[i] = s[j] => i = j
    BY <1>4
  <2>1. \A j \in 0 .. (n - 1) : GrownSlot(n, t, s)[Ago(n - 1, j, 2 * n)] = s[Ago(t, j, n)]
    BY ONLY <2>3, GrownSlots
  <2>2. \A j \in n .. (2 * n - 1) : GrownSlot(n, t, s)[Ago(n - 1, j, 2 * n)] \in (n + 1) .. (2 * n)
    BY ONLY <2>3, GrownSlots
  <2> QED
    BY <2>1, <2>2
<1>7. /\ RingTypes(p)'
      /\ \A j : Back(p, j)' = f[Ago(n - 1, j, 2 * n)]
      /\ \A j : KeyAgo(p, j)' = entry'[p][f[Ago(n - 1, j, 2 * n)]].key
  BY <1>3, <1>5, <1>6, GrownRing
<1>8. /\ \A j : Back(p, j) = s[Ago(t, j, n)]
      /\ \A j \in 0 .. (n - 1) : Back(p, j) \in 1 .. n
  BY <1>3, BackIs
<1>9. Goes(p, "insert", loc[p])
  <2>1. IGo(p, "insert") /\ "insert" \in PushLabels
    BY <1>1, <1>2 DEF IGo, Set, ThreadTypes, PushLabels
  <2> QED
    BY <1>1, <1>2, <2>1, StaysGoes
<1>10. Apart(p) /\ ipc'[p] = "insert" /\ loc'[p] = loc[p] /\ ThreadTypes' /\ IProducers' = IProducers
  BY <1>2, <1>9, Gone
<1>11. tailIndex' = tailIndex /\ headIndex' = headIndex
  BY <1>1 DEF counters
<1>12. Filled(p)' = Filled(p)
  BY <1>1, <1>11 DEF Filled
<1>13. PICK v \in Int : v = Filled(p) /\ Top(p) = v /\ Top(p)' = v
  <2>1. ipc[p] \notin Getting
    BY <1>1 DEF Getting
  <2>2. Filled(p) \in Int /\ Top(p) = Filled(p)
    BY <1>2, <2>1, NumbersAre
  <2>3. Top(p)' = Top(p)
    BY <1>1, <1>12 DEF Top
  <2> QED
    BY <2>2, <2>3
<1>14. ASSUME NEW j \in 0 .. (n - 1) PROVE Back(p, j)' = Back(p, j) /\ KeyAgo(p, j)' = KeyAgo(p, j) /\ (IsKey(p, j)' <=> IsKey(p, j))
  <2>1. Back(p, j)' = Back(p, j)
    BY <1>6, <1>7, <1>8
  <2>2. KeyAgo(p, j) = entry[p][Back(p, j)].key /\ KeyAgo(p, j)' = entry'[p][Back(p, j)'].key
    BY DEF KeyAgo, Back
  <2>3. KeyAgo(p, j)' = KeyAgo(p, j)
    BY <1>5, <1>8, <2>1, <2>2
  <2> QED
    BY <1>13, <2>1, <2>3 DEF IsKey
<1>15. ASSUME NEW j \in n .. (2 * n - 1) PROVE KeyAgo(p, j)' = INVALID_BLOCK_BASE /\ ~IsKey(p, j)'
  <2>1. KeyAgo(p, j)' = INVALID_BLOCK_BASE
    <3>1. PICK i \in (n + 1) .. (2 * n) : i = f[Ago(n - 1, j, 2 * n)]
      BY <1>6
    <3>2. entry'[p][i].key = INVALID_BLOCK_BASE
      BY <1>5
    <3> QED
      BY <1>7, <3>1, <3>2
  <2>2. v - j \in Int
    BY <1>4
  <2>3. (v - j) * BLOCK_SIZE # INVALID_BLOCK_BASE
    BY <2>2, BlockMultiples
  <2> QED
    BY <1>13, <2>1, <2>3 DEF IsKey
<1>16. ~Rewound(p)
  <2>1. entry[p][NextEntry(p)].value # None
    BY <1>1 DEF IsFree
  <2> QED
    BY <2>1 DEF Rewound
<1>17. RingKeys(p)'
  <2>1. ASSUME NEW j \in 0 .. (2 * n - 1)
        PROVE  /\ IsKey(p, j)' \/ KeyAgo(p, j)' = INVALID_BLOCK_BASE
               /\ IsKey(p, j)' => \A i \in 0 .. j : IsKey(p, i)'
    <3>1. CASE j >= n
      <4>1. j \in n .. (2 * n - 1)
        BY <1>4, <3>1
      <4> QED
        BY <1>15, <4>1
    <3>2. CASE j < n
      <4>1. j \in 0 .. (n - 1) /\ \A i \in 0 .. j : i \in 0 .. (n - 1)
        BY <1>4, <3>2
      <4>2. /\ IsKey(p, j) \/ KeyAgo(p, j) = INVALID_BLOCK_BASE
            /\ IsKey(p, j) => \A i \in 0 .. j : IsKey(p, i)
        BY <1>2, <1>4, <1>16, <4>1 DEF RingKeys
      <4> QED
        BY <1>14, <4>1, <4>2
    <3>3. j \in Int /\ n \in Int
      BY <1>4
    <3> QED
      BY <3>1, <3>2, <3>3
  <2> QED
    BY <1>5, <2>1 DEF RingKeys
<1>18. Keyed(p)'
  <2>1. ASSUME NEW i \in 1 .. (2 * n), entry'[p][i].value # None PROVE i \in 1 .. n
    <3>1. CASE i \in (n + 1) .. (2 * n)
      BY <1>5, <2>1, <3>1
    <3> QED
      BY <1>4, <3>1
  <2> QED
    BY <1>2, <1>4, <1>5, <2>1 DEF Keyed
<1>19. Inserts(p)'
  <2>1. tailIndex[p] % BLOCK_SIZE = 0
    BY <1>1, <1>2 DEF Inserts
  <2>2. ~Filling(p)'
    BY <1>10, <1>11, <2>1 DEF Filling
  <2> QED
    BY <1>10, <1>11, <2>1, <2>2 DEF Inserts, Getting
<1>20. Indexed(p)'
  BY <1>7, <1>17, <1>18, <1>19 DEF Indexed
<1>21. ASSUME NEW CONSTANT k \in 0 .. Filled(p), Live(p, k)
       PROVE  EntryOf(p, k)' = EntryOf(p, k) /\ BlockOf(p, k)' = BlockOf(p, k) /\ Linking(p, k)'
  <2>1. Linking(p, k) /\ k \in Nat /\ k <= v
    BY <1>2, <1>13, <1>21 DEF LiveLinked
  <2>2. v - k \in 0 .. (n - 1)
    BY <1>4, <1>13, <2>1 DEF Linking
  <2>3. EntryOf(p, k) = Back(p, v - k) /\ EntryOf(p, k)' = Back(p, v - k)'
    BY <1>13 DEF EntryOf, Back
  <2>4. PICK a : a = EntryOf(p, k) /\ a \in 1 .. n /\ a = EntryOf(p, k)'
    BY <1>8, <1>14, <2>2, <2>3
  <2>5. entry'[p][a] = entry[p][a]
    BY <1>5, <2>4
  <2>6. BlockOf(p, k)' = BlockOf(p, k)
    BY <2>4, <2>5 DEF BlockOf
  <2>7. Top(p)' - k < Len(entry'[p])
    BY <1>4, <1>5, <1>13, <2>2
  <2> QED
    BY <2>1, <2>4, <2>5, <2>6, <2>7 DEF Linking
<1>22. ASSUME NEW CONSTANT k \in 0 .. Filled(p), NEW CONSTANT h, NEW CONSTANT a, Live(p, k), Finds(p, k, h, a) PROVE Finds(p, k, h, a)'
  <2>1. EntryOf(p, k)' = EntryOf(p, k)
    BY <1>21, <1>22
  <2>2. PICK m : m = h.slot[a] /\ m \in 1 .. n /\ a \in 0 .. (IndexCapacity(h) - 1)
    BY <1>4, <1>22 DEF Finds
  <2>3. entry'[p][m] = entry[p][m] /\ m \in 1 .. Len(entry'[p])
    <3>1. n \in Nat /\ m \in 1 .. (2 * n)
      BY <1>4, <2>2
    <3> QED
      BY <1>5, <2>2, <3>1
  <2>4. \E j \in 0 .. (IndexCapacity(h) - 1) : entry'[p][m].key = (k + j) * BLOCK_SIZE /\ Slot(h, a, j) = EntryOf(p, k)'
    BY <1>22, <2>1, <2>2, <2>3 DEF Finds
  <2> QED
    BY <2>2, <2>3, <2>4 DEF Finds, Slot, IndexCapacity
<1>23. SameHolders(p)
  BY <1>2, <1>10, <1>11, HoldersApart
<1>24. KeepsBlocks(p)
  <2>1. /\ \A m : Open(p, m)' <=> Open(p, m)
        /\ \A m : Waits(p, m)' <=> Waits(p, m)
    BY <1>23, HoldFrame
  <2> QED
    BY <1>12, <1>21, <1>22, <2>1 DEF KeepsBlocks
<1>25. KeepsHeaders(p)
  <2>1. ASSUME NEW CONSTANT i \in 1 .. Len(header[p]), NEW CONSTANT k \in 0 .. Filled(p), Live(p, k),
               Finds(p, k, header[p][i], header[p][i].tail)
        PROVE  Finds(p, k, header[p][i], header[p][i].tail)'
    <3>1. PICK h, a : h = header[p][i] /\ a = header[p][i].tail
      OBVIOUS
    <3>2. Finds(p, k, h, a)'
      BY <1>22, <2>1, <3>1
    <3>3. header'[p][i] = h
      BY <1>5, <3>1
    <3> QED
      BY <3>1, <3>2, <3>3
  <2> QED
    BY <1>5, <2>1 DEF KeepsHeaders
<1>26. SameValues(p)
  BY <1>4, <1>5 DEF SameValues
<1>27. CountTypes' /\ CountInv'
  BY <1>1, <1>2, <1>9, CountsUntouched
<1>28. BlockTypes'
  BY <1>1, <1>2, <1>5, IndexTypesNext DEF BlockTypes, blocks
<1>29. Homes'
  <2>1. NoNewLinks
    <3> SUFFICES ASSUME NEW q \in IProducers, NEW i \in 1 .. Len(entry'[q]), entry'[q][i].value # None
                 PROVE  i \in 1 .. Len(entry[q]) /\ entry'[q][i].value = entry[q][i].value
      BY DEF NoNewLinks
    <3>1. CASE q = p
      <4>1. i \in 1 .. n \/ i \in (n + 1) .. (2 * n)
        BY <1>4, <1>5, <3>1
      <4> QED
        BY <1>4, <1>5, <3>1, <4>1
    <3> QED
      BY <1>5, <3>1
  <2> QED
    BY <1>1, <1>10, <2>1, LinksHomes
<1>30. OthersIndex(p)
  BY <1>1, <1>5, <1>11 DEF OthersIndex
<1>31. BlockInv'
  BY <1>1, <1>9, <1>11, <1>20, <1>24, <1>25, <1>26, <1>29, <1>30, ProducerKeeps
<1> QED
  BY <1>10, <1>27, <1>28, <1>31

\* The blocks of q and its elements, if others are counted anew.
LEMMA KeptCounts ==
  ASSUME BlockState, NEW CONSTANT p \in IProducers, KeepsBlocks(p), elements' = elements, tailIndex'[p] = tailIndex[p],
         \A k \in 0 .. Filled(p) : Live(p, k) =>
           elementsCompletelyDequeued'[BlockOf(p, k)] = elementsCompletelyDequeued[BlockOf(p, k)]
  PROVE  LiveLinked(p)' /\ Stay(p)' /\ \A k : Live(p, k)' <=> Live(p, k)
<1>1. LiveLinked(p) /\ Stay(p)
  BY ProducerIs
<1>3. LiveLinked(p)' /\ \A k : Live(p, k)' <=> Live(p, k)
  BY <1>1, LiveLinkedKept DEF KeepsBlocks
<1>4. ASSUME NEW CONSTANT n \in 0 .. (tailIndex[p] - 1), Waits(p, n)'
      PROVE  /\ Waits(p, n)
             /\ elements'[BlockOf(p, n \div BLOCK_SIZE)'][n % BLOCK_SIZE] = elements[BlockOf(p, n \div BLOCK_SIZE)][n % BLOCK_SIZE]
  <2>1. n \in Nat /\ n < tailIndex[p] /\ n \in Int
    BY ProducerIs
  <2>2. Waits(p, n) /\ Open(p, n)
    BY <1>4, <2>1 DEF KeepsBlocks, Waits, Open, ToMove, IHeld
  <2>3. PICK k : k = n \div BLOCK_SIZE
    OBVIOUS
  <2>4. k \in 0 .. Filled(p) /\ Live(p, k)
    BY <2>1, <2>2, <2>3, OpenLives
  <2>5. BlockOf(p, k)' = BlockOf(p, k)
    BY <2>4 DEF KeepsBlocks
  <2>6. BlockOf(p, n \div BLOCK_SIZE)' = BlockOf(p, k)'
    BY <2>3 DEF BlockOf, EntryOf
  <2> QED
    BY <2>2, <2>3, <2>5, <2>6
<1>5. Stay(p)'
  BY <1>1, <1>4, StayKept
<1> QED
  BY <1>3, <1>5

\* The block in the hand of p is linked to the entry e.
Links(p, e, b) ==
  /\ e \in 1 .. Len(entry[p]) /\ Len(entry'[p]) = Len(entry[p]) /\ entry'[p][e].value = b
  /\ \A i \in 1 .. Len(entry[p]) : entry'[p][i].key = entry[p][i].key /\ (i # e => entry'[p][i] = entry[p][i])
  /\ \A q \in IProducers : q # p => entry'[q] = entry[q]

LEMMA StoredHomes ==
  ASSUME BlockState, NEW CONSTANT p \in IProducers, Apart(p), load' = load, UNCHANGED pool,
         ipc[p] = "value", ipc'[p] = "publish", NEW CONSTANT e, NEW CONSTANT b, b = loc[p].b, Links(p, e, b)
  PROVE  Homes' /\ b \in MemBlocks /\ b # None /\ \A q \in IProducers : \A i \in 1 .. Len(entry[q]) : entry[q][i].value # b
<1>1. /\ IProducers' = IProducers /\ IThreads' = IThreads /\ p \in IThreads /\ p \notin IConsumers /\ IConsumers \subseteq IThreads
  BY ProducerIs, SubThreads DEF IProducers, IThreads, NProducers
<1>2. Homes /\ InUse' = InUse /\ freeList' = freeList /\ InHand(p) /\ ~InHand(p)'
  BY DEF BlockState, BlockInv, InUse, pool, InHand
<1>3. b \in InUse \ freeList /\ \A q \in IProducers : \A i \in 1 .. Len(entry[q]) : entry[q][i].value # b
  BY <1>1, <1>2 DEF Homes, HandsHold
<1>4. b \in MemBlocks /\ b # None
  BY <1>3, InUseAre DEF BlockState
<1>5. \A u \in IThreads : InHand(u)' => InHand(u) /\ u # p /\ loc'[u].b = loc[u].b
  BY <1>2 DEF Apart, InHand
<1>6. \A q \in IProducers : \A i \in 1 .. Len(entry'[q]) :
        i \in 1 .. Len(entry[q]) /\ (entry'[q][i].value = entry[q][i].value \/ (q = p /\ i = e /\ entry'[q][i].value = b))
  BY DEF Links
<1>7. LinksApart'
  <2> SUFFICES ASSUME NEW q \in IProducers, NEW w \in IProducers, NEW i \in 1 .. Len(entry'[q]), NEW j \in 1 .. Len(entry'[w]),
                      entry'[q][i].value # None, entry'[q][i].value = entry'[w][j].value
               PROVE  q = w /\ i = j
    BY <1>1 DEF LinksApart
  <2>1. i \in 1 .. Len(entry[q]) /\ j \in 1 .. Len(entry[w])
    BY <1>6
  <2>2. LinksApart
    BY <1>2 DEF Homes
  <2>3. entry[q][i].value # b /\ entry[w][j].value # b
    BY <1>3, <2>1
  <2>4. entry'[q][i].value = entry[q][i].value \/ (q = p /\ i = e /\ entry'[q][i].value = b)
    BY <1>6
  <2>5. entry'[w][j].value = entry[w][j].value \/ (w = p /\ j = e /\ entry'[w][j].value = b)
    BY <1>6
  <2>6. CASE q = p /\ i = e /\ entry'[q][i].value = b
    BY <2>3, <2>5, <2>6
  <2>7. CASE entry'[q][i].value = entry[q][i].value
    <3>1. entry'[w][j].value = entry[w][j].value
      BY <2>3, <2>5, <2>7
    <3>2. entry[q][i].value # None /\ entry[q][i].value = entry[w][j].value
      BY <2>7, <3>1
    <3> QED
      BY <2>1, <2>2, <3>2 DEF LinksApart
  <2> QED
    BY <2>4, <2>6, <2>7
<1>8. LinksHold'
  <2> SUFFICES ASSUME NEW q \in IProducers, NEW i \in 1 .. Len(entry'[q]), entry'[q][i].value # None
               PROVE  entry'[q][i].value \in InUse \ freeList
    BY <1>1, <1>2 DEF LinksHold
  <2>1. i \in 1 .. Len(entry[q]) /\ (entry'[q][i].value = entry[q][i].value \/ entry'[q][i].value = b)
    BY <1>6
  <2> QED
    BY <1>2, <1>3, <2>1 DEF Homes, LinksHold
<1>9. HandsApart'
  BY <1>1, <1>2, <1>5 DEF Homes, HandsApart
<1>10. HandsHold'
  <2> SUFFICES ASSUME NEW u \in IThreads, InHand(u)'
               PROVE  /\ loc'[u].b \in InUse \ freeList
                      /\ \A q \in IProducers : \A i \in 1 .. Len(entry'[q]) : entry'[q][i].value # loc'[u].b
    BY <1>1, <1>2 DEF HandsHold
  <2>1. PICK a : a = loc[u].b /\ a = loc'[u].b /\ InHand(u) /\ u # p
    BY <1>5
  <2>2. a \in InUse \ freeList /\ \A q \in IProducers : \A i \in 1 .. Len(entry[q]) : entry[q][i].value # a
    BY <1>2, <2>1 DEF Homes, HandsHold
  <2>3. a # b
    BY <1>1, <1>2, <2>1 DEF Homes, HandsApart
  <2> QED
    BY <1>6, <2>1, <2>2, <2>3
<1>11. UnlinksApart'
  <2>1. \A c \in IConsumers : ipc'[c] = ipc[c] /\ loc'[c] = loc[c]
    BY <1>1 DEF Apart
  <2> QED
    BY <1>2, <2>1 DEF Homes, UnlinksApart
<1>12. Homes'
  BY <1>2, <1>7, <1>8, <1>9, <1>10, <1>11 DEF Homes
<1> QED
  BY <1>3, <1>4, <1>12

\* The producer p links its block b to the entry e, as block v + 1.
Stores(p, e, b, v) ==
  /\ ipc[p] = "value" /\ ipc'[p] = "publish" /\ e = loc[p].e /\ Links(p, e, b) /\ b # None
  /\ header'[p] = header[p] /\ tailIndex'[p] = tailIndex[p] /\ tailBlock'[p] = b
  /\ v = Filled(p)

LEMMA StoredNumbers ==
  ASSUME BlockState, NEW CONSTANT p \in IProducers, NEW CONSTANT e, NEW CONSTANT b, NEW CONSTANT v, Stores(p, e, b, v)
  PROVE  /\ v \in Int /\ v + 1 \in Nat /\ Filled(p) = v /\ Top(p) = v + 1 /\ Filled(p)' = v + 1 /\ Top(p)' = v + 1
         /\ tailIndex[p] = (v + 1) * BLOCK_SIZE /\ tailIndex[p] % BLOCK_SIZE = 0 /\ tailIndex[p] \in Nat
         /\ tailIndex[p] \div BLOCK_SIZE = v + 1
         /\ e = EntryOf(p, v + 1) /\ entry[p][e].key = tailIndex[p] /\ entry[p][e].value = None
<1>1. CountTypes /\ BlockTypes /\ RingTypes(p) /\ Inserts(p) /\ tailIndex[p] \in Nat /\ ipc[p] \in Getting /\ ipc[p] # "publish"
  BY ProducerIs DEF BlockState, Stores, Getting
<1>2. tailIndex[p] % BLOCK_SIZE = 0 /\ e = BlockIndex(p).slot[BlockIndex(p).tail] /\ Fresh(p, e)
  BY <1>1 DEF Inserts, Stores
<1>3. v \in Int /\ Filled(p) = v /\ Top(p) = v + 1 /\ tailIndex[p] = (v + 1) * BLOCK_SIZE
  <2>1. Filled(p) \in Int /\ Top(p) = Filled(p) + 1 /\ tailIndex[p] = (Filled(p) + 1) * BLOCK_SIZE
    BY <1>1, <1>2, NumbersAre
  <2> QED
    BY <2>1 DEF Stores
<1>4. PICK w \in Int : w = v + 1
  BY <1>3
<1>5. tailIndex[p] \div BLOCK_SIZE = w
  <2>1. 0 \in 0 .. (BLOCK_SIZE - 1)
    BY BlockSizeIs
  <2>2. PICK y \in Int : y = w * BLOCK_SIZE
    BY <1>4, BlockMultiples
  <2>3. tailIndex[p] = y /\ y = w * BLOCK_SIZE + 0
    BY <1>3, <1>4, <2>2
  <2> QED
    BY <2>1, <2>2, <2>3, BlockUnique
<1>6. w >= 0
  <2>1. 0 \div BLOCK_SIZE <= tailIndex[p] \div BLOCK_SIZE
    BY <1>1, BlocksGrow
  <2>2. 0 \div BLOCK_SIZE = 0
    <3>1. 0 = 0 * BLOCK_SIZE + 0 /\ 0 \in 0 .. (BLOCK_SIZE - 1)
      BY BlockSizeIs
    <3> QED
      BY <3>1, BlockUnique
  <2> QED
    BY <1>5, <2>1, <2>2
<1>7. Filled(p)' = w /\ Top(p)' = w
  <2>1. Filled(p)' = w
    BY <1>5 DEF Filled, Stores
  <2>2. Top(p)' = w + 0
    BY <2>1 DEF Top, Stores, Getting
  <2> QED
    BY <2>1, <2>2
<1>8. e = EntryOf(p, w)
  <2>1. PICK n, t, s : RingIs(p, n, t, s)
    BY <1>1, RingOf
  <2>2. EntryOf(p, w) = Back(p, Top(p) - w)
    BY DEF EntryOf, Back
  <2>3. Top(p) - w = 0
    BY <1>3, <1>4
  <2>4. Back(p, 0) = s[t] /\ s = BlockIndex(p).slot /\ t = BlockIndex(p).tail
    BY <2>1, BackIs, SMTT(30) DEF RingIs
  <2> QED
    BY <1>2, <2>2, <2>3, <2>4
<1>9. entry[p][e].key = tailIndex[p] /\ entry[p][e].value = None
  BY <1>2 DEF Fresh
<1> QED
  BY <1>1, <1>2, <1>3, <1>4, <1>5, <1>6, <1>7, <1>8, <1>9

\* The index after it.
LEMMA StoredIndex ==
  ASSUME BlockState, NEW CONSTANT p \in IProducers, NEW CONSTANT e, NEW CONSTANT b, NEW CONSTANT v, Stores(p, e, b, v)
  PROVE  /\ Indexed(p)' /\ \A k : EntryOf(p, k)' = EntryOf(p, k)
         /\ \A k, h, a : Finds(p, k, h, a) => Finds(p, k, h, a)'
<1>1. /\ CountTypes /\ BlockTypes /\ RingTypes(p) /\ RingKeys(p) /\ Keyed(p) /\ ipc[p] \notin {"idle", "insert", "inserttail"}
      /\ e \in 1 .. Len(entry[p]) /\ Len(entry'[p]) = Len(entry[p]) /\ entry'[p][e].value = b
      /\ \A i \in 1 .. Len(entry[p]) : entry'[p][i].key = entry[p][i].key /\ (i # e => entry'[p][i] = entry[p][i])
  BY ProducerIs DEF BlockState, Stores, Links
<1>2. /\ v \in Int /\ Filled(p)' = v + 1 /\ Top(p)' = v + 1 /\ Top(p) = v + 1
      /\ e = EntryOf(p, v + 1) /\ entry[p][e].key = (v + 1) * BLOCK_SIZE
  BY StoredNumbers
<1>3. SameRing(p)
  BY <1>1 DEF SameRing, Stores
<1>4. /\ \A k : EntryOf(p, k)' = EntryOf(p, k)
      /\ RingTypes(p)'
      /\ RingKeys(p) /\ (Rewound(p) => Rewound(p)') => RingKeys(p)'
      /\ \A k, h, a : Finds(p, k, h, a) => Finds(p, k, h, a)'
  BY <1>1, <1>2, <1>3, RingFrame
<1>5. RingKeys(p)'
  BY <1>1, <1>4 DEF Rewound
<1>6. Keyed(p)'
  <2>1. entry[p][e].key # INVALID_BLOCK_BASE
    <3>1. v + 1 \in Int
      BY <1>2
    <3> QED
      BY <1>2, <3>1, BlockMultiples
  <2>2. \A i \in 1 .. Len(entry[p]) : entry'[p][i].value # None => entry'[p][i].key # INVALID_BLOCK_BASE
    <3> SUFFICES ASSUME NEW i \in 1 .. Len(entry[p]), entry'[p][i].value # None PROVE entry'[p][i].key # INVALID_BLOCK_BASE
      OBVIOUS
    <3>1. CASE i = e
      BY <1>1, <2>1, <3>1
    <3>2. CASE i # e
      BY <1>1, <3>2 DEF Keyed
    <3> QED
      BY <3>1, <3>2
  <2> QED
    BY <1>1, <2>2 DEF Keyed
<1>7. Inserts(p)'
  <2>1. EntryOf(p, Filled(p))' = e
    <3>1. EntryOf(p, Filled(p))' = EntryOf(p, v + 1)'
      BY <1>2 DEF EntryOf
    <3> QED
      BY <1>2, <1>4, <3>1
  <2>2. tailBlock'[p] = entry'[p][EntryOf(p, Filled(p))'].value
    BY <1>1, <2>1 DEF Stores
  <2> QED
    BY <2>2 DEF Inserts, Stores, Getting
<1> QED
  BY <1>4, <1>5, <1>6, <1>7 DEF Indexed

\* The blocks that were linked before stay as they are, and are others.
LEMMA StoredOld ==
  ASSUME BlockState, NEW CONSTANT p \in IProducers, NEW CONSTANT e, NEW CONSTANT b, NEW CONSTANT v, Stores(p, e, b, v),
         \A q \in IProducers : \A i \in 1 .. Len(entry[q]) : entry[q][i].value # b,
         NEW CONSTANT k \in 0 .. v, Live(p, k)
  PROVE  /\ Linking(p, k) /\ Linking(p, k)' /\ EntryOf(p, k)' = EntryOf(p, k) /\ EntryOf(p, k) # e
         /\ BlockOf(p, k)' = BlockOf(p, k) /\ BlockOf(p, k) # b
         /\ elementsCompletelyDequeued[BlockOf(p, k)] = Cardinality(Past(p, k))
<1>1. /\ e \in 1 .. Len(entry[p]) /\ Len(entry'[p]) = Len(entry[p])
      /\ \A i \in 1 .. Len(entry[p]) : i # e => entry'[p][i] = entry[p][i]
      /\ LiveLinked(p)
  BY ProducerIs DEF Stores, Links
<1>2. v = Filled(p) /\ Top(p)' = Top(p) /\ v \in Int /\ entry[p][e].value = None
  BY StoredNumbers
<1>3. Linking(p, k) /\ k \in Nat /\ k <= Filled(p) /\ elementsCompletelyDequeued[BlockOf(p, k)] = Cardinality(Past(p, k))
  BY <1>1, <1>2 DEF LiveLinked
<1>4. EntryOf(p, k)' = EntryOf(p, k)
  BY StoredIndex
<1>5. PICK a : a = EntryOf(p, k) /\ a \in 1 .. Len(entry[p]) /\ BlockOf(p, k) = entry[p][a].value /\ BlockOf(p, k) # None
  BY <1>3, BlockOfType
<1>6. a # e
  BY <1>2, <1>5
<1>7. entry'[p][a] = entry[p][a]
  BY <1>1, <1>5, <1>6
<1>8. BlockOf(p, k)' = BlockOf(p, k)
  BY <1>4, <1>5, <1>7 DEF BlockOf
<1>9. Linking(p, k)'
  BY <1>1, <1>2, <1>3, <1>4, <1>5, <1>7, <1>8 DEF Linking
<1> QED
  BY <1>3, <1>4, <1>5, <1>6, <1>8, <1>9

\* No place of the new block is done with.
LEMMA StoredNew ==
  ASSUME BlockState, BlockTypes', NEW CONSTANT p \in IProducers, NEW CONSTANT e, NEW CONSTANT b, NEW CONSTANT v, Stores(p, e, b, v),
         headIndex' = headIndex
  PROVE  /\ EntryOf(p, v + 1)' = e /\ BlockOf(p, v + 1)' = b /\ Linking(p, v + 1)'
         /\ Past(p, v + 1)' = {} /\ Cardinality(Past(p, v + 1)') = 0
<1>1. /\ e \in 1 .. Len(entry[p]) /\ Len(entry'[p]) = Len(entry[p]) /\ entry'[p][e].value = b /\ b # None
      /\ entry'[p][e].key = entry[p][e].key /\ headIndex[p] \in Nat /\ headIndex[p] <= tailIndex[p] /\ Len(entry[p]) \in Nat
  <2>1. Links(p, e, b) /\ b # None
    BY DEF Stores
  <2>2. /\ e \in 1 .. Len(entry[p]) /\ Len(entry'[p]) = Len(entry[p]) /\ entry'[p][e].value = b
        /\ entry'[p][e].key = entry[p][e].key
    BY <2>1 DEF Links
  <2>3. headIndex[p] \in Nat /\ headIndex[p] <= tailIndex[p]
    BY ProducerIs
  <2>4. Len(entry[p]) \in Nat
    BY DEF BlockState, BlockTypes
  <2> QED
    BY <2>1, <2>2, <2>3, <2>4
<1>2. /\ v \in Int /\ v + 1 \in Nat /\ Top(p)' = v + 1 /\ e = EntryOf(p, v + 1) /\ entry[p][e].key = tailIndex[p]
      /\ tailIndex[p] = (v + 1) * BLOCK_SIZE /\ tailIndex[p] \in Nat
  BY StoredNumbers
<1>3. PICK w \in Nat : w = v + 1
  BY <1>2
<1>4. EntryOf(p, w)' = e
  BY <1>2, <1>3, StoredIndex
<1>5. BlockOf(p, w)' = b
  BY <1>1, <1>4 DEF BlockOf
<1>6. Linking(p, w)'
  <2>1. Top(p)' - w < Len(entry'[p])
    BY <1>1, <1>2, <1>3
  <2>2. entry'[p][EntryOf(p, w)'].key = w * BLOCK_SIZE
    BY <1>1, <1>2, <1>3, <1>4
  <2>3. BlockOf(p, w)' # None
    BY <1>1, <1>5
  <2> QED
    BY <2>1, <2>2, <2>3 DEF Linking
<1>7. Past(p, w)' = {}
  <2>1. ASSUME NEW n \in Positions(w) PROVE n >= headIndex[p]
    <3>1. w * BLOCK_SIZE = tailIndex[p]
      BY <1>2, <1>3
    <3>2. n >= w * BLOCK_SIZE /\ n \in Int
      <4>1. w * BLOCK_SIZE \in Int
        BY <1>2, <3>1
      <4> QED
        BY <2>1, <4>1, BlockSizeIs DEF Positions
    <3> QED
      BY <1>1, <1>2, <3>1, <3>2
  <2>2. Past(p, w)' = {n \in Positions(w) : ~Open(p, n)'}
    BY DEF Past, Positions
  <2> QED
    BY <2>1, <2>2 DEF Open
<1>8. Cardinality(Past(p, w)') = 0
  BY <1>7, FS_EmptySet
<1> QED
  BY <1>3, <1>4, <1>5, <1>6, <1>7, <1>8

\* The blocks of p after it.
LEMMA StoredLinked ==
  ASSUME BlockState, BlockTypes', NEW CONSTANT p \in IProducers, NEW CONSTANT e, NEW CONSTANT b, NEW CONSTANT v, Stores(p, e, b, v),
         \A q \in IProducers : \A i \in 1 .. Len(entry[q]) : entry[q][i].value # b,
         headIndex' = headIndex, SameHolders(p), elementsCompletelyDequeued'[b] = 0,
         \A a \in MemBlocks : a # b => elementsCompletelyDequeued'[a] = elementsCompletelyDequeued[a]
  PROVE  LiveLinked(p)' /\ \A k : k # v + 1 /\ Live(p, k)' => k \in 0 .. v /\ Live(p, k)
<1>1. v \in Int /\ Filled(p) = v /\ Filled(p)' = v + 1 /\ v + 1 \in Nat
  BY StoredNumbers
<1>2. \A n : Open(p, n)' <=> Open(p, n)
  BY HoldFrame
<1>3. ASSUME NEW CONSTANT k, k # v + 1, Live(p, k)' PROVE k \in 0 .. v /\ Live(p, k)
  <2>1. k \in 0 .. (v + 1)
    BY <1>1, <1>3 DEF Live
  <2>2. k \in 0 .. v
    BY <1>1, <1>3, <2>1
  <2>3. \E n \in Positions(k) : Open(p, n)
    BY <1>2, <1>3 DEF Live, Positions
  <2> QED
    BY <1>1, <2>2, <2>3 DEF Live
<1>4. ASSUME NEW CONSTANT k \in 0 .. (v + 1), Live(p, k)'
      PROVE  Linking(p, k)' /\ elementsCompletelyDequeued'[BlockOf(p, k)'] = Cardinality(Past(p, k)')
  <2>1. CASE k = v + 1
    BY <2>1, StoredNew
  <2>2. CASE k # v + 1
    <3>1. k \in 0 .. v /\ Live(p, k)
      BY <1>3, <1>4, <2>2
    <3>2. /\ Linking(p, k) /\ Linking(p, k)' /\ BlockOf(p, k)' = BlockOf(p, k) /\ BlockOf(p, k) # b
          /\ elementsCompletelyDequeued[BlockOf(p, k)] = Cardinality(Past(p, k))
      BY <3>1, StoredOld
    <3>3. BlockOf(p, k) \in MemBlocks
      <4>1. k \in Nat /\ k <= Filled(p)
        BY <1>1, <3>1
      <4> QED
        BY <3>2, <4>1, BlockOfType
    <3>4. Past(p, k)' = Past(p, k)
      BY <1>2 DEF Past, Positions
    <3> QED
      BY <3>2, <3>3, <3>4
  <2> QED
    BY <2>1, <2>2
<1>5. LiveLinked(p)'
  BY <1>1, <1>4 DEF LiveLinked
<1> QED
  BY <1>3, <1>5

\* Its elements are where they were.
LEMMA StoredStay ==
  ASSUME BlockState, NEW CONSTANT p \in IProducers, NEW CONSTANT e, NEW CONSTANT b, NEW CONSTANT v, Stores(p, e, b, v),
         \A q \in IProducers : \A i \in 1 .. Len(entry[q]) : entry[q][i].value # b,
         SameHolders(p), elements' = elements
  PROVE  Stay(p)'
<1>1. Stay(p) /\ tailIndex'[p] = tailIndex[p]
  BY ProducerIs DEF Stores
<1>4. ASSUME NEW CONSTANT n \in 0 .. (tailIndex[p] - 1), Waits(p, n)'
      PROVE  /\ Waits(p, n)
             /\ elements'[BlockOf(p, n \div BLOCK_SIZE)'][n % BLOCK_SIZE] = elements[BlockOf(p, n \div BLOCK_SIZE)][n % BLOCK_SIZE]
  <2>1. n \in Nat /\ n < tailIndex[p] /\ n \in Int
    BY ProducerIs
  <2>2. Waits(p, n) /\ Open(p, n)
    <3>1. Waits(p, n)
      BY <1>4, HoldFrame
    <3> QED
      BY <3>1 DEF Waits, Open, ToMove, IHeld
  <2>3. PICK k : k = n \div BLOCK_SIZE
    OBVIOUS
  <2>4. k \in 0 .. Filled(p) /\ Live(p, k)
    BY <2>1, <2>2, <2>3, OpenLives
  <2>5. BlockOf(p, k)' = BlockOf(p, k)
    <3>1. k \in 0 .. v
      BY <2>4 DEF Stores
    <3> QED
      BY <2>4, <3>1, StoredOld
  <2>6. BlockOf(p, n \div BLOCK_SIZE)' = BlockOf(p, k)'
    BY <2>3 DEF BlockOf, EntryOf
  <2> QED
    BY <2>2, <2>3, <2>5, <2>6
<1>5. Stay(p)'
  BY <1>1, <1>4, StayKept
<1> QED
  BY <1>5

\* A consumer goes on finding its block.
LEMMA StoredSearch ==
  ASSUME BlockState, NEW CONSTANT p \in IProducers, NEW CONSTANT e, NEW CONSTANT b, NEW CONSTANT v, Stores(p, e, b, v),
         headIndex' = headIndex, \A k : k # v + 1 /\ Live(p, k)' => k \in 0 .. v /\ Live(p, k),
         NEW CONSTANT d \in IConsumers, loc[d].ptr = p, ipc'[d] = ipc[d], loc'[d] = loc[d]
  PROVE  Searches(d)'
<1>1. Searches(d) /\ header'[p] = header[p] /\ Filled(p) = v /\ Filled(p)' = v + 1 /\ v \in Int
  BY ConsumerIs, StoredNumbers DEF Stores
<1>2. /\ \A k : EntryOf(p, k)' = EntryOf(p, k)
      /\ \A k, h, a : Finds(p, k, h, a) => Finds(p, k, h, a)'
  BY StoredIndex
<1>3. headIndex[p] \in Nat /\ loc[d].x \in Nat
  BY ProducerIs, ConsumerIs DEF Locals
<1>4. PICK k, h, t, a : k = loc[d].x \div BLOCK_SIZE /\ h = header[p][loc[d].h] /\ t = header[p][loc[d].h].tail /\ a = loc[d].e
  OBVIOUS
<1>5. ipc[d] = "looktail" => Finds(p, k, h, t)'
  BY <1>1, <1>2, <1>4 DEF Searches
<1>6. ipc[d] = "lookkey" => Finds(p, k, h, a)'
  BY <1>1, <1>2, <1>4 DEF Searches
<1>7. ipc[d] = "looktail" => Finds(p, loc[d].x \div BLOCK_SIZE, header[p][loc[d].h], header[p][loc[d].h].tail)'
  BY <1>1, <1>4, <1>5
<1>8. ipc[d] = "lookkey" => Finds(p, loc[d].x \div BLOCK_SIZE, header[p][loc[d].h], loc[d].e)'
  BY <1>1, <1>4, <1>6
<1>9. EntryOf(p, loc[d].x \div BLOCK_SIZE)' = EntryOf(p, loc[d].x \div BLOCK_SIZE)
  <2>1. EntryOf(p, loc[d].x \div BLOCK_SIZE)' = EntryOf(p, k)'
    BY <1>4
  <2> QED
    BY <1>2, <1>4, <2>1
<1>10. /\ e \in 1 .. Len(entry[p]) /\ Len(entry'[p]) = Len(entry[p])
       /\ \A i \in 1 .. Len(entry[p]) : i # e => entry'[p][i] = entry[p][i]
  BY DEF Stores, Links
<1>11. ipc[d] \in {"move", "setempty", "unlink"} =>
         a # e /\ a \in 1 .. Len(entry'[p]) /\ entry'[p][a].value = entry[p][a].value
  <2>1. SUFFICES ASSUME ipc[d] \in {"move", "setempty", "unlink"}
                 PROVE  a # e /\ a \in 1 .. Len(entry'[p]) /\ entry'[p][a].value = entry[p][a].value
    OBVIOUS
  <2>2. a \in 1 .. Len(entry[p]) /\ entry[p][a].value # None
    BY <1>1, <1>4, <2>1 DEF Searches
  <2>3. entry[p][e].value = None
    BY StoredNumbers
  <2> QED
    BY <1>10, <2>2, <2>3
<1>12. ipc[d] = "unlink" => \A m \in 0 .. Filled(p)' : Live(p, m)' => EntryOf(p, m)' # a
  <2>1. SUFFICES ASSUME ipc[d] = "unlink", NEW CONSTANT m \in 0 .. Filled(p)', Live(p, m)' PROVE EntryOf(p, m) # a
    BY <1>2
  <2>2. CASE m = v + 1
    <3>1. EntryOf(p, m) = e
      BY <2>2, StoredNumbers
    <3> QED
      BY <1>11, <2>1, <3>1
  <2>3. CASE m # v + 1
    <3>1. m \in 0 .. Filled(p) /\ Live(p, m)
      BY <1>1, <2>1, <2>3
    <3> QED
      BY <1>1, <1>4, <2>1, <3>1 DEF Searches
  <2> QED
    BY <2>2, <2>3
<1>13. ipc[d] = "unlink" => \A m \in 0 .. Filled(p)' : Live(p, m)' => EntryOf(p, m)' # loc[d].e
  BY <1>4, <1>12
<1>14. ipc[d] \in {"move", "setempty", "unlink"} =>
         (loc[d].e \in 1 .. Len(entry[p]) => loc[d].e \in 1 .. Len(entry'[p]) /\ entry'[p][loc[d].e].value = entry[p][loc[d].e].value)
  BY <1>4, <1>11
<1>15. headIndex'[p] >= headIndex[p] /\ headIndex'[p] \in Nat
  BY <1>3
<1>16. ipc[d] \in {"looktail", "lookkey"} => (loc[d].h \in 1 .. Len(header[p]) => loc[d].h \in 1 .. Len(header'[p]))
  BY <1>1
<1> QED
  BY <1>1, <1>3, <1>7, <1>8, <1>9, <1>13, <1>14, <1>15, <1>16, SearchKept

\* The blocks of the other producers.
LEMMA StoredOthers ==
  ASSUME BlockState, NEW CONSTANT q \in IProducers, KeepsBlocks(q), elements' = elements, tailIndex'[q] = tailIndex[q],
         NEW CONSTANT b, \A i \in 1 .. Len(entry[q]) : entry[q][i].value # b,
         \A a \in MemBlocks : a # b => elementsCompletelyDequeued'[a] = elementsCompletelyDequeued[a]
  PROVE  LiveLinked(q)' /\ Stay(q)' /\ \A k : Live(q, k)' <=> Live(q, k)
<1>1. ASSUME NEW CONSTANT k \in 0 .. Filled(q), Live(q, k)
      PROVE  elementsCompletelyDequeued'[BlockOf(q, k)] = elementsCompletelyDequeued[BlockOf(q, k)]
  <2>1. Linking(q, k) /\ k \in Nat /\ k <= Filled(q)
    <3>1. Filled(q) \in Int
      BY NumbersAre DEF BlockState
    <3> QED
      BY <1>1, <3>1, ProducerIs DEF LiveLinked
  <2>2. BlockOf(q, k) \in MemBlocks /\ EntryOf(q, k) \in 1 .. Len(entry[q]) /\ BlockOf(q, k) = entry[q][EntryOf(q, k)].value
    BY <2>1, BlockOfType
  <2> QED
    BY <2>2
<1> QED
  BY <1>1, KeptCounts

LEMMA StoreGoes ==
  ASSUME CountTypes, ThreadTypes, load' = load, NEW CONSTANT p \in IProducers, p \in IThreads, p \notin IConsumers,
         IGo(p, "publish"), loc' = Set(loc, p, NoCall)
  PROVE  Goes(p, "publish", NoCall)
<1>1. "publish" \in PushLabels
  BY DEF PushLabels
<1> QED
  BY <1>1, NoCallIs DEF Goes, IGo, Set

\* Everything that the step leaves and changes.
LEMMA StoreValueIs ==
  ASSUME BlockState, CountInv, load' = load, NEW CONSTANT p \in IProducers, StoreValue(p)
  PROVE  \E e, b, v :
           /\ Stores(p, e, b, v) /\ b \in MemBlocks /\ b = loc[p].b /\ BlockTypes' /\ OthersIndex(p) /\ Goes(p, "publish", NoCall)
           /\ \A q \in IProducers : \A i \in 1 .. Len(entry[q]) : entry[q][i].value # b
           /\ elementsCompletelyDequeued' = Set(elementsCompletelyDequeued, b, 0) /\ elements' = elements /\ Homes'
           /\ UNCHANGED counters
<1>1. /\ ipc[p] = "value" /\ IGo(p, "publish") /\ loc' = Set(loc, p, NoCall) /\ header' = header
      /\ elementsCompletelyDequeued' = Set(elementsCompletelyDequeued, loc[p].b, 0)
      /\ SetsValue(p, loc[p].e, loc[p].b) /\ tailBlock' = Set(tailBlock, p, loc[p].b)
      /\ elements' = elements /\ UNCHANGED counters /\ UNCHANGED pool
  BY DEF StoreValue, SetsValue
<1>2. /\ p \in IThreads /\ p \notin IConsumers /\ CountTypes /\ BlockTypes /\ ThreadTypes
      /\ RingTypes(p) /\ Inserts(p)
  BY ProducerIs DEF BlockState
<1>3. PICK e, b, v : e = loc[p].e /\ b = loc[p].b /\ v = Filled(p)
  OBVIOUS
<1>4. Goes(p, "publish", NoCall)
  BY <1>1, <1>2, StoreGoes
<1>5. Apart(p) /\ ipc'[p] = "publish" /\ IProducers' = IProducers
  BY <1>2, <1>4, Gone
<1>6. b \in MemBlocks /\ b # None
  <2>1. b \in InUse
    BY <1>1, <1>2, <1>3 DEF BlockState, BlockInv, Homes, HandsHold, InHand
  <2> QED
    BY <1>2, <2>1, InUseAre
<1>7. e \in 1 .. Len(entry[p])
  <2>1. PICK n, t, s : RingIs(p, n, t, s)
    BY <1>2, RingOf
  <2>2. e = BlockIndex(p).slot[BlockIndex(p).tail]
    BY <1>1, <1>2, <1>3 DEF Inserts, Getting
  <2> QED
    BY <2>1, <2>2 DEF RingIs
<1>8. /\ entry' \in [IProducers -> Seq(Entries)] /\ \A q \in IProducers : q # p => entry'[q] = entry[q]
      /\ Len(entry'[p]) = Len(entry[p])
      /\ \A i \in 1 .. Len(entry[p]) : entry'[p][i].key = entry[p][i].key /\ (i # e => entry'[p][i] = entry[p][i])
      /\ entry'[p][e].value = b
  <2>1. SetsValue(p, e, b) /\ BlockTypes /\ b \in MemBlocks \cup {None}
    BY <1>1, <1>2, <1>3, <1>6
  <2> QED
    BY <1>7, <2>1, ValueSet, ZenonT(60)
<1>9. Links(p, e, b)
  BY <1>7, <1>8 DEF Links
<1>10. Homes' /\ \A q \in IProducers : \A i \in 1 .. Len(entry[q]) : entry[q][i].value # b
  BY <1>1, <1>3, <1>5, <1>9, StoredHomes
<1>11. tailIndex' = tailIndex /\ headIndex' = headIndex
  BY <1>1 DEF counters
<1>12. tailBlock'[p] = b /\ \A q \in IProducers : q # p => tailBlock'[q] = tailBlock[q]
  BY <1>1, <1>2, <1>3 DEF BlockTypes, Set
<1>13. Stores(p, e, b, v)
  BY <1>1, <1>3, <1>5, <1>6, <1>9, <1>11, <1>12 DEF Stores
<1>14. BlockTypes'
  <2>1. tailBlock' \in [IProducers -> MemBlocks \cup {None}]
    BY <1>1, <1>2, <1>3, <1>6 DEF BlockTypes, Set
  <2>2. elementsCompletelyDequeued' \in [MemBlocks -> Nat]
    BY <1>1, <1>2, <1>3, <1>6 DEF BlockTypes, Set
  <2>3. header' \in [IProducers -> Seq(Headers)]
    BY <1>1, <1>2 DEF BlockTypes
  <2> QED
    BY <1>1, <1>2, <1>8, <2>1, <2>2, <2>3, IndexTypesNext
<1>15. OthersIndex(p)
  BY <1>1, <1>8, <1>11, <1>12 DEF OthersIndex
<1>16. elementsCompletelyDequeued' = Set(elementsCompletelyDequeued, b, 0)
  BY <1>1, <1>3
<1>17. /\ Stores(p, e, b, v) /\ b \in MemBlocks /\ b = loc[p].b /\ BlockTypes' /\ OthersIndex(p) /\ Goes(p, "publish", NoCall)
       /\ \A q \in IProducers : \A i \in 1 .. Len(entry[q]) : entry[q][i].value # b
       /\ elementsCompletelyDequeued' = Set(elementsCompletelyDequeued, b, 0) /\ elements' = elements /\ Homes'
       /\ UNCHANGED counters
  BY <1>1, <1>3, <1>4, <1>6, <1>10, <1>13, <1>14, <1>15, <1>16
<1> QED
  BY <1>17

\* The block is the producer's own until its entry points to it.
LEMMA StoreValueKeeps ==
  ASSUME BlockState, CountInv, load' = load, NEW CONSTANT p \in IProducers, StoreValue(p)
  PROVE  CountTypes' /\ CountInv' /\ BlockInv' /\ BlockTypes' /\ ThreadTypes'
<1>1. PICK e, b, v :
        /\ Stores(p, e, b, v) /\ b \in MemBlocks /\ b = loc[p].b /\ BlockTypes' /\ OthersIndex(p) /\ Goes(p, "publish", NoCall)
        /\ \A q \in IProducers : \A i \in 1 .. Len(entry[q]) : entry[q][i].value # b
        /\ elementsCompletelyDequeued' = Set(elementsCompletelyDequeued, b, 0) /\ elements' = elements /\ Homes'
        /\ UNCHANGED counters
  BY StoreValueIs
<1>2. /\ p \in IThreads /\ p \notin IConsumers /\ CountTypes /\ BlockTypes /\ ThreadTypes
  BY ProducerIs DEF BlockState
<1>3. tailIndex' = tailIndex /\ headIndex' = headIndex
  BY <1>1 DEF counters
<1>4. /\ ThreadTypes' /\ IProducers' = IProducers
      /\ \A q \in IProducers : SameHolders(q) /\ OneHolder(q)'
      /\ \A q \in IProducers : q # p => KeepsBlocks(q) /\ Indexed(q)'
      /\ \A d \in IConsumers : ipc'[d] = ipc[d] /\ loc'[d] = loc[d]
  BY <1>1, <1>3, ProducerFrame
<1>5. /\ elementsCompletelyDequeued'[b] = 0
      /\ \A a \in MemBlocks : a # b => elementsCompletelyDequeued'[a] = elementsCompletelyDequeued[a]
  BY <1>1, <1>2 DEF BlockTypes, Set
<1>6. LiveLinked(p)' /\ \A k : k # v + 1 /\ Live(p, k)' => k \in 0 .. v /\ Live(p, k)
  BY <1>1, <1>3, <1>4, <1>5, StoredLinked
<1>7. Stay(p)' /\ Indexed(p)'
  BY <1>1, <1>4, StoredStay, StoredIndex
<1>8. ASSUME NEW CONSTANT q \in IProducers, q # p
      PROVE  KeepsBlocks(q) /\ KeepsHeaders(q) /\ LiveLinked(q)' /\ Stay(q)' /\ \A k : Live(q, k)' <=> Live(q, k)
  <2>1. KeepsBlocks(q) /\ tailIndex'[q] = tailIndex[q] /\ header'[q] = header[q]
    BY <1>1, <1>4, <1>8 DEF OthersIndex
  <2>2. KeepsHeaders(q)
    BY <1>2, <2>1, HeadersSame
  <2>3. \A i \in 1 .. Len(entry[q]) : entry[q][i].value # b
    BY <1>1
  <2>4. LiveLinked(q)' /\ Stay(q)' /\ \A k : Live(q, k)' <=> Live(q, k)
    BY <1>1, <1>5, <2>1, <2>3, StoredOthers
  <2> QED
    BY <2>1, <2>2, <2>4
<1>9. ASSUME NEW CONSTANT d \in IConsumers PROVE Searches(d)'
  <2>1. PICK q : q = loc[d].ptr
    OBVIOUS
  <2>2. ipc'[d] = ipc[d] /\ loc'[d] = loc[d]
    BY <1>4
  <2>3. CASE q = p
    BY <1>1, <1>3, <1>6, <2>1, <2>2, <2>3, StoredSearch
  <2>4. CASE q # p
    <3>1. q \in IProducers => KeepsBlocks(q) /\ KeepsHeaders(q) /\ (\A k : Live(q, k)' <=> Live(q, k))
      BY <1>8, <2>4
    <3>2. ASSUME q \in IProducers, ipc[d] \in {"move", "setempty", "unlink"}
          PROVE  loc[d].e \in 1 .. Len(entry'[q]) /\ entry'[q][loc[d].e].value = entry[q][loc[d].e].value
      <4>1. loc[d].e \in 1 .. Len(entry[q])
        BY <2>1, <3>2, ConsumerIs DEF Searches
      <4>2. entry'[q] = entry[q]
        BY <1>1, <2>4, <3>2 DEF OthersIndex
      <4> QED
        BY <4>1, <4>2
    <3> QED
      BY <1>3, <2>1, <2>2, <3>1, <3>2, KeptSearch
  <2> QED
    BY <2>3, <2>4
<1>10. CountsInBlock'
  <2>1. ASSUME NEW a \in MemBlocks PROVE elementsCompletelyDequeued'[a] <= BLOCK_SIZE
    <3>1. CASE a = b
      BY <1>5, <3>1, BlockSizeIs
    <3>2. CASE a # b
      BY <1>5, <3>2 DEF BlockState, BlockInv, CountsInBlock
    <3> QED
      BY <3>1, <3>2
  <2> QED
    BY <2>1 DEF CountsInBlock, MemBlocks
<1>11. \A q \in IProducers' : Indexed(q)' /\ LiveLinked(q)' /\ Stay(q)' /\ OneHolder(q)'
  <2>1. ASSUME NEW CONSTANT q \in IProducers PROVE Indexed(q)' /\ LiveLinked(q)' /\ Stay(q)' /\ OneHolder(q)'
    <3>1. CASE q = p
      BY <1>4, <1>6, <1>7, <3>1
    <3>2. CASE q # p
      BY <1>4, <1>8, <3>2
    <3> QED
      BY <3>1, <3>2
  <2> QED
    BY <1>4, <2>1
<1>12. BlockInv'
  BY <1>1, <1>9, <1>10, <1>11, BlockInvNext
<1>13. CountTypes' /\ CountInv'
  BY <1>1, <1>2, CountsUntouched
<1> QED
  BY <1>1, <1>4, <1>12, <1>13

\* The element at place x of p is stored in block b, and the tail behind it.
Publishes(p, x, b) ==
  /\ ipc[p] = "publish" /\ x = tailIndex[p] /\ b = tailBlock[p]
  /\ elements' = [elements EXCEPT ![b][x % BLOCK_SIZE] = <<p, x>>]
  /\ tailIndex' = [tailIndex EXCEPT ![p] = @ + 1]
  /\ UNCHANGED <<headIndex, dequeueOptimisticCount, dequeueOvercommit, tailBlock, elementsCompletelyDequeued>>
  /\ UNCHANGED index /\ UNCHANGED pool

LEMMA PublishGoes ==
  ASSUME BlockState, load' = load, NEW CONSTANT p \in IProducers, Publish(p)
  PROVE  Publishes(p, tailIndex[p], tailBlock[p]) /\ Goes(p, "idle", loc[p])
<1>1. CountTypes /\ ThreadTypes /\ p \in IThreads /\ p \notin IConsumers
  BY ProducerIs DEF BlockState
<1>2. "idle" \in PushLabels
  BY DEF PushLabels
<1>3. IGo(p, "idle") /\ loc' = loc
  BY DEF Publish
<1>4. Goes(p, "idle", loc[p])
  BY <1>1, <1>2, <1>3, StaysGoes
<1> QED
  BY <1>4 DEF Publish, Publishes

LEMMA PublishCounts ==
  ASSUME BlockState, CountInv, NEW CONSTANT p \in IProducers, NEW CONSTANT x, NEW CONSTANT b, Publishes(p, x, b), Goes(p, "idle", loc[p])
  PROVE  /\ CountTypes' /\ CountInv' /\ x \in Nat /\ tailIndex'[p] = x + 1
         /\ \A q \in IProducers : q # p => tailIndex'[q] = tailIndex[q]
<1>1. CountTypes /\ ThreadTypes /\ p \in IThreads /\ p \notin IConsumers /\ IProducers' = IProducers /\ load' = load
  BY ProducerIs, Gone DEF BlockState, Goes
<1>2. /\ tailIndex' \in [IProducers -> Nat] /\ tailIndex'[p] = tailIndex[p] + 1 /\ \A q \in IProducers : q # p => tailIndex'[q] = tailIndex[q]
  BY <1>1, CountChanged DEF Publishes, CountTypes, Counts
<1>3. CountTypes'
  BY <1>1, <1>2 DEF CountTypes, Counts, Publishes
<1>4. x \in Nat /\ tailIndex'[p] = x + 1
  BY <1>1, <1>2 DEF Publishes, CountTypes, Counts
<1>5. ASSUME NEW CONSTANT q \in IProducers PROVE CountsOf(q)'
  <2>1. CountsOf(q)
    BY CountInvIs
  <2>2. tailIndex'[q] >= tailIndex[q]
    <3>1. tailIndex[q] \in Nat /\ tailIndex[p] \in Nat
      BY <1>1 DEF CountTypes, Counts
    <3>2. CASE q = p
      BY <1>2, <3>1, <3>2
    <3>3. CASE q # p
      BY <1>2, <3>1, <3>3
    <3> QED
      BY <3>2, <3>3
  <2>3. SameCounts(q)
    BY <2>2 DEF SameCounts, Publishes
  <2> QED
    BY <1>1, <1>3, <2>1, <2>3, CountsElsewhere
<1>6. CountInv'
  BY <1>1, <1>5, CountInvNext
<1> QED
  BY <1>2, <1>3, <1>4, <1>6

\* The block it is in, and the cell that is written.
LEMMA PublishCell ==
  ASSUME BlockState, NEW CONSTANT p \in IProducers, NEW CONSTANT x, NEW CONSTANT b, Publishes(p, x, b), tailIndex'[p] = x + 1, ipc'[p] = "idle"
  PROVE  \E v \in Nat, i \in 0 .. (BLOCK_SIZE - 1) :
           /\ v = Filled(p) /\ v = Filled(p)' /\ Top(p) = v /\ Top(p)' = v /\ v = x \div BLOCK_SIZE /\ i = x % BLOCK_SIZE
           /\ x = v * BLOCK_SIZE + i /\ Live(p, v) /\ Linking(p, v) /\ b = BlockOf(p, v) /\ b \in MemBlocks
           /\ elements'[b][i] = <<p, x>> /\ elements' \in [MemBlocks -> [0 .. (BLOCK_SIZE - 1) -> (Nat \X Nat) \cup {None}]]
           /\ \A a \in MemBlocks : \A j : (a # b \/ j # i) => elements'[a][j] = elements[a][j]
<1>1. CountTypes /\ BlockTypes /\ Inserts(p) /\ x = tailIndex[p] /\ x \in Nat /\ p \in Nat /\ ipc[p] = "publish" /\ Filling(p)
  BY ProducerIs DEF BlockState, Publishes, Filling
<1>2. Filled(p) \in Nat /\ Live(p, Filled(p)) /\ Linking(p, Filled(p)) /\ Filled(p) = x \div BLOCK_SIZE
  BY <1>1, FilledLives
<1>3. PICK v \in Nat : v = Filled(p) /\ Live(p, v) /\ Linking(p, v) /\ v = x \div BLOCK_SIZE
  BY <1>2
<1>4. PICK i \in 0 .. (BLOCK_SIZE - 1) : i = x % BLOCK_SIZE /\ x = v * BLOCK_SIZE + i
  <2>1. x \in Int
    BY <1>1
  <2> QED
    BY <1>3, <2>1, BlockDivision
<1>5. Filled(p)' = v
  <2>1. Filled(p)' = (tailIndex'[p] - 1) \div BLOCK_SIZE
    BY DEF Filled
  <2>2. tailIndex'[p] - 1 = x
    BY <1>1
  <2> QED
    BY <1>3, <2>1, <2>2
<1>6. Top(p) = v /\ Top(p)' = v
  <2>1. Top(p) = v + 0 /\ Top(p)' = v + 0
    BY <1>1, <1>3, <1>5 DEF Top, Getting
  <2> QED
    BY <2>1
<1>7. b = BlockOf(p, v)
  BY <1>1, <1>3 DEF Inserts, Publishes, BlockOf
<1>8. b \in MemBlocks
  <2>1. v <= Filled(p)
    BY <1>3
  <2> QED
    BY <1>3, <1>7, <2>1, BlockOfType
<1>9. elements' = [elements EXCEPT ![b] = [elements[b] EXCEPT ![i] = <<p, x>>]]
  BY <1>4 DEF Publishes
<1>10. elements \in [MemBlocks -> [0 .. (BLOCK_SIZE - 1) -> (Nat \X Nat) \cup {None}]]
  BY <1>1 DEF BlockTypes
<1>11. PICK y \in (Nat \X Nat) \cup {None} : y = <<p, x>>
  <2>1. <<p, x>> \in (Nat \X Nat) \cup {None}
    BY <1>1
  <2> QED
    BY <2>1
<1>12. /\ [elements[b] EXCEPT ![i] = y] \in [0 .. (BLOCK_SIZE - 1) -> (Nat \X Nat) \cup {None}]
       /\ \A j : j # i => [elements[b] EXCEPT ![i] = y][j] = elements[b][j]
       /\ [elements[b] EXCEPT ![i] = y][i] = y
  <2>1. PICK g \in [0 .. (BLOCK_SIZE - 1) -> (Nat \X Nat) \cup {None}] : g = elements[b]
    BY <1>8, <1>10
  <2>2. [g EXCEPT ![i] = y] \in [0 .. (BLOCK_SIZE - 1) -> (Nat \X Nat) \cup {None}]
    OBVIOUS
  <2>3. \A j : j # i => [g EXCEPT ![i] = y][j] = g[j]
    OBVIOUS
  <2>4. [g EXCEPT ![i] = y][i] = y
    OBVIOUS
  <2> QED
    BY <2>1, <2>2, <2>3, <2>4
<1>13. /\ elements'[b][i] = <<p, x>> /\ elements' \in [MemBlocks -> [0 .. (BLOCK_SIZE - 1) -> (Nat \X Nat) \cup {None}]]
       /\ \A a \in MemBlocks : \A j : (a # b \/ j # i) => elements'[a][j] = elements[a][j]
  BY <1>8, <1>9, <1>10, <1>11, <1>12
<1> QED
  BY <1>3, <1>4, <1>5, <1>6, <1>7, <1>8, <1>13

\* The index is as it was.
LEMMA PublishIndex ==
  ASSUME BlockState, NEW CONSTANT p \in IProducers, NEW CONSTANT x, NEW CONSTANT b, Publishes(p, x, b), tailIndex'[p] = x + 1,
         ipc'[p] = "idle", SameHolders(p)
  PROVE  KeepsBlocks(p) /\ KeepsHeaders(p) /\ Indexed(p)' /\ \A k : BlockOf(p, k)' = BlockOf(p, k)
<1>1. /\ CountTypes /\ BlockTypes /\ RingTypes(p) /\ RingKeys(p) /\ Keyed(p) /\ Inserts(p) /\ LiveLinked(p)
      /\ header' = header /\ entry' = entry /\ tailBlock' = tailBlock /\ ipc[p] = "publish"
  BY ProducerIs DEF BlockState, Publishes, index
<1>2. PICK v \in Nat : v = Filled(p) /\ v = Filled(p)' /\ Top(p) = v /\ Top(p)' = v
  BY PublishCell
<1>3. SameRing(p)
  BY <1>1 DEF SameRing
<1>4. /\ \A k : EntryOf(p, k)' = EntryOf(p, k)
      /\ RingTypes(p)'
      /\ RingKeys(p) /\ (Rewound(p) => Rewound(p)') => RingKeys(p)'
      /\ \A k, h, e : Finds(p, k, h, e) => Finds(p, k, h, e)'
  BY <1>1, <1>2, <1>3, RingFrame
<1>5. RingKeys(p)'
  BY <1>1, <1>4 DEF Rewound
<1>6. Keyed(p)'
  BY <1>1 DEF Keyed
<1>7. \A k : BlockOf(p, k)' = BlockOf(p, k)
  BY <1>1, <1>4 DEF BlockOf
<1>8. Inserts(p)'
  <2>1. tailBlock'[p] = BlockOf(p, Filled(p))
    BY <1>1 DEF Inserts, Filling, BlockOf
  <2>2. BlockOf(p, Filled(p))' = BlockOf(p, v)'
    BY <1>2 DEF BlockOf, EntryOf
  <2>3. BlockOf(p, Filled(p)) = BlockOf(p, v)
    BY <1>2
  <2>4. tailBlock'[p] = BlockOf(p, Filled(p))'
    BY <1>7, <2>1, <2>2, <2>3
  <2> QED
    BY <2>4 DEF Inserts, Getting, BlockOf
<1>9. ASSUME NEW CONSTANT k \in 0 .. Filled(p), Live(p, k) PROVE Linking(p, k)'
  <2>1. Linking(p, k)
    BY <1>1, <1>9 DEF LiveLinked
  <2> QED
    BY <1>1, <1>2, <1>4, <1>7, <2>1 DEF Linking
<1>10. KeepsBlocks(p)
  BY <1>2, <1>4, <1>7, <1>9, HoldFrame DEF KeepsBlocks
<1>11. KeepsHeaders(p)
  BY <1>1, <1>10, HeadersSame
<1> QED
  BY <1>4, <1>5, <1>6, <1>7, <1>8, <1>10, <1>11 DEF Indexed

\* No element that is still there is overwritten.
LEMMA PublishApart ==
  ASSUME BlockState, NEW CONSTANT p \in IProducers, NEW CONSTANT x, NEW CONSTANT b, Publishes(p, x, b), tailIndex'[p] = x + 1, ipc'[p] = "idle",
         NEW CONSTANT q \in IProducers, KeepsBlocks(q), NEW CONSTANT n \in Nat, n < tailIndex[q], Waits(q, n)'
  PROVE  elements'[BlockOf(q, n \div BLOCK_SIZE)'][n % BLOCK_SIZE] = <<q, n>>
<1>1. PICK v \in Nat, i \in 0 .. (BLOCK_SIZE - 1) :
           /\ v = Filled(p) /\ x = v * BLOCK_SIZE + i /\ Linking(p, v) /\ b = BlockOf(p, v) /\ b \in MemBlocks
           /\ \A a \in MemBlocks : \A j : (a # b \/ j # i) => elements'[a][j] = elements[a][j]
  BY PublishCell
<1>2. Stay(q) /\ LiveLinked(q) /\ x = tailIndex[p] /\ tailIndex[q] \in Nat
  BY ProducerIs DEF Publishes
<1>3. n \in Int /\ n \in 0 .. (tailIndex[q] - 1)
  BY <1>2
<1>4. Waits(q, n)
  BY <1>3 DEF KeepsBlocks
<1>5. Open(q, n)
  BY <1>4 DEF Waits, Open, ToMove, IHeld
<1>6. PICK m, j : m = n \div BLOCK_SIZE /\ j = n % BLOCK_SIZE /\ n = m * BLOCK_SIZE + j
  BY <1>3, BlockDivision
<1>7. m \in 0 .. Filled(q) /\ Live(q, m)
  BY <1>5, <1>6, OpenLives
<1>8. m \in Nat /\ m <= Filled(q) /\ Linking(q, m)
  BY <1>2, <1>7 DEF LiveLinked
<1>9. PICK a : a = BlockOf(q, m)
  OBVIOUS
<1>10. a \in MemBlocks
  BY <1>8, <1>9, BlockOfType
<1>11. a # b \/ j # i
  <2>1. SUFFICES ASSUME a = b, j = i PROVE FALSE
    OBVIOUS
  <2>2. p = q /\ v = m
    <3>1. v <= Filled(p)
      BY <1>1
    <3> QED
      BY <1>1, <1>8, <1>9, <2>1, <3>1, BlocksApart
  <2>3. n = x
    BY <1>1, <1>6, <2>1, <2>2
  <2> QED
    BY <1>2, <2>2, <2>3
<1>12. elements'[a][j] = elements[a][j]
  BY <1>1, <1>10, <1>11
<1>13. BlockOf(q, n \div BLOCK_SIZE)' = a
  <2>1. BlockOf(q, n \div BLOCK_SIZE)' = BlockOf(q, m)'
    BY <1>6 DEF BlockOf, EntryOf
  <2> QED
    BY <1>7, <1>9, <2>1 DEF KeepsBlocks
<1>14. elements[a][j] = <<q, n>>
  BY <1>2, <1>3, <1>4, <1>6, <1>9 DEF Stay
<1> QED
  BY <1>6, <1>12, <1>13, <1>14

\* The element is there once the tail is behind it.
LEMMA PublishKeeps ==
  ASSUME BlockState, CountInv, load' = load, NEW CONSTANT p \in IProducers, Publish(p)
  PROVE  CountTypes' /\ CountInv' /\ BlockInv' /\ BlockTypes' /\ ThreadTypes'
<1>1. PICK x, b : x = tailIndex[p] /\ b = tailBlock[p]
  OBVIOUS
<1>2. Publishes(p, x, b) /\ Goes(p, "idle", loc[p])
  BY <1>1, PublishGoes
<1>3. /\ CountTypes' /\ CountInv' /\ x \in Nat /\ tailIndex'[p] = x + 1
      /\ \A q \in IProducers : q # p => tailIndex'[q] = tailIndex[q]
  BY <1>2, PublishCounts
<1>4. /\ p \in IThreads /\ p \notin IConsumers /\ CountTypes /\ BlockTypes /\ ThreadTypes
      /\ headIndex' = headIndex /\ header' = header /\ entry' = entry /\ tailBlock' = tailBlock
      /\ UNCHANGED pool /\ elementsCompletelyDequeued' = elementsCompletelyDequeued
  BY <1>2, ProducerIs DEF BlockState, Publishes, index
<1>5. OthersIndex(p)
  BY <1>3, <1>4 DEF OthersIndex
<1>6. /\ Apart(p) /\ ipc'[p] = "idle" /\ loc'[p] = loc[p] /\ ThreadTypes' /\ IProducers' = IProducers
      /\ \A q \in IProducers : SameHolders(q) /\ OneHolder(q)'
      /\ \A q \in IProducers : q # p => KeepsBlocks(q) /\ Indexed(q)'
      /\ \A d \in IConsumers : ipc'[d] = ipc[d] /\ loc'[d] = loc[d]
  BY <1>2, <1>4, <1>5, ProducerFrame
<1>7. KeepsBlocks(p) /\ KeepsHeaders(p) /\ Indexed(p)' /\ \A k : BlockOf(p, k)' = BlockOf(p, k)
  BY <1>2, <1>3, <1>6, PublishIndex
<1>8. PICK v \in Nat, i \in 0 .. (BLOCK_SIZE - 1) :
           /\ v = x \div BLOCK_SIZE /\ i = x % BLOCK_SIZE /\ b = BlockOf(p, v)
           /\ elements'[b][i] = <<p, x>> /\ elements' \in [MemBlocks -> [0 .. (BLOCK_SIZE - 1) -> (Nat \X Nat) \cup {None}]]
  BY <1>2, <1>3, <1>6, PublishCell, ZenonT(60)
<1>9. ASSUME NEW CONSTANT q \in IProducers PROVE KeepsBlocks(q) /\ KeepsHeaders(q) /\ Indexed(q)'
  <2>1. CASE q = p
    BY <1>7, <2>1
  <2>2. CASE q # p
    <3>1. KeepsBlocks(q) /\ Indexed(q)' /\ header'[q] = header[q]
      BY <1>4, <1>6, <2>2
    <3> QED
      BY <1>4, <3>1, HeadersSame
  <2> QED
    BY <2>1, <2>2
<1>10. ASSUME NEW CONSTANT q \in IProducers PROVE LiveLinked(q)' /\ \A k : Live(q, k)' <=> Live(q, k)
  <2>1. KeepsBlocks(q) /\ LiveLinked(q)
    BY <1>9, ProducerIs
  <2> QED
    BY <1>4, <2>1, LiveLinkedKept DEF KeepsBlocks
<1>11. ASSUME NEW CONSTANT q \in IProducers PROVE Stay(q)'
  <2>1. ASSUME NEW CONSTANT n \in 0 .. (tailIndex'[q] - 1), Waits(q, n)'
        PROVE  elements'[BlockOf(q, n \div BLOCK_SIZE)'][n % BLOCK_SIZE] = <<q, n>>
    <3>1. n \in Nat /\ tailIndex[q] \in Nat
      <4>1. tailIndex'[q] \in Nat
        BY <1>3, <1>6 DEF CountTypes, Counts
      <4> QED
        BY <2>1, <4>1, ProducerIs
    <3>2. CASE n < tailIndex[q]
      BY <1>2, <1>3, <1>6, <1>9, <2>1, <3>1, <3>2, PublishApart
    <3>3. CASE ~(n < tailIndex[q])
      <4>1. q = p /\ n = x
        <5>1. q = p
          BY <1>3, <2>1, <3>1, <3>3
        <5> QED
          BY <1>1, <1>3, <2>1, <3>1, <3>3, <5>1
      <4>2. BlockOf(p, n \div BLOCK_SIZE)' = BlockOf(p, v)'
        BY <1>8, <4>1 DEF BlockOf, EntryOf
      <4>3. BlockOf(p, v)' = b
        BY <1>7, <1>8
      <4> QED
        BY <1>8, <4>1, <4>2, <4>3
    <3> QED
      BY <3>2, <3>3
  <2> QED
    BY <2>1 DEF Stay
<1>12. ASSUME NEW CONSTANT d \in IConsumers PROVE Searches(d)'
  <2>1. PICK q : q = loc[d].ptr
    OBVIOUS
  <2>2. q \in IProducers => KeepsBlocks(q) /\ KeepsHeaders(q) /\ (\A k : Live(q, k)' <=> Live(q, k))
    BY <1>9, <1>10
  <2>3. ASSUME q \in IProducers, ipc[d] \in {"move", "setempty", "unlink"}
        PROVE  loc[d].e \in 1 .. Len(entry'[q]) /\ entry'[q][loc[d].e].value = entry[q][loc[d].e].value
    BY <1>4, <2>1, <2>3, ConsumerIs DEF Searches
  <2>4. ipc'[d] = ipc[d] /\ loc'[d] = loc[d]
    BY <1>6
  <2> QED
    BY <1>4, <2>1, <2>2, <2>3, <2>4, KeptSearch
<1>13. CountsInBlock'
  BY <1>4 DEF CountsInBlock, BlockState, BlockInv
<1>14. load' = load
  BY <1>2 DEF Goes
<1>15. Homes'
  <2>1. UNCHANGED <<load, entry>> /\ ~InHand(p)'
    BY <1>4, <1>6, <1>14 DEF InHand
  <2> QED
    BY <1>4, <1>6, <2>1, HomesFrame
<1>16. \A q \in IProducers' : Indexed(q)' /\ LiveLinked(q)' /\ Stay(q)' /\ OneHolder(q)'
  BY <1>6, <1>9, <1>10, <1>11
<1>17. BlockInv'
  BY <1>12, <1>13, <1>15, <1>16, BlockInvNext
<1>18. BlockTypes'
  BY <1>4, <1>6, <1>8 DEF BlockTypes, pool
<1> QED
  BY <1>3, <1>6, <1>17, <1>18

\* Every step of a producer.
LEMMA ProducerStepKeeps ==
  ASSUME IQInv, load' = load, NEW CONSTANT p \in IProducers, Enqueue(p) \/ EnqueueStep(p)
  PROVE  IQInv'
<1>1. BlockState /\ CountInv
  BY BlockStateIs
<1>2. CASE Enqueue(p)
  BY <1>1, <1>2, EnqueueKeeps DEF IQInv, IQTypes
<1>3. CASE InsertKey(p)
  BY <1>1, <1>3, InsertKeyKeeps DEF IQInv, IQTypes
<1>4. CASE InsertTail(p)
  BY <1>1, <1>4, InsertTailKeeps DEF IQInv, IQTypes
<1>5. CASE NewBlockIndex(p)
  BY <1>1, <1>5, NewBlockIndexKeeps DEF IQInv, IQTypes
<1>6. CASE InsertFails(p)
  BY <1>1, <1>6, InsertFailsKeeps DEF IQInv, IQTypes
<1>7. CASE PoolLoad(p)
  BY <1>1, <1>7, PoolLoadKeeps DEF IQInv, IQTypes
<1>8. CASE PoolTake(p)
  BY <1>1, <1>8, PoolTakeKeeps DEF IQInv, IQTypes
<1>9. CASE FreeListGet(p)
  BY <1>1, <1>9, FreeListGetKeeps DEF IQInv, IQTypes
<1>10. CASE Create(p)
  BY <1>1, <1>10, CreateKeeps DEF IQInv, IQTypes
<1>11. CASE NoBlock(p)
  BY <1>1, <1>11, NoBlockKeeps DEF IQInv, IQTypes
<1>12. CASE StoreValue(p)
  BY <1>1, <1>12, StoreValueKeeps DEF IQInv, IQTypes
<1>13. CASE Publish(p)
  BY <1>1, <1>13, PublishKeeps DEF IQInv, IQTypes
<1> QED
  BY <1>2, <1>3, <1>4, <1>5, <1>6, <1>7, <1>8, <1>9, <1>10, <1>11, <1>12, <1>13 DEF EnqueueStep

\* And every step of a consumer.
LEMMA ConsumerStepKeeps ==
  ASSUME IQInv, load' = load, NEW CONSTANT c \in load.consumers, TryDequeue(c) \/ DequeueStep(c)
  PROVE  IQInv'
<1>1. c \in IConsumers
  <2>1. load \in Loads
    BY DEF IQInv, IQTypes, CountTypes
  <2> QED
    BY <2>1, ThreadsAre
<1>2. Looks(c) \/ TakeHead(c) \/ HoldSteps(c)
  BY DEF DequeueStep, Looks, HoldSteps
<1> QED
  BY <1>1, <1>2, LooksKeeps, HoldStepKeeps

LEMMA StepKeeps ==
  ASSUME IQInv, IQNext
  PROVE  IQInv'
<1>1. load' = load
  BY DEF IQNext
<1>2. CASE \E p \in IProducers : Enqueue(p) \/ EnqueueStep(p)
  BY <1>1, <1>2, ProducerStepKeeps
<1>3. CASE \E c \in load.consumers : TryDequeue(c) \/ DequeueStep(c)
  BY <1>1, <1>3, ConsumerStepKeeps
<1> QED
  BY <1>2, <1>3 DEF IQNext

LEMMA StutterKeeps ==
  ASSUME IQInv, UNCHANGED iqvars
  PROVE  IQInv'
<1>1. CountTypes' /\ BlockTypes' /\ ThreadTypes'
  <2>1. IProducers' = IProducers /\ IThreads' = IThreads
    BY DEF IProducers, IThreads, NProducers, iqvars
  <2>2. CountTypes'
    BY <2>1 DEF IQInv, IQTypes, CountTypes, Counts, iqvars
  <2>3. BlockTypes'
    BY <2>1 DEF IQInv, IQTypes, BlockTypes, iqvars
  <2>4. ThreadTypes'
    BY <2>1 DEF IQInv, IQTypes, ThreadTypes, iqvars
  <2> QED
    BY <2>2, <2>3, <2>4
<1>2. SameThreads
  BY DEF SameThreads, IProducers, IThreads, NProducers, iqvars
<1>3. BlockState /\ CountInv /\ CountTypes /\ BlockTypes
  BY BlockStateIs DEF BlockState
<1>4. CountInv'
  <2>1. ASSUME NEW CONSTANT p \in IProducers PROVE CountsOf(p)'
    <3>1. CountsOf(p)
      BY <1>3, CountInvIs
    <3>2. SameCalls(p)
      BY DEF SameCalls, At, iqvars
    <3>3. headIndex'[p] = headIndex[p] /\ dequeueOptimisticCount'[p] = dequeueOptimisticCount[p]
          /\ dequeueOvercommit'[p] = dequeueOvercommit[p] /\ tailIndex'[p] = tailIndex[p]
      BY DEF iqvars
    <3>4. tailIndex'[p] >= tailIndex[p]
      BY <1>3, <3>3 DEF CountTypes, Counts
    <3>5. \A c \in At("check", p)' \cup At("claim", p)' : loc'[c].over <= dequeueOvercommit[p]
      BY <3>1 DEF CountsOf, At, iqvars
    <3> QED
      BY <1>1, <1>2, <1>3, <3>1, <3>2, <3>3, <3>4, <3>5, CountsStay
  <2> QED
    BY <1>2, <2>1, CountInvNext DEF SameThreads
<1>5. BlockInv'
  <2>1. \A t \in IThreads : ipc'[t] = ipc[t] /\ loc'[t] = loc[t]
    BY DEF iqvars
  <2>2. PICK p \in IProducers : p \in IThreads
    BY <1>3, ThreadsAre DEF IThreads, CountTypes
  <2>3. ipc' = ipc /\ loc' = loc
    BY DEF iqvars
  <2>4. ASSUME NEW CONSTANT q \in IProducers
        PROVE  /\ KeepsBlocks(q) /\ KeepsHeaders(q) /\ Indexed(q)' /\ OneHolder(q)'
               /\ LiveLinked(q)' /\ Stay(q)' /\ \A k : Live(q, k)' <=> Live(q, k)
    <3>1. SameIndex(q) /\ SameHolders(q)
      BY DEF SameIndex, SameHolders, IHolders, iqvars
    <3>2. KeepsBlocks(q) /\ Indexed(q)' /\ OneHolder(q)'
      BY <1>3, <3>1, KeepsSame
    <3>3. KeepsHeaders(q)
      BY <1>3, <3>1, <3>2, HeadersSame DEF SameIndex
    <3>4. UNCHANGED blocks /\ tailIndex'[q] = tailIndex[q]
      BY DEF iqvars, blocks
    <3> QED
      BY <1>3, <3>2, <3>3, <3>4, KeptElements
  <2>5. ASSUME NEW CONSTANT d \in IConsumers PROVE Searches(d)'
    <3>1. PICK q : q = loc[d].ptr
      OBVIOUS
    <3>2. q \in IProducers => KeepsBlocks(q) /\ KeepsHeaders(q) /\ (\A k : Live(q, k)' <=> Live(q, k))
      BY <2>4
    <3>3. headIndex' = headIndex /\ entry' = entry
      BY DEF iqvars
    <3>4. ASSUME q \in IProducers, ipc[d] \in {"move", "setempty", "unlink"}
          PROVE  loc[d].e \in 1 .. Len(entry'[q]) /\ entry'[q][loc[d].e].value = entry[q][loc[d].e].value
      BY <1>3, <3>1, <3>3, <3>4, ConsumerIs DEF Searches
    <3>5. ipc'[d] = ipc[d] /\ loc'[d] = loc[d]
      BY <2>3
    <3> QED
      BY <1>3, <3>1, <3>2, <3>3, <3>4, <3>5, KeptSearch
  <2>6. CountsInBlock'
    BY <1>3 DEF CountsInBlock, BlockState, BlockInv, iqvars
  <2>7. Homes'
    <3>1. Apart(p) /\ UNCHANGED <<load, entry>> /\ UNCHANGED pool
      BY DEF Apart, iqvars, pool
    <3>2. InHand(p)' => InHand(p) /\ loc'[p].b = loc[p].b
      BY <2>3 DEF InHand
    <3>3. p \in IConsumers /\ ipc'[p] = "unlink" => ipc[p] = "unlink" /\ loc'[p].b = loc[p].b
      BY <2>3
    <3> QED
      BY <1>3, <2>2, <3>1, <3>2, <3>3, HomesFrame
  <2>8. \A q \in IProducers' : Indexed(q)' /\ LiveLinked(q)' /\ Stay(q)' /\ OneHolder(q)'
    BY <1>2, <2>4 DEF SameThreads
  <2> QED
    BY <2>5, <2>6, <2>7, <2>8, BlockInvNext
<1> QED
  BY <1>1, <1>4, <1>5 DEF IQInv, IQTypes

\* At first nothing is enqueued and no entry of an index is used.
LEMMA StartTypes ==
  ASSUME IQInit
  PROVE  CountTypes /\ BlockTypes /\ ThreadTypes
<1>1. IndexSize \in Nat /\ IndexSize > 0
  BY IQAssumption
<1>2. CountTypes
  BY DEF IQInit, CountTypes, Counts
<1>3. header \in [IProducers -> Seq(Headers)]
  <2>1. PICK h : h = [slot |-> [i \in 0 .. (IndexSize - 1) |-> i + 1], tail |-> IndexSize - 1]
    OBVIOUS
  <2>2. h \in [slot : [0 .. (IndexSize - 1) -> 1 .. IndexSize], tail : 0 .. (IndexSize - 1)]
    BY <1>1, <2>1
  <2>3. h \in Headers
    BY <1>1, <2>2 DEF Headers
  <2>4. <<h>> \in Seq(Headers)
    BY <2>3
  <2>5. header = [p \in IProducers |-> <<h>>]
    BY <2>1 DEF IQInit
  <2> QED
    BY <2>4, <2>5
<1>4. entry \in [IProducers -> Seq(Entries)]
  <2>1. PICK s : s = NewEntries(IndexSize)
    OBVIOUS
  <2>2. s \in Seq(Entries)
    BY <1>1, <2>1 DEF NewEntries, Entries, INVALID_BLOCK_BASE
  <2>3. entry = [p \in IProducers |-> s]
    BY <2>1 DEF IQInit
  <2> QED
    BY <2>2, <2>3
<1>5. elements \in [MemBlocks -> [0 .. (BLOCK_SIZE - 1) -> (Nat \X Nat) \cup {None}]]
  BY DEF IQInit
<1>6. BlockTypes
  BY <1>3, <1>4, <1>5 DEF IQInit, BlockTypes
<1>7. ThreadTypes
  <2>1. "idle" \in PushLabels /\ "idle" \in PopLabels
    BY DEF PushLabels, PopLabels
  <2>2. \A t \in IThreads : ipc[t] = "idle"
    BY DEF IQInit
  <2>3. loc \in [IThreads -> Locals]
    BY NoCallIs DEF IQInit
  <2>4. ipc \in [IThreads -> PushLabels \cup PopLabels]
    BY <2>1 DEF IQInit
  <2> QED
    BY <2>1, <2>2, <2>3, <2>4, SubThreads DEF ThreadTypes
<1> QED
  BY <1>2, <1>6, <1>7

LEMMA StartCounts ==
  ASSUME IQInit
  PROVE  CountInv
<1>1. ASSUME NEW CONSTANT p \in IProducers PROVE CountsOf(p)
  <2>1. \A l : l # "idle" => At(l, p) = {}
    BY SubThreads DEF At, IQInit, IThreads
  <2>2. headIndex[p] = 0 /\ tailIndex[p] = 0 /\ dequeueOptimisticCount[p] = 0 /\ dequeueOvercommit[p] = 0
    BY DEF IQInit
  <2>3. Cardinality(At("head", p)) = 0 /\ Cardinality(At("recheck", p)) = 0 /\ Cardinality(At("giveup", p)) = 0
    BY <2>1, FS_EmptySet
  <2>4. Granted(p) = 0
    BY <2>2, <2>3 DEF Granted
  <2>5. Early(p, 0) = {}
    BY <2>1 DEF Early
  <2>6. Cardinality(Early(p, 0)) = 0
    BY <2>5, FS_EmptySet
  <2>7. GrantsFit(p, 0)
    BY <2>1, <2>2, <2>4, <2>6 DEF GrantsFit
  <2>8. \E n \in 0 .. dequeueOptimisticCount[p] : GrantsFit(p, n)
    BY <2>2, <2>7
  <2> QED
    BY <2>1, <2>2, <2>3, <2>4, <2>8 DEF CountsOf
<1> QED
  BY <1>1, CountInvIs

LEMMA StartRing ==
  ASSUME IQInit, NEW CONSTANT p \in IProducers
  PROVE  Indexed(p) /\ Filled(p) = -1
<1>1. IndexSize \in Nat /\ IndexSize > 0 /\ BLOCK_SIZE \in Nat /\ BLOCK_SIZE > 1
  BY IQAssumption, BlockSizeIs
<1>2. tailIndex[p] = 0 /\ ipc[p] = "idle"
  BY DEF IQInit, IThreads
<1>3. Filled(p) = -1 /\ Top(p) = -1
  <2>1. 0 - 1 = (-1) * BLOCK_SIZE + (BLOCK_SIZE - 1) /\ BLOCK_SIZE - 1 \in 0 .. (BLOCK_SIZE - 1)
    BY <1>1
  <2>2. (0 - 1) \div BLOCK_SIZE = -1
    BY <2>1, BlockUnique
  <2>3. Filled(p) = (0 - 1) \div BLOCK_SIZE
    BY <1>2 DEF Filled
  <2>4. Top(p) = Filled(p) + 0
    BY <1>2 DEF Top, Getting
  <2> QED
    BY <2>2, <2>3, <2>4
<1>4. PICK n \in Nat : n = IndexSize /\ n > 0
  BY <1>1
<1>5. PICK h : h = [slot |-> [i \in 0 .. (n - 1) |-> i + 1], tail |-> n - 1]
  OBVIOUS
<1>6. header[p] = <<h>> /\ BlockIndex(p) = h
  <2>1. header[p] = <<h>>
    BY <1>4, <1>5 DEF IQInit
  <2> QED
    BY <2>1 DEF BlockIndex
<1>7. /\ h.slot \in [0 .. (n - 1) -> 1 .. n] /\ h.tail \in 0 .. (n - 1)
      /\ \A i, j \in 0 .. (n - 1) : h.slot[i] = h.slot[j] => i = j
  BY <1>4, <1>5
<1>8. Len(entry[p]) = n /\ \A i \in 1 .. n : entry[p][i] = [key |-> INVALID_BLOCK_BASE, value |-> None]
  <2>1. entry[p] = NewEntries(n)
    BY <1>4 DEF IQInit
  <2> QED
    BY <2>1 DEF NewEntries
<1>9. RingTypes(p)
  <2>1. header[p] # <<>> /\ n >= 1
    BY <1>4, <1>6
  <2> QED
    BY <1>6, <1>7, <1>8, <2>1 DEF RingTypes
<1>10. IndexCapacity(h) = n
  <2>1. DOMAIN h.slot = 0 .. (n - 1)
    BY <1>7
  <2> QED
    BY <2>1, CapacityIs
<1>11. ASSUME NEW j \in 0 .. (n - 1) PROVE KeyAgo(p, j) = INVALID_BLOCK_BASE /\ ~IsKey(p, j)
  <2>1. Ago(n - 1, j, n) \in 0 .. (n - 1)
    <3>1. n - 1 \in 0 .. (n - 1)
      BY <1>4
    <3> QED
      BY <3>1, AgoIs
  <2>2. h.tail = n - 1
    BY <1>5
  <2>3. KeyAgo(p, j) = entry[p][h.slot[Ago(n - 1, j, n)]].key
    BY <1>6, <1>10, <2>2 DEF KeyAgo, Slot
  <2>4. KeyAgo(p, j) = INVALID_BLOCK_BASE
    BY <1>7, <1>8, <2>1, <2>3
  <2>5. (Top(p) - j) * BLOCK_SIZE # INVALID_BLOCK_BASE
    <3>1. Top(p) - j \in Int
      BY <1>3
    <3> QED
      BY <3>1, BlockMultiples
  <2> QED
    BY <2>4, <2>5 DEF IsKey
<1>12. RingKeys(p)
  BY <1>8, <1>11 DEF RingKeys
<1>13. Keyed(p)
  BY <1>8 DEF Keyed
<1>14. Inserts(p)
  <2>1. 0 % BLOCK_SIZE = 0
    BY <1>1
  <2> QED
    BY <1>2, <2>1 DEF Inserts, Filling, Getting
<1> QED
  BY <1>3, <1>9, <1>12, <1>13, <1>14 DEF Indexed

LEMMA StartKeeps ==
  ASSUME IQInit
  PROVE  IQInv
<1>1. CountTypes /\ BlockTypes /\ ThreadTypes /\ CountInv
  BY StartTypes, StartCounts
<1>2. \A t \in IThreads : ipc[t] = "idle"
  BY DEF IQInit
<1>3. ASSUME NEW CONSTANT p \in IProducers PROVE Indexed(p) /\ LiveLinked(p) /\ Stay(p) /\ OneHolder(p)
  <2>1. Indexed(p) /\ Filled(p) = -1
    BY StartRing
  <2>2. LiveLinked(p)
    BY <2>1 DEF LiveLinked
  <2>3. Stay(p)
    <3>1. tailIndex[p] = 0
      BY DEF IQInit
    <3> QED
      BY <3>1 DEF Stay
  <2>4. OneHolder(p)
    BY <1>2, SubThreads DEF OneHolder, IHolders, HoldLabels
  <2> QED
    BY <2>1, <2>2, <2>3, <2>4
<1>4. \A c \in IConsumers : Searches(c)
  BY <1>2, SubThreads DEF Searches, HoldLabels
<1>5. CountsInBlock
  BY BlockSizeIs DEF CountsInBlock, IQInit
<1>6. \A p \in IProducers : \A i \in 1 .. Len(entry[p]) : entry[p][i].value = None
  <2>1. ASSUME NEW p \in IProducers, NEW i \in 1 .. Len(entry[p]) PROVE entry[p][i].value = None
    <3>1. entry[p] = NewEntries(IndexSize) /\ IndexSize \in Nat
      BY IQAssumption DEF IQInit
    <3> QED
      BY <2>1, <3>1 DEF NewEntries
  <2> QED
    BY <2>1
<1>7. Homes
  <2>1. LinksApart /\ LinksHold
    BY <1>6 DEF LinksApart, LinksHold
  <2>2. HandsApart /\ HandsHold /\ UnlinksApart
    BY <1>2, SubThreads DEF HandsApart, HandsHold, UnlinksApart, InHand
  <2>3. freeList \subseteq InUse
    BY DEF IQInit
  <2> QED
    BY <2>1, <2>2, <2>3 DEF Homes
<1> QED
  BY <1>1, <1>3, <1>4, <1>5, <1>7 DEF IQInv, IQTypes, BlockInv

\* The invariant holds of every behaviour.
THEOREM IQInvHolds == IQSpec => []IQInv
<1>1. IQInit => IQInv
  BY StartKeeps
<1>2. IQInv /\ [IQNext]_iqvars => IQInv'
  BY StepKeeps, StutterKeeps
<1> QED
  BY <1>1, <1>2, PTL DEF IQSpec
-----------------------------------------------------------------------------
\* From the invariant: a consumer finds its element.
LEMMA TakesRight ==
  ASSUME IQInv
  PROVE  TakesWhatItClaimed
<1>1. BlockState /\ CountInv /\ CountTypes
  BY BlockStateIs DEF BlockState
<1>2. ASSUME NEW CONSTANT c \in IConsumers, ipc[c] = "move"
      PROVE  /\ entry[loc[c].ptr][loc[c].e].key = loc[c].x - (loc[c].x % BLOCK_SIZE) /\ loc[c].b # None
             /\ elements[loc[c].b][loc[c].x % BLOCK_SIZE] = <<loc[c].ptr, loc[c].x>>
  <2>1. PICK p \in IProducers, x \in Nat, k \in Nat, e \in Nat, b \in MemBlocks :
           /\ p = loc[c].ptr /\ x = loc[c].x /\ k = x \div BLOCK_SIZE /\ e = loc[c].e /\ b = loc[c].b
           /\ c \in IHolders(p) /\ Linking(p, k) /\ e = EntryOf(p, k) /\ b = BlockOf(p, k) /\ x < tailIndex[p] /\ b # None
    BY <1>1, <1>2, HeldBlock
  <2>2. PICK j \in 0 .. (BLOCK_SIZE - 1) : j = x % BLOCK_SIZE /\ x = k * BLOCK_SIZE + j
    <3>1. x \in Int
      BY <2>1
    <3> QED
      BY <2>1, <3>1, BlockDivision
  <2>3. k * BLOCK_SIZE = x - j
    <3>1. k * BLOCK_SIZE \in Int
      BY <2>1, BlockMultiples
    <3> QED
      BY <2>2, <3>1
  <2>4. entry[p][e].key = x - j
    BY <2>1, <2>3 DEF Linking
  <2>5. Waits(p, x)
    BY <1>2, <2>1 DEF Waits, ToMove
  <2>6. elements[b][j] = <<p, x>>
    <3>1. x \in 0 .. (tailIndex[p] - 1) /\ Stay(p)
      BY <1>1, <2>1, ProducerIs
    <3> QED
      BY <2>1, <2>2, <2>5, <3>1 DEF Stay
  <2> QED
    BY <2>1, <2>2, <2>4, <2>6
<1>3. FindsElement
  BY <1>2 DEF FindsElement
<1>4. HeadBehindTail
  BY <1>1 DEF HeadBehindTail, BlockState, BlockInv, CountsInBlock
<1> QED
  BY <1>3, <1>4 DEF TakesWhatItClaimed

\* From the invariant: no block is in two places, and no call leaves a trace.
LEMMA PlacesAndCounts ==
  ASSUME IQInv
  PROVE  BlocksAndCountsAgree
<1>1. BlockState /\ CountInv /\ Homes /\ CountTypes /\ BlockTypes
  BY BlockStateIs DEF BlockState, BlockInv
<1>2. ASSUME NEW p \in IProducers, NEW b \in Linked(p)
      PROVE  \E i \in 1 .. Len(entry[p]) : entry[p][i].value = b /\ b # None
  <2>1. DOMAIN entry[p] = 1 .. Len(entry[p])
    BY <1>1 DEF BlockTypes
  <2> QED
    BY <1>2, <2>1 DEF Linked
<1>3. ASSUME NEW p \in IProducers, NEW q \in IProducers, p # q PROVE Linked(p) \cap Linked(q) = {}
  <2>1. SUFFICES ASSUME NEW b, b \in Linked(p), b \in Linked(q) PROVE FALSE
    OBVIOUS
  <2>2. PICK i \in 1 .. Len(entry[p]) : entry[p][i].value = b /\ b # None
    BY <1>2, <2>1
  <2>3. PICK j \in 1 .. Len(entry[q]) : entry[q][j].value = b
    BY <1>2, <2>1
  <2> QED
    BY <1>1, <1>3, <2>2, <2>3 DEF Homes, LinksApart
<1>4. freeList \cap (InHands \cup UNION {Linked(p) : p \in IProducers}) = {}
  <2>1. ASSUME NEW b \in freeList, b \in InHands PROVE FALSE
    BY <1>1, <2>1 DEF InHands, Homes, HandsHold, InHand
  <2>2. ASSUME NEW b \in freeList, NEW p \in IProducers, b \in Linked(p) PROVE FALSE
    <3>1. PICK i \in 1 .. Len(entry[p]) : entry[p][i].value = b /\ b # None
      BY <1>2, <2>2
    <3> QED
      BY <1>1, <2>2, <3>1 DEF Homes, LinksHold
  <2> QED
    BY <2>1, <2>2
<1>5. ASSUME NEW CONSTANT p \in IProducers, ipc[p] = "publish" PROVE tailBlock[p] \in Linked(p)
  <2>1. Filling(p)
    BY <1>5 DEF Filling
  <2>2. PICK k \in Nat : k = Filled(p) /\ Linking(p, k)
    BY <1>1, <2>1, FilledLives
  <2>3. k <= Filled(p)
    BY <2>2
  <2>4. BlockOf(p, k) # None /\ EntryOf(p, k) \in 1 .. Len(entry[p]) /\ BlockOf(p, k) = entry[p][EntryOf(p, k)].value
    BY <1>1, <2>2, <2>3, BlockOfType
  <2>5. tailBlock[p] = BlockOf(p, k)
    BY <1>1, <2>1, <2>2, ProducerIs DEF Inserts, BlockOf
  <2>6. DOMAIN entry[p] = 1 .. Len(entry[p])
    BY <1>1 DEF BlockTypes
  <2> QED
    BY <2>4, <2>5, <2>6 DEF Linked
<1>6. BlocksInOnePlace
  BY <1>3, <1>4, <1>5 DEF BlocksInOnePlace
<1>7. CountsAgree
  <2>1. SUFFICES ASSUME \A c \in IConsumers : ipc[c] = "idle", NEW CONSTANT p \in IProducers
                 PROVE  dequeueOptimisticCount[p] - dequeueOvercommit[p] = headIndex[p]
    BY DEF CountsAgree
  <2>2. At("head", p) = {} /\ At("recheck", p) = {} /\ At("giveup", p) = {}
    BY <2>1 DEF At
  <2>3. Cardinality(At("head", p)) = 0 /\ Cardinality(At("recheck", p)) = 0 /\ Cardinality(At("giveup", p)) = 0
    BY <2>2, FS_EmptySet
  <2>4. dequeueOptimisticCount[p] = dequeueOvercommit[p] + headIndex[p]
    <3>1. dequeueOptimisticCount[p] = dequeueOvercommit[p] + Granted(p)
           + Cardinality(At("recheck", p)) + Cardinality(At("giveup", p))
      BY <1>1 DEF CountInv, CountsMatch
    <3>2. dequeueOvercommit[p] \in Nat /\ headIndex[p] \in Nat
      BY <1>1 DEF CountTypes, Counts
    <3> QED
      BY <2>3, <3>1, <3>2 DEF Granted
  <2>5. dequeueOvercommit[p] \in Nat /\ headIndex[p] \in Nat
    BY <1>1 DEF CountTypes, Counts
  <2> QED
    BY <2>4, <2>5
<1> QED
  BY <1>6, <1>7 DEF BlocksAndCountsAgree

\* A consumer that was given an element finds its block by the index, however often
\* that was replaced and its entries used again meanwhile, and finds the element in
\* it; and no more elements are given than were enqueued (moodycamel.h:2461-2529).
THEOREM TakesWhatItClaimedHolds == IQSpec => []TakesWhatItClaimed
<1>1. IQInv => TakesWhatItClaimed
  BY TakesRight
<1> QED
  BY <1>1, IQInvHolds, PTL

\* A block is linked by one producer, in one hand or in the free list, and never in
\* two of these; and the counts of consumers that took nothing cancel each other
\* (moodycamel.h:2465-2475, 2965-3005).
THEOREM BlocksAndCountsAgreeHolds == IQSpec => []BlocksAndCountsAgree
<1>1. IQInv => BlocksAndCountsAgree
  BY PlacesAndCounts
<1> QED
  BY <1>1, IQInvHolds, PTL
=============================================================================
