--------------------------- MODULE ImplicitQueueInv ---------------------------
(***************************************************************************)
(* Why the implicit queue is correct: its inductive invariant, in two      *)
(* parts.  CountInv is about the counts that consumers raise and correct,  *)
(* and says that no more is granted than was enqueued.  BlockInv is about  *)
(* where the elements are: which entry of the index, which block.          *)
(***************************************************************************)
EXTENDS ImplicitQueue

\* The consumers at a label of a dequeue from p.
At(l, p) == {c \in IConsumers : ipc[c] = l /\ loc[c].ptr = p}

(* CountInv.  An element of p is granted to a consumer that has seen that it did *)
(* not run ahead, and then given to it by headIndex.                             *)
Granted(p) == headIndex[p] + Cardinality(At("head", p))

CountsMatch == \A p \in IProducers :
  dequeueOptimisticCount[p] =
    dequeueOvercommit[p] + Granted(p) + Cardinality(At("recheck", p)) + Cardinality(At("giveup", p))

\* The consumers with a claim below n that have yet to see whether it is good.
Early(p, n) == {c \in At("recheck", p) : loc[c].x < n}

\* All that was granted has claims below n, and if those below n that are not decided
\* were granted as well there would be enough; a claim above has counted all below.
GrantsFit(p, n) ==
  /\ Granted(p) + Cardinality(Early(p, n)) <= tailIndex[p]
  /\ \A c \in At("recheck", p) : loc[c].x >= n =>
       Granted(p) + Cardinality(Early(p, loc[c].x + 1)) + loc[c].over <= loc[c].x + 1

GrantsKept == \A p \in IProducers : \E n \in 0 .. dequeueOptimisticCount[p] : GrantsFit(p, n)

ClaimsDiffer == \A p \in IProducers :
  /\ \A c \in At("recheck", p) : loc[c].x < dequeueOptimisticCount[p]
  /\ \A c, d \in At("recheck", p) : loc[c].x = loc[d].x => c = d
  /\ \A c \in At("check", p) \cup At("claim", p) : loc[c].over <= dequeueOvercommit[p]

CountInv == CountsMatch /\ GrantsKept /\ ClaimsDiffer
-----------------------------------------------------------------------------
(* The consumers that have an element and have not counted it in its block, and *)
(* the elements of p that they have.                                            *)
HoldLabels == {"lookup", "looktail", "lookkey", "loadblock", "move", "setempty"}
Busy == HoldLabels \cup {"unlink", "give"}
IHolders(p) == {c \in IConsumers : ipc[c] \in HoldLabels /\ loc[c].ptr = p}
IHeld(p) == {loc[c].x : c \in IHolders(p)}
ToMove(p) == {loc[c].x : c \in {d \in IHolders(p) : ipc[d] # "setempty"}}

\* Places that are not done with, and those whose element is still there once enqueued.
Open(p, n) == n >= headIndex[p] \/ n \in IHeld(p)
Waits(p, n) == n >= headIndex[p] \/ n \in ToMove(p)

\* The last block of p that was linked, and the last that is in the index.
Getting == {"pool", "pooltake", "freelist", "value"}
Filled(p) == (IF ipc[p] = "publish" THEN tailIndex[p] ELSE tailIndex[p] - 1) \div BLOCK_SIZE
Top(p) == Filled(p) + (IF ipc[p] \in Getting THEN 1 ELSE 0)

(* The index is a ring; Slot(h, t, j) is the j-th back from t. *)
Ago(t, j, n) == IF j <= t THEN t - j ELSE t - j + n
Slot(h, t, j) == h.slot[Ago(t, j, IndexCapacity(h))]
EntryOf(p, k) == Slot(BlockIndex(p), BlockIndex(p).tail, Top(p) - k)
KeyAgo(p, j) == entry[p][Slot(BlockIndex(p), BlockIndex(p).tail, j)].key
IsKey(p, j) == KeyAgo(p, j) = (Top(p) - j) * BLOCK_SIZE

\* After rewind_block_index_tail, or while a key is in and the tail is not.
Rewound(p) ==
  /\ ipc[p] \in {"idle", "insert", "inserttail"}
  /\ tailIndex[p] = (Top(p) + 1) * BLOCK_SIZE
  /\ entry[p][NextEntry(p)] = [key |-> tailIndex[p], value |-> None]

(* From the tail back the keys are those of the last blocks, without a gap; the *)
(* others of the ring were never used.                                          *)
RingTypes(p) ==
  LET h == BlockIndex(p)
      n == Len(entry[p])
  IN /\ header[p] # <<>> /\ n >= 1
     /\ h.slot \in [0 .. (n - 1) -> 1 .. n] /\ h.tail \in 0 .. (n - 1)
     /\ \A i, j \in 0 .. (n - 1) : h.slot[i] = h.slot[j] => i = j

RingKeys(p) == \A j \in 0 .. (Len(entry[p]) - 1) :
  /\ IsKey(p, j) \/ KeyAgo(p, j) = INVALID_BLOCK_BASE \/ (j = Len(entry[p]) - 1 /\ Rewound(p))
  /\ IsKey(p, j) => \A i \in 0 .. j : IsKey(p, i)

Keyed(p) == \A i \in 1 .. Len(entry[p]) :
  entry[p][i].value # None => entry[p][i].key # INVALID_BLOCK_BASE

(* What a producer is about. *)
Fresh(p, e) == entry[p][e] = [key |-> tailIndex[p], value |-> None]
Filling(p) == ipc[p] = "publish" \/ tailIndex[p] % BLOCK_SIZE # 0

Inserts(p) ==
  /\ ipc[p] \in {"insert", "inserttail"} \cup Getting => tailIndex[p] % BLOCK_SIZE = 0
  /\ ipc[p] = "inserttail" => loc[p].e = NextEntry(p) /\ Fresh(p, loc[p].e)
  /\ ipc[p] \in Getting => loc[p].e = BlockIndex(p).slot[BlockIndex(p).tail] /\ Fresh(p, loc[p].e)
  /\ Filling(p) => tailBlock[p] = entry[p][EntryOf(p, Filled(p))].value

Indexed(p) == RingTypes(p) /\ RingKeys(p) /\ Keyed(p) /\ Inserts(p)
-----------------------------------------------------------------------------
(* A block with a place that is not done with is linked, under its number; the *)
(* count of the block is the places that are.                                  *)
Positions(k) == (k * BLOCK_SIZE) .. (k * BLOCK_SIZE + BLOCK_SIZE - 1)
Live(p, k) == k \in 0 .. Filled(p) /\ \E n \in Positions(k) : Open(p, n)
Past(p, k) == {n \in Positions(k) : ~Open(p, n)}
BlockOf(p, k) == entry[p][EntryOf(p, k)].value

Linking(p, k) ==
  /\ Top(p) - k < Len(entry[p])
  /\ entry[p][EntryOf(p, k)].key = k * BLOCK_SIZE
  /\ BlockOf(p, k) # None

LiveLinked(p) == \A k \in 0 .. Filled(p) : Live(p, k) =>
  Linking(p, k) /\ elementsCompletelyDequeued[BlockOf(p, k)] = Cardinality(Past(p, k))

CountsInBlock == \A b \in MemBlocks : elementsCompletelyDequeued[b] <= BLOCK_SIZE

Stay(p) == \A n \in 0 .. (tailIndex[p] - 1) : Waits(p, n) =>
  elements[BlockOf(p, n \div BLOCK_SIZE)][n % BLOCK_SIZE] = <<p, n>>

OneHolder(p) == \A c, d \in IHolders(p) : loc[c].x = loc[d].x => c = d

(* What a consumer is about: from the tail it has read, in an index that may have *)
(* been replaced since, it finds the entry of its block.                          *)
Finds(p, k, h, e) ==
  /\ e \in 0 .. (IndexCapacity(h) - 1) /\ h.slot[e] \in 1 .. Len(entry[p])
  /\ \E j \in 0 .. (IndexCapacity(h) - 1) :
       /\ entry[p][h.slot[e]].key = (k + j) * BLOCK_SIZE
       /\ Slot(h, e, j) = EntryOf(p, k)

Searches(c) ==
  LET l == loc[c]
      p == l.ptr
      k == l.x \div BLOCK_SIZE
  IN /\ ipc[c] \in HoldLabels => l.x < headIndex[p]
     /\ ipc[c] \in {"looktail", "lookkey"} => l.h \in 1 .. Len(header[p])
     /\ ipc[c] = "looktail" => Finds(p, k, header[p][l.h], header[p][l.h].tail)
     /\ ipc[c] = "lookkey" => Finds(p, k, header[p][l.h], l.e)
     /\ ipc[c] \in {"loadblock", "move", "setempty"} => l.e = EntryOf(p, k)
     /\ ipc[c] \in {"move", "setempty", "unlink"} =>
          l.e \in 1 .. Len(entry[p]) /\ l.b = entry[p][l.e].value /\ l.b # None
     /\ ipc[c] = "unlink" => \A m \in 0 .. Filled(p) : Live(p, m) => EntryOf(p, m) # l.e
-----------------------------------------------------------------------------
(* Each block in use has at most one home: an entry, a hand, the free list. *)
InUse == created \cup {b \in 1 .. PoolSize : b <= initialBlockPoolIndex}
InHand(t) == ipc[t] \in {"value", "give"}

LinksApart == \A p, q \in IProducers : \A i \in 1 .. Len(entry[p]), j \in 1 .. Len(entry[q]) :
  entry[p][i].value # None /\ entry[p][i].value = entry[q][j].value => p = q /\ i = j

HandsApart == \A t, u \in IThreads : InHand(t) /\ InHand(u) /\ loc[t].b = loc[u].b => t = u

HandsHold == \A t \in IThreads : InHand(t) =>
  /\ loc[t].b \in InUse \ freeList
  /\ \A p \in IProducers : \A i \in 1 .. Len(entry[p]) : entry[p][i].value # loc[t].b

LinksHold == \A p \in IProducers : \A i \in 1 .. Len(entry[p]) :
  entry[p][i].value # None => entry[p][i].value \in InUse \ freeList

UnlinksApart == \A c, d \in IConsumers :
  ipc[c] = "unlink" /\ ipc[d] = "unlink" /\ loc[c].b = loc[d].b => c = d

Homes == LinksApart /\ HandsApart /\ HandsHold /\ LinksHold /\ UnlinksApart /\ freeList \subseteq InUse

BlockInv ==
  /\ \A p \in IProducers : Indexed(p) /\ LiveLinked(p) /\ Stay(p) /\ OneHolder(p)
  /\ \A c \in IConsumers : Searches(c)
  /\ CountsInBlock /\ Homes
-----------------------------------------------------------------------------
Headers == UNION {[slot : [0 .. (n - 1) -> 1 .. n], tail : 0 .. (n - 1)] : n \in Nat \ {0}}
Entries == [key : Nat, value : MemBlocks \cup {None}]
Locals == [best : Nat \cup {None}, size : Nat, seen : Nat, ptr : Nat, rest : BOOLEAN,
           x : Nat, over : Nat, h : Nat, e : Nat, b : Nat \cup {None}]
PushLabels == {"idle", "insert", "inserttail", "publish"} \cup Getting
PopLabels == {"idle", "sizetail", "sizehead", "loadtail", "loadover", "check", "claim",
              "recheck", "giveup", "head"} \cup Busy

Counts == [IProducers -> Nat]
CountTypes ==
  /\ load \in Loads
  /\ tailIndex \in Counts /\ headIndex \in Counts
  /\ dequeueOptimisticCount \in Counts /\ dequeueOvercommit \in Counts

BlockTypes ==
  /\ tailBlock \in [IProducers -> MemBlocks \cup {None}]
  /\ header \in [IProducers -> Seq(Headers)]
  /\ entry \in [IProducers -> Seq(Entries)]
  /\ elements \in [MemBlocks -> [0 .. (BLOCK_SIZE - 1) -> (Nat \X Nat) \cup {None}]]
  /\ elementsCompletelyDequeued \in [MemBlocks -> Nat]
  /\ initialBlockPoolIndex \in Nat /\ freeList \subseteq MemBlocks /\ created \subseteq MemBlocks \ (1 .. PoolSize)

ThreadTypes ==
  /\ ipc \in [IThreads -> PushLabels \cup PopLabels]
  /\ \A p \in IProducers : ipc[p] \in PushLabels
  /\ \A c \in IConsumers : ipc[c] \in PopLabels
  /\ loc \in [IThreads -> Locals]
  /\ \A c \in IConsumers : ipc[c] # "idle" =>
       /\ loc[c].ptr \in IProducers
       /\ loc[c].seen > 0 \/ loc[c].size > 0 => loc[c].best \in IProducers

IQTypes == CountTypes /\ BlockTypes /\ ThreadTypes
IQInv == IQTypes /\ CountInv /\ BlockInv
=============================================================================
