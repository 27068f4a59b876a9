---------------------------- MODULE ImplicitQueue ----------------------------
(***************************************************************************)
(* moodycamel::ConcurrentQueue of queue-bench/moodycamel.h as the          *)
(* benchmark uses it: enqueue(item) and try_dequeue(item), without tokens. *)
(* Each producer has a queue of its own (ImplicitProducer) made of blocks  *)
(* of BLOCK_SIZE elements, which an index of growing size finds by the     *)
(* number of their first element.  A consumer picks a producer's queue by  *)
(* its apparent size and takes from it: it first raises a count that may   *)
(* run ahead of the tail, sees whether it did, and corrects it.  Who       *)
(* takes the last element of a block gives the block to the free list.     *)
(*                                                                         *)
(* Which producer belongs to a thread is found in ProducerHash, the free   *)
(* list is a set here (FreeList is the real one).  One step is one access  *)
(* to memory that another thread may use at that time.  The indices are    *)
(* 64 bits wide and do not wrap.                                           *)
(***************************************************************************)
EXTENDS Integers, Sequences, FiniteSets

CONSTANTS
  IConsumers,
  BLOCK_SIZE,
  IndexSize,    \* IMPLICIT_INITIAL_INDEX_SIZE
  PoolSize,     \* initialBlockPoolSize
  Memory,       \* blocks there is memory for, the initial pool among them
  IndexMemory,  \* bound: block indices of a producer
  Loads,        \* bound: what the producers of the list enqueue, who dequeues, and
                \* dequeueOptimisticCount, which calls that run ahead raise
  None

\* The block size is asserted to be two at least (moodycamel.h, line 701).
ASSUME IQAssumption ==
  /\ BLOCK_SIZE \in Nat \ {0, 1} /\ IndexSize \in Nat \ {0}
  /\ PoolSize \in Nat /\ Memory \in Nat /\ PoolSize <= Memory
  /\ IsFiniteSet(IConsumers) /\ IConsumers \cap Nat = {} /\ None \notin Nat
  /\ \A l \in Loads : l.enqueues \in Seq(Nat) \ {<<>>} /\ l.consumers \subseteq IConsumers

VARIABLES
  load,         \* the one of Loads that this behaviour has: [enqueues, consumers, claims]
  tailIndex, headIndex, dequeueOptimisticCount, dequeueOvercommit, tailBlock,
  header,       \* each producer's block indices; the last is blockIndex
  entry,        \* and the entries they point to: [key, value]
  elements, elementsCompletelyDequeued,     \* of each block
  initialBlockPoolIndex, freeList, created,
  ipc,          \* where each thread is in its call
  loc           \* the locals of its call

iqvars == <<load, tailIndex, headIndex, dequeueOptimisticCount, dequeueOvercommit,
            tailBlock, header, entry, elements, elementsCompletelyDequeued,
            initialBlockPoolIndex, freeList, created, ipc, loc>>
counters == <<tailIndex, headIndex, dequeueOptimisticCount, dequeueOvercommit>>
index == <<header, entry>>
blocks == <<elements, elementsCompletelyDequeued>>
pool == <<initialBlockPoolIndex, freeList, created>>

NProducers == Len(load.enqueues)
IProducers == 1 .. NProducers
IThreads == IProducers \cup IConsumers
MemBlocks == 1 .. Memory
INVALID_BLOCK_BASE == 1
Set(f, x, y) == [f EXCEPT ![x] = y]

\* best and bestSize, nonEmptyCount; the producer a call has reached, and whether
\* it is on its second round; the value it has read last (x), the overcommit, the
\* header, the entry and the block it has read.
NoCall == [best |-> None, size |-> 0, seen |-> 0, ptr |-> 0, rest |-> FALSE,
           x |-> 0, over |-> 0, h |-> 0, e |-> 0, b |-> 0]

NewEntries(n) == [i \in 1 .. n |-> [key |-> INVALID_BLOCK_BASE, value |-> None]]

IQInit ==
  /\ load \in Loads
  /\ tailIndex = [p \in IProducers |-> 0] /\ headIndex = tailIndex
  /\ dequeueOptimisticCount = tailIndex /\ dequeueOvercommit = tailIndex
  /\ tailBlock = [p \in IProducers |-> None]
  /\ header = [p \in IProducers |->
       <<[slot |-> [i \in 0 .. (IndexSize - 1) |-> i + 1], tail |-> IndexSize - 1]>>]
  /\ entry = [p \in IProducers |-> NewEntries(IndexSize)]
  /\ elements = [b \in MemBlocks |-> [i \in 0 .. (BLOCK_SIZE - 1) |-> None]]
  /\ elementsCompletelyDequeued = [b \in MemBlocks |-> 0]
  /\ initialBlockPoolIndex = 0 /\ freeList = {} /\ created = {}
  /\ ipc = [t \in IThreads |-> "idle"]
  /\ loc = [t \in IThreads |-> NoCall]

IGo(t, label) == ipc' = Set(ipc, t, label)
IReturn(t) == IGo(t, "idle") /\ loc' = Set(loc, t, NoCall)
Know(t, name, v) == loc' = [loc EXCEPT ![t][name] = v]
-----------------------------------------------------------------------------
(* ImplicitProducer::enqueue *)
BlockIndex(p) == header[p][Len(header[p])]
IndexCapacity(h) == Cardinality(DOMAIN h.slot)
NewTail(h) == (h.tail + 1) % IndexCapacity(h)
NextEntry(p) == BlockIndex(p).slot[NewTail(BlockIndex(p))]
IsFree(en) == en.key = INVALID_BLOCK_BASE \/ en.value = None

Enqueue(p) ==
  /\ ipc[p] = "idle" /\ tailIndex[p] < load.enqueues[p]
  /\ IGo(p, IF tailIndex[p] % BLOCK_SIZE = 0 THEN "insert" ELSE "publish")
  /\ UNCHANGED <<counters, tailBlock, index, blocks, pool, loc>>

\* insert_block_index_entry: the entry after the tail, if it is free ...
InsertKey(p) ==
  /\ ipc[p] = "insert" /\ IsFree(entry[p][NextEntry(p)])
  /\ entry' = [entry EXCEPT ![p][NextEntry(p)].key = tailIndex[p]]
  /\ Know(p, "e", NextEntry(p))
  /\ IGo(p, "inserttail")
  /\ UNCHANGED <<counters, tailBlock, header, blocks, pool>>

InsertTail(p) ==
  /\ ipc[p] = "inserttail"
  /\ header' = [header EXCEPT ![p][Len(header[p])].tail = NewTail(BlockIndex(p))]
  /\ IGo(p, "pool")
  /\ UNCHANGED <<counters, tailBlock, entry, blocks, pool, loc>>

\* Fault: the entries are copied in the order of the old index.
GrownUnturned(p) ==
  LET h == BlockIndex(p)
      n == IndexCapacity(h)
  IN [slot |-> [i \in 0 .. (2 * n - 1) |-> IF i < n THEN h.slot[i] ELSE i + 1],
      tail |-> n - 1]

\* The index twice as large: the old entries from the oldest on, then new ones.
Grown(p) ==
  LET h == BlockIndex(p)
      n == IndexCapacity(h)
  IN [slot |-> [i \in 0 .. (2 * n - 1) |->
                  IF i < n THEN h.slot[(h.tail + 1 + i) % n] ELSE i + 1],
      tail |-> n - 1]

\* ... otherwise new_block_index, unless there is no memory for it.
NewBlockIndex(p) ==
  /\ ipc[p] = "insert" /\ ~IsFree(entry[p][NextEntry(p)])
  /\ Len(header[p]) < IndexMemory
  /\ header' = [header EXCEPT ![p] = Append(@, Grown(p))]
  /\ entry' = [entry EXCEPT ![p] = @ \o NewEntries(Len(@))]
  /\ UNCHANGED <<counters, tailBlock, blocks, pool, ipc, loc>>

InsertFails(p) ==
  /\ ipc[p] = "insert" /\ ~IsFree(entry[p][NextEntry(p)])
  /\ IReturn(p)
  /\ UNCHANGED <<counters, tailBlock, index, blocks, pool>>

\* requisition_block: from the initial pool, from the free list, from memory.
PoolLoad(p) ==
  /\ ipc[p] = "pool"
  /\ IGo(p, IF initialBlockPoolIndex < PoolSize THEN "pooltake" ELSE "freelist")
  /\ UNCHANGED <<counters, tailBlock, index, blocks, pool, loc>>

GotBlock(p, b) == IGo(p, "value") /\ Know(p, "b", b)

PoolTake(p) ==
  /\ ipc[p] = "pooltake"
  /\ initialBlockPoolIndex' = initialBlockPoolIndex + 1
  /\ \/ initialBlockPoolIndex < PoolSize /\ GotBlock(p, initialBlockPoolIndex + 1)
     \/ initialBlockPoolIndex >= PoolSize /\ IGo(p, "freelist") /\ loc' = loc
  /\ UNCHANGED <<counters, tailBlock, index, blocks, freeList, created>>

FreeListGet(p) ==
  /\ ipc[p] = "freelist"
  /\ \E b \in freeList : freeList' = freeList \ {b} /\ GotBlock(p, b)
  /\ UNCHANGED <<counters, tailBlock, index, blocks, initialBlockPoolIndex, created>>

Unused == MemBlocks \ (created \cup 1 .. PoolSize)

Create(p) ==
  /\ ipc[p] = "freelist" /\ freeList = {} /\ Unused # {}
  /\ LET b == CHOOSE b \in Unused : TRUE
     IN created' = created \cup {b} /\ GotBlock(p, b)
  /\ UNCHANGED <<counters, tailBlock, index, blocks, initialBlockPoolIndex, freeList>>

\* There is none: rewind_block_index_tail, and the element is refused.
NoBlock(p) ==
  /\ ipc[p] = "freelist" /\ freeList = {} /\ Unused = {}
  /\ header' = [header EXCEPT ![p][Len(header[p])].tail =
                                (@ - 1) % IndexCapacity(BlockIndex(p))]
  /\ entry' = [entry EXCEPT ![p][loc[p].e].value = None]
  /\ IReturn(p)
  /\ UNCHANGED <<counters, tailBlock, blocks, pool>>

\* The block is the producer's own until its entry points to it ...
StoreValue(p) ==
  /\ ipc[p] = "value"
  /\ elementsCompletelyDequeued' = Set(elementsCompletelyDequeued, loc[p].b, 0)
  /\ entry' = [entry EXCEPT ![p][loc[p].e].value = loc[p].b]
  /\ tailBlock' = Set(tailBlock, p, loc[p].b)
  /\ loc' = Set(loc, p, NoCall)
  /\ IGo(p, "publish")
  /\ UNCHANGED <<counters, header, elements, pool>>

\* ... and the place in it until the tail is stored.
Publish(p) ==
  /\ ipc[p] = "publish"
  /\ elements' =
       [elements EXCEPT ![tailBlock[p]][tailIndex[p] % BLOCK_SIZE] = <<p, tailIndex[p]>>]
  /\ tailIndex' = [tailIndex EXCEPT ![p] = @ + 1]
  /\ IGo(p, "idle")
  /\ UNCHANGED <<headIndex, dequeueOptimisticCount, dequeueOvercommit, tailBlock,
                 index, elementsCompletelyDequeued, pool, loc>>

EnqueueStep(p) ==
  \/ InsertKey(p) \/ InsertTail(p) \/ NewBlockIndex(p) \/ InsertFails(p)
  \/ PoolLoad(p) \/ PoolTake(p) \/ FreeListGet(p) \/ Create(p) \/ NoBlock(p)
  \/ StoreValue(p) \/ Publish(p)
-----------------------------------------------------------------------------
(* try_dequeue: size_approx of the producers, until three have something ... *)
TryDequeue(c) ==
  /\ ipc[c] = "idle"
  /\ loc' = Set(loc, c, [NoCall EXCEPT !.ptr = 1, !.x = tailIndex[1]])
  /\ IGo(c, "sizehead")
  /\ UNCHANGED <<counters, tailBlock, index, blocks, pool>>

SizeTail(c) ==
  /\ ipc[c] = "sizetail"
  /\ Know(c, "x", tailIndex[loc[c].ptr])
  /\ IGo(c, "sizehead")
  /\ UNCHANGED <<counters, tailBlock, index, blocks, pool>>

Scored(c) ==
  LET size == loc[c].x - headIndex[loc[c].ptr]
      l == [loc[c] EXCEPT !.x = 0, !.seen = IF size > 0 THEN @ + 1 ELSE @]
  IN IF size > loc[c].size THEN [l EXCEPT !.best = l.ptr, !.size = size] ELSE l

SizeHead(c) ==
  /\ ipc[c] = "sizehead"
  /\ LET l == Scored(c)
     IN \/ /\ l.seen < 3 /\ l.ptr < NProducers
           /\ loc' = Set(loc, c, [l EXCEPT !.ptr = @ + 1])
           /\ IGo(c, "sizetail")
        \/ /\ l.seen = 3 \/ l.ptr = NProducers
           /\ l.seen > 0
           /\ loc' = Set(loc, c, [NoCall EXCEPT !.best = l.best, !.ptr = l.best])
           /\ IGo(c, "loadtail")
        \/ /\ l.seen = 0 /\ l.ptr = NProducers
           /\ IReturn(c)
  /\ UNCHANGED <<counters, tailBlock, index, blocks, pool>>

\* ... the best of them, and when that fails the others in turn.
Others(c) ==
  {p \in IProducers : p # loc[c].best /\ (loc[c].rest => p > loc[c].ptr)}

NextProducer(c) ==
  \/ /\ Others(c) # {}
     /\ \E p \in Others(c) :
          /\ \A q \in Others(c) : p <= q
          /\ loc' = Set(loc, c, [NoCall EXCEPT !.best = loc[c].best, !.ptr = p,
                                               !.rest = TRUE])
     /\ IGo(c, "loadtail")
  \/ /\ Others(c) = {}
     /\ IReturn(c)

(* ImplicitProducer::dequeue *)
LoadTail(c) ==
  /\ ipc[c] = "loadtail"
  /\ Know(c, "x", tailIndex[loc[c].ptr])
  /\ IGo(c, "loadover")
  /\ UNCHANGED <<counters, tailBlock, index, blocks, pool>>

LoadOvercommit(c) ==
  /\ ipc[c] = "loadover"
  /\ Know(c, "over", dequeueOvercommit[loc[c].ptr])
  /\ IGo(c, "check")
  /\ UNCHANGED <<counters, tailBlock, index, blocks, pool>>

Behind(c, count) == count - loc[c].over < loc[c].x

LooksEmpty(c) ==
  /\ ipc[c] = "check" /\ ~Behind(c, dequeueOptimisticCount[loc[c].ptr])
  /\ NextProducer(c)
  /\ UNCHANGED <<counters, tailBlock, index, blocks, pool>>

LooksFull(c) ==
  /\ ipc[c] = "check" /\ Behind(c, dequeueOptimisticCount[loc[c].ptr])
  /\ Know(c, "x", 0)
  /\ IGo(c, "claim")
  /\ UNCHANGED <<counters, tailBlock, index, blocks, pool>>

Claim(c) ==
  /\ ipc[c] = "claim" /\ dequeueOptimisticCount[loc[c].ptr] < load.claims
  /\ Know(c, "x", dequeueOptimisticCount[loc[c].ptr])
  /\ dequeueOptimisticCount' = [dequeueOptimisticCount EXCEPT ![loc[c].ptr] = @ + 1]
  /\ IGo(c, "recheck")
  /\ UNCHANGED <<tailIndex, headIndex, dequeueOvercommit, tailBlock, index, blocks, pool>>

\* Fault: what was claimed is taken without another look at the tail.
RecheckNot(c) ==
  /\ ipc[c] = "recheck"
  /\ IGo(c, "head")
  /\ loc' = [loc EXCEPT ![c].x = 0, ![c].over = 0]
  /\ UNCHANGED <<counters, tailBlock, index, blocks, pool>>

Recheck(c) ==
  /\ ipc[c] = "recheck"
  /\ IGo(c, IF loc[c].x - loc[c].over < tailIndex[loc[c].ptr] THEN "head" ELSE "giveup")
  /\ loc' = [loc EXCEPT ![c].x = 0, ![c].over = 0]
  /\ UNCHANGED <<counters, tailBlock, index, blocks, pool>>

\* Fault: the count is left too high.
GiveUpQuietly(c) ==
  /\ ipc[c] = "giveup"
  /\ NextProducer(c)
  /\ UNCHANGED <<counters, tailBlock, index, blocks, pool>>

GiveUp(c) ==
  /\ ipc[c] = "giveup"
  /\ dequeueOvercommit' = [dequeueOvercommit EXCEPT ![loc[c].ptr] = @ + 1]
  /\ NextProducer(c)
  /\ UNCHANGED <<tailIndex, headIndex, dequeueOptimisticCount, tailBlock, index, blocks, pool>>

TakeHead(c) ==
  /\ ipc[c] = "head"
  /\ Know(c, "x", headIndex[loc[c].ptr])
  /\ headIndex' = [headIndex EXCEPT ![loc[c].ptr] = @ + 1]
  /\ IGo(c, "lookup")
  /\ UNCHANGED <<tailIndex, dequeueOptimisticCount, dequeueOvercommit, tailBlock,
                 index, blocks, pool>>

\* get_block_index_entry_for_index: the index, its tail, and the key there.
LookHeader(c) ==
  /\ ipc[c] = "lookup"
  /\ Know(c, "h", Len(header[loc[c].ptr]))
  /\ IGo(c, "looktail")
  /\ UNCHANGED <<counters, tailBlock, index, blocks, pool>>

LookTail(c) ==
  /\ ipc[c] = "looktail"
  /\ Know(c, "e", header[loc[c].ptr][loc[c].h].tail)
  /\ IGo(c, "lookkey")
  /\ UNCHANGED <<counters, tailBlock, index, blocks, pool>>

LookKey(c) ==
  /\ ipc[c] = "lookkey"
  /\ LET l == loc[c]
         h == header[l.ptr][l.h]
         base == l.x - (l.x % BLOCK_SIZE)
         offset == (base - entry[l.ptr][h.slot[l.e]].key) \div BLOCK_SIZE
     IN loc' = [loc EXCEPT ![c].h = 0, ![c].e = h.slot[(l.e + offset) % IndexCapacity(h)]]
  /\ IGo(c, "loadblock")
  /\ UNCHANGED <<counters, tailBlock, index, blocks, pool>>

LoadBlock(c) ==
  /\ ipc[c] = "loadblock"
  /\ Know(c, "b", entry[loc[c].ptr][loc[c].e].value)
  /\ IGo(c, "move")
  /\ UNCHANGED <<counters, tailBlock, index, blocks, pool>>

\* element = std::move(el), and el is destroyed.
MoveElement(c) ==
  /\ ipc[c] = "move"
  /\ elements' = [elements EXCEPT ![loc[c].b][loc[c].x % BLOCK_SIZE] = None]
  /\ IGo(c, "setempty")
  /\ UNCHANGED <<counters, tailBlock, index, elementsCompletelyDequeued, pool, loc>>

SetEmpty(c) ==
  /\ ipc[c] = "setempty"
  /\ elementsCompletelyDequeued' = [elementsCompletelyDequeued EXCEPT ![loc[c].b] = @ + 1]
  /\ \/ /\ elementsCompletelyDequeued[loc[c].b] = BLOCK_SIZE - 1
        /\ IGo(c, "unlink") /\ loc' = loc
     \/ /\ elementsCompletelyDequeued[loc[c].b] # BLOCK_SIZE - 1
        /\ IReturn(c)
  /\ UNCHANGED <<counters, tailBlock, index, elements, pool>>

\* Fault: the entry goes on pointing to the block.
UnlinkNot(c) ==
  /\ ipc[c] = "unlink"
  /\ IGo(c, "give")
  /\ UNCHANGED <<counters, tailBlock, index, blocks, pool, loc>>

Unlink(c) ==
  /\ ipc[c] = "unlink"
  /\ entry' = [entry EXCEPT ![loc[c].ptr][loc[c].e].value = None]
  /\ IGo(c, "give")
  /\ UNCHANGED <<counters, tailBlock, header, blocks, pool, loc>>

FreeListAdd(c) ==
  /\ ipc[c] = "give"
  /\ freeList' = freeList \cup {loc[c].b}
  /\ IReturn(c)
  /\ UNCHANGED <<counters, tailBlock, index, blocks, initialBlockPoolIndex, created>>

DequeueStep(c) ==
  \/ SizeTail(c) \/ SizeHead(c) \/ LoadTail(c) \/ LoadOvercommit(c)
  \/ LooksEmpty(c) \/ LooksFull(c) \/ Claim(c) \/ Recheck(c) \/ GiveUp(c)
  \/ TakeHead(c) \/ LookHeader(c) \/ LookTail(c) \/ LookKey(c) \/ LoadBlock(c)
  \/ MoveElement(c) \/ SetEmpty(c) \/ Unlink(c) \/ FreeListAdd(c)

IQNext ==
  /\ UNCHANGED load
  /\ \/ \E p \in IProducers : Enqueue(p) \/ EnqueueStep(p)
     \/ \E c \in load.consumers : TryDequeue(c) \/ DequeueStep(c)

IQSpec == IQInit /\ [][IQNext]_iqvars
-----------------------------------------------------------------------------
\* A consumer that was given an element finds the block it is in, with the right
\* number and not given back (the assertion of line 2858), and in it the element
\* that its place in the producer's order stands for.
FindsElement ==
  \A c \in IConsumers : ipc[c] = "move" =>
    LET l == loc[c]
    IN /\ entry[l.ptr][l.e].key = l.x - (l.x % BLOCK_SIZE)
       /\ l.b # None
       /\ elements[l.b][l.x % BLOCK_SIZE] = <<l.ptr, l.x>>

\* No more is taken than was enqueued, though the count that consumers raise may
\* be ahead (lines 2465-2475), nor counted in a block than it holds.
HeadBehindTail ==
  /\ \A p \in IProducers : headIndex[p] <= tailIndex[p]
  /\ \A b \in MemBlocks : elementsCompletelyDequeued[b] <= BLOCK_SIZE

\* A consumer takes the element it claimed, whatever the index and the blocks go
\* through in between, and claims none that is not there (lines 2461-2529).
TakesWhatItClaimed == FindsElement /\ HeadBehindTail

Linked(p) == {entry[p][i].value : i \in DOMAIN entry[p]} \ {None}
InHands == {loc[t].b : t \in {u \in IThreads : ipc[u] \in {"value", "give"}}}

\* A block is in one producer's index, in the free list or on its way between
\* them; a producer fills only a block of its own (lines 2965-3005).
BlocksInOnePlace ==
  /\ \A p, q \in IProducers : p # q => Linked(p) \cap Linked(q) = {}
  /\ freeList \cap (InHands \cup UNION {Linked(p) : p \in IProducers}) = {}
  /\ \A p \in IProducers : ipc[p] = "publish" => tailBlock[p] \in Linked(p)

\* Calls that found less than they counted on leave no trace: when none is under
\* way the counts agree with the head, so that the next call sees what there is.
CountsAgree ==
  (\A c \in IConsumers : ipc[c] = "idle") =>
    \A p \in IProducers :
      dequeueOptimisticCount[p] - dequeueOvercommit[p] = headIndex[p]

\* Every block is in one place, and the counts that calls leave are right.
BlocksAndCountsAgree == BlocksInOnePlace /\ CountsAgree
=============================================================================
