------------------------------- MODULE RteRing -------------------------------
(***************************************************************************)
(* RteRing<T, mode, size> of queue-bench/rte_ring.h, the ring the          *)
(* benchmark compares the library's queues with.  Four positions run round *)
(* the uint32_t circle; a call claims positions with a CAS on its side's   *)
(* head, stores or loads its pointers, waits for the calls that claimed    *)
(* before it and moves its side's tail.                                    *)
(*                                                                         *)
(* The eight functions are one here.  A call for one element is the bulk   *)
(* call with n = 1.  The forms for a single thread (_sp, _sc) take the     *)
(* same steps: where they store the head the CAS of their only thread      *)
(* wins, and where they do not wait for the tail it has arrived.           *)
(* One step is one access to shared memory.                                *)
(***************************************************************************)
EXTENDS Integers

CONSTANTS
  Enqueuers, Dequeuers,
  RingSize,    \* the template parameter, slots of objs_: a power of two, at least 2
  RingMod,     \* values of a uint32_t: more than MaxEnq + RingSize
  RingStarts,  \* where the positions may be when we start looking
  Counts,      \* how many elements a call asks for
  MaxEnq,      \* bound: elements ever claimed by enqueue
  Raw          \* what objs_ holds before the first store

\* Fewer elements pass than a uint32_t has values: the ring has no defence against
\* a thread that sleeps through all of them between its load and its CAS.
RteAssumption ==
  /\ Enqueuers \cap Dequeuers = {}
  /\ RingSize \in Nat /\ RingSize >= 2
  /\ RingMod \in Nat /\ RingMod % RingSize = 0
  /\ RingStarts \subseteq 0 .. (RingMod - 1)
  /\ Counts \subseteq Nat \ {0}
  /\ MaxEnq \in Nat /\ MaxEnq + RingSize < RingMod

VARIABLES
  head, tail,   \* [prod |-> prod_head_ / prod_tail_, cons |-> cons_...]
  objs,         \* objs_
  rpc,          \* where each thread is in its call
  rloc,         \* the locals of its call
  enq, deq,     \* history: elements claimed by enqueue and by dequeue
  org           \* history: the position of element 0

rtevars == <<head, tail, objs, rpc, rloc, enq, deq, org>>

mask == RingSize - 1
RteThreads == Enqueuers \cup Dequeuers
Side(t) == IF t \in Enqueuers THEN "prod" ELSE "cons"
RingU32(i) == i % RingMod

\* max_n, fixed, the local head and n of the call; elements stored or loaded so
\* far; the name of its first element.
NoCall == [max |-> 0, fixed |-> FALSE, old |-> 0, n |-> 0, done |-> 0, tick |-> 0]

RteInit ==
  \E s \in RingStarts :
    /\ head = [prod |-> s, cons |-> s]
    /\ tail = head
    /\ org = s
    /\ objs = [i \in 0 .. mask |-> Raw]
    /\ rpc = [t \in RteThreads |-> "idle"]
    /\ rloc = [t \in RteThreads |-> NoCall]
    /\ enq = 0 /\ deq = 0

RteGoto(t, label) == rpc' = [rpc EXCEPT ![t] = label]
RteReturn(t) == RteGoto(t, "idle") /\ rloc' = [rloc EXCEPT ![t] = NoCall]
-----------------------------------------------------------------------------
(* A call begins with the load of its own head.  fixed: all n or none. *)
Call(t) ==
  /\ rpc[t] = "idle"
  /\ \E n \in Counts, f \in BOOLEAN :
       rloc' = [rloc EXCEPT ![t] = [NoCall EXCEPT !.max = n, !.fixed = f,
                                                !.old = head[Side(t)]]]
  /\ RteGoto(t, "check")
  /\ UNCHANGED <<head, tail, objs, enq, deq, org>>

\* Fault: a ring of RingSize elements, of which a full one looks empty.
EntriesAll(t) ==
  IF t \in Enqueuers THEN RingU32(RingSize + tail["cons"] - rloc[t].old)
                     ELSE RingU32(tail["prod"] - rloc[t].old)

\* free_entries, and entries: the tail of the other side is loaded here.
Entries(t) ==
  IF t \in Enqueuers THEN RingU32(mask + tail["cons"] - rloc[t].old)
                     ELSE RingU32(tail["prod"] - rloc[t].old)

(* RTX_RING_FULL, RTX_RING_NOT_ENOUGH. *)
RteRefuse(t) ==
  /\ rpc[t] = "check"
  /\ rloc[t].max > Entries(t)
  /\ rloc[t].fixed \/ Entries(t) = 0
  /\ RteReturn(t)
  /\ UNCHANGED <<head, tail, objs, enq, deq, org>>

(* As many as there are, or as were asked for. *)
RteAccept(t) ==
  /\ rpc[t] = "check"
  /\ rloc[t].max <= Entries(t) \/ (~rloc[t].fixed /\ Entries(t) # 0)
  /\ rloc' = [rloc EXCEPT ![t].n = IF rloc[t].max > Entries(t)
                                      THEN Entries(t) ELSE rloc[t].max]
  /\ RteGoto(t, "cas")
  /\ UNCHANGED <<head, tail, objs, enq, deq, org>>

\* History: the elements of the claim.
Claim(t) ==
  \/ /\ t \in Enqueuers
     /\ enq + rloc[t].n <= MaxEnq
     /\ enq' = enq + rloc[t].n /\ deq' = deq
     /\ rloc' = [rloc EXCEPT ![t].tick = enq]
  \/ /\ t \in Dequeuers
     /\ deq' = deq + rloc[t].n /\ enq' = enq
     /\ rloc' = [rloc EXCEPT ![t].tick = deq]

RteCasWins(t) ==
  /\ rpc[t] = "cas"
  /\ head[Side(t)] = rloc[t].old
  /\ head' = [head EXCEPT ![Side(t)] = RingU32(@ + rloc[t].n)]
  /\ Claim(t)
  /\ RteGoto(t, "access")
  /\ UNCHANGED <<tail, objs, org>>

(* The head has moved: the loop begins again, n = max_n. *)
RteCasLoses(t) ==
  /\ rpc[t] = "cas"
  /\ head[Side(t)] # rloc[t].old
  /\ RteGoto(t, "load")
  /\ rloc' = [rloc EXCEPT ![t] = [NoCall EXCEPT !.max = rloc[t].max,
                                              !.fixed = rloc[t].fixed]]
  /\ UNCHANGED <<head, tail, objs, enq, deq, org>>

Reload(t) ==
  /\ rpc[t] = "load"
  /\ rloc' = [rloc EXCEPT ![t].old = head[Side(t)]]
  /\ RteGoto(t, "check")
  /\ UNCHANGED <<head, tail, objs, enq, deq, org>>
-----------------------------------------------------------------------------
(* The element a thread has reached, its position, and its slot: masked where *)
(* it is stored, but divided by the mask where it is loaded.                  *)
Element(t) == rloc[t].tick + rloc[t].done
Reached(t) == RingU32(rloc[t].old + rloc[t].done)
StoreSlot(t) == Reached(t) % RingSize
LoadSlot(t) == Reached(t) % mask

AccessDone(t) ==
  /\ rloc' = [rloc EXCEPT ![t].done = @ + 1]
  /\ RteGoto(t, IF rloc[t].done + 1 = rloc[t].n THEN "publish" ELSE "access")
  /\ UNCHANGED <<head, tail, enq, deq, org>>

Store(t) ==
  /\ rpc[t] = "access" /\ t \in Enqueuers
  /\ objs' = [objs EXCEPT ![StoreSlot(t)] = Element(t)]
  /\ AccessDone(t)

Fetch(t) ==
  /\ rpc[t] = "access" /\ t \in Dequeuers
  /\ objs' = objs
  /\ AccessDone(t)

\* Fault: the tail is moved without waiting for the claims before.
MoveTailAtOnce(t) ==
  /\ rpc[t] = "publish"
  /\ tail' = [tail EXCEPT ![Side(t)] = RingU32(@ + rloc[t].n)]
  /\ RteReturn(t)
  /\ UNCHANGED <<head, objs, enq, deq, org>>

(* The wait for the claims before ends: the tail goes to prod_next. *)
MoveTail(t) ==
  /\ rpc[t] = "publish"
  /\ tail[Side(t)] = rloc[t].old
  /\ tail' = [tail EXCEPT ![Side(t)] = RingU32(rloc[t].old + rloc[t].n)]
  /\ RteReturn(t)
  /\ UNCHANGED <<head, objs, enq, deq, org>>

RteStep(t) ==
  \/ RteRefuse(t) \/ RteAccept(t) \/ RteCasWins(t) \/ RteCasLoses(t) \/ Reload(t)
  \/ Store(t) \/ Fetch(t) \/ MoveTail(t)

RteNext == \E t \in RteThreads : Call(t) \/ RteStep(t)

RteFairness == \A t \in RteThreads : WF_rtevars(RteStep(t))
RteSpec == RteInit /\ [][RteNext]_rtevars /\ RteFairness
-----------------------------------------------------------------------------
Ticket(p) == RingU32(p - org)
Published == Ticket(tail["prod"])
Freed == Ticket(tail["cons"])

\* A dequeue that is about to load finds the element its claim stands for
\* (lines 219, 247, 281 and 320).
LoadsOwnElement ==
  \A c \in Dequeuers :
    rpc[c] = "access" => LoadSlot(c) \in DOMAIN objs /\ objs[LoadSlot(c)] = Element(c)

\* A ring that never gets to its last slot, as the benchmark's does, hands over
\* what it was given: a dequeue claims only what has been stored, with any number
\* of calls overlapping (lines 94-128 and 225-259).
FirstLapIsExact == org = 0 /\ enq <= mask => LoadsOwnElement

\* On every lap, wherever the positions wrap, the ring is a bounded queue of
\* RingSize - 1 elements: what is published stays in its slot until a dequeue has
\* claimed and left it, and is claimed in order; and on the first lap what is claimed
\* is what is loaded.
Fifo == INSTANCE BoundedFifo WITH
  Capacity <- mask,
  items <- [i \in 1 .. (Published - deq) |-> objs[RingU32(org + deq + i - 1) % RingSize]],
  appended <- Published,
  filling <- enq - Published,
  draining <- deq - Freed

RteImplementsFifo == Fifo!Spec /\ []FirstLapIsExact

\* A call that has claimed returns, however many others claim before and after.
RteClaimsComplete == \A t \in RteThreads : rpc[t] = "access" ~> rpc[t] = "idle"
=============================================================================
