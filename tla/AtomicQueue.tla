----------------------------- MODULE AtomicQueue -----------------------------
(***************************************************************************)
(* AtomicQueue, AtomicQueue2, AtomicQueueB and AtomicQueueB2 of            *)
(* queue-bench/atomic_queue.h, with RetryDecorator as the benchmark uses   *)
(* them.  A push draws a position from head_ and puts its element in the   *)
(* slot of that position, waiting until the slot is empty; a pop draws one *)
(* from tail_ and waits until its slot holds an element.  Nobody publishes *)
(* anything: calls of different laps may meet at a slot, in any order.     *)
(*   "atomic"   the slot is a std::atomic<T>, empty when it holds NIL      *)
(*   "any"      the slot is a T with a state beside it                     *)
(* AtomicQueueB and AtomicQueueB2 differ in where the slots are allocated  *)
(* only.  The order of the slots in memory (remap_index) is left out: it   *)
(* is a permutation (IndexShuffle).  SPSC is not modelled.                 *)
(***************************************************************************)
EXTENDS Integers, FiniteSets

CONSTANTS
  Producers, Consumers,
  Kinds,       \* which of the two forms of a slot
  Size,        \* size_
  PosMod,      \* values of an unsigned
  Starts,      \* where head_ and tail_ may be when we start looking
  MaxPush,     \* bound: positions ever drawn by pushes
  Nil

ASSUME AqAssumption ==
  /\ Producers \cap Consumers = {}
  /\ IsFiniteSet(Producers) /\ IsFiniteSet(Consumers)
  /\ Kinds \subseteq {"atomic", "any"}
  /\ PosMod \in Nat /\ PosMod % 2 = 0
  /\ Size \in Nat \ {0} /\ PosMod % Size = 0 /\ 2 * Size < PosMod
  /\ Starts \subseteq 0 .. (PosMod - 1)
  /\ MaxPush \in Nat
  /\ Nil \notin Nat

VARIABLES
  kind,             \* the form of the slots, fixed
  head_, tail_,
  state, elements,  \* of each slot
  pc,               \* where each thread is in its call
  at,               \* the position its call has read, or drawn
  hand,             \* the element it has in hand, or Nil
  pushed, popped    \* history: pushes that drew, elements that were popped

aqvars == <<kind, head_, tail_, state, elements, pc, at, hand, pushed, popped>>
slots == <<kind, state, elements>>

Threads == Producers \cup Consumers
Slots == 0 .. (Size - 1)
Slot(t) == at[t] % Size
U32(i) == i % PosMod
\* static_cast<int>
Signed(i) == IF U32(i) < PosMod \div 2 THEN U32(i) ELSE U32(i) - PosMod

AqInit ==
  /\ kind \in Kinds
  /\ head_ \in Starts /\ tail_ = head_
  /\ state = [s \in Slots |-> "EMPTY"]
  /\ elements = [s \in Slots |-> Nil]
  /\ pc = [t \in Threads |-> "idle"]
  /\ at = [t \in Threads |-> 0]
  /\ hand = [t \in Threads |-> Nil]
  /\ pushed = 0 /\ popped = {}

Goto(t, label) == pc' = [pc EXCEPT ![t] = label]
Remember(t, i) == at' = [at EXCEPT ![t] = i]
Return(t) == Goto(t, "idle") /\ Remember(t, 0) /\ hand' = [hand EXCEPT ![t] = Nil]
-----------------------------------------------------------------------------
(* try_push and try_pop: the counter of the own side ... *)
Try(t) ==
  /\ pc[t] = "idle"
  /\ Remember(t, IF t \in Producers THEN head_ ELSE tail_)
  /\ Goto(t, "check")
  /\ UNCHANGED <<slots, head_, tail_, hand, pushed, popped>>

\* Fault: a queue is full with one element more.
FullLate(t) == IF t \in Producers THEN Signed(at[t] - tail_) > Size
                                  ELSE Signed(head_ - at[t]) <= 0

(* ... against that of the other one. *)
Full(t) == IF t \in Producers THEN Signed(at[t] - tail_) >= Size
                              ELSE Signed(head_ - at[t]) <= 0

Refuse(t) ==
  /\ pc[t] = "check" /\ Full(t)
  /\ Return(t)
  /\ UNCHANGED <<slots, head_, tail_, pushed, popped>>

Accept(t) ==
  /\ pc[t] = "check" /\ ~Full(t)
  /\ Goto(t, "cas")
  /\ UNCHANGED <<slots, head_, tail_, at, hand, pushed, popped>>

(* The CAS draws the position.  A push has its element in hand. *)
DrawHead(t) ==
  /\ pc[t] = "cas" /\ t \in Producers /\ head_ = at[t]
  /\ pushed < MaxPush
  /\ head_' = U32(head_ + 1)
  /\ hand' = [hand EXCEPT ![t] = pushed]
  /\ pushed' = pushed + 1
  /\ Goto(t, "slot")
  /\ UNCHANGED <<slots, tail_, at, popped>>

DrawTail(t) ==
  /\ pc[t] = "cas" /\ t \in Consumers /\ tail_ = at[t]
  /\ tail_' = U32(tail_ + 1)
  /\ Goto(t, "slot")
  /\ UNCHANGED <<slots, head_, at, hand, pushed, popped>>

\* Fault: the position that the failed CAS brings is not checked.
CasLosesUnchecked(t) ==
  /\ pc[t] = "cas" /\ at[t] # (IF t \in Producers THEN head_ ELSE tail_)
  /\ Remember(t, IF t \in Producers THEN head_ ELSE tail_)
  /\ UNCHANGED <<slots, pc, head_, tail_, hand, pushed, popped>>

CasLoses(t) ==
  /\ pc[t] = "cas" /\ at[t] # (IF t \in Producers THEN head_ ELSE tail_)
  /\ Remember(t, IF t \in Producers THEN head_ ELSE tail_)
  /\ Goto(t, "check")
  /\ UNCHANGED <<slots, head_, tail_, hand, pushed, popped>>
-----------------------------------------------------------------------------
SetState(s, x) == state' = [state EXCEPT ![s] = x]

(* do_push_atomic: one CAS from NIL puts the element in. *)
PushAtomic(t) ==
  /\ kind = "atomic" /\ pc[t] = "slot" /\ t \in Producers
  /\ elements[Slot(t)] = Nil
  /\ elements' = [elements EXCEPT ![Slot(t)] = hand[t]]
  /\ Return(t)
  /\ UNCHANGED <<kind, state, head_, tail_, pushed, popped>>

\* Fault: the element is read, and NIL stored later.
PopAtomicLoad(t) ==
  /\ kind = "atomic" /\ pc[t] = "slot" /\ t \in Consumers
  /\ elements[Slot(t)] # Nil
  /\ popped' = popped \cup {elements[Slot(t)]}
  /\ Return(t)
  /\ UNCHANGED <<slots, head_, tail_, pushed>>

(* do_pop_atomic: exchange with NIL, until an element comes out. *)
PopAtomic(t) ==
  /\ kind = "atomic" /\ pc[t] = "slot" /\ t \in Consumers
  /\ elements[Slot(t)] # Nil
  /\ popped' = popped \cup {elements[Slot(t)]}
  /\ elements' = [elements EXCEPT ![Slot(t)] = Nil]
  /\ Return(t)
  /\ UNCHANGED <<kind, state, head_, tail_, pushed>>

(* do_push_any: EMPTY -> STORING, the element, STORED. *)
BeginPush(t) ==
  /\ kind = "any" /\ pc[t] = "slot" /\ t \in Producers
  /\ state[Slot(t)] = "EMPTY"
  /\ SetState(Slot(t), "STORING")
  /\ Goto(t, "move")
  /\ UNCHANGED <<kind, elements, head_, tail_, at, hand, pushed, popped>>

MoveIn(t) ==
  /\ pc[t] = "move" /\ t \in Producers
  /\ elements' = [elements EXCEPT ![Slot(t)] = hand[t]]
  /\ hand' = [hand EXCEPT ![t] = Nil]
  /\ Goto(t, "end")
  /\ UNCHANGED <<kind, state, head_, tail_, at, pushed, popped>>

EndPush(t) ==
  /\ pc[t] = "end" /\ t \in Producers
  /\ SetState(Slot(t), "STORED")
  /\ Return(t)
  /\ UNCHANGED <<kind, elements, head_, tail_, pushed, popped>>

(* do_pop_any: STORED -> LOADING, the element, EMPTY. *)
BeginPop(t) ==
  /\ kind = "any" /\ pc[t] = "slot" /\ t \in Consumers
  /\ state[Slot(t)] = "STORED"
  /\ SetState(Slot(t), "LOADING")
  /\ Goto(t, "move")
  /\ UNCHANGED <<kind, elements, head_, tail_, at, hand, pushed, popped>>

MoveOut(t) ==
  /\ pc[t] = "move" /\ t \in Consumers
  /\ hand' = [hand EXCEPT ![t] = elements[Slot(t)]]
  /\ elements' = [elements EXCEPT ![Slot(t)] = Nil]
  /\ Goto(t, "end")
  /\ UNCHANGED <<kind, state, head_, tail_, at, pushed, popped>>

EndPop(t) ==
  /\ pc[t] = "end" /\ t \in Consumers
  /\ SetState(Slot(t), "EMPTY")
  /\ popped' = popped \cup {hand[t]}
  /\ Return(t)
  /\ UNCHANGED <<kind, elements, head_, tail_, pushed>>

Step(t) ==
  \/ Refuse(t) \/ Accept(t) \/ DrawHead(t) \/ DrawTail(t) \/ CasLoses(t)
  \/ PushAtomic(t) \/ PopAtomic(t)
  \/ BeginPush(t) \/ MoveIn(t) \/ EndPush(t)
  \/ BeginPop(t) \/ MoveOut(t) \/ EndPop(t)

AqNext == \E t \in Threads : Try(t) \/ Step(t)

AqSpec == AqInit /\ [][AqNext]_aqvars

AqFairness == \A t \in Threads : WF_aqvars(Step(t))
-----------------------------------------------------------------------------
Held == {hand[t] : t \in Threads} \ {Nil}
Stored == {elements[s] : s \in Slots} \ {Nil}

\* The slots and the hands together hold each element at most once.
OnePlace ==
  /\ Held \cap Stored = {} /\ (Held \cup Stored) \cap popped = {}
  /\ \A s, r \in Slots : s # r /\ elements[s] # Nil => elements[s] # elements[r]
  /\ \A t, u \in Threads : t # u /\ hand[t] # Nil => hand[t] # hand[u]

\* Whatever calls of different laps meet at a slot: of the elements ever pushed
\* each is in one place, in the hand of a call, in a slot or popped, and none is
\* lost, overwritten or popped twice (lines 190-276).
AqConserves == OnePlace /\ Held \cup Stored \cup popped = 0 .. (pushed - 1)

\* The positions that have been drawn: pops never more than pushes, pushes never
\* more than the pops and one lap, though each call compares counters that it
\* read at different times (lines 280-317).
AqDrawsInBounds == Signed(head_ - tail_) \in 0 .. Size

\* Nothing is lost, and no call draws a position that leaves it waiting for room or
\* for an element that is not promised.
AqKeepsAll == AqConserves /\ AqDrawsInBounds

\* A call that has drawn a position ends: a pop draws only what a push has drawn
\* before, and whoever waits at a slot has a partner that comes.
AqDrawsComplete == \A t \in Threads : pc[t] = "slot" ~> pc[t] = "idle"
=============================================================================
