----------------------------- MODULE RingsProofs -----------------------------
(***************************************************************************)
(* Theorems about the two rings that the benchmark compares with and about *)
(* the pool of threads with its allocator, for any number of threads and   *)
(* any size.                                                               *)
(*                                                                         *)
(* The queues of atomic_queue.h, both forms of a slot, lose, overwrite and *)
(* double no element, whichever laps their calls are in (Conserves); and   *)
(* while fewer elements are pushed than the counters have values, each is  *)
(* popped at most once and none that was not pushed (KeepsAll).            *)
(*                                                                         *)
(* RteRing is a bounded queue by what it stores, on every lap, while fewer *)
(* elements pass than a uint32_t has values; and by what it loads before   *)
(* it gets to its last slot.  The invariant: the four positions keep their *)
(* order; what a call has read of them was true once and is still on the   *)
(* safe side; the claims of a side lie apart between its tail and its      *)
(* head; and every element that is published, or stored by a call that has *)
(* yet to publish it, is in its slot until the slot is given back.         *)
(*                                                                         *)
(* ThreadPool: the busy bits tell who waits; the tasks are begun in the    *)
(* order of their lanes; and the memory of the tasks is accounted for,     *)
(* because each block is in one home at a time and what is in none belongs *)
(* to a call that was refused.                                             *)
(***************************************************************************)
EXTENDS AtomicQueue, RteRing, ThreadPool, FiniteSetTheorems, SequenceTheorems, TLAPS

(***************************************************************************)
(* atomic_queue.h.                                                         *)
(***************************************************************************)
AqTypes ==
  /\ kind \in {"atomic", "any"}
  /\ state \in [Slots -> {"EMPTY", "STORING", "STORED", "LOADING"}]
  /\ elements \in [Slots -> Nat \cup {Nil}]
  /\ pc \in [Threads -> {"idle", "check", "cas", "slot", "move", "end"}]
  /\ at \in [Threads -> Nat]
  /\ hand \in [Threads -> Nat \cup {Nil}]
  /\ pushed \in Nat
  /\ head_ \in 0 .. (PosMod - 1) /\ tail_ \in 0 .. (PosMod - 1)

\* Who has an element in hand: a push until it has put it into the slot, a pop
\* between its two changes of the state.
HasElement(t) ==
  IF t \in Producers THEN pc[t] \in {"slot", "move"} ELSE pc[t] = "end"

Inside(t) == pc[t] \in {"move", "end"}

\* What a call between its two changes of the state finds in its slot.
SlotIsMine(t) ==
  /\ kind = "any"
  /\ state[Slot(t)] = IF t \in Producers THEN "STORING" ELSE "LOADING"
  /\ elements[Slot(t)] # Nil <=> (t \in Producers <=> pc[t] = "end")

StateTells(x) ==
  /\ state[x] = "EMPTY" => elements[x] = Nil
  /\ state[x] = "STORED" => elements[x] # Nil

\* A slot that is STORING or LOADING for somebody is nobody else's, and the state
\* tells whether there is an element in the slot.
SlotsAreOwned ==
  /\ \A t \in Threads : hand[t] # Nil <=> HasElement(t)
  /\ \A t \in Threads : Inside(t) => SlotIsMine(t)
  /\ \A t, u \in Threads : t # u /\ Inside(t) /\ Inside(u) => Slot(t) # Slot(u)
  /\ kind = "any" => \A x \in Slots : StateTells(x)

\* Each element that was ever drawn for is in one place.
PlacesDiffer ==
  /\ \A t, u \in Threads : t # u /\ hand[t] # Nil => hand[t] # hand[u]
  /\ \A x, y \in Slots : x # y /\ elements[x] # Nil => elements[x] # elements[y]
  /\ \A t \in Threads, x \in Slots : hand[t] # Nil => hand[t] # elements[x]
  /\ \A t \in Threads : hand[t] \notin popped
  /\ \A x \in Slots : elements[x] \notin popped

PlacesHoldAll ==
  /\ \A t \in Threads : hand[t] # Nil => hand[t] < pushed
  /\ \A x \in Slots : elements[x] # Nil => elements[x] < pushed
  /\ \A e \in popped : e \in Nat /\ e < pushed
  /\ \A e \in Nat : e < pushed =>
       e \in popped \/ (\E t \in Threads : hand[t] = e) \/ (\E x \in Slots : elements[x] = e)

AqInv == AqTypes /\ SlotsAreOwned /\ PlacesDiffer /\ PlacesHoldAll
-----------------------------------------------------------------------------
LEMMA SlotOfThread ==
  ASSUME AqTypes, NEW t \in Threads
  PROVE  Slot(t) \in Slots
<1>1. at[t] \in Nat /\ Size \in Nat /\ Size > 0
  BY AqAssumption DEF AqTypes
<1> QED
  BY <1>1 DEF Slot, Slots

\* The places say what AqConserves says.
LEMMA PlacesConserve == AqInv => AqConserves
<1> SUFFICES ASSUME AqInv PROVE AqConserves
  OBVIOUS
<1>1. Nil \notin Nat
  BY AqAssumption
<1>2. Held \subseteq Nat /\ Stored \subseteq Nat
  BY DEF AqInv, AqTypes, Held, Stored
<1>3. Held \cap Stored = {}
  BY <1>2, <1>1 DEF AqInv, PlacesDiffer, Held, Stored
<1>4. (Held \cup Stored) \cap popped = {}
  BY DEF AqInv, PlacesDiffer, Held, Stored
<1>5. OnePlace
  BY <1>3, <1>4 DEF AqInv, PlacesDiffer, OnePlace
<1>6. pushed \in Nat
  BY DEF AqInv, AqTypes
<1>7. \A e \in Held \cup Stored \cup popped : e \in Nat /\ e < pushed
  BY <1>2 DEF AqInv, PlacesHoldAll, Held, Stored
<1>8. \A e \in Nat : e < pushed => e \in Held \cup Stored \cup popped
  BY <1>1 DEF AqInv, PlacesHoldAll, Held, Stored
<1>9. Held \cup Stored \cup popped = 0 .. (pushed - 1)
  BY <1>6, <1>7, <1>8
<1> QED
  BY <1>5, <1>9 DEF AqConserves
-----------------------------------------------------------------------------
(* What a step does with the elements. *)

Still == UNCHANGED <<hand, elements, popped, pushed>>

Enters(t) ==
  /\ hand[t] = Nil /\ hand' = [hand EXCEPT ![t] = pushed] /\ pushed' = pushed + 1
  /\ UNCHANGED <<elements, popped>>

HandToSlot(t, x) ==
  /\ hand[t] # Nil /\ elements[x] = Nil
  /\ hand' = [hand EXCEPT ![t] = Nil] /\ elements' = [elements EXCEPT ![x] = hand[t]]
  /\ UNCHANGED <<popped, pushed>>

SlotToHand(t, x) ==
  /\ hand[t] = Nil /\ elements[x] # Nil
  /\ hand' = [hand EXCEPT ![t] = elements[x]] /\ elements' = [elements EXCEPT ![x] = Nil]
  /\ UNCHANGED <<popped, pushed>>

SlotOut(x) ==
  /\ elements[x] # Nil
  /\ elements' = [elements EXCEPT ![x] = Nil] /\ popped' = popped \cup {elements[x]}
  /\ UNCHANGED <<hand, pushed>>

HandOut(t) ==
  /\ hand[t] # Nil
  /\ hand' = [hand EXCEPT ![t] = Nil] /\ popped' = popped \cup {hand[t]}
  /\ UNCHANGED <<elements, pushed>>

Moves == \/ Still
         \/ \E t \in Threads : Enters(t) \/ HandOut(t)
         \/ \E x \in Slots : SlotOut(x)
         \/ \E t \in Threads, x \in Slots : HandToSlot(t, x) \/ SlotToHand(t, x)

Places == PlacesDiffer /\ PlacesHoldAll

\* However elements move, each stays in one place.
LEMMA MovesKeepPlaces ==
  ASSUME AqTypes, Places, Moves
  PROVE  Places'
<1>1. /\ Nil \notin Nat /\ pushed \in Nat
      /\ hand \in [Threads -> Nat \cup {Nil}] /\ elements \in [Slots -> Nat \cup {Nil}]
      /\ \A e \in popped : e \in Nat /\ e < pushed
  BY AqAssumption DEF AqTypes, Places, PlacesHoldAll
<1> USE DEF Places, PlacesDiffer, PlacesHoldAll
<1>2. CASE Still
  BY <1>2 DEF Still
<1>3. ASSUME NEW t \in Threads, Enters(t) PROVE Places'
  <2>1. /\ hand[t] = Nil /\ pushed' = pushed + 1 /\ elements' = elements /\ popped' = popped
        /\ hand' = [hand EXCEPT ![t] = pushed]
    BY <1>3 DEF Enters
  <2>2. hand'[t] = pushed /\ \A u \in Threads : u # t => hand'[u] = hand[u]
    BY <1>1, <2>1
  <2>3. PlacesDiffer'
    BY <1>1, <2>1, <2>2
  <2>4. PlacesHoldAll'
    <3>1. \A u \in Threads : hand'[u] # Nil => hand'[u] < pushed'
      BY <1>1, <2>1, <2>2
    <3>2. \A e \in Nat : e < pushed' =>
            e \in popped \/ (\E u \in Threads : hand'[u] = e) \/ (\E x \in Slots : elements[x] = e)
      <4> TAKE e \in Nat
      <4> HAVE e < pushed'
      <4>1. CASE e = pushed
        BY <2>2, <4>1
      <4>2. CASE e < pushed
        BY <1>1, <2>1, <2>2, <4>2
      <4> QED
        BY <1>1, <2>1, <4>1, <4>2
    <3> QED
      BY <1>1, <2>1, <3>1, <3>2
  <2> QED
    BY <2>3, <2>4
<1>4. ASSUME NEW t \in Threads, HandOut(t) PROVE Places'
  <2>1. /\ hand[t] # Nil /\ popped' = popped \cup {hand[t]} /\ UNCHANGED <<elements, pushed>>
        /\ hand'[t] = Nil /\ \A u \in Threads : u # t => hand'[u] = hand[u]
    BY <1>1, <1>4 DEF HandOut
  <2>2. PlacesDiffer'
    BY <1>1, <2>1
  <2>3. PlacesHoldAll'
    BY <1>1, <2>1
  <2> QED
    BY <2>2, <2>3
<1>5. ASSUME NEW x \in Slots, SlotOut(x) PROVE Places'
  <2>1. /\ elements[x] # Nil /\ popped' = popped \cup {elements[x]} /\ UNCHANGED <<hand, pushed>>
        /\ elements'[x] = Nil /\ \A y \in Slots : y # x => elements'[y] = elements[y]
    BY <1>1, <1>5 DEF SlotOut
  <2>2. PlacesDiffer'
    BY <1>1, <2>1
  <2>3. PlacesHoldAll'
    BY <1>1, <2>1
  <2> QED
    BY <2>2, <2>3
<1>6. ASSUME NEW t \in Threads, NEW x \in Slots, HandToSlot(t, x) PROVE Places'
  <2>1. /\ hand[t] # Nil /\ elements[x] = Nil /\ UNCHANGED <<popped, pushed>>
        /\ hand'[t] = Nil /\ \A u \in Threads : u # t => hand'[u] = hand[u]
        /\ elements'[x] = hand[t] /\ \A y \in Slots : y # x => elements'[y] = elements[y]
    BY <1>1, <1>6 DEF HandToSlot
  <2>2. PlacesDiffer'
    BY <1>1, <2>1
  <2>3. PlacesHoldAll'
    BY <1>1, <2>1
  <2> QED
    BY <2>2, <2>3
<1>7. ASSUME NEW t \in Threads, NEW x \in Slots, SlotToHand(t, x) PROVE Places'
  <2>1. /\ hand[t] = Nil /\ elements[x] # Nil /\ UNCHANGED <<popped, pushed>>
        /\ hand'[t] = elements[x] /\ \A u \in Threads : u # t => hand'[u] = hand[u]
        /\ elements'[x] = Nil /\ \A y \in Slots : y # x => elements'[y] = elements[y]
    BY <1>1, <1>7 DEF SlotToHand
  <2>2. PlacesDiffer'
    BY <1>1, <2>1
  <2>3. PlacesHoldAll'
    BY <1>1, <2>1
  <2> QED
    BY <2>2, <2>3
<1> QED
  BY <1>2, <1>3, <1>4, <1>5, <1>6, <1>7 DEF Moves
-----------------------------------------------------------------------------
(* Each step is such a move, and keeps the types and the owners. *)

LEMMA CountersWrap == \A i \in Int : U32(i) \in 0 .. (PosMod - 1)
  BY AqAssumption DEF U32

LEMMA InitInvariant == AqInit => AqInv
<1> SUFFICES ASSUME AqInit PROVE AqInv
  OBVIOUS
<1>1. AqTypes
  BY AqAssumption DEF AqInit, AqTypes
<1>2. /\ \A t \in Threads : hand[t] = Nil /\ pc[t] = "idle"
      /\ \A x \in Slots : elements[x] = Nil /\ state[x] = "EMPTY"
      /\ pushed = 0 /\ popped = {}
  BY DEF AqInit
<1>3. SlotsAreOwned
  BY <1>2 DEF SlotsAreOwned, Inside, HasElement, StateTells
<1>4. PlacesDiffer
  BY <1>2, AqAssumption DEF PlacesDiffer
<1>5. PlacesHoldAll
  BY <1>2 DEF PlacesHoldAll
<1> QED
  BY <1>1, <1>3, <1>4, <1>5 DEF AqInv

LEMMA AqStepTypes ==
  ASSUME AqTypes, AqNext
  PROVE  AqTypes'
<1>1. PICK t \in Threads : Try(t) \/ Step(t)
  BY DEF AqNext
<1>2. Slot(t) \in Slots
  BY SlotOfThread
<1>3. U32(head_ + 1) \in 0 .. (PosMod - 1) /\ U32(tail_ + 1) \in 0 .. (PosMod - 1)
  BY CountersWrap DEF AqTypes
<1>4. 0 .. (PosMod - 1) \subseteq Nat
  OBVIOUS
<1> USE DEF AqTypes, slots, Goto, Remember, Return, SetState
<1>5. CASE Try(t)
  BY <1>4, <1>5 DEF Try
<1>6. CASE Refuse(t) \/ Accept(t)
  BY <1>6 DEF Refuse, Accept
<1>7. CASE DrawHead(t) \/ DrawTail(t)
  BY <1>3, <1>7 DEF DrawHead, DrawTail
<1>8. CASE CasLoses(t)
  BY <1>4, <1>8 DEF CasLoses
<1>9. CASE PushAtomic(t)
  BY <1>2, <1>9 DEF PushAtomic
<1>10. CASE PopAtomic(t)
  BY <1>2, <1>10 DEF PopAtomic
<1>11. CASE BeginPush(t) \/ BeginPop(t)
  BY <1>2, <1>11 DEF BeginPush, BeginPop
<1>12. CASE MoveIn(t)
  BY <1>2, <1>12 DEF MoveIn
<1>13. CASE MoveOut(t)
  BY <1>2, <1>13 DEF MoveOut
<1>14. CASE EndPush(t) \/ EndPop(t)
  BY <1>2, <1>14 DEF EndPush, EndPop
<1> QED
  BY <1>1, <1>5, <1>6, <1>7, <1>8, <1>9, <1>10, <1>11, <1>12, <1>13, <1>14 DEF Step

LEMMA StepMoves ==
  ASSUME AqTypes, SlotsAreOwned, AqNext
  PROVE  Moves
<1>1. PICK t \in Threads : Try(t) \/ Step(t)
  BY DEF AqNext
<1>2. Slot(t) \in Slots
  BY SlotOfThread
<1>3. /\ hand \in [Threads -> Nat \cup {Nil}]
      /\ hand[t] # Nil <=> HasElement(t)
      /\ Inside(t) => (elements[Slot(t)] # Nil <=> (t \in Producers <=> pc[t] = "end"))
      /\ t \in Producers <=> t \notin Consumers
  BY AqAssumption DEF AqTypes, SlotsAreOwned, SlotIsMine, Threads
<1>4. hand[t] = Nil => [hand EXCEPT ![t] = Nil] = hand
  BY <1>3
<1> USE <1>3 DEF slots, Goto, Remember, Return, SetState, HasElement, Inside
<1>5. CASE Try(t) \/ Accept(t) \/ DrawTail(t) \/ CasLoses(t) \/ BeginPush(t) \/ BeginPop(t)
  BY <1>5 DEF Try, Accept, DrawTail, CasLoses, BeginPush, BeginPop, Moves, Still
<1>6. CASE Refuse(t)
  BY <1>4, <1>6 DEF Refuse, Moves, Still
<1>7. CASE EndPush(t)
  BY <1>4, <1>7 DEF EndPush, Moves, Still
<1>8. CASE DrawHead(t)
  BY <1>8 DEF DrawHead, Moves, Enters
<1>9. CASE PushAtomic(t)
  <2>1. hand[t] # Nil /\ elements[Slot(t)] = Nil
    BY <1>9 DEF PushAtomic
  <2>2. HandToSlot(t, Slot(t))
    BY <1>9, <2>1 DEF PushAtomic, HandToSlot
  <2> QED
    BY <1>2, <2>2 DEF Moves
<1>10. CASE MoveIn(t)
  <2>1. hand[t] # Nil /\ elements[Slot(t)] = Nil
    BY <1>10 DEF MoveIn
  <2>2. HandToSlot(t, Slot(t))
    BY <1>10, <2>1 DEF MoveIn, HandToSlot
  <2> QED
    BY <1>2, <2>2 DEF Moves
<1>11. CASE PopAtomic(t)
  <2>1. SlotOut(Slot(t))
    BY <1>4, <1>11 DEF PopAtomic, SlotOut
  <2> QED
    BY <1>2, <2>1 DEF Moves
<1>12. CASE MoveOut(t)
  <2>1. SlotToHand(t, Slot(t))
    BY <1>12 DEF MoveOut, SlotToHand
  <2> QED
    BY <1>2, <2>1 DEF Moves
<1>13. CASE EndPop(t)
  BY <1>13 DEF EndPop, Moves, HandOut
<1> QED
  BY <1>1, <1>5, <1>6, <1>7, <1>8, <1>9, <1>10, <1>11, <1>12, <1>13 DEF Step

\* A step of t that leaves the slots of the others alone disturbs the owners only
\* where t is.
LEMMA OthersKeep ==
  ASSUME AqTypes, SlotsAreOwned, NEW t \in Threads, kind' = kind,
         \A u \in Threads : u # t => /\ pc'[u] = pc[u] /\ at'[u] = at[u]
                                     /\ hand'[u] = hand[u],
         \A x \in Slots : x # Slot(t) => state'[x] = state[x] /\ elements'[x] = elements[x],
         (elements'[Slot(t)] # elements[Slot(t)] \/ state'[Slot(t)] # state[Slot(t)])
           => \A u \in Threads : u # t /\ Inside(u) => Slot(u) # Slot(t),
         hand'[t] # Nil <=> HasElement(t)',
         Inside(t)' => /\ SlotIsMine(t)' /\ Slot(t)' = Slot(t)
                       /\ \A u \in Threads : u # t /\ Inside(u) => Slot(u) # Slot(t),
         kind = "any" => \A x \in Slots : x = Slot(t) => StateTells(x)'
  PROVE  SlotsAreOwned'
<1>1. \A u \in Threads : Slot(u) \in Slots
  BY SlotOfThread
<1>2. \A u \in Threads : u # t => /\ Slot(u)' = Slot(u) /\ (Inside(u)' <=> Inside(u))
                                  /\ (HasElement(u)' <=> HasElement(u))
  BY DEF Slot, Inside, HasElement
<1>3. \A u \in Threads : hand'[u] # Nil <=> HasElement(u)'
  BY <1>2 DEF SlotsAreOwned
<1>4. ASSUME NEW u \in Threads, Inside(u)' PROVE SlotIsMine(u)'
  <2>1. CASE u = t
    BY <1>4, <2>1
  <2>2. CASE u # t
    <3>1. Inside(u) /\ SlotIsMine(u)
      BY <1>2, <1>4, <2>2 DEF SlotsAreOwned
    <3>2. state'[Slot(u)] = state[Slot(u)] /\ elements'[Slot(u)] = elements[Slot(u)]
      BY <1>1, <2>2, <3>1
    <3>3. Slot(u)' = Slot(u) /\ pc'[u] = pc[u]
      BY <1>2, <2>2
    <3> QED
      BY <3>1, <3>2, <3>3 DEF SlotIsMine
  <2> QED
    BY <2>1, <2>2
<1>5. ASSUME NEW u \in Threads, NEW v \in Threads, u # v, Inside(u)', Inside(v)'
      PROVE  Slot(u)' # Slot(v)'
  BY <1>2, <1>5 DEF SlotsAreOwned
<1>6. ASSUME kind = "any", NEW x \in Slots PROVE StateTells(x)'
  <2>1. CASE x = Slot(t)
    BY <1>6, <2>1
  <2>2. CASE x # Slot(t)
    BY <1>6, <2>2 DEF SlotsAreOwned, StateTells
  <2> QED
    BY <2>1, <2>2
<1> QED
  BY <1>3, <1>4, <1>5, <1>6 DEF SlotsAreOwned

LEMMA StepOwned ==
  ASSUME AqTypes, SlotsAreOwned, AqNext
  PROVE  SlotsAreOwned'
<1>1. PICK t \in Threads : Try(t) \/ Step(t)
  BY DEF AqNext
<1>2. Slot(t) \in Slots /\ \A u \in Threads : Slot(u) \in Slots
  BY SlotOfThread
<1>3. /\ hand \in [Threads -> Nat \cup {Nil}] /\ at \in [Threads -> Nat]
      /\ pc \in [Threads -> {"idle", "check", "cas", "slot", "move", "end"}]
      /\ elements \in [Slots -> Nat \cup {Nil}]
      /\ state \in [Slots -> {"EMPTY", "STORING", "STORED", "LOADING"}]
  BY DEF AqTypes
<1>4. /\ hand[t] # Nil <=> HasElement(t)
      /\ Inside(t) => SlotIsMine(t)
      /\ kind = "any" => \A x \in Slots : x = Slot(t) => StateTells(x)
      /\ t \in Producers <=> t \notin Consumers
  BY AqAssumption DEF SlotsAreOwned, Threads
\* Whoever is inside, finds the state that he has set.
<1>5. \A u \in Threads : Inside(u) /\ Slot(u) = Slot(t) =>
        kind = "any" /\ state[Slot(t)] \in {"STORING", "LOADING"}
  BY DEF SlotsAreOwned, SlotIsMine
<1>6. Inside(t) => \A u \in Threads : u # t /\ Inside(u) => Slot(u) # Slot(t)
  BY DEF SlotsAreOwned
<1>7. at'[t] = at[t] => Slot(t)' = Slot(t)
  BY DEF Slot
<1> DEFINE Elsewhere == /\ kind' = kind
                        /\ \A u \in Threads : u # t =>
                             pc'[u] = pc[u] /\ at'[u] = at[u] /\ hand'[u] = hand[u]
                        /\ \A x \in Slots : x # Slot(t) =>
                             state'[x] = state[x] /\ elements'[x] = elements[x]
<1>8. Elsewhere
  <2> USE DEF slots, Goto, Remember, Return, SetState
  <2>1. CASE Try(t) \/ Refuse(t) \/ Accept(t) \/ CasLoses(t)
    BY <1>3, <2>1 DEF Try, Refuse, Accept, CasLoses
  <2>2. CASE DrawHead(t) \/ DrawTail(t)
    BY <1>3, <2>2 DEF DrawHead, DrawTail
  <2>3. CASE PushAtomic(t) \/ PopAtomic(t)
    BY <1>3, <2>3 DEF PushAtomic, PopAtomic
  <2>4. CASE BeginPush(t) \/ BeginPop(t)
    BY <1>3, <2>4 DEF BeginPush, BeginPop
  <2>5. CASE MoveIn(t) \/ MoveOut(t)
    BY <1>3, <2>5 DEF MoveIn, MoveOut
  <2>6. CASE EndPush(t) \/ EndPop(t)
    BY <1>3, <2>6 DEF EndPush, EndPop
  <2> QED
    BY <1>1, <2>1, <2>2, <2>3, <2>4, <2>5, <2>6 DEF Step
<1> DEFINE Here == /\ (elements'[Slot(t)] # elements[Slot(t)] \/ state'[Slot(t)] # state[Slot(t)])
                        => \A u \in Threads : u # t /\ Inside(u) => Slot(u) # Slot(t)
                   /\ hand'[t] # Nil <=> HasElement(t)'
                   /\ Inside(t)' => /\ SlotIsMine(t)' /\ Slot(t)' = Slot(t)
                                    /\ \A u \in Threads : u # t /\ Inside(u) => Slot(u) # Slot(t)
                   /\ kind = "any" => \A x \in Slots : x = Slot(t) => StateTells(x)'
<1>9. Here
  <2> USE <1>2, <1>3, <1>4 DEF slots, Goto, Remember, Return, SetState, HasElement, Inside, StateTells
  <2>1. CASE Try(t)
    BY <2>1 DEF Try
  <2>2. CASE Refuse(t) \/ Accept(t) \/ CasLoses(t)
    BY <2>2 DEF Refuse, Accept, CasLoses
  <2>3. CASE DrawHead(t) \/ DrawTail(t)
    BY <2>3, AqAssumption DEF DrawHead, DrawTail, AqTypes
  <2>4. CASE PushAtomic(t) \/ PopAtomic(t)
    BY <1>5, <2>4 DEF PushAtomic, PopAtomic
  <2>5. CASE BeginPush(t) \/ BeginPop(t)
    BY <1>5, <1>7, <2>5 DEF BeginPush, BeginPop, SlotIsMine
  <2>6. CASE MoveIn(t)
    BY <1>6, <1>7, <2>6 DEF MoveIn, SlotIsMine
  <2>7. CASE MoveOut(t)
    BY <1>6, <1>7, <2>7 DEF MoveOut, SlotIsMine
  <2>8. CASE EndPush(t) \/ EndPop(t)
    BY <1>6, <2>8 DEF EndPush, EndPop, SlotIsMine
  <2> QED
    BY <1>1, <2>1, <2>2, <2>3, <2>4, <2>5, <2>6, <2>7, <2>8 DEF Step
<1> QED
  BY <1>8, <1>9, OthersKeep

\* Each element ever pushed is in one place: in the hand of one call, in one slot or
\* popped, whatever the laps of the calls that meet at a slot (lines 190-276).
THEOREM Conserves == AqSpec => []AqConserves
<1>1. AqInit => AqInv
  BY InitInvariant
<1>2. AqInv /\ [AqNext]_aqvars => AqInv'
  <2> SUFFICES ASSUME AqInv, [AqNext]_aqvars PROVE AqInv'
    OBVIOUS
  <2>1. CASE AqNext
    <3>1. AqTypes' /\ SlotsAreOwned'
      BY <2>1, AqStepTypes, StepOwned DEF AqInv
    <3>2. Places'
      BY <2>1, StepMoves, MovesKeepPlaces DEF AqInv, Places
    <3> QED
      BY <3>1, <3>2 DEF AqInv, Places
  <2>2. CASE UNCHANGED aqvars
    BY <2>2 DEF aqvars, AqInv, AqTypes, SlotsAreOwned, SlotIsMine, StateTells, HasElement, Inside,
                Slot, PlacesDiffer, PlacesHoldAll
  <2> QED
    BY <2>1, <2>2
<1> QED
  BY <1>1, <1>2, PlacesConserve, PTL DEF AqSpec
-----------------------------------------------------------------------------
(* Positions, while the counters have not gone all the way round. *)

\* The counters started at z, k pops have drawn; what a call has read or drawn was
\* its counter, some draws ago, and what it has checked holds if that still is.
PushRead(z, k, t) ==
  pc[t] \in {"check", "cas"} =>
    \E j \in 0 .. pushed : at[t] = U32(z + j) /\ (pc[t] = "cas" /\ j = pushed => pushed < k + Size)

PopRead(z, k, t) ==
  pc[t] \in {"check", "cas"} =>
    \E j \in 0 .. k : at[t] = U32(z + j) /\ (pc[t] = "cas" /\ j = k => k < pushed)

Drawn(z, k) ==
  /\ head_ = U32(z + pushed) /\ tail_ = U32(z + k)
  /\ k <= pushed /\ pushed <= k + Size /\ pushed <= MaxPush
  /\ \A t \in Producers : PushRead(z, k, t)
  /\ \A t \in Consumers : PopRead(z, k, t)

DrawInv == \E z \in 0 .. (PosMod - 1), k \in Nat : Drawn(z, k)

LEMMA CounterWraps ==
  /\ PosMod \in Nat /\ PosMod > 0 /\ Size \in Nat /\ 2 * Size < PosMod
  /\ \A x \in Int : x >= 0 /\ x < PosMod => U32(x) = x
  /\ \A x \in Int : x >= PosMod /\ x < 2 * PosMod => U32(x) = x - PosMod
  /\ \A x \in Int : x < 0 /\ x >= -PosMod => U32(x) = x + PosMod
<1>1. PosMod \in Nat /\ PosMod > 0 /\ Size \in Nat /\ 2 * Size < PosMod
  BY AqAssumption
<1>2. \A x \in Int : x >= 0 /\ x < PosMod => x % PosMod = x
  BY <1>1
<1>3. \A x \in Int : x >= PosMod /\ x < 2 * PosMod => x % PosMod = x - PosMod
  BY <1>1
<1>4. \A x \in Int : x < 0 /\ x >= -PosMod => x % PosMod = x + PosMod
  BY <1>1
<1> QED
  BY <1>1, <1>2, <1>3, <1>4 DEF U32

LEMMA ReadOf ==
  ASSUME MaxPush < PosMod, NEW z \in 0 .. (PosMod - 1), NEW a \in Nat, a <= MaxPush
  PROVE  /\ U32(z + a) \in 0 .. (PosMod - 1)
         /\ a < MaxPush => U32(U32(z + a) + 1) = U32(z + (a + 1))
         /\ \A j \in 0 .. a : U32(z + j) = U32(z + a) => j = a
         /\ \A j \in 0 .. a : a <= j + Size => Signed(U32(z + a) - U32(z + j)) = a - j
<1>1. MaxPush \in Nat
  BY AqAssumption
<1>2. \A b \in 0 .. a : U32(z + b) = IF z + b < PosMod THEN z + b ELSE z + b - PosMod
  BY <1>1, CounterWraps
<1>3. a < MaxPush => U32(z + (a + 1)) = IF z + a + 1 < PosMod THEN z + a + 1 ELSE z + a + 1 - PosMod
  BY <1>1, CounterWraps
<1>4. ASSUME NEW j \in 0 .. a, a <= j + Size
      PROVE  Signed(U32(z + a) - U32(z + j)) = a - j
  <2>1. a - j < PosMod \div 2
    BY <1>4, CounterWraps, AqAssumption
  <2>2. U32(U32(z + a) - U32(z + j)) = a - j
    BY <1>1, <1>2, <1>4, CounterWraps
  <2> QED
    BY <2>1, <2>2 DEF Signed
<1>5. U32(z + a) \in 0 .. (PosMod - 1)
  BY <1>1, <1>2, CounterWraps
<1>6. a < MaxPush => U32(U32(z + a) + 1) = U32(z + (a + 1))
  BY <1>1, <1>2, <1>3, CounterWraps
<1>7. \A j \in 0 .. a : U32(z + j) = U32(z + a) => j = a
  BY <1>1, <1>2, CounterWraps
<1> QED
  BY <1>4, <1>5, <1>6, <1>7

LEMMA DrawnRanges ==
  ASSUME AqTypes, MaxPush < PosMod, NEW z \in 0 .. (PosMod - 1), NEW k \in Nat, Drawn(z, k)
  PROVE  /\ pushed \in Nat /\ pushed <= MaxPush /\ k <= pushed /\ k <= MaxPush
         /\ MaxPush \in Nat /\ Size \in Nat
         /\ Signed(head_ - tail_) = pushed - k
<1> QED
  BY AqAssumption, ReadOf DEF AqTypes, Drawn

LEMMA InitDrawn == AqInit => DrawInv
<1> SUFFICES ASSUME AqInit PROVE DrawInv
  OBVIOUS
<1>1. /\ head_ \in 0 .. (PosMod - 1) /\ tail_ = head_ /\ pushed = 0
      /\ \A t \in Threads : pc[t] = "idle"
  BY AqAssumption DEF AqInit
<1>2. U32(head_ + 0) = head_
  BY <1>1, CounterWraps
<1>3. Drawn(head_, 0)
  <2>1. \A t \in Producers : PushRead(head_, 0, t)
    BY <1>1 DEF PushRead, Threads
  <2>2. \A t \in Consumers : PopRead(head_, 0, t)
    BY <1>1 DEF PopRead, Threads
  <2>3. MaxPush \in Nat /\ Size \in Nat
    BY AqAssumption
  <2> QED
    BY <1>1, <1>2, <2>1, <2>2, <2>3 DEF Drawn
<1> QED
  BY <1>1, <1>3 DEF DrawInv

LEMMA StepDrawn ==
  ASSUME AqTypes, AqNext, MaxPush < PosMod,
         NEW z \in 0 .. (PosMod - 1), NEW k \in Nat, Drawn(z, k)
  PROVE  Drawn(z, k)' \/ Drawn(z, k + 1)'
<1>1. PICK t \in Threads : Try(t) \/ Step(t)
  BY DEF AqNext
<1>2. /\ pushed \in Nat /\ pushed <= MaxPush /\ k <= pushed /\ k <= MaxPush
      /\ MaxPush \in Nat /\ Size \in Nat /\ pushed <= k + Size
      /\ head_ = U32(z + pushed) /\ tail_ = U32(z + k)
  BY DrawnRanges DEF Drawn
<1>3. /\ pc \in [Threads -> {"idle", "check", "cas", "slot", "move", "end"}]
      /\ at \in [Threads -> Nat]
      /\ t \in Producers <=> t \notin Consumers
  BY AqAssumption DEF AqTypes, Threads
<1>4. (\A u \in Producers : PushRead(z, k, u)) /\ (\A u \in Consumers : PopRead(z, k, u))
  BY DEF Drawn
<1>5. Producers \subseteq Threads /\ Consumers \subseteq Threads
  BY DEF Threads
<1> DEFINE Others == \A u \in Threads : u # t => pc'[u] = pc[u] /\ at'[u] = at[u]
\* What a call has read stays what its counter was.
<1>6. ASSUME Others, pushed' = pushed
      PROVE  /\ \A u \in Producers : u # t => PushRead(z, k, u)'
             /\ \A u \in Consumers : u # t => PopRead(z, k, u)'
  BY <1>4, <1>5, <1>6 DEF PushRead, PopRead
<1>7. ASSUME Others, pushed' = pushed, head_' = head_, tail_' = tail_,
             t \in Producers => PushRead(z, k, t)', t \in Consumers => PopRead(z, k, t)'
      PROVE  Drawn(z, k)'
  <2>1. (\A u \in Producers : PushRead(z, k, u)') /\ (\A u \in Consumers : PopRead(z, k, u)')
    BY <1>6, <1>7
  <2> QED
    BY <1>2, <1>7, <2>1 DEF Drawn
<1>8. CASE Try(t) \/ CasLoses(t)
  <2>1. /\ Others /\ UNCHANGED <<head_, tail_, pushed>>
        /\ pc'[t] = "check" /\ at'[t] = IF t \in Producers THEN head_ ELSE tail_
    BY <1>3, <1>8 DEF Try, CasLoses, Goto, Remember
  <2>2. (t \in Producers => PushRead(z, k, t)') /\ (t \in Consumers => PopRead(z, k, t)')
    BY <1>2, <1>3, <2>1 DEF PushRead, PopRead
  <2> QED
    BY <1>7, <2>1, <2>2
<1>9. CASE Accept(t)
  <2>1. /\ Others /\ UNCHANGED <<head_, tail_, pushed>>
        /\ pc[t] = "check" /\ pc'[t] = "cas" /\ at'[t] = at[t] /\ ~Full(t)
    BY <1>3, <1>9 DEF Accept, Goto
  <2>2. ASSUME t \in Producers PROVE PushRead(z, k, t)'
    <3>1. PICK j \in 0 .. pushed : at[t] = U32(z + j)
      BY <1>4, <2>1, <2>2 DEF PushRead
    <3>2. j = pushed => Signed(at[t] - tail_) = pushed - k
      BY <1>2, <3>1, ReadOf
    <3>3. j = pushed => pushed - k < Size
      BY <1>2, <2>1, <2>2, <3>2 DEF Full
    <3> QED
      BY <1>2, <2>1, <3>1, <3>3 DEF PushRead
  <2>3. ASSUME t \in Consumers PROVE PopRead(z, k, t)'
    <3>1. PICK j \in 0 .. k : at[t] = U32(z + j)
      BY <1>4, <2>1, <2>3 DEF PopRead
    <3>2. j = k => Signed(head_ - at[t]) = pushed - k
      BY <1>2, <3>1, ReadOf
    <3>3. j = k => pushed - k > 0
      BY <1>2, <1>3, <2>1, <2>3, <3>2 DEF Full
    <3> QED
      BY <1>2, <2>1, <3>1, <3>3 DEF PopRead
  <2> QED
    BY <1>7, <2>1, <2>2, <2>3
<1>10. CASE DrawHead(t)
  <2>1. /\ Others /\ tail_' = tail_ /\ head_' = U32(head_ + 1) /\ pushed' = pushed + 1
        /\ t \in Producers /\ pc[t] = "cas" /\ pc'[t] = "slot" /\ head_ = at[t] /\ pushed < MaxPush
    BY <1>3, <1>10 DEF DrawHead, Goto
  <2>2. PICK j \in 0 .. pushed : at[t] = U32(z + j) /\ (j = pushed => pushed < k + Size)
    BY <1>4, <2>1 DEF PushRead
  <2>3. j = pushed
    BY <1>2, <2>1, <2>2, ReadOf
  <2>4. head_' = U32(z + (pushed + 1))
    BY <1>2, <2>1, ReadOf
  <2>5. \A u \in Producers : PushRead(z, k, u)'
    <3>1. ASSUME NEW u \in Producers, u # t PROVE PushRead(z, k, u)'
      <4>1. pc'[u] = pc[u] /\ at'[u] = at[u]
        BY <1>5, <2>1, <3>1
      <4>2. pc[u] \in {"check", "cas"} => \E i \in 0 .. pushed : at[u] = U32(z + i)
        BY <1>4 DEF PushRead
      <4> QED
        BY <1>2, <2>1, <4>1, <4>2 DEF PushRead
    <3> QED
      BY <2>1, <3>1 DEF PushRead
  <2>6. \A u \in Consumers : PopRead(z, k, u)'
    <3> TAKE u \in Consumers
    <3>1. pc'[u] = pc[u] /\ at'[u] = at[u]
      BY <1>3, <1>5, <2>1
    <3> QED
      BY <1>2, <1>4, <2>1, <3>1 DEF PopRead
  <2>7. Drawn(z, k)'
    BY <1>2, <2>1, <2>2, <2>3, <2>4, <2>5, <2>6 DEF Drawn
  <2> QED
    BY <2>7
<1>11. CASE DrawTail(t)
  <2>1. /\ Others /\ tail_' = U32(tail_ + 1) /\ head_' = head_ /\ pushed' = pushed
        /\ t \in Consumers /\ pc[t] = "cas" /\ pc'[t] = "slot" /\ tail_ = at[t]
    BY <1>3, <1>11 DEF DrawTail, Goto
  <2>2. PICK j \in 0 .. k : at[t] = U32(z + j) /\ (j = k => k < pushed)
    BY <1>4, <2>1 DEF PopRead
  <2>3. j = k
    BY <1>2, <2>1, <2>2, ReadOf
  <2>4. tail_' = U32(z + (k + 1))
    <3>1. k < MaxPush
      BY <1>2, <2>2, <2>3
    <3>2. U32(U32(z + k) + 1) = U32(z + (k + 1))
      BY <1>2, <3>1, ReadOf
    <3> QED
      BY <1>2, <2>1, <3>2
  <2>5. \A u \in Consumers : PopRead(z, k + 1, u)'
    <3>1. ASSUME NEW u \in Consumers, u # t PROVE PopRead(z, k + 1, u)'
      <4>1. pc'[u] = pc[u] /\ at'[u] = at[u]
        BY <1>5, <2>1, <3>1
      <4>2. pc[u] \in {"check", "cas"} => \E i \in 0 .. k : at[u] = U32(z + i)
        BY <1>4 DEF PopRead
      <4> QED
        BY <1>2, <2>1, <4>1, <4>2 DEF PopRead
    <3> QED
      BY <2>1, <3>1 DEF PopRead
  <2>6. \A u \in Producers : PushRead(z, k + 1, u)'
    <3> TAKE u \in Producers
    <3>1. pc'[u] = pc[u] /\ at'[u] = at[u]
      BY <1>3, <1>5, <2>1
    <3> QED
      BY <1>2, <1>4, <2>1, <3>1 DEF PushRead
  <2>7. Drawn(z, k + 1)'
    BY <1>2, <2>1, <2>2, <2>3, <2>4, <2>5, <2>6 DEF Drawn
  <2> QED
    BY <2>7
<1>12. CASE \/ Refuse(t) \/ PushAtomic(t) \/ PopAtomic(t) \/ BeginPush(t) \/ MoveIn(t)
            \/ EndPush(t) \/ BeginPop(t) \/ MoveOut(t) \/ EndPop(t)
  <2>1. Others /\ UNCHANGED <<head_, tail_, pushed>> /\ pc'[t] \in {"idle", "move", "end"}
    BY <1>3, <1>12 DEF Refuse, PushAtomic, PopAtomic, BeginPush, MoveIn, EndPush, BeginPop, MoveOut,
                       EndPop, Return, Goto, Remember
  <2> QED
    BY <1>7, <2>1 DEF PushRead, PopRead
<1> QED
  BY <1>1, <1>8, <1>9, <1>10, <1>11, <1>12 DEF Step

\* While fewer positions have been drawn than an unsigned has values, pops draw never
\* more than pushes have, and pushes never a lap more than pops, though each call
\* compares counters that it read at different times (lines 280-317); and no element
\* is lost.
THEOREM KeepsAll ==
  ASSUME MaxPush < PosMod
  PROVE  AqSpec => []AqKeepsAll
<1>1. AqInit => AqTypes /\ DrawInv
  BY InitInvariant, InitDrawn DEF AqInv
<1>2. AqTypes /\ DrawInv /\ [AqNext]_aqvars => (AqTypes /\ DrawInv)'
  <2> SUFFICES ASSUME AqTypes, DrawInv, [AqNext]_aqvars PROVE AqTypes' /\ DrawInv'
    OBVIOUS
  <2>1. PICK z \in 0 .. (PosMod - 1), k \in Nat : Drawn(z, k)
    BY DEF DrawInv
  <2>2. CASE AqNext
    <3>1. Drawn(z, k)' \/ Drawn(z, k + 1)'
      BY <2>1, <2>2, StepDrawn
    <3>2. k + 1 \in Nat
      OBVIOUS
    <3>3. DrawInv'
      BY <3>1, <3>2 DEF DrawInv
    <3> QED
      BY <2>2, <3>3, AqStepTypes
  <2>3. CASE UNCHANGED aqvars
    <3>1. Drawn(z, k)'
      BY <2>1, <2>3 DEF aqvars, Drawn, PushRead, PopRead
    <3> QED
      BY <2>3, <3>1 DEF aqvars, AqTypes, DrawInv
  <2> QED
    BY <2>2, <2>3
<1>3. AqTypes /\ DrawInv => AqDrawsInBounds
  <2> SUFFICES ASSUME AqTypes, DrawInv PROVE AqDrawsInBounds
    OBVIOUS
  <2>1. PICK z \in 0 .. (PosMod - 1), k \in Nat : Drawn(z, k)
    BY DEF DrawInv
  <2>2. pushed - k \in 0 .. Size
    BY <2>1, DrawnRanges DEF Drawn
  <2> QED
    BY <2>1, <2>2, DrawnRanges DEF AqDrawsInBounds
<1>4. AqSpec => []AqDrawsInBounds
  BY <1>1, <1>2, <1>3, PTL DEF AqSpec
<1>5. AqConserves /\ AqDrawsInBounds => AqKeepsAll
  BY DEF AqKeepsAll
<1> QED
  BY <1>4, <1>5, Conserves, PTL

(***************************************************************************)
(* rte_ring.h.                                                             *)
(***************************************************************************)
RtePos == 0 .. (RingMod - 1)
RteCalls == [max : Nat, fixed : BOOLEAN, old : RtePos, n : Nat, done : Nat, tick : Nat]

RteTypes ==
  /\ head \in [{"prod", "cons"} -> RtePos] /\ tail \in [{"prod", "cons"} -> RtePos]
  /\ org \in RtePos
  /\ enq \in Nat /\ deq \in Nat
  /\ rpc \in [RteThreads -> {"idle", "check", "cas", "load", "access", "publish"}]
  /\ rloc \in [RteThreads -> RteCalls]
  /\ DOMAIN objs = 0 .. mask

\* How many elements a side has claimed, how many it has given on, and how many it may
\* have claimed by now.
Claimed(t) == IF t \in Enqueuers THEN enq ELSE deq
Done(t) == IF t \in Enqueuers THEN Published ELSE Freed
Allowed(t) == IF t \in Enqueuers THEN Freed + mask ELSE Published

\* The element at the position that the call has read.
From(t) == Ticket(rloc[t].old)
Holds(t) == rpc[t] \in {"access", "publish"}
Upto(t) == rloc[t].tick + rloc[t].n

InOrder ==
  /\ Freed <= deq /\ deq <= Published /\ Published <= enq
  /\ enq <= Freed + mask /\ enq <= MaxEnq
  /\ Ticket(head["prod"]) = enq /\ Ticket(head["cons"]) = deq

CallIsRight(t) ==
  /\ rpc[t] # "idle" => rloc[t].max > 0
  /\ rpc[t] \in {"check", "cas"} => From(t) <= Claimed(t)
  /\ rpc[t] = "cas" => rloc[t].n > 0 /\ From(t) + rloc[t].n <= Allowed(t)
  /\ Holds(t) => /\ rloc[t].tick = From(t) /\ rloc[t].n > 0
                 /\ Done(t) <= rloc[t].tick /\ Upto(t) <= Claimed(t)
  /\ ~Holds(t) => rloc[t].done = 0
  /\ rpc[t] = "access" => rloc[t].done < rloc[t].n
  /\ rpc[t] = "publish" => rloc[t].done = rloc[t].n

Apart ==
  \A t, u \in RteThreads :
    t # u /\ Side(t) = Side(u) /\ Holds(t) /\ Holds(u) =>
      Upto(t) <= rloc[u].tick \/ Upto(u) <= rloc[t].tick

SlotOf(e) == RingU32(org + e) % RingSize
Kept(e) == objs[SlotOf(e)] = e

Filled ==
  /\ \A e \in Freed .. (Published - 1) : Kept(e)
  /\ \A t \in Enqueuers : Holds(t) =>
       \A e \in rloc[t].tick .. (rloc[t].tick + rloc[t].done - 1) : Kept(e)

RteInv == RteTypes /\ InOrder /\ (\A t \in RteThreads : CallIsRight(t)) /\ Apart /\ Filled
-----------------------------------------------------------------------------
(* Positions go round the circle. *)

LEMMA WrapOnce ==
  ASSUME RteAssumption
  PROVE  /\ RingMod \in Nat /\ RingMod > 0 /\ RingSize \in Nat /\ mask \in Nat /\ mask = RingSize - 1 /\ mask >= 1
         /\ MaxEnq \in Nat /\ MaxEnq + RingSize < RingMod
         /\ \A x \in Int : RingU32(x) \in RtePos
         /\ \A x \in Int : x >= 0 /\ x < RingMod => RingU32(x) = x
         /\ \A x \in Int : x >= RingMod /\ x < 2 * RingMod => RingU32(x) = x - RingMod
         /\ \A x \in Int : x < 0 /\ x >= -RingMod => RingU32(x) = x + RingMod
<1>1. RingMod \in Nat /\ RingMod > 0 /\ RingSize \in Nat /\ RingSize >= 2 /\ MaxEnq \in Nat /\ MaxEnq + RingSize < RingMod
  BY DEF RteAssumption
<1>2. \A x \in Int : x % RingMod \in RtePos
  BY <1>1 DEF RtePos
<1>3. \A x \in Int : x >= 0 /\ x < RingMod => x % RingMod = x
  BY <1>1
<1>4. \A x \in Int : x >= RingMod /\ x < 2 * RingMod => x % RingMod = x - RingMod
  BY <1>1
<1>5. \A x \in Int : x < 0 /\ x >= -RingMod => x % RingMod = x + RingMod
  BY <1>1
<1> QED
  BY <1>1, <1>2, <1>3, <1>4, <1>5 DEF RingU32, mask

LEMMA PosInt == RteAssumption => RingMod \in Nat /\ RtePos \subseteq Nat /\ \A p \in RtePos : p < RingMod
  BY WrapOnce DEF RtePos

\* The number of the element at a position, and back.
LEMMA TicketOf ==
  ASSUME RteAssumption, org \in RtePos, NEW p \in RtePos
  PROVE  /\ Ticket(p) \in RtePos /\ RingU32(org + Ticket(p)) = p
         /\ \A n \in Nat : RingU32(p + n) \in RtePos
         /\ \A n \in Nat : Ticket(p) + n < RingMod =>
              Ticket(RingU32(p + n)) = Ticket(p) + n /\ RingU32(p + n) = RingU32(org + (Ticket(p) + n))
<1>1. Ticket(p) = IF p >= org THEN p - org ELSE p - org + RingMod
  BY WrapOnce DEF Ticket, RtePos
<1>2. Ticket(p) \in RtePos /\ RingU32(org + Ticket(p)) = p
  BY <1>1, WrapOnce DEF RtePos
<1>3. ASSUME NEW n \in Nat, Ticket(p) + n < RingMod
      PROVE  Ticket(RingU32(p + n)) = Ticket(p) + n /\ RingU32(p + n) = RingU32(org + (Ticket(p) + n))
  <2>1. n < RingMod /\ p \in Nat /\ p < RingMod /\ org \in Nat /\ org < RingMod /\ RingMod \in Nat
    BY <1>2, <1>3, WrapOnce DEF RtePos
  <2>2. RingU32(p + n) = IF p + n < RingMod THEN p + n ELSE p + n - RingMod
    BY <2>1, WrapOnce
  <2>3. RingU32(org + (Ticket(p) + n)) = IF org + Ticket(p) + n < RingMod THEN org + Ticket(p) + n
                                                                    ELSE org + Ticket(p) + n - RingMod
    BY <1>2, <1>3, <2>1, WrapOnce DEF RtePos
  <2>4. RingU32(p + n) = RingU32(org + (Ticket(p) + n))
    BY <1>1, <1>3, <2>1, <2>2, <2>3
  <2>5. Ticket(RingU32(p + n)) = Ticket(p) + n
    BY <1>1, <1>3, <2>1, <2>2, WrapOnce DEF Ticket, RtePos
  <2> QED
    BY <2>4, <2>5
<1>4. \A n \in Nat : RingU32(p + n) \in RtePos
  BY WrapOnce DEF RtePos
<1> QED
  BY <1>2, <1>3, <1>4

\* The difference of two positions is that of their elements, where it is small.
LEMMA TicketsApart ==
  ASSUME RteAssumption, org \in RtePos, NEW p \in RtePos, NEW q \in RtePos, NEW c \in 0 .. mask,
         0 <= c + Ticket(p) - Ticket(q), c + Ticket(p) - Ticket(q) < RingMod
  PROVE  RingU32(c + p - q) = c + Ticket(p) - Ticket(q)
<1>1. /\ Ticket(p) = IF p >= org THEN p - org ELSE p - org + RingMod
      /\ Ticket(q) = IF q >= org THEN q - org ELSE q - org + RingMod
  BY WrapOnce DEF Ticket, RtePos
<1>2. c + p - q \in Int /\ c + p - q < 2 * RingMod /\ c + p - q >= -RingMod
  BY WrapOnce DEF RtePos
<1> QED
  BY <1>1, <1>2, WrapOnce DEF RtePos

\* Less than a ring apart and equal modulo the ring is equal.
LEMMA SameSlot ==
  ASSUME NEW R \in Nat, R > 0, NEW a \in Nat, NEW b \in Nat, a % R = b % R,
         a - b < R, b - a < R
  PROVE  a = b
<1> DEFINE q == a \div R
           r == b \div R
<1>1. a = R * q + (a % R) /\ b = R * r + (b % R) /\ q \in Nat /\ r \in Nat
  OBVIOUS
<1>2. R * q - R * r = a - b
  BY <1>1
<1>3. \A x, y \in Nat : x > y => R * x >= R * y + R
  <2> SUFFICES ASSUME NEW x \in Nat, NEW y \in Nat, x > y PROVE R * x >= R * y + R
    OBVIOUS
  <2>1. R * x >= R * (y + 1)
    OBVIOUS
  <2>2. R * (y + 1) = R * y + R
    OBVIOUS
  <2> QED
    BY <2>1, <2>2
<1> HIDE DEF q, r
<1>4. ~(q > r) /\ ~(r > q)
  BY <1>1, <1>2, <1>3
<1>5. q = r
  BY <1>1, <1>4
<1> QED
  BY <1>1, <1>5

\* A lap of the circle is a whole number of rings.
LEMMA LapKeepsSlot ==
  ASSUME RteAssumption, NEW a \in Nat, a >= RingMod, a < 2 * RingMod
  PROVE  (a - RingMod) % RingSize = a % RingSize
<1> DEFINE m == RingMod \div RingSize
           q == a \div RingSize
           b == a - RingMod
           r == b \div RingSize
<1>1. RingSize \in Nat /\ RingSize > 0 /\ RingMod \in Nat /\ RingMod % RingSize = 0
  BY DEF RteAssumption
<1>2. RingMod = RingSize * m /\ m \in Nat
  BY <1>1
<1>3. a = RingSize * q + (a % RingSize) /\ q \in Nat /\ a % RingSize \in 0 .. (RingSize - 1)
  BY <1>1
<1>4. b \in Nat /\ b = RingSize * r + (b % RingSize) /\ r \in Nat /\ b % RingSize \in 0 .. (RingSize - 1)
  BY <1>1
<1>5. RingSize * (r + m) = RingSize * r + RingSize * m
  BY <1>1, <1>2, <1>4
<1>6. \A x, y \in Nat : x > y => RingSize * x >= RingSize * y + RingSize
  <2> SUFFICES ASSUME NEW x \in Nat, NEW y \in Nat, x > y PROVE RingSize * x >= RingSize * y + RingSize
    OBVIOUS
  <2>1. RingSize * x >= RingSize * (y + 1)
    BY <1>1
  <2>2. RingSize * (y + 1) = RingSize * y + RingSize
    BY <1>1
  <2> QED
    BY <1>1, <2>1, <2>2
<1>7. PICK x \in Nat : x = r + m
  BY <1>2, <1>4
<1>8. RingSize * x + (b % RingSize) = RingSize * q + (a % RingSize)
  BY <1>1, <1>2, <1>3, <1>4, <1>5, <1>7
<1> HIDE DEF m, q, b, r
<1>9. ~(x > q) /\ ~(q > x)
  BY <1>1, <1>3, <1>4, <1>6, <1>8
<1>10. x = q
  BY <1>3, <1>9
<1> QED
  BY <1>1, <1>3, <1>4, <1>8, <1>10 DEF b

\* The slots of elements that fit in the ring together are different.
LEMMA SlotsDiffer ==
  ASSUME RteAssumption, org \in RtePos, NEW d \in RtePos, NEW e \in RtePos,
         d - e < RingSize, e - d < RingSize, SlotOf(d) = SlotOf(e)
  PROVE  d = e
<1>1. ASSUME NEW x \in RtePos PROVE SlotOf(x) = (org + x) % RingSize
  <2>1. PICK y \in Nat : y = org + x
    BY WrapOnce DEF RtePos
  <2>2. y < 2 * RingMod
    BY <2>1, WrapOnce DEF RtePos
  <2>3. CASE y < RingMod
    BY <2>1, <2>3, WrapOnce DEF SlotOf
  <2>4. CASE y >= RingMod
    <3>1. RingU32(y) = y - RingMod
      BY <2>2, <2>4, WrapOnce
    <3>2. (y - RingMod) % RingSize = y % RingSize
      BY <2>2, <2>4, LapKeepsSlot
    <3> QED
      BY <2>1, <3>1, <3>2 DEF SlotOf
  <2> QED
    BY <2>1, <2>3, <2>4, WrapOnce
<1>2. (org + d) % RingSize = (org + e) % RingSize
  BY <1>1
<1>3. org + d \in Nat /\ org + e \in Nat /\ (org + d) - (org + e) < RingSize /\ (org + e) - (org + d) < RingSize
      /\ RingSize \in Nat /\ RingSize > 0
  BY WrapOnce DEF RtePos
<1>4. org + d = org + e
  BY <1>2, <1>3, SameSlot
<1> QED
  BY <1>4 DEF RtePos
LEMMA SlotIn == ASSUME RteAssumption, org \in RtePos, NEW e \in Int PROVE SlotOf(e) \in 0 .. mask
<1>1. RingU32(org + e) \in Nat /\ RingSize \in Nat /\ RingSize > 0 /\ mask = RingSize - 1
  BY WrapOnce, PosInt
<1> QED
  BY <1>1 DEF SlotOf
-----------------------------------------------------------------------------
(* What a step leaves alone. *)

LEMMA SideOf ==
  ASSUME RteAssumption, NEW t \in RteThreads
  PROVE  /\ Side(t) \in {"prod", "cons"} /\ (Side(t) = "prod" <=> t \in Enqueuers)
         /\ (t \in Dequeuers <=> t \notin Enqueuers)
  BY DEF RteAssumption, Side, RteThreads

Others(t) == \A u \in RteThreads : u # t => rpc'[u] = rpc[u] /\ rloc'[u] = rloc[u]

\* A step that reads, or decides, but claims nothing and stores nothing.
Local(t) ==
  /\ UNCHANGED <<head, tail, objs, enq, deq, org>>
  /\ rpc[t] \notin {"access", "publish"} /\ rpc'[t] \notin {"access", "publish"}

LEMMA NoCallType == RteAssumption => NoCall \in RteCalls
  BY WrapOnce DEF NoCall, RteCalls, RtePos

\* What the types say of a call and of the four positions.
LEMMA TypeFacts ==
  ASSUME RteAssumption, RteTypes
  PROVE  /\ \A t \in RteThreads : /\ rloc[t].max \in Nat /\ rloc[t].old \in RtePos /\ rloc[t].n \in Nat
                                  /\ rloc[t].done \in Nat /\ rloc[t].tick \in Nat /\ Upto(t) \in Nat
                                  /\ From(t) \in RtePos /\ Claimed(t) \in Nat
                                  /\ Done(t) \in RtePos /\ Allowed(t) \in Nat
         /\ \A s \in {"prod", "cons"} : head[s] \in RtePos /\ tail[s] \in RtePos
         /\ Published \in RtePos /\ Freed \in RtePos /\ Published \in Nat /\ Freed \in Nat
         /\ enq \in Nat /\ deq \in Nat /\ mask \in Nat
<1>1. \A t \in RteThreads : rloc[t] \in RteCalls
  BY DEF RteTypes
<1>2. \A t \in RteThreads : /\ rloc[t].max \in Nat /\ rloc[t].old \in RtePos /\ rloc[t].n \in Nat
                            /\ rloc[t].done \in Nat /\ rloc[t].tick \in Nat
  BY <1>1 DEF RteCalls
<1>3. \A s \in {"prod", "cons"} : head[s] \in RtePos /\ tail[s] \in RtePos
  BY DEF RteTypes
<1>4. \A p \in RtePos : Ticket(p) \in RtePos
  BY TicketOf DEF RteTypes
<1>5. \A t \in RteThreads : From(t) \in RtePos
  BY <1>2, <1>4 DEF From
<1>6. Published \in RtePos /\ Freed \in RtePos
  BY <1>3, <1>4 DEF Published, Freed
<1>7. Published \in Nat /\ Freed \in Nat /\ mask \in Nat
  BY <1>6, PosInt, WrapOnce
<1>8. \A t \in RteThreads : Upto(t) \in Nat /\ Claimed(t) \in Nat /\ Done(t) \in RtePos /\ Allowed(t) \in Nat
  BY <1>2, <1>6, <1>7 DEF Upto, Claimed, Done, Allowed, RteTypes
<1> QED
  BY <1>2, <1>3, <1>5, <1>6, <1>7, <1>8 DEF RteTypes

Numbers == \A t \in RteThreads : Claimed(t) \in Nat /\ Done(t) \in Nat /\ Allowed(t) \in Nat

LEMMA NumbersNext == RteAssumption => (RteTypes => Numbers)'
<1>1. RteAssumption /\ RteTypes => Numbers
  BY TypeFacts, PosInt DEF Numbers
<1>2. RteAssumption => RteAssumption'
  BY DEF RteAssumption
<1> QED
  BY <1>1, <1>2, PTL

LEMMA EntriesType == ASSUME RteAssumption, RteTypes, NEW t \in RteThreads PROVE Entries(t) \in Nat
<1>1. \A x \in Int : RingU32(x) \in Nat
  BY WrapOnce, PosInt
<1>2. rloc[t].old \in Nat /\ tail["prod"] \in Nat /\ tail["cons"] \in Nat /\ mask \in Nat
  BY TypeFacts, PosInt
<1> QED
  BY <1>1, <1>2 DEF Entries

LEMMA StepTypes ==
  ASSUME RteAssumption, RteTypes, NEW t \in RteThreads, Call(t) \/ RteStep(t)
  PROVE  RteTypes' /\ Others(t) /\ org' = org
<1>1. /\ rloc[t] \in RteCalls /\ NoCall \in RteCalls /\ Side(t) \in {"prod", "cons"} /\ RtePos \subseteq Nat
      /\ \A n \in Nat : RingU32(head[Side(t)] + n) \in RtePos /\ RingU32(rloc[t].old + n) \in RtePos
  <2>1. rloc[t] \in RteCalls /\ NoCall \in RteCalls /\ Side(t) \in {"prod", "cons"} /\ RtePos \subseteq Nat
    BY NoCallType, SideOf, PosInt DEF RteTypes
  <2>2. head[Side(t)] \in Nat /\ rloc[t].old \in Nat
    BY <2>1, TypeFacts
  <2> QED
    BY <2>1, <2>2, WrapOnce
<1>2. Entries(t) \in Nat /\ Counts \subseteq Nat
  BY EntriesType DEF RteAssumption
<1>3. head[Side(t)] \in RtePos /\ tail[Side(t)] \in RtePos
  BY <1>1 DEF RteTypes
<1> USE DEF RteTypes, Others, RteGoto, RteReturn
<1>4. CASE Call(t)
  <2>1. PICK n \in Counts, f \in BOOLEAN :
          rloc' = [rloc EXCEPT ![t] = [NoCall EXCEPT !.max = n, !.fixed = f, !.old = head[Side(t)]]]
    BY <1>4 DEF Call
  <2> DEFINE r == [NoCall EXCEPT !.max = n, !.fixed = f, !.old = head[Side(t)]]
  <2>2. r \in RteCalls
    BY <1>1, <1>2, <1>3 DEF RteCalls
  <2> HIDE DEF r
  <2>3. rloc' = [rloc EXCEPT ![t] = r]
    BY <2>1 DEF r
  <2> QED
    BY <1>4, <2>2, <2>3 DEF Call
<1>5. CASE RteRefuse(t)
  BY <1>1, <1>5 DEF RteRefuse
<1>6. CASE RteAccept(t)
  <2> DEFINE r == [rloc[t] EXCEPT !.n = IF rloc[t].max > Entries(t) THEN Entries(t) ELSE rloc[t].max]
  <2>1. r \in RteCalls
    BY <1>1, <1>2 DEF RteCalls
  <2>2. rloc' = [rloc EXCEPT ![t] = r]
    BY <1>6 DEF RteAccept
  <2> HIDE DEF r
  <2> QED
    BY <1>6, <2>1, <2>2 DEF RteAccept
<1>7. CASE RteCasWins(t)
  <2>1. head' \in [{"prod", "cons"} -> RtePos]
    <3>1. rloc[t].n \in Nat
      BY <1>1 DEF RteCalls
    <3> QED
      BY <1>1, <1>7, <3>1 DEF RteCasWins
  <2>2. enq' \in Nat /\ deq' \in Nat
    <3>1. rloc[t].n \in Nat
      BY TypeFacts
    <3> QED
      BY <1>7, <3>1 DEF RteCasWins, Claim
  <2>3. PICK k \in Nat : rloc' = [rloc EXCEPT ![t].tick = k]
    BY <1>7 DEF RteCasWins, Claim
  <2> DEFINE r == [rloc[t] EXCEPT !.tick = k]
  <2>4. r \in RteCalls
    BY <1>1 DEF RteCalls
  <2>5. rloc' = [rloc EXCEPT ![t] = r]
    BY <2>3
  <2> HIDE DEF r
  <2> QED
    BY <1>7, <2>1, <2>2, <2>4, <2>5 DEF RteCasWins
<1>8. CASE RteCasLoses(t)
  <2> DEFINE r == [NoCall EXCEPT !.max = rloc[t].max, !.fixed = rloc[t].fixed]
  <2>1. r \in RteCalls
    BY <1>1 DEF RteCalls
  <2>2. rloc' = [rloc EXCEPT ![t] = r]
    BY <1>8 DEF RteCasLoses
  <2> HIDE DEF r
  <2> QED
    BY <1>8, <2>1, <2>2 DEF RteCasLoses
<1>9. CASE Reload(t)
  <2> DEFINE r == [rloc[t] EXCEPT !.old = head[Side(t)]]
  <2>1. r \in RteCalls
    BY <1>1, <1>3 DEF RteCalls
  <2>2. rloc' = [rloc EXCEPT ![t] = r]
    BY <1>9 DEF Reload
  <2> HIDE DEF r
  <2> QED
    BY <1>9, <2>1, <2>2 DEF Reload
<1>10. CASE Store(t) \/ Fetch(t)
  <2>0. PICK k \in Nat : k = rloc[t].done + 1
    BY TypeFacts
  <2> DEFINE r == [rloc[t] EXCEPT !.done = k]
  <2>1. r \in RteCalls
    BY <1>1 DEF RteCalls
  <2>2. rloc' = [rloc EXCEPT ![t] = r]
    BY <1>10, <2>0 DEF Store, Fetch, AccessDone
  <2> HIDE DEF r
  <2>3. DOMAIN objs' = 0 .. mask
    BY <1>10 DEF Store, Fetch
  <2> QED
    BY <1>10, <2>1, <2>2, <2>3 DEF Store, Fetch, AccessDone
<1>11. CASE MoveTail(t)
  <2>1. rloc[t].n \in Nat
    BY <1>1 DEF RteCalls
  <2> QED
    BY <1>1, <1>11, <2>1 DEF MoveTail
<1> QED
  BY <1>4, <1>5, <1>6, <1>7, <1>8, <1>9, <1>10, <1>11 DEF RteStep

LEMMA LocalSteps ==
  ASSUME RteTypes, NEW t \in RteThreads, Call(t) \/ RteRefuse(t) \/ RteAccept(t) \/ RteCasLoses(t) \/ Reload(t)
  PROVE  Local(t)
  BY DEF RteTypes, Local, Call, RteRefuse, RteAccept, RteCasLoses, Reload, RteGoto, RteReturn

\* What others do to a call: they claim more, give more on, and never go past it.
LEMMA OtherIsRight ==
  ASSUME RteAssumption, RteTypes, RteTypes', NEW u \in RteThreads, CallIsRight(u),
         rpc'[u] = rpc[u], rloc'[u] = rloc[u], org' = org,
         Claimed(u) <= Claimed(u)', Allowed(u) <= Allowed(u)',
         Holds(u) => Done(u)' <= rloc[u].tick
  PROVE  CallIsRight(u)'
<1>1. From(u)' = From(u) /\ Upto(u)' = Upto(u) /\ (Holds(u)' <=> Holds(u))
  BY DEF From, Ticket, Upto, Holds
<1>2. /\ rloc[u].n \in Nat /\ rloc[u].tick \in Nat /\ From(u) \in Nat /\ Upto(u) \in Nat
      /\ Claimed(u) \in Nat /\ Claimed(u)' \in Nat /\ Allowed(u) \in Int /\ Allowed(u)' \in Int
  BY TypeFacts, NumbersNext, PosInt DEF Numbers
<1> QED
  BY <1>1, <1>2 DEF CallIsRight
-----------------------------------------------------------------------------
(* Calls that claim nothing. *)

\* What the tail of the other side tells a call: how many it may claim from its own
\* position on.
LEMMA EntriesAre ==
  ASSUME RteAssumption, RteTypes, InOrder, NEW t \in RteThreads, From(t) <= Claimed(t)
  PROVE  /\ Entries(t) = Allowed(t) - From(t) /\ Claimed(t) <= Allowed(t)
         /\ Allowed(t) < RingMod
<1>1. /\ rloc[t].old \in RtePos /\ tail["prod"] \in RtePos /\ tail["cons"] \in RtePos /\ org \in RtePos
      /\ Published \in Nat /\ Freed \in Nat /\ From(t) \in RtePos /\ enq \in Nat /\ deq \in Nat
  BY TypeFacts DEF RteTypes
<1>2. From(t) \in Nat /\ mask \in Nat /\ 0 \in 0 .. mask /\ mask \in 0 .. mask /\ Freed + mask < RingMod
      /\ Published < RingMod /\ RingMod \in Nat
  BY <1>1, PosInt, WrapOnce DEF InOrder
<1>3. CASE t \in Enqueuers
  <2>1. From(t) <= enq /\ enq <= Freed + mask
    BY <1>3 DEF Claimed, InOrder
  <2>2. 0 <= mask + Freed - From(t) /\ mask + Freed - From(t) < RingMod
    BY <1>1, <1>2, <2>1
  <2>3. RingU32(mask + tail["cons"] - rloc[t].old) = mask + Freed - From(t)
    BY <1>1, <1>2, <2>2, TicketsApart DEF Freed, From
  <2> QED
    BY <1>1, <1>2, <1>3, <2>1, <2>3 DEF Entries, Allowed, Claimed
<1>4. CASE t \notin Enqueuers
  <2>1. From(t) <= deq /\ deq <= Published
    BY <1>4 DEF Claimed, InOrder
  <2>2. 0 <= 0 + Published - From(t) /\ 0 + Published - From(t) < RingMod
    BY <1>1, <1>2, <2>1
  <2>3. RingU32(0 + tail["prod"] - rloc[t].old) = 0 + Published - From(t)
    BY <1>1, <1>2, <2>2, TicketsApart DEF Published, From
  <2>4. tail["prod"] \in Nat /\ rloc[t].old \in Nat
    BY <1>1, PosInt
  <2>5. Entries(t) = Published - From(t)
    BY <1>1, <1>2, <1>4, <2>3, <2>4 DEF Entries
  <2> QED
    BY <1>1, <1>2, <1>4, <2>1, <2>5 DEF Allowed, Claimed
<1> QED
  BY <1>3, <1>4

LEMMA LocalKeeps ==
  ASSUME RteAssumption, RteInv, NEW t \in RteThreads,
         Call(t) \/ RteRefuse(t) \/ RteAccept(t) \/ RteCasLoses(t) \/ Reload(t)
  PROVE  RteInv'
<1>1. RteTypes /\ RteTypes' /\ Others(t) /\ Local(t) /\ CallIsRight(t) /\ InOrder
  BY StepTypes, LocalSteps DEF RteInv, RteStep
<1>2. /\ Published' = Published /\ Freed' = Freed /\ enq' = enq /\ deq' = deq /\ org' = org
      /\ objs' = objs /\ head' = head
  BY <1>1 DEF Local, Published, Freed, Ticket
<1>3. InOrder'
  BY <1>1, <1>2 DEF InOrder, Ticket
<1>4. \A u \in RteThreads : Claimed(u)' = Claimed(u) /\ Allowed(u)' = Allowed(u) /\ Done(u)' = Done(u)
  BY <1>2 DEF Claimed, Allowed, Done
<1>5. ~Holds(t) /\ ~Holds(t)' /\ \A u \in RteThreads : u # t => (Holds(u)' <=> Holds(u)) /\ rloc'[u] = rloc[u]
  BY <1>1 DEF Local, Holds, Others
<1>6. Ticket(head[Side(t)]) = Claimed(t)
  BY <1>1, SideOf DEF InOrder, Claimed, Side
<1>7. CallIsRight(t)'
  <2>1. CASE Call(t) \/ Reload(t)
    <3>1. /\ rloc'[t].max > 0 /\ rloc'[t].old = head[Side(t)] /\ rloc'[t].done = 0
          /\ rpc'[t] = "check"
      <4>1. CASE Call(t)
        <5>1. PICK n \in Counts, f \in BOOLEAN :
                rloc' = [rloc EXCEPT ![t] = [NoCall EXCEPT !.max = n, !.fixed = f, !.old = head[Side(t)]]]
          BY <4>1 DEF Call
        <5>2. n \in Nat \ {0}
          BY DEF RteAssumption
        <5>3. rloc'[t] = [NoCall EXCEPT !.max = n, !.fixed = f, !.old = head[Side(t)]]
          BY <1>1, <5>1 DEF RteTypes
        <5>4. rloc'[t].max = n /\ rloc'[t].old = head[Side(t)] /\ rloc'[t].done = 0
          BY <5>3 DEF NoCall
        <5>5. rpc'[t] = "check"
          BY <1>1, <4>1 DEF Call, RteGoto, RteTypes
        <5> QED
          BY <5>2, <5>4, <5>5
      <4>2. CASE Reload(t)
        <5>1. rloc[t] \in RteCalls
          BY <1>1 DEF RteTypes
        <5> QED
          BY <1>1, <1>5, <4>2, <5>1 DEF Reload, RteGoto, RteTypes, RteCalls, CallIsRight
      <4> QED
        BY <2>1, <4>1, <4>2
    <3>2. From(t)' = Claimed(t)
      BY <1>2, <1>6, <3>1 DEF From, Ticket
    <3> QED
      BY <1>1, <1>4, <3>1, <3>2, TypeFacts DEF CallIsRight, Holds
  <2>2. CASE RteRefuse(t)
    BY <1>1, <2>2 DEF RteRefuse, RteReturn, RteGoto, NoCall, CallIsRight, Holds, RteTypes
  <2>3. CASE RteCasLoses(t)
    <3>1. rloc'[t].max = rloc[t].max /\ rloc'[t].done = 0 /\ rpc[t] = "cas" /\ rpc'[t] = "load"
      BY <1>1, <2>3 DEF RteCasLoses, RteGoto, NoCall, RteTypes
    <3> QED
      BY <1>1, <3>1 DEF CallIsRight, Holds
  <2>4. CASE RteAccept(t)
    <3>1. rloc[t] \in RteCalls /\ rloc[t].max \in Nat
      BY <1>1, TypeFacts DEF RteTypes
    <3>2. /\ rpc[t] = "check" /\ rpc'[t] = "cas" /\ rloc'[t].max = rloc[t].max /\ rloc'[t].old = rloc[t].old
          /\ rloc'[t].n = (IF rloc[t].max > Entries(t) THEN Entries(t) ELSE rloc[t].max)
          /\ rloc[t].max <= Entries(t) \/ Entries(t) # 0
          /\ rloc'[t].done = rloc[t].done
      BY <1>1, <2>4, <3>1 DEF RteAccept, RteGoto, RteTypes, RteCalls
    <3>3. From(t) <= Claimed(t) /\ rloc[t].max > 0 /\ From(t)' = From(t)
      BY <1>1, <1>2, <3>2 DEF CallIsRight, From, Ticket
    <3>8. rloc'[t].done = 0
      BY <1>1, <1>5, <3>2 DEF CallIsRight
    <3>4. Entries(t) = Allowed(t) - From(t) /\ Entries(t) \in Nat
      BY <1>1, <3>3, EntriesAre, EntriesType
    <3>5. rloc'[t].n > 0 /\ rloc'[t].n <= Entries(t)
      BY <3>1, <3>2, <3>3, <3>4
    <3>6. From(t) \in Nat /\ Allowed(t) \in Nat /\ rloc'[t].n \in Nat
      BY <1>1, <3>1, <3>2, <3>4, TypeFacts, PosInt
    <3>7. From(t) + rloc'[t].n <= Allowed(t)
      BY <3>4, <3>5, <3>6
    <3> QED
      BY <1>4, <3>2, <3>3, <3>5, <3>7, <3>8 DEF CallIsRight, Holds
  <2> QED
    BY <2>1, <2>2, <2>3, <2>4
<1>8. \A u \in RteThreads : u # t => CallIsRight(u)'
  <2> SUFFICES ASSUME NEW u \in RteThreads, u # t PROVE CallIsRight(u)'
    OBVIOUS
  <2>1. CallIsRight(u) /\ rpc'[u] = rpc[u] /\ rloc'[u] = rloc[u]
    BY <1>1 DEF RteInv, Others
  <2>2. Claimed(u) \in Nat /\ Allowed(u) \in Nat
    BY <1>1, TypeFacts
  <2>3. Holds(u) => Done(u)' <= rloc[u].tick
    BY <1>4, <2>1 DEF CallIsRight
  <2> QED
    BY <1>1, <1>2, <1>4, <2>1, <2>2, <2>3, OtherIsRight
<1>9. Apart'
  BY <1>5 DEF RteInv, Apart, Upto, Side
<1>10. Filled'
  BY <1>2, <1>5 DEF RteInv, Filled, Kept, SlotOf, RteThreads
<1> QED
  BY <1>1, <1>3, <1>7, <1>8, <1>9, <1>10 DEF RteInv
-----------------------------------------------------------------------------
(* A claim, an access and the move of a tail. *)

LEMMA CasWinsMoves ==
  ASSUME RteAssumption, RteInv, NEW t \in RteThreads, RteCasWins(t)
  PROVE  /\ Others(t) /\ UNCHANGED <<tail, objs, org>>
         /\ rpc[t] = "cas" /\ rpc'[t] = "access"
         /\ From(t) = Claimed(t) /\ rloc[t].n > 0 /\ Claimed(t) + rloc[t].n <= Allowed(t)
         /\ Claimed(t)' = Claimed(t) + rloc[t].n
         /\ rloc'[t] = [rloc[t] EXCEPT !.tick = Claimed(t)]
         /\ IF t \in Enqueuers THEN deq' = deq /\ enq' <= MaxEnq ELSE enq' = enq
         /\ Ticket(head'["prod"]) = enq' /\ Ticket(head'["cons"]) = deq'
<1>1. RteTypes /\ Others(t) /\ CallIsRight(t) /\ InOrder /\ org \in RtePos
  BY StepTypes DEF RteInv, RteStep, RteTypes
<1>2. /\ UNCHANGED <<tail, objs, org>> /\ rpc[t] = "cas" /\ rpc'[t] = "access" /\ head[Side(t)] = rloc[t].old
      /\ head' = [head EXCEPT ![Side(t)] = RingU32(head[Side(t)] + rloc[t].n)]
      /\ Claim(t)
  BY <1>1 DEF RteCasWins, RteGoto, RteTypes
<1>3. From(t) = Claimed(t)
  BY <1>1, <1>2, SideOf DEF From, InOrder, Claimed, Side
<1>4. rloc[t].n > 0 /\ Claimed(t) + rloc[t].n <= Allowed(t)
  BY <1>1, <1>2, <1>3 DEF CallIsRight
<1>5. /\ Claimed(t)' = Claimed(t) + rloc[t].n /\ rloc' = [rloc EXCEPT ![t].tick = Claimed(t)]
      /\ IF t \in Enqueuers THEN deq' = deq /\ enq' <= MaxEnq ELSE enq' = enq
  BY <1>2, SideOf DEF Claim, Claimed
<1>6. Claimed(t) + rloc[t].n < RingMod /\ rloc[t].n \in Nat
  <2>1. Allowed(t) < RingMod /\ Allowed(t) \in Nat /\ Claimed(t) \in Nat /\ rloc[t].n \in Nat
    BY <1>1, <1>3, EntriesAre, TypeFacts
  <2> QED
    BY <1>4, <2>1, PosInt
<1>7. Ticket(RingU32(head[Side(t)] + rloc[t].n)) = Claimed(t) + rloc[t].n
  <2>1. head[Side(t)] \in RtePos /\ Ticket(head[Side(t)]) = Claimed(t)
    BY <1>1, <1>2, <1>3, SideOf, TypeFacts DEF From
  <2> QED
    BY <1>1, <1>6, <2>1, TicketOf
<1>8. Ticket(head'["prod"]) = enq' /\ Ticket(head'["cons"]) = deq'
  <2>1. \A p : Ticket(p)' = Ticket(p)
    BY <1>2 DEF Ticket
  <2>2. CASE t \in Enqueuers
    <3>1. head'["prod"] = RingU32(head[Side(t)] + rloc[t].n) /\ head'["cons"] = head["cons"]
      BY <1>1, <1>2, <2>2 DEF Side, RteTypes
    <3> QED
      BY <1>1, <1>2, <1>5, <1>7, <2>2, <3>1 DEF InOrder, Claimed
  <2>3. CASE t \notin Enqueuers
    <3>1. head'["cons"] = RingU32(head[Side(t)] + rloc[t].n) /\ head'["prod"] = head["prod"]
      BY <1>1, <1>2, <2>3 DEF Side, RteTypes
    <3> QED
      BY <1>1, <1>2, <1>5, <1>7, <2>3, <3>1 DEF InOrder, Claimed
  <2> QED
    BY <2>2, <2>3
<1>9. rloc'[t] = [rloc[t] EXCEPT !.tick = Claimed(t)]
  BY <1>1, <1>5 DEF RteTypes
<1> QED
  BY <1>1, <1>2, <1>3, <1>4, <1>5, <1>8, <1>9

LEMMA CasWinsKeeps ==
  ASSUME RteAssumption, RteInv, NEW t \in RteThreads, RteCasWins(t)
  PROVE  RteInv'
<1>1. /\ RteTypes /\ RteTypes' /\ Others(t) /\ UNCHANGED <<tail, objs, org>> /\ CallIsRight(t) /\ InOrder
      /\ rpc[t] = "cas" /\ rpc'[t] = "access"
      /\ From(t) = Claimed(t) /\ rloc[t].n > 0 /\ Claimed(t) + rloc[t].n <= Allowed(t)
      /\ Claimed(t)' = Claimed(t) + rloc[t].n
      /\ IF t \in Enqueuers THEN deq' = deq /\ enq' <= MaxEnq ELSE enq' = enq
      /\ Ticket(head'["prod"]) = enq' /\ Ticket(head'["cons"]) = deq'
  BY StepTypes, CasWinsMoves DEF RteInv, RteStep
<1>2. /\ rloc'[t].max = rloc[t].max /\ rloc'[t].old = rloc[t].old /\ rloc'[t].n = rloc[t].n
      /\ rloc'[t].done = rloc[t].done /\ rloc'[t].tick = Claimed(t)
  <2>1. rloc[t] \in RteCalls /\ rloc'[t] = [rloc[t] EXCEPT !.tick = Claimed(t)]
    BY <1>1, CasWinsMoves DEF RteTypes
  <2> QED
    BY <2>1 DEF RteCalls
<1>3. /\ Published' = Published /\ Freed' = Freed
      /\ \A u \in RteThreads : Allowed(u)' = Allowed(u) /\ Done(u)' = Done(u)
  BY <1>1 DEF Published, Freed, Ticket, Allowed, Done
<1>4. /\ rloc[t].n \in Nat /\ enq \in Nat /\ deq \in Nat /\ Published \in Nat /\ Freed \in Nat /\ mask \in Nat
      /\ \A u \in RteThreads : /\ Claimed(u) \in Nat /\ Done(u) \in Nat /\ Allowed(u) \in Nat /\ Upto(u) \in Nat
                               /\ rloc[u].tick \in Nat /\ rloc[u].n \in Nat
  BY <1>1, TypeFacts, PosInt
<1>5. InOrder'
  <2>1. Ticket(head["prod"])' = enq' /\ Ticket(head["cons"])' = deq'
    BY <1>1 DEF Ticket
  <2>2. CASE t \in Enqueuers
    BY <1>1, <1>3, <1>4, <2>1, <2>2 DEF InOrder, Claimed, Allowed
  <2>3. CASE t \notin Enqueuers
    BY <1>1, <1>3, <1>4, <2>1, <2>3 DEF InOrder, Claimed, Allowed
  <2> QED
    BY <2>2, <2>3
<1>6. \A u \in RteThreads : Claimed(u) <= Claimed(u)'
  BY <1>1, <1>4 DEF Claimed
<1>7. From(t)' = From(t) /\ Upto(t)' = Claimed(t) + rloc[t].n
  BY <1>1, <1>2 DEF From, Ticket, Upto
<1>8. rloc[t].done = 0 /\ rloc[t].max > 0
  BY <1>1 DEF CallIsRight, Holds
<1>9. Done(t) <= Claimed(t)
  BY <1>1 DEF InOrder, Done, Claimed
<1>10. CallIsRight(t)'
  BY <1>1, <1>2, <1>3, <1>4, <1>7, <1>8, <1>9 DEF CallIsRight, Holds
<1>11. \A u \in RteThreads : u # t => CallIsRight(u)'
  <2> SUFFICES ASSUME NEW u \in RteThreads, u # t PROVE CallIsRight(u)'
    OBVIOUS
  <2>1. CallIsRight(u) /\ rpc'[u] = rpc[u] /\ rloc'[u] = rloc[u]
    BY <1>1 DEF RteInv, Others
  <2>2. Holds(u) => Done(u)' <= rloc[u].tick
    BY <1>3, <2>1 DEF CallIsRight
  <2> QED
    BY <1>1, <1>3, <1>4, <1>6, <2>1, <2>2, OtherIsRight
<1>12. \A u \in RteThreads : u # t => /\ (Holds(u)' <=> Holds(u)) /\ rloc'[u] = rloc[u] /\ Upto(u)' = Upto(u)
  BY <1>1 DEF Others, Holds, Upto
<1>13. Apart'
  <2> SUFFICES ASSUME NEW u \in RteThreads, u # t, Side(u) = Side(t), Holds(u)
               PROVE  Upto(u) <= rloc'[t].tick
    BY <1>12 DEF Apart, RteInv, Side
  <2>1. Upto(u) <= Claimed(u)
    BY DEF RteInv, CallIsRight
  <2>2. Claimed(u) = Claimed(t)
    BY DEF Claimed, Side
  <2> QED
    BY <1>2, <2>1, <2>2
<1>14. Filled'
  <2>1. \A e : Kept(e)' <=> Kept(e)
    BY <1>1 DEF Kept, SlotOf
  <2>2. rloc'[t].tick + rloc'[t].done - 1 < rloc'[t].tick /\ rloc'[t].tick \in Nat
    BY <1>2, <1>4, <1>8
  <2>3. \A e \in Freed' .. (Published' - 1) : Kept(e)'
    BY <1>3, <2>1 DEF RteInv, Filled
  <2>4. ASSUME NEW u \in Enqueuers, Holds(u)', NEW e \in rloc'[u].tick .. (rloc'[u].tick + rloc'[u].done - 1)
        PROVE  Kept(e)'
    <3>1. u # t
      BY <1>2, <1>4, <1>8, <2>4
    <3> QED
      BY <1>12, <2>1, <2>4, <3>1 DEF RteInv, Filled, RteThreads
  <2> QED
    BY <2>3, <2>4 DEF Filled
<1> QED
  BY <1>1, <1>5, <1>10, <1>11, <1>13, <1>14 DEF RteInv

LEMMA AccessMoves ==
  ASSUME RteAssumption, RteInv, NEW t \in RteThreads, Store(t) \/ Fetch(t)
  PROVE  /\ Others(t) /\ UNCHANGED <<head, tail, enq, deq, org>>
         /\ rpc[t] = "access" /\ Holds(t)
         /\ rpc'[t] = IF rloc[t].done + 1 = rloc[t].n THEN "publish" ELSE "access"
         /\ rloc'[t] = [rloc[t] EXCEPT !.done = rloc[t].done + 1]
         /\ rloc'[t].max = rloc[t].max /\ rloc'[t].old = rloc[t].old /\ rloc'[t].n = rloc[t].n
         /\ rloc'[t].tick = rloc[t].tick /\ rloc'[t].done = rloc[t].done + 1
         /\ IF t \in Enqueuers THEN objs' = [objs EXCEPT ![StoreSlot(t)] = Element(t)]
                               ELSE objs' = objs
<1>1. RteTypes /\ Others(t) /\ rloc[t] \in RteCalls
  BY StepTypes DEF RteInv, RteStep, RteTypes
<1>2. /\ UNCHANGED <<head, tail, enq, deq, org>> /\ rpc[t] = "access"
      /\ rpc'[t] = IF rloc[t].done + 1 = rloc[t].n THEN "publish" ELSE "access"
      /\ rloc'[t] = [rloc[t] EXCEPT !.done = rloc[t].done + 1]
  BY <1>1 DEF Store, Fetch, AccessDone, RteGoto, RteTypes
<1>3. /\ rloc'[t].max = rloc[t].max /\ rloc'[t].old = rloc[t].old /\ rloc'[t].n = rloc[t].n
      /\ rloc'[t].tick = rloc[t].tick /\ rloc'[t].done = rloc[t].done + 1
  BY <1>1, <1>2 DEF RteCalls
<1>4. IF t \in Enqueuers THEN objs' = [objs EXCEPT ![StoreSlot(t)] = Element(t)] ELSE objs' = objs
  BY SideOf DEF Store, Fetch
<1> QED
  BY <1>1, <1>2, <1>3, <1>4 DEF Holds

\* The slot that is stored to is that of the element, and holds nothing that is alive.
LEMMA StoresApart ==
  ASSUME RteAssumption, RteInv, NEW t \in Enqueuers, rpc[t] = "access"
  PROVE  /\ StoreSlot(t) = SlotOf(Element(t)) /\ StoreSlot(t) \in 0 .. mask
         /\ Element(t) \in Nat /\ Published <= Element(t) /\ Element(t) < enq
         /\ \A e \in Freed .. (enq - 1) : e # Element(t) => SlotOf(e) # StoreSlot(t)
<1>1. t \in RteThreads /\ RteTypes /\ InOrder /\ CallIsRight(t) /\ org \in RtePos
  BY DEF RteInv, RteThreads, RteTypes
<1>2. /\ rloc[t].tick \in Nat /\ rloc[t].n \in Nat /\ rloc[t].done \in Nat /\ rloc[t].old \in RtePos
      /\ Published \in Nat /\ Freed \in Nat /\ enq \in Nat /\ mask \in Nat
  BY <1>1, TypeFacts, PosInt
<1>3. /\ rloc[t].tick = From(t) /\ rloc[t].done < rloc[t].n /\ Published <= rloc[t].tick
      /\ rloc[t].tick + rloc[t].n <= enq
  BY <1>1 DEF CallIsRight, Holds, Done, Claimed, Upto
<1>4. Element(t) \in Nat /\ Published <= Element(t) /\ Element(t) < enq
  BY <1>2, <1>3 DEF Element
<1>5. enq < RingMod /\ enq <= Freed + mask /\ Freed <= Published /\ RingMod \in Nat /\ RingSize \in Nat /\ mask = RingSize - 1
      /\ RingSize >= 2
  <2>1. enq <= MaxEnq /\ enq <= Freed + mask /\ Freed <= deq /\ deq <= Published /\ deq \in Nat
    BY <1>1 DEF InOrder, RteTypes
  <2>2. /\ RingMod \in Nat /\ RingSize \in Nat /\ mask = RingSize - 1 /\ mask >= 1 /\ MaxEnq \in Nat
        /\ MaxEnq + RingSize < RingMod
    BY WrapOnce
  <2> QED
    BY <1>2, <2>1, <2>2
<1>6. RingU32(rloc[t].old + rloc[t].done) = RingU32(org + Element(t))
  <2>1. Ticket(rloc[t].old) + rloc[t].done < RingMod
    BY <1>2, <1>3, <1>4, <1>5 DEF Element, From
  <2> QED
    BY <1>1, <1>2, <1>3, <2>1, TicketOf DEF Element, From
<1>7. StoreSlot(t) = SlotOf(Element(t))
  BY <1>6 DEF StoreSlot, Reached, SlotOf
<1>8. StoreSlot(t) \in 0 .. mask
  <2>1. Reached(t) \in Nat
    BY <1>2, WrapOnce, PosInt DEF Reached
  <2> QED
    BY <1>5, <2>1 DEF StoreSlot
<1>9. ASSUME NEW e \in Freed .. (enq - 1), SlotOf(e) = StoreSlot(t) PROVE e = Element(t)
  <2>1. e \in RtePos /\ Element(t) \in RtePos /\ e - Element(t) < RingSize /\ Element(t) - e < RingSize
    BY <1>2, <1>4, <1>5 DEF RtePos
  <2> QED
    BY <1>1, <1>7, <1>9, <2>1, SlotsDiffer
<1> QED
  BY <1>4, <1>7, <1>8, <1>9

LEMMA AccessKeeps ==
  ASSUME RteAssumption, RteInv, NEW t \in RteThreads, Store(t) \/ Fetch(t)
  PROVE  /\ RteInv'
         /\ \A e \in Freed .. (Published - 1) : objs'[SlotOf(e)] = objs[SlotOf(e)]
<1>1. /\ RteTypes /\ RteTypes' /\ Others(t) /\ UNCHANGED <<head, tail, enq, deq, org>> /\ CallIsRight(t) /\ InOrder
      /\ rpc[t] = "access" /\ Holds(t)
      /\ rpc'[t] = IF rloc[t].done + 1 = rloc[t].n THEN "publish" ELSE "access"
      /\ rloc'[t].max = rloc[t].max /\ rloc'[t].old = rloc[t].old /\ rloc'[t].n = rloc[t].n
      /\ rloc'[t].tick = rloc[t].tick /\ rloc'[t].done = rloc[t].done + 1
      /\ IF t \in Enqueuers THEN objs' = [objs EXCEPT ![StoreSlot(t)] = Element(t)] ELSE objs' = objs
  BY StepTypes, AccessMoves DEF RteInv, RteStep
<1>2. /\ Published' = Published /\ Freed' = Freed
      /\ \A u \in RteThreads : Allowed(u)' = Allowed(u) /\ Done(u)' = Done(u) /\ Claimed(u)' = Claimed(u)
  BY <1>1 DEF Published, Freed, Ticket, Allowed, Done, Claimed
<1>3. /\ enq \in Nat /\ Published \in Nat /\ Freed \in Nat
      /\ \A u \in RteThreads : /\ Claimed(u) \in Nat /\ Allowed(u) \in Nat /\ Upto(u) \in Nat /\ rloc[u].tick \in Nat
                               /\ rloc[u].n \in Nat /\ rloc[u].done \in Nat
  BY <1>1, TypeFacts, PosInt
<1>4. InOrder'
  BY <1>1, <1>2 DEF InOrder, Ticket
<1>5. Holds(t)' /\ From(t)' = From(t) /\ Upto(t)' = Upto(t)
  BY <1>1 DEF Holds, From, Ticket, Upto
<1>6. rloc[t].done < rloc[t].n /\ rloc[t].max > 0 /\ rloc[t].tick = From(t) /\ rloc[t].n > 0
      /\ Done(t) <= rloc[t].tick /\ Upto(t) <= Claimed(t)
  BY <1>1 DEF CallIsRight
<1>7. CallIsRight(t)'
  <2>1. rpc'[t] = "access" => rloc'[t].done < rloc'[t].n
    BY <1>1, <1>3, <1>6
  <2>2. rpc'[t] = "publish" => rloc'[t].done = rloc'[t].n
    BY <1>1
  <2>3. rpc'[t] \in {"access", "publish"}
    BY <1>1
  <2> QED
    BY <1>1, <1>2, <1>5, <1>6, <2>1, <2>2, <2>3 DEF CallIsRight
<1>8. \A u \in RteThreads : u # t => CallIsRight(u)'
  <2> SUFFICES ASSUME NEW u \in RteThreads, u # t PROVE CallIsRight(u)'
    OBVIOUS
  <2>1. CallIsRight(u) /\ rpc'[u] = rpc[u] /\ rloc'[u] = rloc[u]
    BY <1>1 DEF RteInv, Others
  <2>2. Holds(u) => Done(u)' <= rloc[u].tick
    BY <1>2, <2>1 DEF CallIsRight
  <2> QED
    BY <1>1, <1>2, <1>3, <2>1, <2>2, OtherIsRight
<1>9. \A u \in RteThreads : /\ (Holds(u)' <=> Holds(u)) /\ rloc'[u].tick = rloc[u].tick /\ Upto(u)' = Upto(u)
  <2> TAKE u \in RteThreads
  <2>1. CASE u # t
    BY <1>1, <2>1 DEF Others, Holds, Upto
  <2> QED
    BY <1>1, <1>5, <2>1
<1>10. Apart'
  BY <1>9 DEF RteInv, Apart, Side
<1>11. ASSUME NEW e \in Freed .. (enq - 1), t \in Enqueuers => e # Element(t)
       PROVE  objs'[SlotOf(e)] = objs[SlotOf(e)]
  <2>1. CASE t \in Enqueuers
    <3>1. SlotOf(e) # StoreSlot(t) /\ SlotOf(e) \in DOMAIN objs
      BY <1>1, <1>11, <2>1, StoresApart, SlotIn DEF RteTypes
    <3> QED
      BY <1>1, <2>1, <3>1
  <2>2. CASE t \notin Enqueuers
    BY <1>1, <2>2
  <2> QED
    BY <2>1, <2>2
<1>12. ASSUME NEW e \in Freed .. (enq - 1), t \in Enqueuers => e # Element(t), Kept(e) PROVE Kept(e)'
  <2>1. objs'[SlotOf(e)] = e
    BY <1>11, <1>12 DEF Kept
  <2>2. \A d : Kept(d)' <=> objs'[SlotOf(d)] = d
    BY <1>1 DEF Kept, SlotOf
  <2> QED
    BY <2>1, <2>2
<1>13. Published <= enq /\ Freed <= Published
  <2>1. deq \in Nat
    BY <1>1 DEF RteTypes
  <2> QED
    BY <1>1, <1>3, <2>1 DEF InOrder
<1>14. ASSUME NEW e \in Freed .. (Published - 1)
       PROVE  e \in Freed .. (enq - 1) /\ (t \in Enqueuers => e # Element(t))
  <2>1. t \in Enqueuers => Published <= Element(t) /\ Element(t) \in Nat
    BY <1>1, StoresApart
  <2> QED
    BY <1>3, <1>13, <2>1
<1>15. Filled'
  <2>1. \A e \in Freed' .. (Published' - 1) : Kept(e)'
    BY <1>2, <1>12, <1>14 DEF RteInv, Filled
  <2>2. ASSUME NEW u \in Enqueuers, Holds(u)', NEW e \in rloc'[u].tick .. (rloc'[u].tick + rloc'[u].done - 1)
        PROVE  Kept(e)'
    <3>1. u \in RteThreads /\ Holds(u) /\ CallIsRight(u)
      BY <1>9, <2>2 DEF RteThreads, RteInv
    <3>2. Published <= rloc[u].tick /\ rloc[u].tick + rloc[u].n <= enq /\ rloc[u].done <= rloc[u].n
      BY <1>3, <3>1 DEF CallIsRight, Holds, Done, Claimed, Upto
    <3>3. CASE u # t
      <4>1. e \in rloc[u].tick .. (rloc[u].tick + rloc[u].done - 1)
        BY <1>1, <2>2, <3>3 DEF Others, RteThreads
      <4>2. Kept(e)
        BY <3>1, <4>1 DEF RteInv, Filled
      <4>3. e \in Freed .. (enq - 1)
        BY <1>3, <1>13, <3>1, <3>2, <4>1
      <4>4. t \in Enqueuers => e # Element(t)
        <5> SUFFICES ASSUME t \in Enqueuers PROVE e # Element(t)
          OBVIOUS
        <5>1. Upto(t) <= rloc[u].tick \/ Upto(u) <= rloc[t].tick
          BY <1>1, <3>1, <3>3 DEF RteInv, Apart, Side
        <5> QED
          BY <1>3, <1>6, <3>1, <3>2, <4>1, <5>1 DEF Upto, Element
      <4> QED
        BY <1>12, <4>2, <4>3, <4>4
    <3>4. CASE u = t
      <4>1. e \in rloc[t].tick .. (rloc[t].tick + rloc[t].done)
        BY <1>1, <1>3, <2>2, <3>4
      <4>2. e \in Freed .. (enq - 1)
        BY <1>3, <1>6, <1>13, <3>2, <3>4, <4>1
      <4>3. CASE e = Element(t)
        <5>1. objs'[StoreSlot(t)] = Element(t)
          BY <1>1, <3>4, StoresApart DEF RteTypes
        <5>2. SlotOf(e) = StoreSlot(t)
          BY <1>1, <3>4, <4>3, StoresApart
        <5> QED
          BY <1>1, <4>3, <5>1, <5>2 DEF Kept, SlotOf
      <4>4. CASE e # Element(t)
        <5>1. e \in rloc[t].tick .. (rloc[t].tick + rloc[t].done - 1)
          BY <1>3, <4>1, <4>4 DEF Element
        <5>2. Kept(e)
          BY <3>1, <3>4, <5>1 DEF RteInv, Filled
        <5> QED
          BY <1>12, <4>2, <4>4, <5>2
      <4> QED
        BY <4>3, <4>4
    <3> QED
      BY <3>3, <3>4
  <2> QED
    BY <2>1, <2>2 DEF Filled
<1>16. \A e \in Freed .. (Published - 1) : objs'[SlotOf(e)] = objs[SlotOf(e)]
  BY <1>11, <1>14
<1> QED
  BY <1>1, <1>4, <1>7, <1>8, <1>10, <1>15, <1>16 DEF RteInv

\* The call whose claim the tail has reached moves it to the end of the claim.
LEMMA MoveTailMoves ==
  ASSUME RteAssumption, RteInv, NEW t \in RteThreads, MoveTail(t)
  PROVE  /\ Others(t) /\ UNCHANGED <<head, objs, enq, deq, org>>
         /\ Holds(t) /\ ~Holds(t)' /\ rpc'[t] = "idle" /\ rloc'[t] = NoCall
         /\ rloc[t].done = rloc[t].n /\ rloc[t].n > 0 /\ rloc[t].tick = Done(t) /\ Upto(t) <= Claimed(t)
         /\ IF t \in Enqueuers THEN Published' = Upto(t) /\ Freed' = Freed
                               ELSE Freed' = Upto(t) /\ Published' = Published
<1>1. RteTypes /\ Others(t) /\ CallIsRight(t) /\ InOrder /\ org \in RtePos
  BY StepTypes DEF RteInv, RteStep, RteTypes
<1>2. /\ UNCHANGED <<head, objs, enq, deq, org>> /\ rpc[t] = "publish" /\ rpc'[t] = "idle" /\ rloc'[t] = NoCall
      /\ tail[Side(t)] = rloc[t].old
      /\ tail' = [tail EXCEPT ![Side(t)] = RingU32(rloc[t].old + rloc[t].n)]
  BY <1>1 DEF MoveTail, RteReturn, RteGoto, RteTypes
<1>3. Holds(t) /\ ~Holds(t)'
  BY <1>2 DEF Holds
<1>4. rloc[t].done = rloc[t].n /\ rloc[t].n > 0 /\ rloc[t].tick = From(t) /\ Upto(t) <= Claimed(t)
  BY <1>1, <1>2, <1>3 DEF CallIsRight
<1>5. Done(t) = From(t)
  BY <1>1, <1>2, SideOf DEF Done, Published, Freed, From, Side
<1>6. Upto(t) < RingMod
  <2>1. enq \in Nat /\ deq \in Nat /\ Published \in Nat /\ Upto(t) \in Nat
    BY <1>1, TypeFacts
  <2>2. deq <= enq /\ enq <= MaxEnq
    BY <1>1, <2>1 DEF InOrder
  <2>3. MaxEnq \in Nat /\ RingSize \in Nat /\ RingMod \in Nat /\ MaxEnq + RingSize < RingMod
    BY WrapOnce
  <2>4. Claimed(t) <= enq /\ Claimed(t) \in Nat
    BY <2>1, <2>2 DEF Claimed
  <2> QED
    BY <1>4, <2>1, <2>2, <2>3, <2>4
<1>7. Ticket(RingU32(rloc[t].old + rloc[t].n)) = Upto(t)
  <2>1. rloc[t].old \in RtePos /\ rloc[t].n \in Nat
    BY <1>1, TypeFacts
  <2>2. Ticket(rloc[t].old) + rloc[t].n = Upto(t)
    BY <1>4 DEF From, Upto
  <2> QED
    BY <1>1, <1>6, <2>1, <2>2, TicketOf
<1>8. IF t \in Enqueuers THEN Published' = Upto(t) /\ Freed' = Freed
                         ELSE Freed' = Upto(t) /\ Published' = Published
  <2>1. \A p : Ticket(p)' = Ticket(p)
    BY <1>2 DEF Ticket
  <2>2. CASE t \in Enqueuers
    <3>1. tail'["prod"] = RingU32(rloc[t].old + rloc[t].n) /\ tail'["cons"] = tail["cons"]
      BY <1>1, <1>2, <2>2 DEF Side, RteTypes
    <3> QED
      BY <1>2, <1>7, <2>2, <3>1 DEF Published, Freed, Ticket
  <2>3. CASE t \notin Enqueuers
    <3>1. tail'["cons"] = RingU32(rloc[t].old + rloc[t].n) /\ tail'["prod"] = tail["prod"]
      BY <1>1, <1>2, <2>3 DEF Side, RteTypes
    <3> QED
      BY <1>2, <1>7, <2>3, <3>1 DEF Published, Freed, Ticket
  <2> QED
    BY <2>2, <2>3
<1> QED
  BY <1>1, <1>2, <1>3, <1>4, <1>5, <1>8

LEMMA MoveTailKeeps ==
  ASSUME RteAssumption, RteInv, NEW t \in RteThreads, MoveTail(t)
  PROVE  RteInv'
<1>1. /\ RteTypes /\ RteTypes' /\ Others(t) /\ UNCHANGED <<head, objs, enq, deq, org>> /\ InOrder
      /\ Holds(t) /\ ~Holds(t)' /\ rpc'[t] = "idle" /\ rloc'[t] = NoCall
      /\ rloc[t].done = rloc[t].n /\ rloc[t].n > 0 /\ rloc[t].tick = Done(t) /\ Upto(t) <= Claimed(t)
      /\ IF t \in Enqueuers THEN Published' = Upto(t) /\ Freed' = Freed
                            ELSE Freed' = Upto(t) /\ Published' = Published
  BY StepTypes, MoveTailMoves DEF RteInv, RteStep
<1>2. /\ enq \in Nat /\ deq \in Nat /\ Published \in Nat /\ Freed \in Nat /\ mask \in Nat
      /\ \A u \in RteThreads : /\ Claimed(u) \in Nat /\ Allowed(u) \in Nat /\ Upto(u) \in Nat /\ rloc[u].tick \in Nat
                               /\ rloc[u].n \in Nat /\ rloc[u].done \in Nat /\ Done(u) \in Nat
  BY <1>1, TypeFacts, PosInt
<1>3. Done(t) < Upto(t)
  BY <1>1, <1>2 DEF Upto
<1>4. InOrder'
  <2>1. Ticket(head["prod"])' = Ticket(head["prod"]) /\ Ticket(head["cons"])' = Ticket(head["cons"])
    BY <1>1 DEF Ticket
  <2>2. CASE t \in Enqueuers
    BY <1>1, <1>2, <1>3, <2>1, <2>2 DEF InOrder, Claimed, Done
  <2>3. CASE t \notin Enqueuers
    BY <1>1, <1>2, <1>3, <2>1, <2>3 DEF InOrder, Claimed, Done
  <2> QED
    BY <2>2, <2>3
<1>5. CallIsRight(t)'
  BY <1>1 DEF CallIsRight, NoCall
<1>6. \A u \in RteThreads : Claimed(u)' = Claimed(u) /\ Allowed(u) <= Allowed(u)'
  <2> TAKE u \in RteThreads
  <2>1. Published <= Published' /\ Freed <= Freed'
    BY <1>1, <1>2, <1>3 DEF Done
  <2>2. Published' \in Nat /\ Freed' \in Nat
    BY <1>1, <1>2
  <2> QED
    BY <1>1, <1>2, <2>1, <2>2 DEF Claimed, Allowed
<1>7. ASSUME NEW u \in RteThreads, u # t, Holds(u) PROVE Done(u)' <= rloc[u].tick
  <2>1. CallIsRight(u)
    BY DEF RteInv
  <2>2. Done(u) <= rloc[u].tick /\ rloc[u].n > 0
    BY <1>7, <2>1 DEF CallIsRight
  <2>3. CASE Side(u) = Side(t)
    <3>1. Upto(t) <= rloc[u].tick \/ Upto(u) <= rloc[t].tick
      BY <1>1, <1>7, <2>3 DEF RteInv, Apart
    <3>2. Done(u) = Done(t) /\ Done(u)' = Upto(t)
      BY <1>1, <2>3 DEF Done, Side
    <3>3. ~(Upto(u) <= rloc[t].tick)
      BY <1>1, <1>2, <2>2, <3>2 DEF Upto
    <3> QED
      BY <3>1, <3>2, <3>3
  <2>4. CASE Side(u) # Side(t)
    BY <1>1, <2>2, <2>4 DEF Done, Side
  <2> QED
    BY <2>3, <2>4
<1>8. \A u \in RteThreads : u # t => CallIsRight(u)'
  <2> SUFFICES ASSUME NEW u \in RteThreads, u # t PROVE CallIsRight(u)'
    OBVIOUS
  <2>1. CallIsRight(u) /\ rpc'[u] = rpc[u] /\ rloc'[u] = rloc[u]
    BY <1>1 DEF RteInv, Others
  <2> QED
    BY <1>1, <1>2, <1>6, <1>7, <2>1, OtherIsRight
<1>9. \A u \in RteThreads : Holds(u)' => u # t /\ Holds(u) /\ rloc'[u] = rloc[u] /\ Upto(u)' = Upto(u)
  BY <1>1 DEF Others, Holds, Upto
<1>10. Apart'
  BY <1>9 DEF RteInv, Apart, Side
<1>11. \A e : Kept(e)' <=> Kept(e)
  BY <1>1 DEF Kept, SlotOf
<1>12. ASSUME NEW e \in Freed' .. (Published' - 1) PROVE Kept(e)
  <2>1. CASE t \in Enqueuers
    <3>1. e \in Freed .. (Published - 1) \/ e \in rloc[t].tick .. (rloc[t].tick + rloc[t].done - 1)
      BY <1>1, <1>2, <2>1 DEF Done, Upto
    <3> QED
      BY <1>1, <2>1, <3>1 DEF RteInv, Filled
  <2>2. CASE t \notin Enqueuers
    <3>1. e \in Freed .. (Published - 1)
      BY <1>1, <1>2, <1>3, <2>2 DEF Done
    <3> QED
      BY <3>1 DEF RteInv, Filled
  <2> QED
    BY <2>1, <2>2
<1>13. Filled'
  <2>1. ASSUME NEW u \in Enqueuers, Holds(u)', NEW e \in rloc'[u].tick .. (rloc'[u].tick + rloc'[u].done - 1)
        PROVE  Kept(e)'
    <3>1. Holds(u) /\ rloc'[u] = rloc[u]
      BY <1>9, <2>1 DEF RteThreads
    <3>2. Kept(e)
      BY <2>1, <3>1 DEF RteInv, Filled
    <3> QED
      BY <1>11, <3>2
  <2> QED
    BY <1>11, <1>12, <2>1 DEF Filled
<1> QED
  BY <1>1, <1>4, <1>5, <1>8, <1>10, <1>13 DEF RteInv
-----------------------------------------------------------------------------
(* The invariant holds. *)

LEMMA InitRteInv == RteAssumption /\ RteInit => RteInv
<1> SUFFICES ASSUME RteAssumption, RteInit PROVE RteInv
  OBVIOUS
<1>1. PICK s \in RingStarts :
        /\ head = [prod |-> s, cons |-> s] /\ tail = head /\ org = s
        /\ objs = [i \in 0 .. mask |-> Raw]
        /\ rpc = [t \in RteThreads |-> "idle"] /\ rloc = [t \in RteThreads |-> NoCall]
        /\ enq = 0 /\ deq = 0
  BY DEF RteInit
<1>2. s \in RtePos
  BY DEF RteAssumption, RtePos
<1>3. RteTypes
  BY <1>1, <1>2, NoCallType DEF RteTypes
<1>4. Ticket(s) = 0
  BY <1>1, <1>2, WrapOnce DEF Ticket, RtePos
<1>5. Published = 0 /\ Freed = 0 /\ Ticket(head["prod"]) = 0 /\ Ticket(head["cons"]) = 0
  BY <1>1, <1>4 DEF Published, Freed
<1>6. InOrder
  BY <1>1, <1>5, WrapOnce DEF InOrder
<1>7. \A t \in RteThreads : ~Holds(t) /\ CallIsRight(t)
  BY <1>1 DEF Holds, CallIsRight, NoCall
<1>8. Apart
  BY <1>7 DEF Apart
<1>9. Filled
  BY <1>5, <1>7 DEF Filled, RteThreads
<1> QED
  BY <1>3, <1>6, <1>7, <1>8, <1>9 DEF RteInv

LEMMA NextRteInv == RteAssumption /\ RteInv /\ [RteNext]_rtevars => RteInv'
<1> SUFFICES ASSUME RteAssumption, RteInv, [RteNext]_rtevars PROVE RteInv'
  OBVIOUS
<1>1. CASE RteNext
  <2>1. PICK t \in RteThreads : Call(t) \/ RteStep(t)
    BY <1>1 DEF RteNext
  <2>2. CASE Call(t) \/ RteRefuse(t) \/ RteAccept(t) \/ RteCasLoses(t) \/ Reload(t)
    BY <2>2, LocalKeeps
  <2>3. CASE RteCasWins(t)
    BY <2>3, CasWinsKeeps
  <2>4. CASE Store(t) \/ Fetch(t)
    BY <2>4, AccessKeeps
  <2>5. CASE MoveTail(t)
    BY <2>5, MoveTailKeeps
  <2> QED
    BY <2>1, <2>2, <2>3, <2>4, <2>5 DEF RteStep
<1>2. CASE UNCHANGED rtevars
  <2>1. \A t : CallIsRight(t)' <=> CallIsRight(t)
    BY <1>2 DEF rtevars, CallIsRight, Holds, From, Ticket, Claimed, Allowed, Done, Upto, Published, Freed
  <2>2. (InOrder' <=> InOrder) /\ (RteTypes' <=> RteTypes)
    BY <1>2 DEF rtevars, InOrder, RteTypes, Ticket, Published, Freed
  <2>3. (Apart' <=> Apart)
    BY <1>2 DEF rtevars, Apart, Holds, Upto, Side
  <2>4. Filled'
    BY <1>2 DEF rtevars, RteInv, Filled, Kept, SlotOf, Holds, Published, Freed, Ticket
  <2> QED
    BY <2>1, <2>2, <2>3, <2>4 DEF RteInv
<1> QED
  BY <1>1, <1>2

LEMMA RteInvHolds == RteAssumption /\ RteInit /\ [][RteNext]_rtevars => []RteInv
<1>1. RteAssumption => [](RteAssumption)
  <2>1. RteAssumption => RteAssumption'
    BY DEF RteAssumption
  <2> QED
    BY <2>1, PTL
<1> QED
  BY <1>1, InitRteInv, NextRteInv, PTL
-----------------------------------------------------------------------------
(* The ring implements the bounded queue. *)

\* The elements from a on and before b, in order.
Names(a, b) == [i \in 1 .. (b - a) |-> a + i - 1]

LEMMA NamesAre ==
  ASSUME NEW a \in Nat, NEW b \in Nat, a <= b
  PROVE  /\ Names(a, b) \in Seq(Nat) /\ Len(Names(a, b)) = b - a
         /\ \A i \in 1 .. (b - a) : Names(a, b)[i] = a + i - 1
<1>1. b - a \in Nat /\ \A i \in 1 .. (b - a) : a + i - 1 \in Nat
  OBVIOUS
<1>2. Names(a, b) \in [1 .. (b - a) -> Nat]
  BY <1>1 DEF Names
<1> QED
  BY <1>1, <1>2 DEF Names

\* More elements at the end, and fewer at the front.
LEMMA NamesAppear ==
  ASSUME NEW a \in Nat, NEW b \in Nat, a <= b, NEW n \in Nat
  PROVE  Names(a, b + n) = Names(a, b) \o [i \in 1 .. n |-> b + i - 1]
<1> DEFINE s == Names(a, b)
           f == [i \in 1 .. n |-> b + i - 1]
           r == Names(a, b + n)
<1>1. s \in Seq(Nat) /\ Len(s) = b - a /\ \A i \in 1 .. (b - a) : s[i] = a + i - 1
  BY NamesAre
<1>2. r \in Seq(Nat) /\ Len(r) = b + n - a /\ \A i \in 1 .. (b + n - a) : r[i] = a + i - 1
  <2>1. b + n \in Nat /\ a <= b + n
    OBVIOUS
  <2> QED
    BY <2>1, NamesAre
<1>3. f \in Seq(Nat) /\ Len(f) = n /\ \A i \in 1 .. n : f[i] = b + i - 1
  <2>1. f \in [1 .. n -> Nat]
    OBVIOUS
  <2> QED
    BY <2>1
<1> HIDE DEF s, f, r
<1>4. s \o f \in Seq(Nat) /\ Len(s \o f) = b + n - a
  BY <1>1, <1>3
<1>5. \A i \in 1 .. (b + n - a) : (s \o f)[i] = a + i - 1
  <2> TAKE i \in 1 .. (b + n - a)
  <2>1. CASE i <= b - a
    BY <1>1, <1>3, <2>1
  <2>2. CASE i > b - a
    <3>1. (s \o f)[i] = f[i - (b - a)]
      BY <1>1, <1>3, <2>2
    <3>2. i - (b - a) \in 1 .. n
      BY <2>2
    <3> QED
      BY <1>3, <3>1, <3>2
  <2>3. i \in Int /\ b - a \in Int
    OBVIOUS
  <2>4. i <= b - a \/ i > b - a
    BY <2>3
  <2> QED
    BY <2>1, <2>2, <2>4
<1>6. r = s \o f
  BY <1>2, <1>4, <1>5, SeqEqual
<1> QED
  BY <1>6 DEF r, s, f

LEMMA NamesTaken ==
  ASSUME NEW a \in Nat, NEW b \in Nat, NEW n \in Nat, a + n <= b
  PROVE  Names(a + n, b) = SubSeq(Names(a, b), n + 1, Len(Names(a, b)))
<1> DEFINE s == Names(a, b)
           r == Names(a + n, b)
<1>1. s \in Seq(Nat) /\ Len(s) = b - a /\ \A i \in 1 .. (b - a) : s[i] = a + i - 1
  BY NamesAre
<1>2. a + n \in Nat
  OBVIOUS
<1>3. r \in Seq(Nat) /\ Len(r) = b - (a + n) /\ \A i \in 1 .. (b - (a + n)) : r[i] = (a + n) + i - 1
  BY <1>2, NamesAre
<1> HIDE DEF s, r
<1>4. /\ SubSeq(s, n + 1, Len(s)) \in Seq(Nat) /\ Len(SubSeq(s, n + 1, Len(s))) = b - (a + n)
      /\ \A i \in 1 .. (b - (a + n)) : SubSeq(s, n + 1, Len(s))[i] = s[n + i]
  BY <1>1
<1>5. \A i \in 1 .. (b - (a + n)) : s[n + i] = (a + n) + i - 1
  <2> TAKE i \in 1 .. (b - (a + n))
  <2>1. n + i \in 1 .. (b - a) /\ a + (n + i) - 1 = (a + n) + i - 1
    OBVIOUS
  <2> QED
    BY <1>1, <2>1
<1>6. \A i \in 1 .. Len(r) : r[i] = SubSeq(s, n + 1, Len(s))[i]
  BY <1>3, <1>4, <1>5
<1>7. r = SubSeq(s, n + 1, Len(s))
  BY <1>3, <1>4, <1>6, SeqEqual
<1> QED
  BY <1>7 DEF r, s

\* What the queue holds are the elements that are published and not claimed.
RteItems == [i \in 1 .. (Published - deq) |-> objs[RingU32(org + deq + i - 1) % RingSize]]

LEMMA ItemsAre == RteAssumption /\ RteInv => RteItems = Names(deq, Published)
<1> SUFFICES ASSUME RteAssumption, RteInv PROVE RteItems = Names(deq, Published)
  OBVIOUS
<1>1. RteTypes /\ InOrder /\ Filled
  BY DEF RteInv
<1>2. deq \in Nat /\ Published \in Nat /\ Freed \in Nat /\ org \in Nat /\ Freed <= deq
  BY <1>1, TypeFacts, PosInt DEF InOrder, RteTypes
<1>3. ASSUME NEW i \in 1 .. (Published - deq)
      PROVE  objs[RingU32(org + deq + i - 1) % RingSize] = deq + i - 1
  <2>1. deq + i - 1 \in Freed .. (Published - 1) /\ org + (deq + i - 1) = org + deq + i - 1
    BY <1>2
  <2>2. Kept(deq + i - 1)
    BY <1>1, <2>1 DEF Filled
  <2> QED
    BY <2>1, <2>2 DEF Kept, SlotOf
<1> QED
  BY <1>3 DEF RteItems, Names

LEMMA ItemsAreNext == RteAssumption => (RteInv => RteItems = Names(deq, Published))'
<1>1. RteAssumption => RteAssumption'
  BY DEF RteAssumption
<1> QED
  BY <1>1, ItemsAre, PTL

LEMMA InitFifo == RteAssumption /\ RteInit => Fifo!Init
<1> SUFFICES ASSUME RteAssumption, RteInit PROVE Fifo!Init
  OBVIOUS
<1>1. RteInv /\ enq = 0 /\ deq = 0
  BY InitRteInv DEF RteInit
<1>2. Freed \in Nat /\ Published \in Nat
  BY <1>1, TypeFacts DEF RteInv
<1>3. Freed = 0 /\ Published = 0
  BY <1>1, <1>2 DEF RteInv, InOrder
<1>4. RteItems = <<>>
  BY <1>1, <1>3 DEF RteItems
<1> QED
  BY <1>1, <1>3, <1>4 DEF Fifo!Init, RteItems

\* A claim takes room, or takes elements; the move of a tail gives them on, or back.
LEMMA StepIsFifo ==
  ASSUME RteAssumption, RteInv, NEW t \in RteThreads, Call(t) \/ RteStep(t)
  PROVE  Fifo!Next \/ UNCHANGED Fifo!vars
<1>1. RteTypes /\ InOrder /\ RteInv'
  BY NextRteInv DEF RteInv, RteNext
<1>2. RteItems = Names(deq, Published) /\ RteItems' = Names(deq', Published')
  BY <1>1, ItemsAre, ItemsAreNext DEF Names
<1>3. /\ enq \in Nat /\ deq \in Nat /\ Published \in Nat /\ Freed \in Nat /\ mask \in Nat
      /\ rloc[t].n \in Nat /\ rloc[t].tick \in Nat
      /\ Freed <= deq /\ deq <= Published /\ Published <= enq /\ enq <= Freed + mask
  BY <1>1, TypeFacts DEF InOrder
<1>4. Len(RteItems) = Published - deq
  BY <1>2, <1>3, NamesAre
<1>5. CASE Call(t) \/ RteRefuse(t) \/ RteAccept(t) \/ RteCasLoses(t) \/ Reload(t) \/ Store(t) \/ Fetch(t)
  <2>1. UNCHANGED <<tail, enq, deq, org>>
    BY <1>1, <1>5, LocalSteps, AccessMoves DEF Local
  <2>2. Published' = Published /\ Freed' = Freed
    BY <2>1 DEF Published, Freed, Ticket
  <2>3. RteItems' = RteItems
    BY <1>2, <2>1, <2>2
  <2> QED
    BY <2>1, <2>2, <2>3 DEF Fifo!vars, RteItems
<1>6. CASE RteCasWins(t)
  <2>1. /\ UNCHANGED <<tail, org>> /\ rloc[t].n > 0 /\ Claimed(t) + rloc[t].n <= Allowed(t)
        /\ Claimed(t)' = Claimed(t) + rloc[t].n
        /\ IF t \in Enqueuers THEN deq' = deq ELSE enq' = enq
    BY <1>6, CasWinsMoves
  <2>2. Published' = Published /\ Freed' = Freed
    BY <2>1 DEF Published, Freed, Ticket
  <2>3. CASE t \in Enqueuers
    <3>1. enq' = enq + rloc[t].n /\ enq + rloc[t].n <= Freed + mask /\ deq' = deq
      BY <2>1, <2>3 DEF Claimed, Allowed
    <3>2. RteItems' = RteItems
      BY <1>2, <2>2, <3>1
    <3>3. rloc[t].n \in 1 .. mask
      BY <1>3, <2>1, <3>1
    <3>4. /\ (enq - Published) + Len(RteItems) + (deq - Freed) + rloc[t].n <= mask
          /\ enq' - Published' = (enq - Published) + rloc[t].n
          /\ RteItems' = RteItems /\ Published' = Published /\ deq' - Freed' = deq - Freed
      BY <1>3, <1>4, <2>2, <3>1, <3>2
    <3>5. Fifo!Enter(rloc[t].n)
      BY <3>4 DEF Fifo!Enter, RteItems
    <3> QED
      BY <3>3, <3>5 DEF Fifo!Next
  <2>4. CASE t \notin Enqueuers
    <3>1. deq' = deq + rloc[t].n /\ deq + rloc[t].n <= Published /\ enq' = enq
      BY <2>1, <2>4 DEF Claimed, Allowed
    <3>2. RteItems' = SubSeq(RteItems, rloc[t].n + 1, Len(RteItems))
      BY <1>2, <1>3, <2>2, <3>1, NamesTaken
    <3>3. rloc[t].n \in 1 .. Len(RteItems)
      BY <1>3, <1>4, <2>1, <3>1
    <3>4. deq' - Freed' = (deq - Freed) + rloc[t].n /\ Published' = Published /\ enq' - Published' = enq - Published
      BY <1>3, <2>2, <3>1
    <3>5. Fifo!Take(rloc[t].n)
      BY <3>2, <3>4 DEF Fifo!Take, RteItems
    <3> QED
      BY <3>3, <3>5 DEF Fifo!Next, RteItems
  <2> QED
    BY <2>3, <2>4
<1>7. CASE MoveTail(t)
  <2>1. /\ UNCHANGED <<enq, deq>> /\ rloc[t].n > 0 /\ rloc[t].tick = Done(t) /\ Upto(t) <= Claimed(t)
        /\ IF t \in Enqueuers THEN Published' = Upto(t) /\ Freed' = Freed
                              ELSE Freed' = Upto(t) /\ Published' = Published
    BY <1>7, MoveTailMoves
  <2>2. CASE t \in Enqueuers
    <3>1. Published' = Published + rloc[t].n /\ Freed' = Freed /\ Published + rloc[t].n <= enq
      BY <2>1, <2>2 DEF Done, Upto, Claimed
    <3>2. RteItems' = RteItems \o [i \in 1 .. rloc[t].n |-> Published + i - 1]
      <4>1. RteItems' = Names(deq, Published + rloc[t].n)
        <5>1. deq' = deq /\ Published' = Published + rloc[t].n
          BY <2>1, <3>1
        <5> QED
          BY <1>2, <5>1, Zenon
      <4>2. Names(deq, Published + rloc[t].n)
              = Names(deq, Published) \o [i \in 1 .. rloc[t].n |-> Published + i - 1]
        <5>1. deq \in Nat /\ Published \in Nat /\ deq <= Published /\ rloc[t].n \in Nat
          BY <1>3
        <5> QED
          BY <5>1, NamesAppear, Zenon
      <4> QED
        BY <1>2, <4>1, <4>2, Zenon
    <3>3. rloc[t].n \in 1 .. (enq - Published)
      BY <1>3, <2>1, <3>1
    <3>4. enq' - Published' = (enq - Published) - rloc[t].n /\ deq' - Freed' = deq - Freed
      BY <1>3, <2>1, <3>1
    <3>5. Fifo!Appear(rloc[t].n)
      BY <3>1, <3>2, <3>4 DEF Fifo!Appear, RteItems
    <3> QED
      BY <3>3, <3>5 DEF Fifo!Next
  <2>3. CASE t \notin Enqueuers
    <3>1. Freed' = Freed + rloc[t].n /\ Published' = Published /\ Freed + rloc[t].n <= deq
      BY <2>1, <2>3 DEF Done, Upto, Claimed
    <3>2. RteItems' = RteItems
      BY <1>2, <2>1, <3>1
    <3>3. rloc[t].n \in 1 .. (deq - Freed)
      BY <1>3, <2>1, <3>1
    <3>4. enq' - Published' = enq - Published /\ deq' - Freed' = (deq - Freed) - rloc[t].n
      BY <1>3, <2>1, <3>1
    <3>5. Fifo!Leave(rloc[t].n)
      BY <3>1, <3>2, <3>4 DEF Fifo!Leave, RteItems
    <3> QED
      BY <3>3, <3>5 DEF Fifo!Next
  <2> QED
    BY <2>2, <2>3
<1> QED
  BY <1>5, <1>6, <1>7 DEF RteStep

LEMMA NextIsFifo == RteAssumption /\ RteInv /\ [RteNext]_rtevars => [Fifo!Next]_Fifo!vars
<1> SUFFICES ASSUME RteAssumption, RteInv, [RteNext]_rtevars PROVE [Fifo!Next]_Fifo!vars
  OBVIOUS
<1>1. CASE RteNext
  BY <1>1, StepIsFifo DEF RteNext
<1>2. CASE UNCHANGED rtevars
  BY <1>2 DEF rtevars, Fifo!vars, Published, Freed, Ticket
<1> QED
  BY <1>1, <1>2
-----------------------------------------------------------------------------
(* Before the last slot is used, loads and stores agree on the slots. *)

LEMMA FirstLapHere == RteAssumption /\ RteInv => FirstLapIsExact
<1> SUFFICES ASSUME RteAssumption, RteInv, org = 0, enq <= mask, NEW c \in Dequeuers, rpc[c] = "access"
             PROVE  LoadSlot(c) \in DOMAIN objs /\ objs[LoadSlot(c)] = Element(c)
  BY DEF FirstLapIsExact, LoadsOwnElement
<1>1. c \in RteThreads /\ c \notin Enqueuers /\ RteTypes /\ InOrder /\ Filled /\ CallIsRight(c) /\ org \in RtePos
  BY DEF RteInv, RteThreads, RteTypes, RteAssumption
<1>2. /\ rloc[c].tick \in Nat /\ rloc[c].n \in Nat /\ rloc[c].done \in Nat /\ rloc[c].old \in RtePos
      /\ Published \in Nat /\ Freed \in Nat /\ enq \in Nat /\ deq \in Nat
  BY <1>1, TypeFacts
<1>3. /\ rloc[c].tick = From(c) /\ rloc[c].done < rloc[c].n /\ Freed <= rloc[c].tick
      /\ rloc[c].tick + rloc[c].n <= deq
  BY <1>1 DEF CallIsRight, Holds, Done, Claimed, Upto
<1>4. Element(c) \in Nat /\ Element(c) \in Freed .. (Published - 1) /\ Element(c) < mask
  BY <1>1, <1>2, <1>3, WrapOnce DEF Element, InOrder
<1>5. mask \in Nat /\ mask >= 1 /\ mask = RingSize - 1 /\ RingSize \in Nat /\ RingMod \in Nat /\ mask < RingMod
  <2>1. RingMod \in Nat /\ RingSize \in Nat /\ mask \in Nat /\ mask = RingSize - 1 /\ mask >= 1 /\ MaxEnq \in Nat
        /\ MaxEnq + RingSize < RingMod
    BY WrapOnce
  <2> QED
    BY <2>1
<1>6. Reached(c) = RingU32(org + Element(c))
  <2>1. Ticket(rloc[c].old) + rloc[c].done < RingMod
    BY <1>2, <1>3, <1>4, <1>5 DEF Element, From
  <2>2. RingU32(rloc[c].old + rloc[c].done) = RingU32(org + (Ticket(rloc[c].old) + rloc[c].done))
    BY <1>1, <1>2, <2>1, TicketOf
  <2>3. Ticket(rloc[c].old) + rloc[c].done = Element(c)
    BY <1>3 DEF Element, From
  <2> QED
    BY <2>2, <2>3 DEF Reached
<1>7. Reached(c) = Element(c)
  BY <1>4, <1>5, <1>6, WrapOnce
<1>8. LoadSlot(c) = Element(c) /\ SlotOf(Element(c)) = Element(c)
  BY <1>4, <1>5, <1>6, <1>7 DEF LoadSlot, SlotOf
<1> QED
  BY <1>1, <1>4, <1>5, <1>8 DEF Filled, Kept, RteTypes

\* A dequeue loads its own elements, with any number of calls overlapping, as long as
\* the ring has not got to its last slot (lines 94-128 and 225-259): the loads divide by the
\* mask, and below it that is the slot the element was stored in.
THEOREM FirstLap == ASSUME RteAssumption PROVE RteSpec => []FirstLapIsExact
<1>1. RteSpec => []RteInv
  BY RteInvHolds, PTL DEF RteSpec
<1>2. RteInv => FirstLapIsExact
  BY FirstLapHere
<1> QED
  BY <1>1, <1>2, PTL
-----------------------------------------------------------------------------
(* Both together. *)

\* What the ring stores is a bounded queue of RingSize - 1 elements (lines 94-128 and 160-190):
\* for any number of threads, any size, any place of the first position on the circle,
\* on every lap, the calls of each side publish and give back in the order in which they
\* claimed, never more room than there is, and every element stays in its slot from its
\* publication until it is claimed; and on the first lap dequeues load what they claim.
THEOREM RingRefinement == ASSUME RteAssumption PROVE RteSpec => RteImplementsFifo
<1>1. RteSpec => []RteInv
  BY RteInvHolds, PTL DEF RteSpec
<1>2. RteInit => Fifo!Init
  BY InitFifo
<1>3. RteInv /\ [RteNext]_rtevars => [Fifo!Next]_Fifo!vars
  BY NextIsFifo
<1> QED
  BY <1>1, <1>2, <1>3, FirstLap, PTL DEF RteSpec, RteImplementsFifo, Fifo!Spec
-----------------------------------------------------------------------------
(***************************************************************************)
(* thread_pool.h.  Where a block can be: in a worker's queue, in a         *)
(* thread's list, in the hand of a caller, in the task a worker runs.      *)
(***************************************************************************)
PoolTypes ==
  /\ busy_bits \subseteq Workers /\ noticed \subseteq Workers /\ settled \subseteq Workers
  /\ tasks \in [Workers -> Seq(Nat \X Blocks)]
  /\ stop \in [Workers -> BOOLEAN]
  /\ wpc \in [Workers -> {"top", "run", "wait", "exit"}]
  /\ doing \in [Workers -> (Nat \X Blocks) \cup {NoTask}]
  /\ cpc \in [Callers -> {"idle", "new", "push", "notify"}]
  /\ tid \in [Callers -> Workers \cup {None}]
  /\ block \in [Callers -> Blocks \cup {None}]
  /\ dpc \in Workers \X {"lock", "notify", "join", "gone"}
  /\ v_pl \in [Callers -> Seq(Blocks)]
  /\ heap \subseteq Blocks
  /\ sent \in Nat /\ refused \in Nat

\* What a thread's place in its function says of its locals.
LocalsAgree ==
  /\ \A c \in Callers : /\ cpc[c] = "idle" <=> tid[c] = None
                        /\ cpc[c] = "push" <=> block[c] # None
  /\ \A w \in Workers : /\ wpc[w] = "run" <=> doing[w] # NoTask
                        /\ cpc[w] # "idle" => wpc[w] = "run"

Elems(q) == {q[i] : i \in 1 .. Len(q)}
Distinct(q) == \A i, j \in 1 .. Len(q) : q[i] = q[j] => i = j
Loads(q) == {q[i][2] : i \in 1 .. Len(q)}
LoadsDiffer(q) == \A i, j \in 1 .. Len(q) : q[i][2] = q[j][2] => i = j

InQueue(c) == IF c \in Workers THEN Loads(tasks[c]) ELSE {}
InList(c) == Elems(v_pl[c])
InCall(c) == {block[c]} \ {None}
InTask(c) == IF c \in Workers /\ doing[c] # NoTask THEN {doing[c][2]} ELSE {}

Homes == {"queue", "list", "call", "task"} \X Callers
Stock ==
  [x \in Homes |->
     IF x[1] = "queue" THEN InQueue(x[2])
     ELSE IF x[1] = "list" THEN InList(x[2])
     ELSE IF x[1] = "call" THEN InCall(x[2])
     ELSE InTask(x[2])]

ApartIn(f, P) == \A x, y \in P : x # y => f[x] \cap f[y] = {}
AllOf(f, P) == UNION {f[x] : x \in P}

OnePlaceEach ==
  /\ ApartIn(Stock, Homes)
  /\ \A w \in Workers : LoadsDiffer(tasks[w])
  /\ \A c \in Callers : Distinct(v_pl[c])
  /\ AllOf(Stock, Homes) \subseteq heap

\* The blocks that nobody has are those of the calls that were refused.
LostAreRefused == Cardinality(heap \ AllOf(Stock, Homes)) = refused

\* Memory is taken for a task only.
Pushing == {c \in Callers : cpc[c] = "push"}
Calling == {c \in Callers : cpc[c] \in {"new", "push"}}
HeapIsBounded ==
  /\ Cardinality(heap) <= sent + refused + Cardinality(Pushing)
  /\ sent + refused + Cardinality(Calling) <= MaxTasks

\* What is over stays over.
EndsClean ==
  /\ \A w \in Workers : wpc[w] = "exit" => stop[w] /\ tasks[w] = <<>> /\ v_pl[w] = <<>>
  /\ \A c \in Clients : v_pl[c] = <<>>
  /\ \A w \in Workers : w < dpc[1] => wpc[w] = "exit"
  /\ dpc[2] # "lock" => stop[dpc[1]]
  /\ dpc[2] = "gone" =>
       Last(dpc[1]) /\ wpc[dpc[1]] = "exit" /\ \A c \in Callers : cpc[c] = "idle"

PoolInv == PoolTypes /\ LocalsAgree /\ OnePlaceEach /\ LostAreRefused /\ HeapIsBounded /\ EndsClean
-----------------------------------------------------------------------------
\* The workers are numbered from 0 on.
LEMMA WorkersAre ==
  ASSUME PoolAssumption
  PROVE  /\ Workers \subseteq Int /\ 0 \in Workers
         /\ \A w \in Workers : ~Last(w) => w + 1 \in Workers
         /\ \A w \in Workers : w >= 0
<1>1. Cardinality(Workers) \in Nat
  BY FS_CardinalityType DEF PoolAssumption
<1>2. PICK n \in Nat : n = Cardinality(Workers)
  BY <1>1
<1>3. Workers = 0 .. (n - 1)
  BY <1>2 DEF PoolAssumption
<1>4. n # 0
  BY <1>3 DEF PoolAssumption
<1> QED
  BY <1>3, <1>4 DEF Last

\* What the bits depend on.
BitTypes == settled \subseteq Workers /\ wpc \in [Workers -> {"top", "run", "wait", "exit"}]

\* Every step of a worker keeps its bit in step with its place; nobody else touches it.
LEMMA BitsStep ==
  BitTypes /\ BitsAreHonest /\ [PoolNext]_poolvars => BitTypes' /\ BitsAreHonest'
<1> SUFFICES ASSUME BitTypes, BitsAreHonest, [PoolNext]_poolvars
             PROVE  BitTypes' /\ BitsAreHonest'
  OBVIOUS
<1> USE DEF BitTypes, BitsAreHonest
<1>1. ASSUME NEW w \in Workers, Continue(w) PROVE BitTypes' /\ BitsAreHonest'
  BY <1>1 DEF Continue, Pop, WGo
<1>2. ASSUME NEW w \in Workers, Idle(w) PROVE BitTypes' /\ BitsAreHonest'
  BY <1>2 DEF Idle, Exit, WGo
<1>3. ASSUME NEW w \in Workers, Finish(w) PROVE BitTypes' /\ BitsAreHonest'
  BY <1>3 DEF Finish, WGo
<1>4. ASSUME NEW w \in Workers, Wake(w) PROVE BitTypes' /\ BitsAreHonest'
  <2>1. CASE tasks[w] # <<>> /\ busy_bits' = busy_bits \cup {w} /\ Pop(w)
    BY <1>4, <2>1 DEF Wake, Pop, WGo
  <2>2. CASE Exit(w) /\ UNCHANGED busy_bits
    BY <1>4, <2>2 DEF Wake, Exit, WGo
  <2>3. CASE UNCHANGED <<busy_bits, wpc>>
    BY <1>4, <2>3 DEF Wake
  <2> QED
    BY <1>4, <2>1, <2>2, <2>3 DEF Wake
<1>5. CASE UNCHANGED <<busy_bits, wpc, settled>>
  BY <1>5
<1>6. ASSUME NEW c \in Callers, Execute(c) \/ ExecuteForward(c) \/ CallStep(c)
      PROVE  UNCHANGED <<busy_bits, wpc, settled>>
  BY <1>6 DEF Execute, ExecuteForward, BeginCall, CallStep, NewTask, Push, Throw, Notify
<1>7. CASE OwnerStep
  BY <1>5, <1>7 DEF OwnerStep, Stop, StopNotify, JoinWorker
<1>8. CASE UNCHANGED poolvars
  BY <1>5, <1>8 DEF poolvars
<1> QED
  BY <1>1, <1>2, <1>3, <1>4, <1>5, <1>6, <1>7, <1>8 DEF PoolNext

\* Once a worker has waited its bit is clear exactly while it waits or has ended: in
\* any order of notices, waits that end by themselves and the destruction of the pool
\* (lines 62-72).
THEOREM BitsTellWhoWaits == PoolSpec => []BitsAreHonest
<1>1. PoolInit => BitTypes /\ BitsAreHonest
  BY DEF PoolInit, BitTypes, BitsAreHonest
<1> QED
  BY <1>1, BitsStep, PTL DEF PoolSpec
-----------------------------------------------------------------------------
\* A block that goes from one place to another stays in one place.
LEMMA Moved ==
  ASSUME NEW P, NEW f, NEW g, NEW x \in P, NEW y \in P, NEW b, x # y,
         ApartIn(f, P), b \in f[x],
         g[x] = f[x] \ {b}, g[y] = f[y] \cup {b},
         \A z \in P : z # x /\ z # y => g[z] = f[z]
  PROVE  ApartIn(g, P) /\ AllOf(g, P) = AllOf(f, P)
<1>1. \A z \in P : z # x => b \notin f[z]
  BY DEF ApartIn
<1>2. \A z \in P : g[z] = IF z = x THEN f[x] \ {b} ELSE IF z = y THEN f[y] \cup {b} ELSE f[z]
  OBVIOUS
<1>3. \A z \in P : \A a : a \in g[z] <=> IF a = b THEN z = y ELSE a \in f[z]
  BY <1>1, <1>2
<1>4. ApartIn(g, P)
  <2> SUFFICES ASSUME NEW u \in P, NEW v \in P, u # v, NEW a \in g[u] PROVE a \notin g[v]
    BY DEF ApartIn
  <2> QED
    BY <1>3 DEF ApartIn
<1>5. \A a : a \in AllOf(g, P) <=> a \in AllOf(f, P)
  BY <1>3 DEF AllOf
<1> QED
  BY <1>4, <1>5

\* A task that leaves a queue takes its block with it ...
LEMMA QueueTail ==
  ASSUME NEW q \in Seq(Nat \X Blocks), q # <<>>, LoadsDiffer(q)
  PROVE  /\ Head(q) \in Nat \X Blocks /\ Tail(q) \in Seq(Nat \X Blocks)
         /\ Head(q)[2] \in Loads(q)
         /\ LoadsDiffer(Tail(q)) /\ Loads(Tail(q)) = Loads(q) \ {Head(q)[2]}
<1>1. Len(q) \in Nat \ {0} /\ Head(q) = q[1] /\ Tail(q) \in Seq(Nat \X Blocks)
  OBVIOUS
<1>2. Len(Tail(q)) = Len(q) - 1 /\ \A i \in 1 .. Len(q) - 1 : Tail(q)[i] = q[i + 1]
  BY <1>1
<1>3. LoadsDiffer(Tail(q))
  <2> SUFFICES ASSUME NEW i \in 1 .. Len(Tail(q)), NEW j \in 1 .. Len(Tail(q)),
                      Tail(q)[i][2] = Tail(q)[j][2]
               PROVE  i = j
    BY DEF LoadsDiffer
  <2>1. i + 1 \in 1 .. Len(q) /\ j + 1 \in 1 .. Len(q) /\ q[i + 1][2] = q[j + 1][2]
    BY <1>1, <1>2
  <2> QED
    BY <2>1 DEF LoadsDiffer
<1>4. ASSUME NEW a \in Loads(Tail(q)) PROVE a \in Loads(q) \ {Head(q)[2]}
  <2>1. PICK i \in 1 .. Len(q) - 1 : a = q[i + 1][2]
    BY <1>2 DEF Loads
  <2>2. i + 1 \in 1 .. Len(q) /\ 1 \in 1 .. Len(q) /\ i + 1 # 1
    BY <1>1
  <2> QED
    BY <1>1, <2>1, <2>2 DEF Loads, LoadsDiffer
<1>5. ASSUME NEW a \in Loads(q), a # Head(q)[2] PROVE a \in Loads(Tail(q))
  <2>1. PICK i \in 1 .. Len(q) : a = q[i][2]
    BY DEF Loads
  <2>2. i # 1 /\ i - 1 \in 1 .. Len(Tail(q)) /\ (i - 1) + 1 = i
    BY <1>1, <1>2, <1>5, <2>1
  <2>3. Tail(q)[i - 1] = q[i]
    BY <1>1, <1>2, <2>2
  <2> QED
    BY <2>1, <2>2, <2>3 DEF Loads
<1>6. q[1] \in Nat \X Blocks /\ q[1][2] \in Loads(q)
  BY <1>1 DEF Loads
<1> QED
  BY <1>1, <1>3, <1>4, <1>5, <1>6

\* ... and one that is appended brings it.
LEMMA QueueAppend ==
  ASSUME NEW q \in Seq(Nat \X Blocks), LoadsDiffer(q), NEW e \in Nat \X Blocks,
         e[2] \notin Loads(q)
  PROVE  /\ Append(q, e) \in Seq(Nat \X Blocks)
         /\ LoadsDiffer(Append(q, e)) /\ Loads(Append(q, e)) = Loads(q) \cup {e[2]}
<1> DEFINE r == Append(q, e)
<1>1. /\ Len(q) \in Nat /\ r \in Seq(Nat \X Blocks) /\ Len(r) = Len(q) + 1
      /\ r[Len(r)] = e /\ \A i \in 1 .. Len(q) : r[i] = q[i]
  OBVIOUS
<1> HIDE DEF r
<1>2. \A i \in 1 .. Len(r) : i = Len(r) \/ i \in 1 .. Len(q)
  BY <1>1
<1>3. \A i \in 1 .. Len(q) : r[i][2] # e[2]
  BY <1>1 DEF Loads
<1>4. LoadsDiffer(r)
  BY <1>1, <1>2, <1>3 DEF LoadsDiffer
<1>5. ASSUME NEW a \in Loads(r) PROVE a \in Loads(q) \/ a = e[2]
  <2>1. PICK i \in 1 .. Len(r) : a = r[i][2]
    BY DEF Loads
  <2>2. CASE i = Len(r)
    BY <1>1, <2>1, <2>2
  <2>3. CASE i \in 1 .. Len(q)
    <3>1. a = q[i][2]
      BY <1>1, <2>1, <2>3
    <3> QED
      BY <2>3, <3>1 DEF Loads
  <2> QED
    BY <1>2, <2>2, <2>3
<1>6. Loads(q) \subseteq Loads(r) /\ e[2] \in Loads(r)
  <2>1. Len(r) \in 1 .. Len(r) /\ \A i \in 1 .. Len(q) : i \in 1 .. Len(r)
    BY <1>1
  <2>2. e[2] \in Loads(r)
    BY <1>1, <2>1 DEF Loads
  <2>3. ASSUME NEW a \in Loads(q) PROVE a \in Loads(r)
    <3>1. PICK i \in 1 .. Len(q) : a = q[i][2]
      BY DEF Loads
    <3>2. i \in 1 .. Len(r) /\ a = r[i][2]
      BY <1>1, <2>1, <3>1
    <3> QED
      BY <3>2 DEF Loads
  <2> QED
    BY <2>2, <2>3
<1>7. Loads(r) = Loads(q) \cup {e[2]}
  BY <1>5, <1>6
<1> QED
  BY <1>1, <1>4, <1>7 DEF r

\* The same of a list, which gives and takes at its back.
LEMMA ListFront ==
  ASSUME NEW q \in Seq(Blocks), q # <<>>, Distinct(q)
  PROVE  /\ SubSeq(q, 1, Len(q) - 1) \in Seq(Blocks)
         /\ q[Len(q)] \in Blocks /\ q[Len(q)] \in Elems(q)
         /\ Distinct(SubSeq(q, 1, Len(q) - 1))
         /\ Elems(SubSeq(q, 1, Len(q) - 1)) = Elems(q) \ {q[Len(q)]}
<1> DEFINE r == SubSeq(q, 1, Len(q) - 1)
<1>1. Len(q) \in Nat \ {0}
  OBVIOUS
<1>2. r \in Seq(Blocks) /\ Len(r) = Len(q) - 1 /\ \A i \in 1 .. Len(q) - 1 : r[i] = q[i]
  <2>1. PICK n \in Nat : n = Len(q) - 1 /\ n + 1 = Len(q)
    BY <1>1
  <2>2. \A i \in 1 .. n : q[i] \in Blocks
    BY <2>1
  <2>3. r = SubSeq(q, 1, n)
    BY <2>1
  <2> HIDE DEF r
  <2>4. r = [i \in 1 .. n |-> q[i]]
    BY <2>1, <2>3, SubSeqProperties
  <2> QED
    BY <2>1, <2>2, <2>4
<1> HIDE DEF r
<1>3. \A i \in 1 .. Len(q) : i = Len(q) \/ i \in 1 .. Len(r)
  BY <1>1, <1>2
<1>4. \A i \in 1 .. Len(r) : i \in 1 .. Len(q) /\ i # Len(q)
  BY <1>1, <1>2
<1>5. Len(q) \in 1 .. Len(q)
  BY <1>1
<1>6. Distinct(r)
  BY <1>2, <1>4 DEF Distinct
<1>7. \A a : a \in Elems(r) <=> a \in Elems(q) /\ a # q[Len(q)]
  BY <1>2, <1>3, <1>4, <1>5 DEF Elems, Distinct
<1>8. Elems(r) = Elems(q) \ {q[Len(q)]}
  BY <1>7
<1>9. q[Len(q)] \in Blocks /\ q[Len(q)] \in Elems(q)
  BY <1>5 DEF Elems
<1> QED
  BY <1>2, <1>6, <1>8, <1>9 DEF r

LEMMA ListAppend ==
  ASSUME NEW q \in Seq(Blocks), Distinct(q), NEW b \in Blocks, b \notin Elems(q)
  PROVE  /\ Append(q, b) \in Seq(Blocks)
         /\ Distinct(Append(q, b)) /\ Elems(Append(q, b)) = Elems(q) \cup {b}
<1> DEFINE r == Append(q, b)
<1>1. /\ Len(q) \in Nat /\ r \in Seq(Blocks) /\ Len(r) = Len(q) + 1
      /\ r[Len(r)] = b /\ \A i \in 1 .. Len(q) : r[i] = q[i]
  OBVIOUS
<1> HIDE DEF r
<1>2. \A i \in 1 .. Len(r) : i = Len(r) \/ i \in 1 .. Len(q)
  BY <1>1
<1>3. \A i \in 1 .. Len(q) : r[i] # b
  BY <1>1 DEF Elems
<1>4. Distinct(r)
  BY <1>1, <1>2, <1>3 DEF Distinct
<1>5. Len(r) \in 1 .. Len(r) /\ \A i \in 1 .. Len(q) : i \in 1 .. Len(r)
  BY <1>1
<1>6. \A a : a \in Elems(r) <=> a \in Elems(q) \/ a = b
  BY <1>1, <1>2, <1>5 DEF Elems
<1>7. Elems(r) = Elems(q) \cup {b}
  BY <1>6
<1> QED
  BY <1>1, <1>4, <1>7 DEF r
-----------------------------------------------------------------------------
\* What Stock says of each home, now and after a step.
StockIs ==
  \A c \in Callers :
    /\ <<"queue", c>> \in Homes /\ Stock[<<"queue", c>>] = InQueue(c)
    /\ <<"list", c>> \in Homes /\ Stock[<<"list", c>>] = InList(c)
    /\ <<"call", c>> \in Homes /\ Stock[<<"call", c>>] = InCall(c)
    /\ <<"task", c>> \in Homes /\ Stock[<<"task", c>>] = InTask(c)

LEMMA StockHere == StockIs
<1> SUFFICES ASSUME NEW c \in Callers
             PROVE  /\ <<"queue", c>> \in Homes /\ Stock[<<"queue", c>>] = InQueue(c)
                    /\ <<"list", c>> \in Homes /\ Stock[<<"list", c>>] = InList(c)
                    /\ <<"call", c>> \in Homes /\ Stock[<<"call", c>>] = InCall(c)
                    /\ <<"task", c>> \in Homes /\ Stock[<<"task", c>>] = InTask(c)
  BY DEF StockIs
<1>1. \A k \in {"queue", "list", "call", "task"} : <<k, c>> \in Homes
  BY DEF Homes
<1> QED
  BY <1>1 DEF Stock

LEMMA StockNext == StockIs'
  BY StockHere, PTL

\* Homes that are not of the kinds and threads named hold what they held.
LEMMA StockElsewhere ==
  ASSUME NEW D,
         \A c \in Callers :
           /\ <<"queue", c>> \in D \/ InQueue(c)' = InQueue(c)
           /\ <<"list", c>> \in D \/ InList(c)' = InList(c)
           /\ <<"call", c>> \in D \/ InCall(c)' = InCall(c)
           /\ <<"task", c>> \in D \/ InTask(c)' = InTask(c)
  PROVE  \A z \in Homes : z \in D \/ Stock'[z] = Stock[z]
<1> SUFFICES ASSUME NEW z \in Homes, z \notin D PROVE Stock'[z] = Stock[z]
  OBVIOUS
<1>1. PICK c \in Callers : z \in {<<"queue", c>>, <<"list", c>>, <<"call", c>>, <<"task", c>>}
  BY DEF Homes
<1>2. StockIs /\ StockIs'
  BY StockHere, StockNext
<1> QED
  BY <1>1, <1>2 DEF StockIs

\* The constants: a thread is a worker or a client, and there are finitely many.
LEMMA PoolConstants ==
  ASSUME PoolAssumption
  PROVE  /\ Workers \subseteq Callers /\ IsFiniteSet(Callers)
         /\ Blocks \subseteq Nat /\ IsFiniteSet(Blocks) /\ Cardinality(Blocks) = MaxTasks + 1
         /\ None \notin Blocks /\ None \notin Workers
         /\ NoTask \notin Nat \X Blocks
<1>1. IsFiniteSet(Callers)
  BY FS_Union DEF PoolAssumption, Callers
<1>2. PICK n \in Nat : n = MaxTasks + 1 /\ n > 0
  BY DEF PoolAssumption
<1>3. IsFiniteSet(1 .. n) /\ Cardinality(1 .. n) = n
  BY <1>2, FS_Interval
<1> QED
  BY <1>1, <1>2, <1>3 DEF PoolAssumption, Callers, Blocks

\* A step that leaves the blocks where they are keeps every block in its place.
LEMMA NobodyMoves ==
  ASSUME OnePlaceEach, LostAreRefused, UNCHANGED <<tasks, doing, block, v_pl, heap, refused>>
  PROVE  OnePlaceEach' /\ LostAreRefused'
<1>1. Stock' = Stock
  BY DEF Stock, InQueue, InList, InCall, InTask
<1> QED
  BY <1>1 DEF OnePlaceEach, LostAreRefused

\* A step by which a block only goes from one place to another.
LEMMA MoveKeepsAll ==
  ASSUME OnePlaceEach, LostAreRefused, UNCHANGED <<heap, refused>>,
         ApartIn(Stock, Homes)', AllOf(Stock, Homes)' = AllOf(Stock, Homes),
         \A w \in Workers : LoadsDiffer(tasks[w])',
         \A c \in Callers : Distinct(v_pl[c])'
  PROVE  OnePlaceEach' /\ LostAreRefused'
  BY DEF OnePlaceEach, LostAreRefused

\* The same for what threads have in a state and in the next.
LEMMA MovedHere ==
  ASSUME OnePlaceEach, NEW x \in Homes, NEW y \in Homes, NEW b, x # y, b \in Stock[x],
         Stock'[x] = Stock[x] \ {b}, Stock'[y] = Stock[y] \cup {b},
         \A z \in Homes : z \in {x, y} \/ Stock'[z] = Stock[z]
  PROVE  ApartIn(Stock, Homes)' /\ AllOf(Stock, Homes)' = AllOf(Stock, Homes)
<1>1. PICK f, g : f = Stock /\ g = Stock'
  OBVIOUS
<1>2. /\ ApartIn(f, Homes) /\ b \in f[x] /\ g[x] = f[x] \ {b} /\ g[y] = f[y] \cup {b}
      /\ \A z \in Homes : z # x /\ z # y => g[z] = f[z]
  BY <1>1 DEF OnePlaceEach
<1>3. ApartIn(g, Homes) /\ AllOf(g, Homes) = AllOf(f, Homes)
  BY <1>2, Moved
<1>4. Homes' = Homes
  BY DEF Homes
<1> QED
  BY <1>1, <1>3, <1>4 DEF ApartIn, AllOf

LEMMA EmptiedHere ==
  ASSUME OnePlaceEach, NEW x \in Homes, Stock'[x] = {},
         \A z \in Homes : z \in {x} \/ Stock'[z] = Stock[z]
  PROVE  ApartIn(Stock, Homes)' /\ AllOf(Stock, Homes)' = AllOf(Stock, Homes) \ Stock[x]
<1>1. PICK f, g : f = Stock /\ g = Stock'
  OBVIOUS
<1>2. ApartIn(f, Homes) /\ g[x] = {} /\ \A z \in Homes : z # x => g[z] = f[z]
  BY <1>1 DEF OnePlaceEach
<1>3. ApartIn(g, Homes)
  BY <1>2 DEF ApartIn
<1>4. \A a : a \in AllOf(g, Homes) <=> a \in AllOf(f, Homes) /\ a \notin f[x]
  BY <1>2 DEF AllOf, ApartIn
<1>5. AllOf(g, Homes) = AllOf(f, Homes) \ f[x]
  BY <1>4
<1>6. Homes' = Homes
  BY DEF Homes
<1> QED
  BY <1>1, <1>3, <1>5, <1>6 DEF ApartIn, AllOf

LEMMA AddedHere ==
  ASSUME OnePlaceEach, NEW x \in Homes, NEW b, b \notin heap, Stock'[x] = Stock[x] \cup {b},
         \A z \in Homes : z \in {x} \/ Stock'[z] = Stock[z]
  PROVE  ApartIn(Stock, Homes)' /\ AllOf(Stock, Homes)' = AllOf(Stock, Homes) \cup {b}
<1>1. PICK f, g : f = Stock /\ g = Stock'
  OBVIOUS
<1>2. /\ ApartIn(f, Homes) /\ b \notin AllOf(f, Homes) /\ g[x] = f[x] \cup {b}
      /\ \A z \in Homes : z # x => g[z] = f[z]
  BY <1>1 DEF OnePlaceEach
<1>3. ApartIn(g, Homes)
  BY <1>2 DEF ApartIn, AllOf
<1>4. \A a : a \in AllOf(g, Homes) <=> a \in AllOf(f, Homes) \/ a = b
  BY <1>2 DEF AllOf
<1>5. AllOf(g, Homes) = AllOf(f, Homes) \cup {b}
  BY <1>4
<1>6. Homes' = Homes
  BY DEF Homes
<1> QED
  BY <1>1, <1>3, <1>5, <1>6 DEF ApartIn, AllOf

\* A worker takes a task: its block goes from the queue to the task that is run.
LEMMA PopMoves ==
  ASSUME PoolAssumption, PoolTypes, LocalsAgree, OnePlaceEach, LostAreRefused,
         NEW w \in Workers, wpc[w] \in {"top", "wait"}, tasks[w] # <<>>, Pop(w),
         UNCHANGED <<block, v_pl, heap, refused>>
  PROVE  OnePlaceEach' /\ LostAreRefused'
<1> DEFINE b == Head(tasks[w])[2]
           x == <<"queue", w>>
           y == <<"task", w>>
<1>1. /\ Head(tasks[w]) \in Nat \X Blocks /\ b \in Loads(tasks[w])
      /\ LoadsDiffer(Tail(tasks[w])) /\ Loads(Tail(tasks[w])) = Loads(tasks[w]) \ {b}
  BY QueueTail DEF PoolTypes, OnePlaceEach
<1>2. doing[w] = NoTask /\ doing' = [doing EXCEPT ![w] = Head(tasks[w])]
  BY DEF LocalsAgree, Pop
<1>3. tasks'[w] = Tail(tasks[w]) /\ \A v \in Workers : v # w => tasks'[v] = tasks[v]
  BY DEF Pop, PoolTypes
<1>4. doing'[w] = Head(tasks[w]) /\ \A v \in Workers : v # w => doing'[v] = doing[v]
  BY <1>2 DEF PoolTypes
<1>5. doing'[w] # NoTask /\ w \in Callers
  BY <1>1, <1>4, PoolConstants
<1>6. InQueue(w) = Loads(tasks[w]) /\ InQueue(w)' = Loads(tasks[w]) \ {b}
  BY <1>1, <1>3 DEF InQueue
<1>7. InTask(w) = {} /\ InTask(w)' = {b}
  BY <1>2, <1>4, <1>5 DEF InTask
<1> HIDE DEF b
<1>8. \A c \in Callers :
        /\ InList(c)' = InList(c) /\ InCall(c)' = InCall(c)
        /\ c # w => InQueue(c)' = InQueue(c) /\ InTask(c)' = InTask(c)
  BY <1>3, <1>4 DEF InQueue, InList, InCall, InTask
<1>9. \A c \in Callers : c = w => <<"queue", c>> \in {x, y} /\ <<"task", c>> \in {x, y}
  OBVIOUS
<1>10. x # y /\ x \in Homes /\ y \in Homes
       /\ Stock[x] = InQueue(w) /\ Stock'[x] = InQueue(w)'
       /\ Stock[y] = InTask(w) /\ Stock'[y] = InTask(w)'
  BY <1>5, StockHere, StockNext DEF StockIs
<1> HIDE DEF x, y
<1>11. \A z \in Homes : z \in {x, y} \/ Stock'[z] = Stock[z]
  BY <1>8, <1>9, StockElsewhere
<1>12. b \in Stock[x] /\ Stock'[x] = Stock[x] \ {b} /\ Stock'[y] = Stock[y] \cup {b}
  BY <1>1, <1>6, <1>7, <1>10
<1>13. ApartIn(Stock, Homes)' /\ AllOf(Stock, Homes)' = AllOf(Stock, Homes)
  BY <1>10, <1>11, <1>12, MovedHere
<1>14. \A v \in Workers : LoadsDiffer(tasks[v])'
  BY <1>1, <1>3 DEF OnePlaceEach
<1>15. \A c \in Callers : Distinct(v_pl[c])'
  BY DEF OnePlaceEach
<1> QED
  BY <1>13, <1>14, <1>15, MoveKeepsAll

\* A worker deletes the task it has run: the block goes to its list.
LEMMA FinishMoves ==
  ASSUME PoolAssumption, PoolTypes, LocalsAgree, OnePlaceEach, LostAreRefused,
         NEW w \in Workers, Finish(w)
  PROVE  OnePlaceEach' /\ LostAreRefused'
<1> DEFINE b == doing[w][2]
           x == <<"task", w>>
           y == <<"list", w>>
<1>1. w \in Callers /\ doing[w] # NoTask /\ b \in Blocks /\ InTask(w) = {b}
  BY PoolConstants DEF Finish, LocalsAgree, PoolTypes, InTask
<1>2. doing'[w] = NoTask /\ \A v \in Workers : v # w => doing'[v] = doing[v]
  BY DEF Finish, PoolTypes
<1>3. v_pl'[w] = Append(v_pl[w], b) /\ \A c \in Callers : c # w => v_pl'[c] = v_pl[c]
  BY <1>1 DEF Finish, PoolTypes
<1> HIDE DEF b
<1>4. InTask(w)' = {}
  BY <1>2 DEF InTask
<1>5. \A c \in Callers :
        /\ InQueue(c)' = InQueue(c) /\ InCall(c)' = InCall(c)
        /\ c # w => InList(c)' = InList(c) /\ InTask(c)' = InTask(c)
  BY <1>2, <1>3 DEF Finish, callvars, InQueue, InList, InCall, InTask
<1>6. \A c \in Callers : c = w => <<"list", c>> \in {x, y} /\ <<"task", c>> \in {x, y}
  OBVIOUS
<1>7. x # y /\ x \in Homes /\ y \in Homes
      /\ Stock[x] = InTask(w) /\ Stock'[x] = InTask(w)'
      /\ Stock[y] = InList(w) /\ Stock'[y] = InList(w)'
  BY <1>1, StockHere, StockNext DEF StockIs
<1> HIDE DEF x, y
<1>8. b \notin Elems(v_pl[w])
  BY <1>1, <1>7 DEF OnePlaceEach, ApartIn, InList
<1>9. /\ Distinct(Append(v_pl[w], b)) /\ Elems(Append(v_pl[w], b)) = Elems(v_pl[w]) \cup {b}
  BY <1>1, <1>8, ListAppend DEF OnePlaceEach, PoolTypes
<1>10. \A z \in Homes : z \in {x, y} \/ Stock'[z] = Stock[z]
  BY <1>5, <1>6, StockElsewhere
<1>11. InList(w)' = InList(w) \cup {b}
  BY <1>3, <1>9 DEF InList
<1>12. b \in Stock[x] /\ Stock'[x] = Stock[x] \ {b} /\ Stock'[y] = Stock[y] \cup {b}
  BY <1>1, <1>4, <1>7, <1>11
<1>13. ApartIn(Stock, Homes)' /\ AllOf(Stock, Homes)' = AllOf(Stock, Homes)
  BY <1>7, <1>10, <1>12, MovedHere
<1>14. \A c \in Callers : Distinct(v_pl[c])'
  BY <1>3, <1>9 DEF OnePlaceEach
<1>15. \A v \in Workers : LoadsDiffer(tasks[v])'
  BY DEF OnePlaceEach, Finish
<1>16. UNCHANGED <<heap, refused>>
  BY DEF Finish, callvars
<1> QED
  BY <1>13, <1>14, <1>15, <1>16, MoveKeepsAll

\* A call takes the back of its thread's list ...
LEMMA TakeMoves ==
  ASSUME PoolAssumption, PoolTypes, LocalsAgree, OnePlaceEach, LostAreRefused,
         NEW c \in Callers, cpc[c] = "new", v_pl[c] # <<>>,
         block' = [block EXCEPT ![c] = v_pl[c][Len(v_pl[c])]],
         v_pl' = [v_pl EXCEPT ![c] = SubSeq(@, 1, Len(@) - 1)],
         UNCHANGED <<tasks, doing, heap, refused>>
  PROVE  OnePlaceEach' /\ LostAreRefused'
<1> DEFINE b == v_pl[c][Len(v_pl[c])]
           x == <<"list", c>>
           y == <<"call", c>>
<1>1. v_pl'[c] = SubSeq(v_pl[c], 1, Len(v_pl[c]) - 1) /\ \A d \in Callers : d # c => v_pl'[d] = v_pl[d]
  BY DEF PoolTypes
<1>2. block'[c] = b /\ \A d \in Callers : d # c => block'[d] = block[d]
  BY DEF PoolTypes
<1>3. block[c] = None
  BY DEF LocalsAgree
<1>4. /\ b \in Blocks /\ b \in Elems(v_pl[c])
      /\ Distinct(v_pl'[c]) /\ Elems(v_pl'[c]) = Elems(v_pl[c]) \ {b}
  BY <1>1, ListFront DEF PoolTypes, OnePlaceEach
<1> HIDE DEF b
<1>5. InCall(c) = {} /\ InCall(c)' = {b}
  BY <1>2, <1>3, <1>4, PoolConstants DEF InCall
<1>6. InList(c)' = InList(c) \ {b} /\ b \in InList(c)
  BY <1>4 DEF InList
<1>7. \A d \in Callers :
        /\ InQueue(d)' = InQueue(d) /\ InTask(d)' = InTask(d)
        /\ d # c => InList(d)' = InList(d) /\ InCall(d)' = InCall(d)
  BY <1>1, <1>2 DEF InQueue, InList, InCall, InTask
<1>8. \A d \in Callers : d = c => <<"list", d>> \in {x, y} /\ <<"call", d>> \in {x, y}
  OBVIOUS
<1>9. x # y /\ x \in Homes /\ y \in Homes
      /\ Stock[x] = InList(c) /\ Stock'[x] = InList(c)'
      /\ Stock[y] = InCall(c) /\ Stock'[y] = InCall(c)'
  BY StockHere, StockNext DEF StockIs
<1> HIDE DEF x, y
<1>10. \A z \in Homes : z \in {x, y} \/ Stock'[z] = Stock[z]
  BY <1>7, <1>8, StockElsewhere
<1>11. b \in Stock[x] /\ Stock'[x] = Stock[x] \ {b} /\ Stock'[y] = Stock[y] \cup {b}
  BY <1>5, <1>6, <1>9
<1>12. ApartIn(Stock, Homes)' /\ AllOf(Stock, Homes)' = AllOf(Stock, Homes)
  BY <1>9, <1>10, <1>11, MovedHere
<1>13. \A d \in Callers : Distinct(v_pl[d])'
  BY <1>1, <1>4 DEF OnePlaceEach
<1>14. \A v \in Workers : LoadsDiffer(tasks[v])'
  BY DEF OnePlaceEach
<1> QED
  BY <1>12, <1>13, <1>14, MoveKeepsAll

\* ... or memory from the heap, which was nowhere.
LEMMA FreshAdds ==
  ASSUME PoolAssumption, PoolTypes, LocalsAgree, OnePlaceEach, LostAreRefused,
         NEW c \in Callers, cpc[c] = "new", NEW b \in Blocks, b \notin heap,
         block' = [block EXCEPT ![c] = b], heap' = heap \cup {b},
         UNCHANGED <<tasks, doing, v_pl, refused>>
  PROVE  OnePlaceEach' /\ LostAreRefused'
<1> DEFINE x == <<"call", c>>
<1>1. block'[c] = b /\ \A d \in Callers : d # c => block'[d] = block[d]
  BY DEF PoolTypes
<1>2. InCall(c) = {} /\ InCall(c)' = {b}
  BY <1>1, PoolConstants DEF InCall, LocalsAgree
<1>3. \A d \in Callers :
        /\ InQueue(d)' = InQueue(d) /\ InTask(d)' = InTask(d) /\ InList(d)' = InList(d)
        /\ d # c => InCall(d)' = InCall(d)
  BY <1>1 DEF InQueue, InList, InCall, InTask
<1>4. \A d \in Callers : d = c => <<"call", d>> \in {x}
  OBVIOUS
<1>5. x \in Homes /\ Stock[x] = InCall(c) /\ Stock'[x] = InCall(c)'
  BY StockHere, StockNext DEF StockIs
<1> HIDE DEF x
<1>6. \A z \in Homes : z \in {x} \/ Stock'[z] = Stock[z]
  BY <1>3, <1>4, StockElsewhere
<1>7. Stock'[x] = Stock[x] \cup {b}
  BY <1>2, <1>5
<1>8. ApartIn(Stock, Homes)' /\ AllOf(Stock, Homes)' = AllOf(Stock, Homes) \cup {b}
  BY <1>5, <1>6, <1>7, AddedHere
<1>9. OnePlaceEach'
  BY <1>8 DEF OnePlaceEach
<1>10. heap' \ AllOf(Stock, Homes)' = heap \ AllOf(Stock, Homes)
  BY <1>8
<1> QED
  BY <1>9, <1>10 DEF LostAreRefused

\* A call that appends its task to the queue of its worker lets go of the block.
LEMMA PushMoves ==
  ASSUME PoolAssumption, PoolTypes, LocalsAgree, OnePlaceEach, LostAreRefused,
         NEW c \in Callers, Push(c)
  PROVE  OnePlaceEach' /\ LostAreRefused' /\ tid[c] \in Workers /\ block[c] \in Blocks
<1>0. tid[c] \in Workers /\ block[c] \in Blocks /\ block[c] # None
  BY DEF LocalsAgree, PoolTypes, Push
<1>1. PICK w \in Callers, b \in Blocks : w = tid[c] /\ b = block[c] /\ w \in Workers
  BY <1>0, PoolConstants
<1> DEFINE x == <<"call", c>>
           y == <<"queue", w>>
           e == <<sent, b>>
<1>2. e \in Nat \X Blocks /\ e[2] = b
  BY DEF PoolTypes
<1>3. /\ tasks'[w] = Append(tasks[w], e)
      /\ \A v \in Workers : v # w => tasks'[v] = tasks[v]
  BY <1>1 DEF Push, PoolTypes
<1>4. block'[c] = None /\ \A d \in Callers : d # c => block'[d] = block[d]
  BY DEF Push, PoolTypes
<1>5. InCall(c) = {b} /\ InCall(c)' = {}
  BY <1>0, <1>1, <1>4 DEF InCall
<1>6. \A d \in Callers :
        /\ InList(d)' = InList(d) /\ InTask(d)' = InTask(d)
        /\ (d # c => InCall(d)' = InCall(d)) /\ (d # w => InQueue(d)' = InQueue(d))
  BY <1>3, <1>4 DEF Push, memory, InQueue, InList, InCall, InTask
<1>7. \A d \in Callers : (d = c => <<"call", d>> \in {x, y}) /\ (d = w => <<"queue", d>> \in {x, y})
  OBVIOUS
<1>8. x # y /\ x \in Homes /\ y \in Homes
      /\ Stock[x] = InCall(c) /\ Stock'[x] = InCall(c)'
      /\ Stock[y] = InQueue(w) /\ Stock'[y] = InQueue(w)'
  BY StockHere, StockNext DEF StockIs
<1> HIDE DEF x, y, e
<1>9. InQueue(w) = Loads(tasks[w]) /\ InQueue(w)' = Loads(tasks'[w])
  BY <1>1 DEF InQueue
<1>10. b \notin Loads(tasks[w])
  BY <1>5, <1>8, <1>9 DEF OnePlaceEach, ApartIn
<1>11. /\ LoadsDiffer(Append(tasks[w], e)) /\ Loads(Append(tasks[w], e)) = Loads(tasks[w]) \cup {b}
  <2>1. PICK q \in Seq(Nat \X Blocks) : q = tasks[w] /\ LoadsDiffer(q)
    BY <1>1 DEF PoolTypes, OnePlaceEach
  <2>2. LoadsDiffer(Append(q, e)) /\ Loads(Append(q, e)) = Loads(q) \cup {e[2]}
    BY <1>2, <1>10, <2>1, QueueAppend
  <2> QED
    BY <1>2, <2>1, <2>2
<1>12. \A z \in Homes : z \in {x, y} \/ Stock'[z] = Stock[z]
  BY <1>6, <1>7, StockElsewhere
<1>13. b \in Stock[x] /\ Stock'[x] = Stock[x] \ {b} /\ Stock'[y] = Stock[y] \cup {b}
  BY <1>3, <1>5, <1>8, <1>9, <1>11
<1>14. ApartIn(Stock, Homes)' /\ AllOf(Stock, Homes)' = AllOf(Stock, Homes)
  BY <1>8, <1>12, <1>13, MovedHere
<1>15. \A v \in Workers : LoadsDiffer(tasks[v])'
  BY <1>3, <1>11 DEF OnePlaceEach
<1>16. (\A d \in Callers : Distinct(v_pl[d])') /\ UNCHANGED <<heap, refused>>
  BY DEF OnePlaceEach, Push, memory
<1> QED
  BY <1>0, <1>14, <1>15, <1>16, MoveKeepsAll

\* A call that is refused: its block is nowhere from now on, one more than before.
LEMMA ThrowLoses ==
  ASSUME PoolAssumption, PoolTypes, LocalsAgree, OnePlaceEach, LostAreRefused,
         NEW c \in Callers, Throw(c)
  PROVE  OnePlaceEach' /\ LostAreRefused'
<1>1. PICK b \in Blocks : b = block[c] /\ b # None
  BY DEF LocalsAgree, PoolTypes, Throw
<1> DEFINE x == <<"call", c>>
<1>2. block'[c] = None /\ \A d \in Callers : d # c => block'[d] = block[d]
  BY DEF Throw, PoolTypes
<1>3. InCall(c) = {b} /\ InCall(c)' = {}
  BY <1>1, <1>2 DEF InCall
<1>4. \A d \in Callers :
        /\ InQueue(d)' = InQueue(d) /\ InTask(d)' = InTask(d) /\ InList(d)' = InList(d)
        /\ d # c => InCall(d)' = InCall(d)
  BY <1>2 DEF Throw, memory, InQueue, InList, InCall, InTask
<1>5. \A d \in Callers : d = c => <<"call", d>> \in {x}
  OBVIOUS
<1>6. x \in Homes /\ Stock[x] = {b} /\ Stock'[x] = {}
  BY <1>3, StockHere, StockNext DEF StockIs
<1> HIDE DEF x
<1>7. \A z \in Homes : z \in {x} \/ Stock'[z] = Stock[z]
  BY <1>4, <1>5, StockElsewhere
<1>8. ApartIn(Stock, Homes)' /\ AllOf(Stock, Homes)' = AllOf(Stock, Homes) \ {b}
  BY <1>6, <1>7, EmptiedHere
<1>9. UNCHANGED <<heap, tasks, v_pl>> /\ refused' = refused + 1
  BY DEF Throw, memory
<1>10. OnePlaceEach'
  BY <1>8, <1>9 DEF OnePlaceEach
<1>11. b \in AllOf(Stock, Homes) /\ b \in heap
  BY <1>6 DEF AllOf, OnePlaceEach
<1> DEFINE lost == heap \ AllOf(Stock, Homes)
<1>12. heap' \ AllOf(Stock, Homes)' = lost \cup {b} /\ b \notin lost
  BY <1>8, <1>9, <1>11
<1>13. IsFiniteSet(lost)
  BY PoolConstants, FS_Subset DEF PoolTypes
<1> HIDE DEF lost
<1>14. Cardinality(lost \cup {b}) = Cardinality(lost) + 1
  BY <1>12, <1>13, FS_AddElement
<1> QED
  BY <1>9, <1>10, <1>12, <1>14 DEF LostAreRefused, lost

\* A worker that ends gives its list back.
LEMMA ExitEmpties ==
  ASSUME PoolAssumption, PoolTypes, OnePlaceEach, LostAreRefused,
         NEW w \in Workers, Exit(w), UNCHANGED <<tasks, doing, block, refused>>
  PROVE  OnePlaceEach' /\ LostAreRefused'
<1> DEFINE x == <<"list", w>>
<1>1. w \in Callers
  BY PoolConstants
<1>2. v_pl'[w] = <<>> /\ \A d \in Callers : d # w => v_pl'[d] = v_pl[d]
  BY <1>1 DEF Exit, PoolTypes
<1>3. Elems(<<>>) = {} /\ Distinct(<<>>)
  BY DEF Elems, Distinct
<1>4. heap' = heap \ InList(w) /\ InList(w)' = {}
  <2>1. v_pl[w] \in Seq(Blocks) /\ DOMAIN v_pl[w] = 1 .. Len(v_pl[w])
    BY <1>1 DEF PoolTypes
  <2> QED
    BY <1>2, <1>3, <2>1 DEF InList, Elems, Exit
<1>5. \A d \in Callers :
        /\ InQueue(d)' = InQueue(d) /\ InTask(d)' = InTask(d) /\ InCall(d)' = InCall(d)
        /\ d # w => InList(d)' = InList(d)
  BY <1>2 DEF InQueue, InList, InCall, InTask
<1>6. \A d \in Callers : d = w => <<"list", d>> \in {x}
  OBVIOUS
<1>7. x \in Homes /\ Stock[x] = InList(w) /\ Stock'[x] = {}
  BY <1>1, <1>4, StockHere, StockNext DEF StockIs
<1> HIDE DEF x
<1>8. \A z \in Homes : z \in {x} \/ Stock'[z] = Stock[z]
  BY <1>5, <1>6, StockElsewhere
<1>9. ApartIn(Stock, Homes)' /\ AllOf(Stock, Homes)' = AllOf(Stock, Homes) \ InList(w)
  BY <1>7, <1>8, EmptiedHere
<1>10. InList(w) \subseteq AllOf(Stock, Homes)
  BY <1>7 DEF AllOf
<1>11. \A d \in Callers : Distinct(v_pl[d])'
  BY <1>2, <1>3 DEF OnePlaceEach
<1>12. OnePlaceEach'
  BY <1>4, <1>9, <1>11 DEF OnePlaceEach
<1>13. heap' \ AllOf(Stock, Homes)' = heap \ AllOf(Stock, Homes)
  BY <1>4, <1>9, <1>10
<1> QED
  BY <1>12, <1>13 DEF LostAreRefused
-----------------------------------------------------------------------------
\* What a worker's step is, whichever way it comes to it: it takes a task, ends,
\* waits, or deletes the task it has run.
Pops(w) ==
  /\ wpc[w] \in {"top", "wait"} /\ tasks[w] # <<>> /\ Pop(w)
  /\ UNCHANGED <<stop, callvars, dpc, memory>>
Exits(w) ==
  /\ wpc[w] \in {"top", "wait"} /\ stop[w] /\ tasks[w] = <<>> /\ Exit(w)
  /\ UNCHANGED <<tasks, doing, stop, callvars, dpc>>
Waits(w) ==
  /\ wpc[w] \in {"top", "wait"} /\ WGo(w, "wait")
  /\ UNCHANGED <<tasks, doing, stop, callvars, dpc, memory>>

BitsInside == busy_bits \subseteq Workers /\ noticed \subseteq Workers /\ settled \subseteq Workers

LEMMA WorkerSteps ==
  ASSUME PoolTypes, NEW w \in Workers, Continue(w) \/ Idle(w) \/ Finish(w) \/ Wake(w)
  PROVE  (Pops(w) \/ Exits(w) \/ Waits(w) \/ Finish(w)) /\ BitsInside'
<1> USE DEF BitsInside, PoolTypes
<1>1. CASE Continue(w)
  BY <1>1 DEF Continue, Pops
<1>2. CASE Idle(w)
  BY <1>2 DEF Idle, Exits, Waits
<1>3. CASE Finish(w)
  BY <1>3 DEF Finish
<1>4. CASE Wake(w)
  <2>1. wpc[w] = "wait" /\ WGo(w, "wait") <=> wpc[w] = "wait" /\ wpc' = wpc
    BY DEF WGo
  <2>2. BitsInside'
    BY <1>4 DEF Wake
  <2> QED
    BY <1>4, <2>1, <2>2 DEF Wake, Pops, Exits, Waits
<1> QED
  BY <1>1, <1>2, <1>3, <1>4

\* The bound of the model: whoever is about to take memory finds some.
LEMMA FreshBlock ==
  ASSUME PoolAssumption, PoolTypes, HeapIsBounded, NEW c \in Callers, cpc[c] = "new"
  PROVE  \E b \in Blocks : b \notin heap
<1>1. IsFiniteSet(Calling) /\ IsFiniteSet(Pushing) /\ IsFiniteSet(heap)
  BY PoolConstants, FS_Subset DEF Calling, Pushing, PoolTypes
<1>2. Pushing \subseteq Calling \ {c} /\ c \in Calling
  BY DEF Pushing, Calling
<1>3. Cardinality(Calling \ {c}) = Cardinality(Calling) - 1 /\ IsFiniteSet(Calling \ {c})
  BY <1>1, <1>2, FS_RemoveElement
<1>4. Cardinality(Pushing) <= Cardinality(Calling) - 1
  BY <1>2, <1>3, FS_Subset
<1>5. /\ Cardinality(heap) \in Nat /\ Cardinality(Pushing) \in Nat /\ Cardinality(Calling) \in Nat
      /\ MaxTasks \in Nat /\ sent \in Nat /\ refused \in Nat
  BY <1>1, FS_CardinalityType DEF PoolAssumption, PoolTypes
<1>6. Cardinality(heap) < MaxTasks + 1
  BY <1>4, <1>5 DEF HeapIsBounded
<1>7. heap # Blocks
  BY <1>5, <1>6, PoolConstants
<1> QED
  BY <1>7 DEF PoolTypes

\* Every step keeps the types.
LEMMA PoolStepTypes ==
  ASSUME PoolAssumption, PoolInv, [PoolNext]_poolvars
  PROVE  PoolTypes'
<1> USE DEF PoolTypes
<1>0. PoolTypes /\ LocalsAgree /\ OnePlaceEach /\ LostAreRefused /\ HeapIsBounded
  BY DEF PoolInv
<1>1. ASSUME NEW w \in Workers, Pops(w), BitsInside' PROVE PoolTypes'
  <2>1. Head(tasks[w]) \in Nat \X Blocks /\ Tail(tasks[w]) \in Seq(Nat \X Blocks)
    BY <1>0, <1>1 DEF Pops
  <2> QED
    BY <1>0, <1>1, <2>1 DEF Pops, Pop, WGo, BitsInside, callvars, memory
<1>2. ASSUME NEW w \in Workers, Exits(w), BitsInside' PROVE PoolTypes'
  <2>1. <<>> \in Seq(Blocks)
    OBVIOUS
  <2> QED
    BY <1>0, <1>2, <2>1 DEF Exits, Exit, WGo, BitsInside, callvars
<1>3. ASSUME NEW w \in Workers, Waits(w), BitsInside' PROVE PoolTypes'
  BY <1>0, <1>3 DEF Waits, WGo, BitsInside, callvars, memory
<1>4. ASSUME NEW w \in Workers, Finish(w), BitsInside' PROVE PoolTypes'
  <2>1. doing[w] \in Nat \X Blocks /\ w \in Callers
    BY <1>0, <1>4, PoolConstants DEF Finish, LocalsAgree
  <2>2. Append(v_pl[w], doing[w][2]) \in Seq(Blocks)
    BY <1>0, <2>1
  <2> QED
    BY <1>0, <1>4, <2>1, <2>2 DEF Finish, WGo, BitsInside, callvars
<1>5. ASSUME NEW c \in Callers, NEW w \in Workers, BeginCall(c, w) PROVE PoolTypes'
  BY <1>0, <1>5 DEF BeginCall, CGo, memory
<1>6. ASSUME NEW c \in Callers, NewTask(c) PROVE PoolTypes'
  <2>1. CASE v_pl[c] # <<>>
    <3>1. SubSeq(v_pl[c], 1, Len(v_pl[c]) - 1) \in Seq(Blocks) /\ v_pl[c][Len(v_pl[c])] \in Blocks
      BY <1>0, <2>1, ListFront DEF OnePlaceEach
    <3>2. /\ block' = [block EXCEPT ![c] = v_pl[c][Len(v_pl[c])]] /\ heap' = heap
          /\ v_pl' = [v_pl EXCEPT ![c] = SubSeq(v_pl[c], 1, Len(v_pl[c]) - 1)]
      BY <1>0, <1>6, <2>1 DEF NewTask
    <3>3. v_pl' \in [Callers -> Seq(Blocks)] /\ block' \in [Callers -> Blocks \cup {None}]
      BY <1>0, <3>1, <3>2
    <3> QED
      BY <1>0, <1>6, <3>2, <3>3 DEF NewTask, CGo
  <2>2. CASE v_pl[c] = <<>>
    <3>1. PICK b \in Blocks : b = CHOOSE a \in Blocks : a \notin heap
      BY <1>0, <1>6, FreshBlock DEF NewTask
    <3>2. block' = [block EXCEPT ![c] = b] /\ heap' = heap \cup {block'[c]} /\ v_pl' = v_pl
      BY <1>6, <2>2, <3>1 DEF NewTask
    <3>3. block'[c] = b
      BY <1>0, <3>2
    <3> QED
      BY <1>0, <1>6, <3>2, <3>3 DEF NewTask, CGo
  <2> QED
    BY <2>1, <2>2
<1>7. ASSUME NEW c \in Callers, Push(c) PROVE PoolTypes'
  <2>1. tid[c] \in Workers /\ block[c] \in Blocks
    BY <1>0, <1>7, PushMoves
  <2>2. PICK w \in Workers : w = tid[c]
    BY <2>1
  <2>3. Append(tasks[w], <<sent, block[c]>>) \in Seq(Nat \X Blocks)
    BY <1>0, <2>1
  <2>4. tasks' = [tasks EXCEPT ![w] = Append(tasks[w], <<sent, block[c]>>)] /\ sent' \in Nat
    BY <1>0, <1>7, <2>2 DEF Push
  <2>5. tasks' \in [Workers -> Seq(Nat \X Blocks)]
    BY <1>0, <2>3, <2>4
  <2> QED
    BY <1>0, <1>7, <2>4, <2>5 DEF Push, CGo, memory
<1>8. ASSUME NEW c \in Callers, Throw(c) PROVE PoolTypes'
  BY <1>0, <1>8 DEF Throw, CGo, memory
<1>9. ASSUME NEW c \in Callers, Notify(c) PROVE PoolTypes'
  <2>1. tid[c] \in Workers
    BY <1>0, <1>9 DEF Notify, LocalsAgree
  <2> QED
    BY <1>0, <1>9, <2>1 DEF Notify, CGo, memory
<1>10. ASSUME NEW w \in Workers, Stop(w) \/ StopNotify(w) \/ JoinWorker(w) PROVE PoolTypes'
  <2>1. CASE Stop(w)
    BY <1>0, <2>1 DEF Stop, callvars, memory
  <2>2. CASE StopNotify(w)
    BY <1>0, <2>2 DEF StopNotify, callvars, memory
  <2>3. CASE JoinWorker(w)
    <3>1. dpc' \in Workers \X {"lock", "notify", "join", "gone"}
      BY <2>3, WorkersAre DEF JoinWorker
    <3> QED
      BY <1>0, <2>3, <3>1 DEF JoinWorker, callvars, memory
  <2> QED
    BY <1>10, <2>1, <2>2, <2>3
<1>11. CASE UNCHANGED poolvars
  BY <1>0, <1>11 DEF poolvars
<1>12. ASSUME NEW w \in Workers, Continue(w) \/ Idle(w) \/ Finish(w) \/ Wake(w) PROVE PoolTypes'
  BY <1>0, <1>1, <1>2, <1>3, <1>4, <1>12, WorkerSteps
<1>13. ASSUME NEW c \in Callers, Execute(c) \/ ExecuteForward(c) \/ CallStep(c) PROVE PoolTypes'
  BY <1>5, <1>6, <1>7, <1>8, <1>9, <1>13 DEF Execute, ExecuteForward, CallStep
<1> QED
  BY <1>10, <1>11, <1>12, <1>13 DEF PoolNext, OwnerStep

\* Every step keeps what the places of the threads say of their locals.
LEMMA PoolStepLocals ==
  ASSUME PoolAssumption, PoolInv, [PoolNext]_poolvars
  PROVE  LocalsAgree'
<1>0. PoolTypes /\ LocalsAgree /\ OnePlaceEach /\ LostAreRefused /\ HeapIsBounded
  BY DEF PoolInv
<1> DEFINE CallLocals == \A c \in Callers : /\ cpc[c] = "idle" <=> tid[c] = None
                                            /\ cpc[c] = "push" <=> block[c] # None
           WorkLocals == \A w \in Workers : /\ wpc[w] = "run" <=> doing[w] # NoTask
                                            /\ cpc[w] # "idle" => wpc[w] = "run"
<1>a. Workers \subseteq Callers
  BY PoolConstants
<1>b. LocalsAgree <=> CallLocals /\ WorkLocals
  BY DEF LocalsAgree
<1>c. LocalsAgree' <=> CallLocals' /\ WorkLocals'
  BY DEF LocalsAgree
<1>1. ASSUME NEW w \in Workers, Pops(w) PROVE LocalsAgree'
  <2>1. Head(tasks[w]) \in Nat \X Blocks
    BY <1>0, <1>1 DEF Pops, PoolTypes
  <2>2. Head(tasks[w]) # NoTask
    BY <2>1, PoolConstants
  <2>3. CallLocals'
    BY <1>0, <1>1, <1>b DEF Pops, callvars
  <2>4. WorkLocals'
    BY <1>0, <1>1, <1>b, <2>2 DEF Pops, Pop, WGo, callvars, PoolTypes
  <2> QED
    BY <2>3, <2>4, <1>c
<1>2. ASSUME NEW w \in Workers, Exits(w) PROVE LocalsAgree'
  <2>1. CallLocals'
    BY <1>0, <1>2, <1>b DEF Exits, callvars
  <2>2. WorkLocals'
    BY <1>0, <1>2, <1>b DEF Exits, Exit, WGo, callvars, PoolTypes
  <2> QED
    BY <2>1, <2>2, <1>c
<1>3. ASSUME NEW w \in Workers, Waits(w) PROVE LocalsAgree'
  <2>1. CallLocals'
    BY <1>0, <1>3, <1>b DEF Waits, callvars
  <2>2. WorkLocals'
    BY <1>0, <1>3, <1>b DEF Waits, WGo, callvars, PoolTypes
  <2> QED
    BY <2>1, <2>2, <1>c
<1>4. ASSUME NEW w \in Workers, Finish(w) PROVE LocalsAgree'
  <2>1. CallLocals'
    BY <1>0, <1>4, <1>b DEF Finish, callvars
  <2>2. WorkLocals'
    BY <1>0, <1>4, <1>b DEF Finish, WGo, callvars, PoolTypes
  <2> QED
    BY <2>1, <2>2, <1>c
<1>5. ASSUME NEW c \in Callers, NEW w \in Workers, BeginCall(c, w) PROVE LocalsAgree'
  <2>1. CallLocals'
    BY <1>0, <1>5, <1>b, PoolConstants DEF BeginCall, CGo, PoolTypes
  <2>2. WorkLocals'
    BY <1>0, <1>5, <1>a, <1>b DEF BeginCall, CGo, PoolTypes
  <2> QED
    BY <2>1, <2>2, <1>c
<1>6. ASSUME NEW c \in Callers, NewTask(c) PROVE LocalsAgree'
  <2>1. PICK b \in Blocks : block' = [block EXCEPT ![c] = b]
    <3>1. CASE v_pl[c] # <<>>
      <4>1. v_pl[c][Len(v_pl[c])] \in Blocks
        BY <1>0, <3>1, ListFront DEF PoolTypes, OnePlaceEach
      <4> QED
        BY <1>6, <3>1, <4>1 DEF NewTask
    <3>2. CASE v_pl[c] = <<>>
      <4>1. (CHOOSE a \in Blocks : a \notin heap) \in Blocks
        BY <1>0, <1>6, FreshBlock DEF NewTask
      <4> QED
        BY <1>6, <3>2, <4>1 DEF NewTask
    <3> QED
      BY <3>1, <3>2
  <2>2. b # None
    BY PoolConstants
  <2>3. cpc[c] = "new" /\ cpc' = [cpc EXCEPT ![c] = "push"] /\ UNCHANGED <<tid, wpc, doing>>
    BY <1>6 DEF NewTask, CGo
  <2>4. CallLocals'
    BY <1>0, <1>b, <2>1, <2>2, <2>3 DEF PoolTypes
  <2>5. WorkLocals'
    BY <1>0, <1>a, <1>b, <2>3 DEF PoolTypes
  <2> QED
    BY <2>4, <2>5, <1>c
<1>7. ASSUME NEW c \in Callers, Push(c) \/ Throw(c) \/ Notify(c) PROVE LocalsAgree'
  <2>1. CallLocals'
    BY <1>0, <1>7, <1>b DEF Push, Throw, Notify, CGo, PoolTypes
  <2>2. WorkLocals'
    BY <1>0, <1>7, <1>a, <1>b DEF Push, Throw, Notify, CGo, PoolTypes
  <2> QED
    BY <2>1, <2>2, <1>c
<1>8. CASE UNCHANGED <<cpc, tid, block, wpc, doing>>
  BY <1>0, <1>8 DEF LocalsAgree
<1>9. CASE OwnerStep
  BY <1>8, <1>9 DEF OwnerStep, Stop, StopNotify, JoinWorker, callvars
<1>10. CASE UNCHANGED poolvars
  BY <1>8, <1>10 DEF poolvars
<1>11. ASSUME NEW w \in Workers, Continue(w) \/ Idle(w) \/ Finish(w) \/ Wake(w) PROVE LocalsAgree'
  BY <1>0, <1>1, <1>2, <1>3, <1>4, <1>11, WorkerSteps
<1>12. ASSUME NEW c \in Callers, Execute(c) \/ ExecuteForward(c) \/ CallStep(c) PROVE LocalsAgree'
  BY <1>5, <1>6, <1>7, <1>12 DEF Execute, ExecuteForward, CallStep
<1> QED
  BY <1>9, <1>10, <1>11, <1>12 DEF PoolNext

\* Every step keeps each block in one place, and those that are nowhere counted.
LEMMA PoolStepPlaces ==
  ASSUME PoolAssumption, PoolInv, [PoolNext]_poolvars
  PROVE  OnePlaceEach' /\ LostAreRefused'
<1> DEFINE Goal == OnePlaceEach' /\ LostAreRefused'
<1>0. PoolTypes /\ LocalsAgree /\ OnePlaceEach /\ LostAreRefused /\ HeapIsBounded
  BY DEF PoolInv
<1>1. ASSUME NEW w \in Workers, Pops(w) PROVE Goal
  BY <1>0, <1>1, PopMoves DEF Pops, callvars, memory
<1>2. ASSUME NEW w \in Workers, Exits(w) PROVE Goal
  BY <1>0, <1>2, ExitEmpties DEF Exits, callvars
<1>3. CASE UNCHANGED <<tasks, doing, block, v_pl, heap, refused>>
  BY <1>0, <1>3, NobodyMoves
<1>4. ASSUME NEW w \in Workers, Waits(w) PROVE Goal
  BY <1>3, <1>4 DEF Waits, callvars, memory
<1>5. ASSUME NEW w \in Workers, Finish(w) PROVE Goal
  BY <1>0, <1>5, FinishMoves
<1>6. ASSUME NEW c \in Callers, NEW w \in Workers, BeginCall(c, w) PROVE Goal
  BY <1>3, <1>6 DEF BeginCall, memory
<1>7. ASSUME NEW c \in Callers, NewTask(c) PROVE Goal
  <2>1. CASE v_pl[c] # <<>>
    BY <1>0, <1>7, <2>1, TakeMoves DEF NewTask
  <2>2. CASE v_pl[c] = <<>>
    <3>1. PICK b \in Blocks : b = (CHOOSE a \in Blocks : a \notin heap) /\ b \notin heap
      BY <1>0, <1>7, FreshBlock DEF NewTask
    <3>2. block' = [block EXCEPT ![c] = b]
      BY <1>7, <2>2, <3>1 DEF NewTask
    <3>3. block'[c] = b
      BY <1>0, <3>2 DEF PoolTypes
    <3>4. cpc[c] = "new" /\ heap' = heap \cup {b} /\ UNCHANGED <<tasks, doing, v_pl, refused>>
      BY <1>7, <2>2, <3>3 DEF NewTask
    <3> QED
      BY <1>0, <3>1, <3>2, <3>4, FreshAdds
  <2> QED
    BY <2>1, <2>2
<1>8. ASSUME NEW c \in Callers, Push(c) PROVE Goal
  BY <1>0, <1>8, PushMoves
<1>9. ASSUME NEW c \in Callers, Throw(c) PROVE Goal
  BY <1>0, <1>9, ThrowLoses
<1>10. ASSUME NEW c \in Callers, Notify(c) PROVE Goal
  BY <1>3, <1>10 DEF Notify, memory
<1>11. CASE OwnerStep
  BY <1>3, <1>11 DEF OwnerStep, Stop, StopNotify, JoinWorker, callvars, memory
<1>12. CASE UNCHANGED poolvars
  BY <1>3, <1>12 DEF poolvars
<1>13. ASSUME NEW w \in Workers, Continue(w) \/ Idle(w) \/ Finish(w) \/ Wake(w) PROVE Goal
  BY <1>0, <1>1, <1>2, <1>4, <1>5, <1>13, WorkerSteps
<1>14. ASSUME NEW c \in Callers, Execute(c) \/ ExecuteForward(c) \/ CallStep(c) PROVE Goal
  BY <1>6, <1>7, <1>8, <1>9, <1>10, <1>14 DEF Execute, ExecuteForward, CallStep
<1> QED
  BY <1>11, <1>12, <1>13, <1>14 DEF PoolNext

\* Every step keeps what is over: who has ended has nothing and gets nothing more.
LEMMA PoolStepEnds ==
  ASSUME PoolAssumption, PoolInv, [PoolNext]_poolvars
  PROVE  EndsClean'
<1>0. PoolTypes /\ LocalsAgree /\ OnePlaceEach /\ LostAreRefused /\ EndsClean
  BY DEF PoolInv
<1>a. Workers \subseteq Callers /\ Clients \subseteq Callers /\ Clients \cap Workers = {}
  BY PoolConstants DEF PoolAssumption, Callers
<1>b. dpc[1] \in Workers /\ dpc = <<dpc[1], dpc[2]>>
  BY <1>0 DEF PoolTypes
<1>1. ASSUME NEW w \in Workers, Pops(w) PROVE EndsClean'
  BY <1>0, <1>1, <1>b DEF Pops, Pop, WGo, callvars, memory, EndsClean, PoolTypes
<1>2. ASSUME NEW w \in Workers, Exits(w) PROVE EndsClean'
  BY <1>0, <1>2, <1>a, <1>b DEF Exits, Exit, WGo, callvars, EndsClean, PoolTypes
<1>3. ASSUME NEW w \in Workers, Waits(w) PROVE EndsClean'
  BY <1>0, <1>3, <1>b DEF Waits, WGo, callvars, memory, EndsClean, PoolTypes
<1>4. ASSUME NEW w \in Workers, Finish(w) PROVE EndsClean'
  <2>1. wpc[w] = "run" /\ w \notin Clients
    BY <1>4, <1>a DEF Finish
  <2>2. \A c \in Callers : c # w => v_pl'[c] = v_pl[c]
    BY <1>0, <1>4 DEF Finish, PoolTypes
  <2>3. wpc' = [wpc EXCEPT ![w] = "top"] /\ UNCHANGED <<stop, tasks, dpc, cpc>>
    BY <1>4 DEF Finish, WGo, callvars
  <2> QED
    BY <1>0, <1>a, <1>b, <2>1, <2>2, <2>3 DEF EndsClean, PoolTypes
<1>5. ASSUME NEW c \in Callers, NEW w \in Workers, BeginCall(c, w) PROVE EndsClean'
  BY <1>0, <1>5, <1>b DEF BeginCall, CGo, memory, EndsClean, PoolTypes
<1>6. ASSUME NEW c \in Callers, NewTask(c) PROVE EndsClean'
  <2>1. \A d \in Callers : v_pl[d] = <<>> => v_pl'[d] = <<>>
    <3>1. CASE v_pl[c] # <<>>
      BY <1>0, <1>6, <3>1 DEF NewTask, PoolTypes
    <3>2. CASE v_pl[c] = <<>>
      BY <1>6, <3>2 DEF NewTask
    <3> QED
      BY <3>1, <3>2
  <2>2. cpc[c] = "new" /\ UNCHANGED <<stop, tasks, dpc, wpc>>
    BY <1>6 DEF NewTask
  <2>3. dpc[2] # "gone"
    BY <1>0, <2>2 DEF EndsClean
  <2> QED
    BY <1>0, <1>a, <1>b, <2>1, <2>2, <2>3 DEF EndsClean
<1>7. ASSUME NEW c \in Callers, Push(c) PROVE EndsClean'
  <2>1. tid[c] \in Workers
    BY <1>0, <1>7, PushMoves
  <2>2. cpc[c] = "push" /\ ~stop[tid[c]] /\ UNCHANGED <<stop, dpc, wpc, v_pl>>
    BY <1>7 DEF Push, memory
  <2>3. \A w \in Workers : wpc[w] = "exit" => tasks'[w] = tasks[w]
    BY <1>0, <1>7, <2>2 DEF Push, PoolTypes, EndsClean
  <2>4. dpc[2] # "gone"
    BY <1>0, <2>2 DEF EndsClean
  <2> QED
    BY <1>0, <1>a, <1>b, <2>2, <2>3, <2>4 DEF EndsClean
<1>8. ASSUME NEW c \in Callers, Throw(c) \/ Notify(c) PROVE EndsClean'
  <2>1. dpc[2] # "gone" /\ UNCHANGED <<stop, tasks, dpc, wpc, v_pl>>
    BY <1>0, <1>8 DEF Throw, Notify, memory, EndsClean
  <2> QED
    BY <1>0, <2>1 DEF EndsClean
<1>9. ASSUME NEW w \in Workers, Stop(w) PROVE EndsClean'
  <2>1. dpc = <<w, "lock">> /\ dpc' = <<w, "notify">> /\ UNCHANGED <<tasks, wpc, v_pl, cpc>>
    BY <1>9 DEF Stop, callvars, memory
  <2>2. stop'[w] /\ \A v \in Workers : stop[v] => stop'[v]
    BY <1>0, <1>9 DEF Stop, PoolTypes
  <2> QED
    BY <1>0, <2>1, <2>2 DEF EndsClean
<1>10. ASSUME NEW w \in Workers, StopNotify(w) PROVE EndsClean'
  <2>1. dpc = <<w, "notify">> /\ dpc' = <<w, "join">> /\ UNCHANGED <<stop, tasks, wpc, v_pl, cpc>>
    BY <1>10 DEF StopNotify, callvars, memory
  <2> QED
    BY <1>0, <2>1 DEF EndsClean
<1>11. ASSUME NEW w \in Workers, JoinWorker(w) PROVE EndsClean'
  <2>1. /\ dpc = <<w, "join">> /\ wpc[w] = "exit" /\ \A c \in Callers : cpc[c] = "idle"
        /\ dpc' = IF Last(w) THEN <<w, "gone">> ELSE <<w + 1, "lock">>
        /\ UNCHANGED <<stop, tasks, wpc, v_pl, cpc>>
    BY <1>11 DEF JoinWorker, callvars, memory
  <2>2. w \in Int /\ \A v \in Workers : v \in Int
    BY WorkersAre
  <2>3. \A v \in Workers : v < w + 1 => wpc[v] = "exit"
    BY <1>0, <2>1, <2>2 DEF EndsClean
  <2>4. CASE Last(w)
    BY <1>0, <2>1, <2>4 DEF EndsClean
  <2>5. CASE ~Last(w)
    BY <1>0, <2>1, <2>3, <2>5 DEF EndsClean
  <2> QED
    BY <2>4, <2>5
<1>12. CASE UNCHANGED poolvars
  BY <1>0, <1>12 DEF poolvars, EndsClean
<1>13. ASSUME NEW w \in Workers, Continue(w) \/ Idle(w) \/ Finish(w) \/ Wake(w) PROVE EndsClean'
  BY <1>0, <1>1, <1>2, <1>3, <1>4, <1>13, WorkerSteps
<1>14. ASSUME NEW c \in Callers, Execute(c) \/ ExecuteForward(c) \/ CallStep(c) PROVE EndsClean'
  BY <1>5, <1>6, <1>7, <1>8, <1>14 DEF Execute, ExecuteForward, CallStep
<1> QED
  BY <1>9, <1>10, <1>11, <1>12, <1>13, <1>14 DEF PoolNext, OwnerStep

LEMMA OneMore ==
  ASSUME NEW S, IsFiniteSet(S), NEW a
  PROVE  /\ Cardinality(S \cup {a}) <= Cardinality(S) + 1
         /\ IsFiniteSet(S \cup {a}) /\ Cardinality(S \cup {a}) \in Nat
<1>1. PICK n \in Nat : n = Cardinality(S)
  BY FS_CardinalityType
<1>2. PICK T : T = S \cup {a}
  OBVIOUS
<1>3. IsFiniteSet(T) /\ Cardinality(T) <= n + 1 /\ Cardinality(T) \in Nat
  <2>1. CASE a \in S
    <3>1. T = S
      BY <1>2, <2>1
    <3>2. Cardinality(T) = n
      BY <1>1, <3>1
    <3> QED
      BY <3>1, <3>2
  <2>2. CASE a \notin S
    <3>1. Cardinality(T) = n + 1 /\ IsFiniteSet(T)
      BY <1>1, <1>2, <2>2, FS_AddElement
    <3> QED
      BY <3>1
  <2> QED
    BY <2>1, <2>2
<1> QED
  BY <1>1, <1>2, <1>3

\* Every step keeps the bound: memory is taken for a task that is being submitted.
LEMMA PoolStepHeap ==
  ASSUME PoolAssumption, PoolInv, [PoolNext]_poolvars
  PROVE  HeapIsBounded'
<1>0. PoolTypes /\ LocalsAgree /\ HeapIsBounded /\ OnePlaceEach /\ LostAreRefused
  BY DEF PoolInv
<1>a. IsFiniteSet(Calling) /\ IsFiniteSet(Pushing) /\ IsFiniteSet(heap)
  BY <1>0, PoolConstants, FS_Subset DEF Calling, Pushing, PoolTypes
<1>b. /\ Cardinality(heap) \in Nat /\ Cardinality(Pushing) \in Nat /\ Cardinality(Calling) \in Nat
      /\ MaxTasks \in Nat /\ sent \in Nat /\ refused \in Nat
  BY <1>0, <1>a, FS_CardinalityType DEF PoolAssumption, PoolTypes
<1>c. Cardinality(heap) <= sent + refused + Cardinality(Pushing)
      /\ sent + refused + Cardinality(Calling) <= MaxTasks
  BY <1>0 DEF HeapIsBounded
<1>1. ASSUME heap' \subseteq heap, UNCHANGED <<cpc, sent, refused>> PROVE HeapIsBounded'
  <2>1. Cardinality(heap') <= Cardinality(heap) /\ Cardinality(heap') \in Nat
    BY <1>1, <1>a, FS_Subset, FS_CardinalityType
  <2>2. Pushing' = Pushing /\ Calling' = Calling
    BY <1>1 DEF Pushing, Calling
  <2> QED
    BY <1>1, <1>b, <1>c, <2>1, <2>2 DEF HeapIsBounded
<1>2. ASSUME NEW c \in Callers, NEW w \in Workers, BeginCall(c, w) PROVE HeapIsBounded'
  <2>1. Pushing' = Pushing /\ Calling' = Calling \cup {c} /\ c \notin Calling
    BY <1>0, <1>2 DEF BeginCall, CGo, Pushing, Calling, PoolTypes
  <2>2. Cardinality(Calling \cup {c}) = Cardinality(Calling) + 1
    BY <1>a, <2>1, FS_AddElement
  <2>3. sent + refused + Cardinality(Calling) < MaxTasks
    BY <1>2 DEF BeginCall, Calling
  <2>4. UNCHANGED <<heap, sent, refused>>
    BY <1>2 DEF BeginCall, memory
  <2> QED
    BY <1>b, <1>c, <2>1, <2>2, <2>3, <2>4 DEF HeapIsBounded
<1>3. ASSUME NEW c \in Callers, NewTask(c) PROVE HeapIsBounded'
  <2>1. Pushing' = Pushing \cup {c} /\ Calling' = Calling /\ c \notin Pushing
    BY <1>0, <1>3 DEF NewTask, CGo, Pushing, Calling, PoolTypes
  <2>2. Cardinality(Pushing \cup {c}) = Cardinality(Pushing) + 1
    BY <1>a, <2>1, FS_AddElement
  <2>3. PICK b : heap' \subseteq heap \cup {b}
    BY <1>3 DEF NewTask
  <2>4. Cardinality(heap \cup {b}) <= Cardinality(heap) + 1 /\ IsFiniteSet(heap \cup {b})
        /\ Cardinality(heap \cup {b}) \in Nat
    BY <1>a, OneMore
  <2>5. Cardinality(heap') <= Cardinality(heap \cup {b}) /\ Cardinality(heap') \in Nat
    BY <2>3, <2>4, FS_Subset, FS_CardinalityType
  <2>6. UNCHANGED <<sent, refused>>
    BY <1>3 DEF NewTask
  <2> QED
    BY <1>b, <1>c, <2>1, <2>2, <2>4, <2>5, <2>6 DEF HeapIsBounded
<1>4. ASSUME NEW c \in Callers, Push(c) \/ Throw(c) PROVE HeapIsBounded'
  <2>1. /\ Pushing' = Pushing \ {c} /\ Calling' = Calling \ {c}
        /\ c \in Pushing /\ c \in Calling /\ heap' = heap
    BY <1>0, <1>4 DEF Push, Throw, CGo, memory, Pushing, Calling, PoolTypes
  <2>2. Cardinality(Pushing \ {c}) = Cardinality(Pushing) - 1
    BY <1>a, <2>1, FS_RemoveElement
  <2>3. Cardinality(Calling \ {c}) = Cardinality(Calling) - 1
    BY <1>a, <2>1, FS_RemoveElement
  <2>4. sent' + refused' = sent + refused + 1
    BY <1>4, <1>b DEF Push, Throw
  <2> QED
    BY <1>b, <1>c, <2>1, <2>2, <2>3, <2>4 DEF HeapIsBounded
<1>5. ASSUME NEW c \in Callers, Notify(c) PROVE HeapIsBounded'
  <2>1. Pushing' = Pushing /\ Calling' = Calling
    BY <1>0, <1>5 DEF Notify, CGo, Pushing, Calling, PoolTypes
  <2>2. UNCHANGED <<heap, sent, refused>>
    BY <1>5 DEF Notify, memory
  <2> QED
    BY <1>b, <1>c, <2>1, <2>2 DEF HeapIsBounded
<1>6. CASE OwnerStep
  BY <1>1, <1>6 DEF OwnerStep, Stop, StopNotify, JoinWorker, callvars, memory
<1>7. CASE UNCHANGED poolvars
  BY <1>1, <1>7 DEF poolvars
<1>8. ASSUME NEW w \in Workers, Continue(w) \/ Idle(w) \/ Finish(w) \/ Wake(w) PROVE HeapIsBounded'
  <2>1. Pops(w) \/ Exits(w) \/ Waits(w) \/ Finish(w)
    BY <1>0, <1>8, WorkerSteps
  <2> QED
    BY <1>1, <2>1 DEF Pops, Exits, Exit, Waits, Finish, callvars, memory
<1>9. ASSUME NEW c \in Callers, Execute(c) \/ ExecuteForward(c) \/ CallStep(c) PROVE HeapIsBounded'
  BY <1>2, <1>3, <1>4, <1>5, <1>9 DEF Execute, ExecuteForward, CallStep
<1> QED
  BY <1>6, <1>7, <1>8, <1>9 DEF PoolNext

LEMMA PoolInitInv == PoolAssumption /\ PoolInit => PoolInv
<1> SUFFICES ASSUME PoolAssumption, PoolInit PROVE PoolInv
  OBVIOUS
<1>1. 0 \in Workers /\ \A w \in Workers : w >= 0 /\ w \in Int
  BY WorkersAre
<1>2. PoolTypes
  BY <1>1 DEF PoolInit, PoolTypes
<1>3. LocalsAgree
  BY PoolConstants DEF PoolInit, LocalsAgree
<1>4. \A z \in Homes : Stock[z] = {}
  <2>1. \A c \in Callers : InQueue(c) = {} /\ InList(c) = {} /\ InCall(c) = {} /\ InTask(c) = {}
    BY DEF PoolInit, InQueue, InList, InCall, InTask, Loads, Elems
  <2> QED
    BY <2>1 DEF Stock, Homes
<1>5. AllOf(Stock, Homes) = {} /\ ApartIn(Stock, Homes)
  BY <1>4 DEF AllOf, ApartIn
<1>6. OnePlaceEach
  BY <1>5 DEF OnePlaceEach, PoolInit, LoadsDiffer, Distinct
<1>7. heap \ AllOf(Stock, Homes) = {}
  BY DEF PoolInit
<1>8. LostAreRefused
  BY <1>7, FS_EmptySet DEF LostAreRefused, PoolInit
<1>9. Pushing = {} /\ Calling = {} /\ heap = {} /\ sent = 0 /\ refused = 0
  BY DEF Pushing, Calling, PoolInit
<1>10. HeapIsBounded
  BY <1>9, FS_EmptySet DEF HeapIsBounded, PoolAssumption
<1>11. EndsClean
  BY <1>1, PoolConstants DEF EndsClean, PoolInit, Callers
<1> QED
  BY <1>2, <1>3, <1>6, <1>8, <1>10, <1>11 DEF PoolInv

LEMMA PoolStepInv == PoolAssumption /\ PoolInv /\ [PoolNext]_poolvars => PoolInv'
  BY PoolStepTypes, PoolStepLocals, PoolStepPlaces, PoolStepHeap, PoolStepEnds DEF PoolInv

\* What the invariant says of the blocks, in the words of the property.
LEMMA PlacesAccount == ASSUME PoolAssumption, PoolInv PROVE BlocksAreAccounted
<1>0. PoolTypes /\ LocalsAgree /\ OnePlaceEach /\ LostAreRefused /\ EndsClean
  BY DEF PoolInv
<1>1. Workers \subseteq Callers
  BY PoolConstants
<1>2. \A a : a \in Queued <=> \E w \in Callers : a \in InQueue(w)
  BY <1>0, <1>1 DEF Queued, InQueue, Loads, PoolTypes
<1>3. \A a : a \in InHand <=> \E c \in Callers : a \in InCall(c) \/ a \in InTask(c)
  BY <1>1 DEF InHand, InCall, InTask
<1>4. \A c \in Callers : Listed(c) = InList(c)
  BY <1>0 DEF Listed, InList, Elems, PoolTypes
<1>5. StockIs
  BY StockHere
<1>6. \A c, d \in Callers :
        /\ InQueue(c) \cap InCall(d) = {} /\ InQueue(c) \cap InTask(d) = {}
        /\ InList(c) \cap InQueue(d) = {}
        /\ InList(c) \cap InCall(d) = {} /\ InList(c) \cap InTask(d) = {}
        /\ c # d => InList(c) \cap InList(d) = {}
        /\ InQueue(c) \subseteq heap /\ InCall(c) \subseteq heap
        /\ InTask(c) \subseteq heap /\ InList(c) \subseteq heap
  <2> SUFFICES ASSUME NEW c \in Callers, NEW d \in Callers
               PROVE  /\ InQueue(c) \cap InCall(d) = {} /\ InQueue(c) \cap InTask(d) = {}
                      /\ InList(c) \cap InQueue(d) = {}
                      /\ InList(c) \cap InCall(d) = {} /\ InList(c) \cap InTask(d) = {}
                      /\ c # d => InList(c) \cap InList(d) = {}
                      /\ InQueue(c) \subseteq heap /\ InCall(c) \subseteq heap
                      /\ InTask(c) \subseteq heap /\ InList(c) \subseteq heap
    OBVIOUS
  <2>1. \A x, y \in Homes : x # y => Stock[x] \cap Stock[y] = {}
    BY <1>0 DEF OnePlaceEach, ApartIn
  <2>2. \A x \in Homes : Stock[x] \subseteq heap
    BY <1>0 DEF OnePlaceEach, AllOf
  <2>3. PICK q, l, k, t, m, u, v : /\ q = <<"queue", c>> /\ l = <<"list", c>>
                                   /\ k = <<"call", c>> /\ t = <<"task", c>>
                                   /\ m = <<"list", d>> /\ u = <<"call", d>> /\ v = <<"task", d>>
    OBVIOUS
  <2>4. PICK x : x = <<"queue", d>>
    OBVIOUS
  <2>5. /\ q # u /\ q # v /\ l # x /\ l # u /\ l # v
        /\ c # d => l # m
    BY <2>3, <2>4
  <2>6. /\ {q, l, k, t, m, u, v, x} \subseteq Homes
        /\ Stock[q] = InQueue(c) /\ Stock[l] = InList(c) /\ Stock[k] = InCall(c) /\ Stock[t] = InTask(c)
        /\ Stock[m] = InList(d) /\ Stock[u] = InCall(d) /\ Stock[v] = InTask(d) /\ Stock[x] = InQueue(d)
    BY <1>5, <2>3, <2>4 DEF StockIs
  <2>7. /\ Stock[q] \cap Stock[u] = {} /\ Stock[q] \cap Stock[v] = {} /\ Stock[l] \cap Stock[x] = {}
        /\ Stock[l] \cap Stock[u] = {} /\ Stock[l] \cap Stock[v] = {}
        /\ c # d => Stock[l] \cap Stock[m] = {}
    BY <2>1, <2>5, <2>6
  <2>8. Stock[q] \subseteq heap /\ Stock[l] \subseteq heap /\ Stock[k] \subseteq heap /\ Stock[t] \subseteq heap
    BY <2>2, <2>6
  <2> QED
    BY <2>6, <2>7, <2>8
<1>7. OneOwner
  <2>1. Queued \cap InHand = {}
    BY <1>2, <1>3, <1>6
  <2>2. \A c \in Callers : Listed(c) \cap (Queued \cup InHand) = {}
    BY <1>2, <1>3, <1>4, <1>6
  <2>3. \A c, d \in Callers : c # d => Listed(c) \cap Listed(d) = {}
    BY <1>4, <1>6
  <2>4. Queued \cup InHand \cup UNION {Listed(c) : c \in Callers} \subseteq heap
    BY <1>2, <1>3, <1>4, <1>6
  <2> QED
    BY <2>1, <2>2, <2>3, <2>4 DEF OneOwner
<1>8. ASSUME dpc[2] = "gone" PROVE Cardinality(heap) = refused
  <2>1. \A w \in Workers : wpc[w] = "exit"
    <3>1. dpc[1] \in Workers /\ Last(dpc[1]) /\ wpc[dpc[1]] = "exit"
          /\ \A w \in Workers : w < dpc[1] => wpc[w] = "exit"
      BY <1>0, <1>8 DEF EndsClean, PoolTypes
    <3>2. \A w \in Workers : w <= dpc[1]
      <4>1. IsFiniteSet(Workers) /\ Workers = 0 .. (Cardinality(Workers) - 1)
        BY DEF PoolAssumption
      <4>2. PICK n \in Nat : n = Cardinality(Workers)
        BY <4>1, FS_CardinalityType
      <4> QED
        BY <3>1, <4>1, <4>2 DEF Last
    <3>3. \A w \in Workers : w \in Int
      BY WorkersAre
    <3> QED
      BY <3>1, <3>2, <3>3
  <2>2. \A c \in Callers : InQueue(c) = {} /\ InList(c) = {} /\ InCall(c) = {} /\ InTask(c) = {}
    <3>1. \A c \in Callers : v_pl[c] = <<>> /\ cpc[c] = "idle"
      BY <1>0, <1>8, <2>1 DEF EndsClean, Callers
    <3>2. \A w \in Workers : tasks[w] = <<>> /\ doing[w] = NoTask
      BY <1>0, <2>1 DEF EndsClean, LocalsAgree
    <3> QED
      BY <1>0, <3>1, <3>2 DEF InQueue, InList, InCall, InTask, Loads, Elems, LocalsAgree
  <2>3. \A z \in Homes : Stock[z] = {}
    BY <2>2 DEF Stock, Homes
  <2>4. heap \ AllOf(Stock, Homes) = heap
    BY <2>3 DEF AllOf
  <2> QED
    BY <1>0, <2>4 DEF LostAreRefused
<1> QED
  BY <1>7, <1>8 DEF BlocksAreAccounted, GivenBack

LEMMA PoolInvHolds == PoolAssumption /\ PoolSpec => []PoolInv
<1>1. PoolAssumption => []PoolAssumption
  <2>1. PoolAssumption => PoolAssumption'
    BY DEF PoolAssumption, Blocks
  <2> QED
    BY <2>1, PTL
<1>2. PoolAssumption /\ PoolInit => PoolInv
  BY PoolInitInv
<1>3. PoolAssumption /\ PoolInv /\ [PoolNext]_poolvars => PoolInv'
  BY PoolStepInv
<1> QED
  BY <1>1, <1>2, <1>3, PTL DEF PoolSpec

\* Whoever allocates and whoever deletes it, a block is in one queue, one hand or one
\* list; when the pool is gone its memory is given back, but for the block of each call
\* that was refused (pl_allocator.h 14-50, thread_pool.h 104-122).
THEOREM MemoryIsAccounted == ASSUME PoolAssumption PROVE PoolSpec => []BlocksAreAccounted
<1>1. PoolInv => BlocksAreAccounted
  BY PlacesAccount
<1> QED
  BY <1>1, PoolInvHolds, PTL
-----------------------------------------------------------------------------
(* The pool does what lanes of tasks do. *)
NumbersOf(q) == [i \in DOMAIN q |-> q[i][1]]
LaneOf == [w \in Workers |-> [i \in DOMAIN tasks[w] |-> tasks[w][i][1]]]
DoingOf == [w \in Workers |-> IF doing[w] = NoTask THEN NoTask ELSE doing[w][1]]
ClosedOf == {w \in Workers : stop[w]}

\* The numbers of the tasks of a queue.
LEMMA NumbersTail ==
  ASSUME NEW q \in Seq(Nat \X Blocks), q # <<>>
  PROVE  /\ NumbersOf(q) # <<>> /\ NumbersOf(Tail(q)) = Tail(NumbersOf(q))
         /\ Head(q)[1] = Head(NumbersOf(q)) /\ Head(q)[1] \in Nat
<1>1. Len(q) \in Nat \ {0} /\ DOMAIN q = 1 .. Len(q)
  OBVIOUS
<1>2. NumbersOf(q) \in Seq(Nat) /\ Len(NumbersOf(q)) = Len(q)
  <2>1. NumbersOf(q) = [i \in 1 .. Len(q) |-> q[i][1]]
    BY <1>1 DEF NumbersOf
  <2>2. \A i \in 1 .. Len(q) : q[i][1] \in Nat
    BY <1>1
  <2> QED
    BY <1>1, <2>1, <2>2
<1>3. \A i \in 1 .. Len(q) : NumbersOf(q)[i] = q[i][1]
  BY <1>1 DEF NumbersOf
<1>4. /\ Tail(q) \in Seq(Nat \X Blocks) /\ Len(Tail(q)) = Len(q) - 1
      /\ \A i \in 1 .. Len(q) - 1 : Tail(q)[i] = q[i + 1]
  BY <1>1
<1>5. NumbersOf(Tail(q)) = [i \in 1 .. Len(q) - 1 |-> q[i + 1][1]]
  BY <1>4 DEF NumbersOf
<1>6. NumbersOf(q) # <<>> /\ Tail(NumbersOf(q)) = [i \in 1 .. Len(q) - 1 |-> NumbersOf(q)[i + 1]]
  <2>1. PICK s \in Seq(Nat) : s = NumbersOf(q) /\ Len(s) = Len(q)
    BY <1>2
  <2>2. s # <<>>
    BY <1>1, <2>1
  <2>3. /\ Tail(s) \in Seq(Nat) /\ Len(Tail(s)) = Len(q) - 1
        /\ \A i \in 1 .. Len(q) - 1 : Tail(s)[i] = s[i + 1]
    BY <1>1, <2>1, <2>2
  <2>4. PICK t \in Seq(Nat) : t = Tail(s)
    BY <2>3
  <2>5. DOMAIN t = 1 .. Len(q) - 1 /\ t = [i \in DOMAIN t |-> t[i]]
    <3>1. t \in [1 .. Len(t) -> Nat]
      BY <2>4, LenProperties
    <3>2. Len(t) = Len(q) - 1
      BY <2>3, <2>4
    <3> QED
      BY <3>1, <3>2
  <2>6. Tail(s) = [i \in 1 .. Len(q) - 1 |-> s[i + 1]]
    BY <2>3, <2>4, <2>5
  <2> QED
    BY <2>1, <2>2, <2>6
<1>7. \A i \in 1 .. Len(q) - 1 : i + 1 \in 1 .. Len(q)
  BY <1>1
<1>8. Tail(NumbersOf(q)) = [i \in 1 .. Len(q) - 1 |-> q[i + 1][1]]
  BY <1>3, <1>6, <1>7
<1>9. 1 \in 1 .. Len(q) /\ Head(q) = q[1] /\ Head(NumbersOf(q)) = NumbersOf(q)[1]
  BY <1>1, <1>2, <1>6
<1>10. q[1] \in Nat \X Blocks
  BY <1>9
<1> QED
  BY <1>3, <1>5, <1>6, <1>8, <1>9, <1>10

LEMMA NumbersAppend ==
  ASSUME NEW q \in Seq(Nat \X Blocks), NEW e \in Nat \X Blocks
  PROVE  NumbersOf(Append(q, e)) = Append(NumbersOf(q), e[1])
<1> DEFINE r == Append(q, e)
<1>1. /\ Len(q) \in Nat /\ DOMAIN r = 1 .. Len(q) + 1 /\ DOMAIN q = 1 .. Len(q)
      /\ r[Len(q) + 1] = e /\ \A i \in 1 .. Len(q) : r[i] = q[i]
  OBVIOUS
<1> HIDE DEF r
<1>2. NumbersOf(q) \in Seq(Nat) /\ Len(NumbersOf(q)) = Len(q)
  <2>1. NumbersOf(q) = [i \in 1 .. Len(q) |-> q[i][1]]
    BY <1>1 DEF NumbersOf
  <2>2. \A i \in 1 .. Len(q) : q[i][1] \in Nat
    BY <1>1
  <2> QED
    BY <1>1, <2>1, <2>2
<1> DEFINE s == Append(NumbersOf(q), e[1])
<1>3. s \in Seq(Nat) /\ Len(s) = Len(q) + 1 /\ s[Len(q) + 1] = e[1]
      /\ \A i \in 1 .. Len(q) : s[i] = NumbersOf(q)[i]
  BY <1>1, <1>2
<1> HIDE DEF s
<1>4. s = [i \in 1 .. Len(q) + 1 |-> s[i]]
  BY <1>3
<1>5. NumbersOf(r) = [i \in 1 .. Len(q) + 1 |-> r[i][1]]
  BY <1>1 DEF NumbersOf
<1>6. \A i \in 1 .. Len(q) : s[i] = q[i][1]
  BY <1>1, <1>3 DEF NumbersOf
<1>7. \A i \in 1 .. Len(q) + 1 : i \in 1 .. Len(q) \/ i = Len(q) + 1
  BY <1>1
<1>8. \A i \in 1 .. Len(q) + 1 : s[i] = r[i][1]
  BY <1>1, <1>3, <1>6, <1>7
<1>9. s = NumbersOf(r)
  BY <1>4, <1>5, <1>8
<1> QED
  BY <1>9 DEF r, s

\* What the variables of TaskLanes are.
LEMMA LanesAre ==
  /\ LaneOf = [w \in Workers |-> NumbersOf(tasks[w])]
  /\ \A w \in Workers : LaneOf[w] = NumbersOf(tasks[w])
  /\ \A w \in Workers : DoingOf[w] = IF doing[w] = NoTask THEN NoTask ELSE doing[w][1]
  BY DEF LaneOf, DoingOf, NumbersOf

LEMMA LanesStutter ==
  ASSUME UNCHANGED <<tasks, doing, stop, sent>>
  PROVE  UNCHANGED Lane!lanevars
  BY DEF Lane!lanevars

\* A worker takes the first task of its lane.
LEMMA PopBegins ==
  ASSUME PoolAssumption, PoolTypes, LocalsAgree, NEW w \in Workers, Pops(w)
  PROVE  Lane!Begin(w)
<1>1. PICK q \in Seq(Nat \X Blocks) : q = tasks[w] /\ q # <<>>
  BY DEF PoolTypes, Pops
<1>2. /\ NumbersOf(q) # <<>> /\ NumbersOf(Tail(q)) = Tail(NumbersOf(q))
      /\ Head(q)[1] = Head(NumbersOf(q)) /\ Head(q)[1] \in Nat
  BY <1>1, NumbersTail
<1>3. Head(q) \in Nat \X Blocks /\ Head(q) # NoTask
  <2>1. Head(q) \in Nat \X Blocks
    BY <1>1
  <2> QED
    BY <2>1, PoolConstants
<1>4. doing[w] = NoTask
  BY DEF Pops, LocalsAgree
<1>5. tasks' = [tasks EXCEPT ![w] = Tail(q)] /\ doing' = [doing EXCEPT ![w] = Head(q)]
  BY <1>1 DEF Pops, Pop, PoolTypes
<1>6. LaneOf' = [LaneOf EXCEPT ![w] = Tail(LaneOf[w])]
  <2>1. tasks'[w] = Tail(q) /\ \A v \in Workers : v # w => tasks'[v] = tasks[v]
    BY <1>5 DEF PoolTypes
  <2>2. LaneOf' = [v \in Workers |-> NumbersOf(tasks'[v])]
    BY DEF LaneOf, NumbersOf
  <2>3. LaneOf = [v \in Workers |-> NumbersOf(tasks[v])]
    BY LanesAre
  <2>4. LaneOf[w] = NumbersOf(q)
    BY <1>1, <2>3
  <2>5. [LaneOf EXCEPT ![w] = Tail(LaneOf[w])]
          = [v \in Workers |-> IF v = w THEN Tail(LaneOf[w]) ELSE LaneOf[v]]
    BY <2>3
  <2>6. \A v \in Workers : NumbersOf(tasks'[v]) = IF v = w THEN Tail(LaneOf[w]) ELSE LaneOf[v]
    BY <1>2, <2>1, <2>3, <2>4
  <2> QED
    BY <2>2, <2>5, <2>6
<1>7. DoingOf' = [DoingOf EXCEPT ![w] = Head(LaneOf[w])] /\ DoingOf[w] = NoTask
  <2>1. doing'[w] = Head(q) /\ \A v \in Workers : v # w => doing'[v] = doing[v]
    BY <1>5 DEF PoolTypes
  <2>2. Head(LaneOf[w]) = Head(q)[1] /\ DoingOf[w] = NoTask
    BY <1>1, <1>2, <1>4, LanesAre
  <2> QED
    BY <1>3, <2>1, <2>2 DEF DoingOf
<1>8. LaneOf[w] # <<>>
  BY <1>1, <1>2, LanesAre
<1>9. UNCHANGED <<ClosedOf, sent>>
  BY DEF Pops, callvars, ClosedOf
<1> QED
  BY <1>6, <1>7, <1>8, <1>9 DEF Lane!Begin, LaneOf, DoingOf, ClosedOf

\* A worker that has run its task has none.
LEMMA FinishEnds ==
  ASSUME PoolAssumption, PoolTypes, LocalsAgree, NEW w \in Workers, Finish(w)
  PROVE  Lane!End(w)
<1>1. doing[w] \in Nat \X Blocks /\ doing[w] # NoTask
  BY DEF Finish, LocalsAgree, PoolTypes
<1>2. DoingOf[w] \in Nat /\ DoingOf[w] # NoTask
  <2>1. DoingOf[w] = doing[w][1]
    BY <1>1, LanesAre
  <2> QED
    BY <1>1, <2>1 DEF PoolAssumption
<1>3. doing'[w] = NoTask /\ \A v \in Workers : v # w => doing'[v] = doing[v]
  BY DEF Finish, PoolTypes
<1>4. DoingOf' = [DoingOf EXCEPT ![w] = NoTask]
  BY <1>3 DEF DoingOf
<1>5. UNCHANGED <<LaneOf, ClosedOf, sent>>
  BY DEF Finish, callvars, LaneOf, ClosedOf
<1> QED
  BY <1>2, <1>4, <1>5 DEF Lane!End, LaneOf, DoingOf, ClosedOf

\* A task that is accepted joins the lane of the worker that was chosen.
LEMMA PushJoins ==
  ASSUME PoolAssumption, PoolTypes, LocalsAgree, OnePlaceEach, LostAreRefused,
         NEW c \in Callers, Push(c)
  PROVE  \E w \in Workers : Lane!Join(w)
<1>1. PICK w \in Workers : w = tid[c]
  BY PushMoves
<1>2. PICK e \in Nat \X Blocks : e = <<sent, block[c]>> /\ e[1] = sent
  <2>1. block[c] \in Blocks /\ sent \in Nat
    BY PushMoves DEF PoolTypes
  <2> DEFINE p == <<sent, block[c]>>
  <2>2. p \in Nat \X Blocks /\ p[1] = sent
    BY <2>1
  <2> QED
    BY <2>2
<1>3. PICK q \in Seq(Nat \X Blocks) : q = tasks[w]
  BY DEF PoolTypes
<1>4. /\ tasks'[w] = Append(q, e)
      /\ \A v \in Workers : v # w => tasks'[v] = tasks[v]
  BY <1>1, <1>2, <1>3 DEF Push, PoolTypes
<1>5. NumbersOf(Append(q, e)) = Append(NumbersOf(q), sent)
  BY <1>2, NumbersAppend
<1>6. LaneOf' = [LaneOf EXCEPT ![w] = Append(LaneOf[w], sent)]
  <2>1. LaneOf' = [v \in Workers |-> NumbersOf(tasks'[v])]
    BY DEF LaneOf, NumbersOf
  <2>2. LaneOf = [v \in Workers |-> NumbersOf(tasks[v])]
    BY LanesAre
  <2>3. LaneOf[w] = NumbersOf(q)
    BY <1>3, <2>2
  <2>4. [LaneOf EXCEPT ![w] = Append(LaneOf[w], sent)]
          = [v \in Workers |-> IF v = w THEN Append(LaneOf[w], sent) ELSE LaneOf[v]]
    BY <2>2
  <2>5. \A v \in Workers : NumbersOf(tasks'[v]) = IF v = w THEN Append(LaneOf[w], sent) ELSE LaneOf[v]
    BY <1>4, <1>5, <2>2, <2>3
  <2> QED
    BY <2>1, <2>4, <2>5
<1>7. w \notin ClosedOf /\ sent' = sent + 1 /\ UNCHANGED <<ClosedOf, DoingOf>>
  BY <1>1 DEF Push, ClosedOf, DoingOf
<1>8. Lane!Join(w)
  BY <1>6, <1>7 DEF Lane!Join, LaneOf, DoingOf, ClosedOf
<1> QED
  BY <1>8

\* The destructor closes one lane after the other.
LEMMA StopCloses ==
  ASSUME PoolTypes, NEW w \in Workers, Stop(w)
  PROVE  Lane!Close(w)
<1>1. ClosedOf' = ClosedOf \cup {w}
  BY DEF Stop, ClosedOf, PoolTypes
<1>2. UNCHANGED <<LaneOf, DoingOf, sent>>
  BY DEF Stop, callvars, LaneOf, DoingOf
<1> QED
  BY <1>1, <1>2 DEF Lane!Close, LaneOf, DoingOf, ClosedOf

LEMMA PoolInitIsLanes == PoolAssumption /\ PoolInit => Lane!LanesInit
<1> SUFFICES ASSUME PoolAssumption, PoolInit PROVE Lane!LanesInit
  OBVIOUS
<1>1. LaneOf = [w \in Workers |-> <<>>]
  BY DEF PoolInit, LaneOf
<1>2. DoingOf = [w \in Workers |-> NoTask] /\ ClosedOf = {} /\ sent = 0
  BY DEF PoolInit, DoingOf, ClosedOf
<1> QED
  BY <1>1, <1>2 DEF Lane!LanesInit, LaneOf, DoingOf, ClosedOf

LEMMA PoolStepIsLanes ==
  PoolAssumption /\ PoolInv /\ [PoolNext]_poolvars => [Lane!LanesNext]_(Lane!lanevars)
<1> SUFFICES ASSUME PoolAssumption, PoolInv, [PoolNext]_poolvars
             PROVE  Lane!LanesNext \/ UNCHANGED Lane!lanevars
  OBVIOUS
<1>0. PoolTypes /\ LocalsAgree /\ OnePlaceEach /\ LostAreRefused
  BY DEF PoolInv
<1>1. CASE UNCHANGED <<tasks, doing, stop, sent>>
  BY <1>1, LanesStutter
<1>2. ASSUME NEW w \in Workers, Continue(w) \/ Idle(w) \/ Finish(w) \/ Wake(w)
      PROVE  Lane!LanesNext \/ UNCHANGED Lane!lanevars
  <2>1. CASE Pops(w)
    BY <1>0, <2>1, PopBegins DEF Lane!LanesNext
  <2>2. CASE Finish(w)
    BY <1>0, <2>2, FinishEnds DEF Lane!LanesNext
  <2>3. CASE Exits(w) \/ Waits(w)
    BY <1>1, <2>3 DEF Exits, Waits, callvars
  <2> QED
    BY <1>0, <1>2, <2>1, <2>2, <2>3, WorkerSteps
<1>3. ASSUME NEW c \in Callers, Execute(c) \/ ExecuteForward(c) \/ CallStep(c)
      PROVE  Lane!LanesNext \/ UNCHANGED Lane!lanevars
  <2>1. CASE Push(c)
    BY <1>0, <2>1, PushJoins DEF Lane!LanesNext
  <2>2. CASE Execute(c) \/ ExecuteForward(c)
    BY <1>1, <2>2 DEF Execute, ExecuteForward, BeginCall
  <2>3. CASE NewTask(c) \/ Throw(c) \/ Notify(c)
    BY <1>1, <2>3 DEF NewTask, Throw, Notify
  <2> QED
    BY <1>3, <2>1, <2>2, <2>3 DEF CallStep
<1>4. ASSUME NEW w \in Workers, Stop(w) \/ StopNotify(w) \/ JoinWorker(w)
      PROVE  Lane!LanesNext \/ UNCHANGED Lane!lanevars
  <2>1. CASE Stop(w)
    BY <1>0, <2>1, StopCloses DEF Lane!LanesNext
  <2>2. CASE StopNotify(w) \/ JoinWorker(w)
    BY <1>1, <2>2 DEF StopNotify, JoinWorker, callvars
  <2> QED
    BY <1>4, <2>1, <2>2
<1>5. CASE UNCHANGED poolvars
  BY <1>1, <1>5 DEF poolvars
<1> QED
  BY <1>2, <1>3, <1>4, <1>5 DEF PoolNext, OwnerStep

\* Each task that execute accepts is begun at most once, by the worker that was chosen, in
\* the order in which they were accepted, one at a time, whatever the order of notices, waits
\* and the destruction; a worker that is told to stop accepts none (thread_pool.h 42-86).
\* That it is begun in the end is what PoolImplementsLanes adds.
THEOREM TasksInLanes ==
  ASSUME PoolAssumption
  PROVE  PoolSpec => Lane!LanesInit /\ [][Lane!LanesNext]_(Lane!lanevars)
<1>1. PoolAssumption => []PoolAssumption
  <2>1. PoolAssumption => PoolAssumption'
    BY DEF PoolAssumption, Blocks
  <2> QED
    BY <2>1, PTL
<1> QED
  BY <1>1, PoolInvHolds, PoolInitIsLanes, PoolStepIsLanes, PTL DEF PoolSpec
=============================================================================
