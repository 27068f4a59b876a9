------------------------------ MODULE ConQueue ------------------------------
(***************************************************************************)
(* ConQueue<T> of conqueue.h: a bounded ring shared by producers and       *)
(* consumers without a lock.  Four counters, prod_head, prod_tail,         *)
(* cons_head and cons_tail, run round the uint32_t circle.  A push claims  *)
(* positions by moving prod_head, constructs its elements in the slots of  *)
(* those positions and then moves prod_tail so that consumers see them; a  *)
(* pop does the same with the cons_ counters and destroys the elements.    *)
(* ProdMode and ConsMode are the constructor's flags:                      *)
(*   "SP" / "SC"   F_SP_ENQ / F_SC_DEQ      one thread, no head            *)
(*   "MP" / "MC"   F_MP_ENQ / F_MC_DEQ      tail moved in claim order      *)
(*   "RTS"         F_MP_RTS_ENQ / F_MC_RTS_DEQ   relaxed tail              *)
(*                                                                         *)
(* Both sides run the same steps on their own pair of counters, as they    *)
(* share default_update_ht and rts_update_ht in the code: head[s] and      *)
(* tail[s] are the s_head and s_tail of the header, s in {"prod","cons"}.  *)
(* One step is one access to shared memory.                                *)
(*                                                                         *)
(* A single push or pop is the bulk operation for one element: the tests   *)
(* `pos - cons_tail == capacity()' and `min(capacity() - pos + cons_tail,  *)
(* 1) == 0' agree, and so do the two tests for an empty queue.             *)
(***************************************************************************)
EXTENDS Integers

CONSTANTS
  Producers, Consumers,   \* the threads that push and that pop
  ProdMode, ConsMode,     \* flags
  MaxSize,                \* max_size, the capacity
  RingSlots,              \* slots of the ring that to_id reaches
  PosMod,                 \* values of a uint32_t position: 2^32 in the code
  Starts,                 \* where the counters may be when we start looking
  JunkCnt,                \* what the uninitialised nh.cnt may hold
  PushSizes, PopSizes,    \* how many elements a call asks for
  MaxEnq,                 \* bound: elements ever claimed by pushes
  Raw                     \* a slot that holds no constructed element

ASSUME ThreadAssumption ==
  /\ Producers \cap Consumers = {}
  /\ ProdMode \in {"SP", "MP", "RTS"}
  /\ ConsMode \in {"SC", "MC", "RTS"}
  /\ ProdMode = "SP" => \A p, q \in Producers : p = q
  /\ ConsMode = "SC" => \A c, d \in Consumers : c = d

ASSUME SizeAssumption ==
  /\ PosMod \in Nat \ {0}
  /\ MaxSize \in 1 .. (PosMod - 1)
  /\ RingSlots \in MaxSize .. PosMod
  /\ Starts \subseteq 0 .. (PosMod - 1)
  /\ JunkCnt \subseteq 0 .. (PosMod - 1)
  /\ PushSizes \subseteq 1 .. (PosMod - 1)
  /\ PopSizes \subseteq 1 .. (PosMod - 1)

\* No thread sleeps on a counter value through a lap of the uint32_t circle, or
\* through a lap less the capacity, when a stale head looks like a full queue:
\* fewer than PosMod - MaxSize elements pass through while we look.
ASSUME LapAssumption == MaxEnq \in Nat /\ MaxEnq + MaxSize < PosMod

\* The slots divide the uint32_t circle, so that neighbours stay neighbours when
\* a position wraps: with the mask their number is a power of two (AlignedSize),
\* with F_EXACT_SZ it is max_size, which must then be one.
ASSUME RingAssumption == PosMod % RingSlots = 0

ASSUME RawAssumption == Raw \notin Nat

VARIABLES
  head, tail,   \* [prod |-> [pos, cnt], cons |-> [pos, cnt]]
  ring,         \* slot -> element, or Raw
  pc,           \* where each thread is in its call
  want,         \* count: elements the call asks for
  old,          \* oh / ot: the head as the thread last saw it
  len,          \* l: elements the call claims
  done,         \* elements constructed or destroyed so far
  seen, next,   \* oh and nh of rts_update_ht
  \* history, not in the code: an element is named by the order of the claims
  enq, deq,     \* elements claimed by pushes and by pops
  tick,         \* the name of the first element of a thread's claim
  org           \* the position of element 0, and the cnt when we start looking

locals == <<want, old, len, done, seen, next, tick>>
vars == <<head, tail, ring, pc, locals, enq, deq, org>>

-----------------------------------------------------------------------------
(* uint32_t arithmetic on 0 .. PosMod-1, and the slot of a position. *)

U32 == 0 .. (PosMod - 1)
Add(a, b) == IF a + b < PosMod THEN a + b ELSE a + b - PosMod
Sub(a, b) == IF a >= b THEN a - b ELSE a - b + PosMod
Min2(a, b) == IF a <= b THEN a ELSE b

Slots == 0 .. (RingSlots - 1)
to_id(i) == i % RingSlots

Threads == Producers \cup Consumers
Side(t) == IF t \in Producers THEN "prod" ELSE "cons"
Single(t) == IF t \in Producers THEN ProdMode = "SP" ELSE ConsMode = "SC"
Relaxed(t) == IF t \in Producers THEN ProdMode = "RTS" ELSE ConsMode = "RTS"

Pos == [pos : U32, cnt : U32]
Zero == [pos |-> 0, cnt |-> 0]

PosOf(k) == Add(org.pos, k)         \* the position of element k
Ticket(p) == Sub(p, org.pos)        \* the element whose position is p
SlotOf(k) == to_id(PosOf(k))

\* The counters in terms of elements: pushed-and-published, popped-and-freed.
Published == Ticket(tail["prod"].pos)
Freed == Ticket(tail["cons"].pos)
-----------------------------------------------------------------------------
(* A quiescent queue whose counters have run to some s in Starts; the cnt *)
(* of a relaxed pair has run with it, a single side has no head.          *)
Init ==
  \E s \in Starts :
    /\ tail = [prod |-> [pos |-> s, cnt |-> IF ProdMode = "RTS" THEN s ELSE 0],
               cons |-> [pos |-> s, cnt |-> IF ConsMode = "RTS" THEN s ELSE 0]]
    /\ head = [prod |-> IF ProdMode = "SP" THEN Zero ELSE tail["prod"],
               cons |-> IF ConsMode = "SC" THEN Zero ELSE tail["cons"]]
    /\ org = [pos |-> s, cnt |-> s]
    /\ ring = [i \in Slots |-> Raw]
    /\ pc = [t \in Threads |-> "idle"]
    /\ want = [t \in Threads |-> 0]
    /\ old = [t \in Threads |-> Zero]
    /\ len = [t \in Threads |-> 0]
    /\ done = [t \in Threads |-> 0]
    /\ seen = [t \in Threads |-> Zero]
    /\ next = [t \in Threads |-> Zero]
    /\ tick = [t \in Threads |-> 0]
    /\ enq = 0
    /\ deq = 0

Goto(t, l) == pc' = [pc EXCEPT ![t] = l]

\* The call returns and its locals are gone.
Return(t) ==
  /\ Goto(t, "idle")
  /\ want' = [want EXCEPT ![t] = 0]
  /\ old' = [old EXCEPT ![t] = Zero]
  /\ len' = [len EXCEPT ![t] = 0]
  /\ done' = [done EXCEPT ![t] = 0]
  /\ seen' = [seen EXCEPT ![t] = Zero]
  /\ next' = [next EXCEPT ![t] = Zero]
  /\ tick' = [tick EXCEPT ![t] = 0]

\* The history of a claim of l elements by t.
ClaimPush(t, l) ==
  /\ enq + l <= MaxEnq
  /\ enq' = enq + l
  /\ tick' = [tick EXCEPT ![t] = enq]
  /\ deq' = deq

ClaimPop(t, l) ==
  /\ deq' = deq + l
  /\ tick' = [tick EXCEPT ![t] = deq]
  /\ enq' = enq

Claim(t, l) ==
  \/ t \in Producers /\ ClaimPush(t, l)
  \/ t \in Consumers /\ ClaimPop(t, l)
-----------------------------------------------------------------------------
(* A call begins: a multi side loads its head, a single side its own tail. *)
Load(t, n) ==
  /\ pc[t] = "idle"
  /\ Goto(t, "check")
  /\ want' = [want EXCEPT ![t] = n]
  /\ old' = [old EXCEPT ![t] = IF Single(t) THEN tail[Side(t)] ELSE head[Side(t)]]
  /\ UNCHANGED <<head, tail, ring, len, done, seen, next, tick, enq, deq, org>>

\* Fault: one more than there is.
AvailablePlusOne(t) ==
  IF t \in Producers
  THEN Add(Sub(MaxSize + 1, old[t].pos), tail["cons"].pos)
  ELSE Sub(tail["prod"].pos, old[t].pos)

\* capacity() - oh.pos + cons_tail.pos, and prod_tail.pos - ot.pos
Available(t) ==
  IF t \in Producers
  THEN Add(Sub(MaxSize, old[t].pos), tail["cons"].pos)
  ELSE Sub(tail["prod"].pos, old[t].pos)

\* Fault: all or nothing.
RefusePartial(t) ==
  /\ pc[t] = "check"
  /\ Available(t) < want[t]
  /\ Return(t)
  /\ UNCHANGED <<head, tail, ring, enq, deq, org>>

(* The queue is full, or empty, for this call: it returns false or 0. *)
Refuse(t) ==
  /\ pc[t] = "check"
  /\ Available(t) = 0
  /\ Return(t)
  /\ UNCHANGED <<head, tail, ring, enq, deq, org>>

(* The other side's tail leaves room: a multi side goes to its CAS, a *)
(* single side has its positions already.                             *)
Accept(t) ==
  /\ pc[t] = "check"
  /\ Available(t) # 0
  /\ LET l == Min2(Available(t), want[t])
     IN  /\ len' = [len EXCEPT ![t] = l]
         /\ \/ Single(t) /\ Goto(t, "access") /\ Claim(t, l)
            \/ ~Single(t) /\ Goto(t, "cas") /\ UNCHANGED <<tick, enq, deq>>
  /\ UNCHANGED <<head, tail, ring, want, old, done, seen, next, org>>

(* The CAS on the head.  nh.cnt is set in the relaxed mode only. *)
CasWins(t) ==
  /\ pc[t] = "cas"
  /\ head[Side(t)] = old[t]
  /\ \E c \in IF Relaxed(t) THEN {Add(old[t].cnt, 1)} ELSE JunkCnt :
       head' = [head EXCEPT ![Side(t)] =
                  [pos |-> Add(old[t].pos, len[t]), cnt |-> c]]
  /\ Claim(t, len[t])
  /\ Goto(t, "access")
  /\ UNCHANGED <<tail, ring, want, old, len, done, seen, next, org>>

\* Fault: the new head value is not checked against the other side.
CasLosesUnchecked(t) ==
  /\ pc[t] = "cas"
  /\ head[Side(t)] # old[t]
  /\ old' = [old EXCEPT ![t] = head[Side(t)]]
  /\ UNCHANGED <<head, tail, ring, pc, want, len, done, seen, next, tick, enq, deq, org>>

CasLoses(t) ==
  /\ pc[t] = "cas"
  /\ head[Side(t)] # old[t]
  /\ old' = [old EXCEPT ![t] = head[Side(t)]]
  /\ Goto(t, "check")
  /\ UNCHANGED <<head, tail, ring, want, len, done, seen, next, tick, enq, deq, org>>
-----------------------------------------------------------------------------
(* The slot of the position the thread has reached in its claim. *)
Reached(t) == to_id(Add(old[t].pos, done[t]))

AccessDone(t) ==
  /\ done' = [done EXCEPT ![t] = @ + 1]
  /\ Goto(t, IF done[t] + 1 = len[t] THEN "publish" ELSE "access")
  /\ UNCHANGED <<head, tail, want, old, len, seen, next, tick, enq, deq, org>>

(* new (&ring[to_id(..)]) T(..) *)
Construct(t) ==
  /\ pc[t] = "access"
  /\ t \in Producers
  /\ ring' = [ring EXCEPT ![Reached(t)] = tick[t] + done[t]]
  /\ AccessDone(t)

(* move out of ring[to_id(..)], then ~T() *)
Destroy(t) ==
  /\ pc[t] = "access"
  /\ t \in Consumers
  /\ ring' = [ring EXCEPT ![Reached(t)] = Raw]
  /\ AccessDone(t)

\* Fault: one position for a whole bulk.
MoveTailByOne(t) ==
  /\ pc[t] = "publish"
  /\ ~Relaxed(t)
  /\ ~Single(t) => tail[Side(t)].pos = old[t].pos
  /\ tail' = [tail EXCEPT ![Side(t)].pos = Add(@, 1)]
  /\ Return(t)
  /\ UNCHANGED <<head, ring, enq, deq, org>>

(* default_update_ht waits for the claims before this one; a single side *)
(* adds to its own tail.                                                 *)
MoveTail(t) ==
  /\ pc[t] = "publish"
  /\ ~Relaxed(t)
  /\ ~Single(t) => tail[Side(t)].pos = old[t].pos
  /\ tail' = [tail EXCEPT ![Side(t)].pos = Add(@, len[t])]
  /\ Return(t)
  /\ UNCHANGED <<head, ring, enq, deq, org>>

(* rts_update_ht: the last of the claims under way moves the tail to the *)
(* head, the others only count themselves.                               *)
RtsLoadTail(t) ==
  /\ pc[t] = "publish"
  /\ Relaxed(t)
  /\ seen' = [seen EXCEPT ![t] = tail[Side(t)]]
  /\ Goto(t, "rts_head")
  /\ UNCHANGED <<head, tail, ring, want, old, len, done, next, tick, enq, deq, org>>

\* Faults: every call moves the tail; cnt compared before it is incremented.
RtsLoadHeadEager(t) ==
  /\ pc[t] = "rts_head"
  /\ next' = [next EXCEPT ![t] =
                [pos |-> head[Side(t)].pos, cnt |-> Add(seen[t].cnt, 1)]]
  /\ Goto(t, "rts_cas")
  /\ UNCHANGED <<head, tail, ring, want, old, len, done, seen, tick, enq, deq, org>>

RtsLoadHeadEarly(t) ==
  /\ pc[t] = "rts_head"
  /\ LET h == head[Side(t)]
     IN  next' = [next EXCEPT ![t] =
                    [pos |-> IF seen[t].cnt = h.cnt THEN h.pos ELSE seen[t].pos,
                     cnt |-> Add(seen[t].cnt, 1)]]
  /\ Goto(t, "rts_cas")
  /\ UNCHANGED <<head, tail, ring, want, old, len, done, seen, tick, enq, deq, org>>

RtsLoadHead(t) ==
  /\ pc[t] = "rts_head"
  /\ LET c == Add(seen[t].cnt, 1)
         h == head[Side(t)]
     IN  next' = [next EXCEPT ![t] =
                    [pos |-> IF c = h.cnt THEN h.pos ELSE seen[t].pos, cnt |-> c]]
  /\ Goto(t, "rts_cas")
  /\ UNCHANGED <<head, tail, ring, want, old, len, done, seen, tick, enq, deq, org>>

RtsCasWins(t) ==
  /\ pc[t] = "rts_cas"
  /\ tail[Side(t)] = seen[t]
  /\ tail' = [tail EXCEPT ![Side(t)] = next[t]]
  /\ Return(t)
  /\ UNCHANGED <<head, ring, enq, deq, org>>

\* Fault: oh is not reloaded.
RtsCasLosesStale(t) ==
  /\ pc[t] = "rts_cas"
  /\ tail[Side(t)] # seen[t]
  /\ Goto(t, "rts_head")
  /\ UNCHANGED <<head, tail, ring, want, old, len, done, seen, next, tick, enq, deq, org>>

RtsCasLoses(t) ==
  /\ pc[t] = "rts_cas"
  /\ tail[Side(t)] # seen[t]
  /\ seen' = [seen EXCEPT ![t] = tail[Side(t)]]
  /\ Goto(t, "rts_head")
  /\ UNCHANGED <<head, tail, ring, want, old, len, done, next, tick, enq, deq, org>>
-----------------------------------------------------------------------------
AllIdle == \A t \in Threads : pc[t] = "idle"

(* clear() by the owner while no call is under way: what is left is *)
(* destroyed and every pos (but no cnt) goes back to 0.             *)
clear ==
  /\ AllIdle
  /\ LET n == Sub(tail["prod"].pos, tail["cons"].pos)
         left == {to_id(Add(tail["cons"].pos, i)) : i \in 0 .. (n - 1)}
     IN  ring' = [s \in Slots |-> IF s \in left THEN Raw ELSE ring[s]]
  /\ head' = [s \in {"prod", "cons"} |-> [head[s] EXCEPT !.pos = 0]]
  /\ tail' = [s \in {"prod", "cons"} |-> [tail[s] EXCEPT !.pos = 0]]
  /\ deq' = enq
  /\ org' = [org EXCEPT !.pos = Sub(0, enq)]
  /\ UNCHANGED <<pc, locals, enq>>

Push(t) == \E n \in PushSizes : Load(t, n)
Pop(t) == \E n \in PopSizes : Load(t, n)

\* The steps of a call that has begun.
Step(t) ==
  \/ Refuse(t) \/ Accept(t) \/ CasWins(t) \/ CasLoses(t)
  \/ Construct(t) \/ Destroy(t)
  \/ MoveTail(t)
  \/ RtsLoadTail(t) \/ RtsLoadHead(t) \/ RtsCasWins(t) \/ RtsCasLoses(t)

Next ==
  \/ \E t \in Producers : Push(t)
  \/ \E t \in Consumers : Pop(t)
  \/ \E t \in Threads : Step(t)
  \/ clear

Spec == Init /\ [][Next]_vars

\* Every thread inside a call is scheduled again: the loops of the code yield
\* the processor and no thread is stopped for ever by the operating system.
FairSpec == Spec /\ \A t \in Threads : WF_vars(Step(t))
-----------------------------------------------------------------------------
(* Properties. *)

TypeOK ==
  /\ head \in [{"prod", "cons"} -> Pos]
  /\ tail \in [{"prod", "cons"} -> Pos]
  /\ ring \in [Slots -> Nat \cup {Raw}]
  /\ pc \in [Threads -> {"idle", "check", "cas", "access", "publish",
                         "rts_head", "rts_cas"}]
  /\ want \in [Threads -> U32]
  /\ old \in [Threads -> Pos]
  /\ len \in [Threads -> U32]
  /\ done \in [Threads -> U32]
  /\ seen \in [Threads -> Pos]
  /\ next \in [Threads -> Pos]
  /\ tick \in [Threads -> Nat]
  /\ enq \in 0 .. MaxEnq
  /\ deq \in Nat
  /\ org \in Pos

\* The four counters never pass one another, whatever the interleaving of the
\* claims and of the tail updates and wherever the uint32_t circle wraps:
\* freed <= popped <= published <= pushed <= freed + capacity.  The tests at
\* lines 81, 89, 133 and 176 read one counter at a time and rely on it.
CounterOrder ==
  /\ Freed <= deq
  /\ deq <= Published
  /\ Published <= enq
  /\ enq <= Freed + MaxSize

\* A consumer that is about to move an element out of its slot finds there the
\* very element its claim stands for: elements leave in the order in which the
\* pushes claimed them, none is lost, popped twice or read before it is
\* constructed (lines 168, 182 and 232).
ReadsOwnElement ==
  \A c \in Consumers :
    pc[c] = "access" => ring[Reached(c)] = tick[c] + done[c]

\* A producer about to construct an element in a slot (lines 83, 95, 126 and
\* 141) finds no live element there: the one of the previous lap has been moved
\* out and destroyed.
WritesRawSlot ==
  \A p \in Producers : pc[p] = "access" => ring[Reached(p)] = Raw

\* When every call has returned nothing is left half-published: both tails have
\* caught up with the claims, and the ring holds exactly the elements pushed and
\* not popped.  For the relaxed tails this is the whole point of cnt (rts_update_ht):
\* the last call to finish must be the one that moves the tail, over all claims.
QuiescentExact ==
  AllIdle =>
    /\ Published = enq
    /\ Freed = deq
    /\ \A k \in deq .. (enq - 1) : ring[SlotOf(k)] = k
    /\ \A s \in Slots : ring[s] # Raw => \E k \in deq .. (enq - 1) : s = SlotOf(k)

\* A push is refused only when the capacity really is used up at that moment and
\* a pop only when every published element has been claimed, although both
\* decide on a head loaded earlier, which other threads may have moved
\* (lines 89 and 176).
RefusedForCause ==
  [][\A t \in Threads :
       Refuse(t) => IF t \in Producers THEN enq = Freed + MaxSize ELSE deq = Published]_vars

\* The elements that calls under way have claimed and not yet published.
InFlight == UNION {tick[p] .. (tick[p] + len[p] - 1) :
                   p \in {q \in Producers : pc[q] \notin {"idle", "check", "cas"}}}

\* With the ordered tail a push that has returned can be popped: what is claimed
\* and not yet visible belongs to calls that are still running.  The relaxed
\* tail does not promise this: its push may return while an earlier claim is
\* under way and its element stays invisible until that one ends.
PushedIsVisible == Published .. (enq - 1) \subseteq InFlight

\* A call that has claimed its elements returns.  The ordered tail waits for the
\* claims before it and the relaxed one retries its CAS, but each time it loses
\* another call has ended, and no more of them can begin than the capacity lets
\* in before the tail moves (lines 304-331).
ClaimsComplete == \A t \in Threads : pc[t] = "access" ~> pc[t] = "idle"

\* What the queue promises: BoundedFifo, its items being what the ring holds at
\* the positions published and not yet claimed by a pop.
Fifo == INSTANCE BoundedFifo WITH
  Capacity <- MaxSize,
  items <- [i \in 1 .. (Published - deq) |-> ring[SlotOf(deq + i - 1)]],
  appended <- Published,
  filling <- enq - Published,
  draining <- deq - Freed

ImplementsFifo == Fifo!Spec
=============================================================================
