--------------------------- MODULE ConQueueProofs ---------------------------
(***************************************************************************)
(* ConQueue keeps its invariant, and what follows from it, for any number  *)
(* of threads, every mode and any sizes.  A kind of step each (quiet,      *)
(* claim, access, leave) is shown to preserve the parts of the invariant;  *)
(* then each action is shown to be of a kind.  First, what the proof rests *)
(* on: uint32_t arithmetic, positions and elements, slots and types.  At   *)
(* the end, the promise of BoundedFifo: its items are the elements from    *)
(* deq to Published, and every step moves at most one of enq, Published,   *)
(* deq and Freed, and none of them backwards.                              *)
(***************************************************************************)
EXTENDS ConQueueInv, FiniteSetTheorems, SequenceTheorems, TLAPS

-----------------------------------------------------------------------------
(* uint32_t arithmetic. *)

LEMMA AddType ==
  ASSUME NEW a \in U32, NEW b \in U32
  PROVE  Add(a, b) \in U32
BY SizeAssumption DEF Add, U32

LEMMA SubType ==
  ASSUME NEW a \in U32, NEW b \in U32
  PROVE  Sub(a, b) \in U32
BY SizeAssumption DEF Sub, U32

LEMMA SmallNumbers ==
  /\ 0 \in U32 /\ 1 \in U32 /\ MaxSize \in U32
  /\ Starts \subseteq U32 /\ JunkCnt \subseteq U32
  /\ PushSizes \subseteq U32 /\ PopSizes \subseteq U32
  /\ PushSizes \subseteq Nat \ {0} /\ PopSizes \subseteq Nat \ {0}
BY SizeAssumption DEF U32

-----------------------------------------------------------------------------
(* Types. *)

LEMMA InitType == Init => TypeInv
<1> SUFFICES ASSUME Init PROVE TypeInv
  OBVIOUS
<1>1. PICK s \in Starts :
        /\ tail = [prod |-> [pos |-> s, cnt |-> IF ProdMode = "RTS" THEN s ELSE 0],
                   cons |-> [pos |-> s, cnt |-> IF ConsMode = "RTS" THEN s ELSE 0]]
        /\ head = [prod |-> IF ProdMode = "SP" THEN Zero ELSE tail["prod"],
                   cons |-> IF ConsMode = "SC" THEN Zero ELSE tail["cons"]]
        /\ org = [pos |-> s, cnt |-> s]
  BY DEF Init
<1>2. s \in U32 /\ 0 \in U32
  BY SmallNumbers
<1>3. org \in Pos /\ tail \in [{"prod", "cons"} -> Pos] /\ head \in [{"prod", "cons"} -> Pos]
  BY <1>1, <1>2 DEF Pos, Zero
<1>4. ring \in [Slots -> Nat \cup {Raw}]
  BY DEF Init
<1>5. Zero \in Pos
  BY <1>2 DEF Zero, Pos
<1>6. enq \in 0 .. MaxEnq /\ deq \in Nat
  BY LapAssumption DEF Init
<1> QED
  BY <1>1, <1>2, <1>3, <1>4, <1>5, <1>6 DEF Init, TypeInv, TypeOK

LEMMA AvailableType ==
  ASSUME TypeOK, NEW t \in Threads
  PROVE  Available(t) \in U32
BY AddType, SubType, SmallNumbers DEF Available, TypeOK, Pos

LEMMA NextType == TypeInv /\ [Next]_vars => TypeInv'
<1> SUFFICES ASSUME TypeInv, [Next]_vars PROVE TypeInv'
  OBVIOUS
<1> USE DEF TypeInv, TypeOK
<1>0. ASSUME NEW t \in Threads
      PROVE  /\ Side(t) \in {"prod", "cons"}
             /\ head[Side(t)] \in Pos /\ tail[Side(t)] \in Pos
             /\ head[Side(t)].pos \in U32 /\ head[Side(t)].cnt \in U32
             /\ tail[Side(t)].pos \in U32 /\ tail[Side(t)].cnt \in U32
             /\ old[t].pos \in U32 /\ old[t].cnt \in U32
             /\ seen[t].pos \in U32 /\ seen[t].cnt \in U32
  BY DEF Side, Pos
<1>a. Zero \in Pos /\ 0 \in U32 /\ 1 \in U32 /\ PosMod \in Nat /\ U32 = 0 .. (PosMod - 1)
  BY SmallNumbers, SizeAssumption DEF Zero, Pos, U32
<1>1. ASSUME NEW t \in Threads, NEW n \in PushSizes \cup PopSizes, Load(t, n)
      PROVE  TypeInv'
  <2>1. n \in U32 /\ n > 0
    BY SmallNumbers
  <2>2. old' \in [Threads -> Pos]
    BY <1>0, <1>1 DEF Load
  <2> QED
    BY <1>1, <2>1, <2>2 DEF Load, Goto
<1>2. ASSUME NEW t \in Threads, Return(t), UNCHANGED <<ring, head, enq, deq, org>>,
             tail' \in [{"prod", "cons"} -> Pos]
      PROVE  TypeInv'
  <2>1. /\ old' \in [Threads -> Pos] /\ seen' \in [Threads -> Pos]
        /\ next' \in [Threads -> Pos]
    BY <1>2, <1>a DEF Return
  <2>2. /\ want' \in [Threads -> U32] /\ len' \in [Threads -> U32]
        /\ done' \in [Threads -> U32] /\ tick' \in [Threads -> Nat]
    BY <1>2, <1>a DEF Return
  <2>3. pc' = [pc EXCEPT ![t] = "idle"]
    BY <1>2 DEF Return, Goto
  <2>4. done' = [done EXCEPT ![t] = 0]
    BY <1>2 DEF Return
  <2>5. \A u \in Threads : u # t => want'[u] = want[u] /\ len'[u] = len[u]
    BY <1>2 DEF Return
  <2> QED
    BY <1>2, <2>1, <2>2, <2>3, <2>4, <2>5
<1>3. ASSUME NEW t \in Threads, Refuse(t)
      PROVE  TypeInv'
  BY <1>2, <1>3 DEF Refuse
<1>4. ASSUME NEW t \in Threads, NEW l \in U32, Claim(t, l)
      PROVE  enq' \in 0 .. MaxEnq /\ deq' \in Nat /\ tick' \in [Threads -> Nat]
  <2>1. l \in Nat /\ enq \in Nat /\ deq \in Nat
    BY LapAssumption, SizeAssumption DEF U32
  <2>2. CASE ClaimPush(t, l)
    BY <2>1, <2>2, LapAssumption DEF ClaimPush
  <2>3. CASE ClaimPop(t, l)
    BY <2>1, <2>3 DEF ClaimPop
  <2> QED
    BY <1>4, <2>2, <2>3 DEF Claim
<1>5. ASSUME NEW t \in Threads, Accept(t)
      PROVE  TypeInv'
  <2> DEFINE l == Min2(Available(t), want[t])
  <2>1. Available(t) \in U32 /\ Available(t) # 0 /\ want[t] > 0 /\ want[t] \in U32
    BY <1>5, AvailableType DEF Accept
  <2>2. l \in U32 /\ l > 0
    BY <1>a, <2>1 DEF Min2
  <2> HIDE DEF l
  <2>3. len' = [len EXCEPT ![t] = l] /\ done' = done
    BY <1>5 DEF Accept, l
  <2>4. done[t] = 0
    BY <1>5 DEF Accept
  <2>5. CASE Goto(t, "access") /\ Claim(t, l)
    BY <1>4, <1>5, <2>2, <2>3, <2>4, <2>5 DEF Accept, Goto
  <2>6. CASE Goto(t, "cas") /\ UNCHANGED <<tick, enq, deq>>
    BY <1>5, <2>2, <2>3, <2>6 DEF Accept, Goto
  <2> QED
    BY <1>5, <2>5, <2>6 DEF Accept, l
<1>6. ASSUME NEW t \in Threads, CasWins(t)
      PROVE  TypeInv'
  <2>1. PICK c \in U32 : head' = [head EXCEPT ![Side(t)] =
                                    [pos |-> Add(old[t].pos, len[t]), cnt |-> c]]
    BY <1>0, <1>6, <1>a, AddType, SmallNumbers DEF CasWins
  <2>2. [pos |-> Add(old[t].pos, len[t]), cnt |-> c] \in Pos
    BY <1>0, AddType DEF Pos
  <2>3. head' \in [{"prod", "cons"} -> Pos]
    BY <1>0, <2>1, <2>2
  <2>4. Claim(t, len[t]) /\ Goto(t, "access") /\ done[t] = 0 /\ len[t] > 0
    BY <1>6 DEF CasWins
  <2> QED
    BY <1>4, <1>6, <2>3, <2>4 DEF CasWins, Goto
<1>7. ASSUME NEW t \in Threads, CasLoses(t)
      PROVE  TypeInv'
  <2>1. want[t] > 0
    BY <1>7 DEF CasLoses
  <2>2. old' \in [Threads -> Pos]
    BY <1>0, <1>7 DEF CasLoses
  <2> QED
    BY <1>7, <2>1, <2>2 DEF CasLoses, Goto
<1>8. ASSUME NEW t \in Threads, Construct(t) \/ Destroy(t)
      PROVE  TypeInv'
  <2>1. done[t] + 1 \in U32 /\ done[t] < len[t] /\ tick[t] + done[t] \in Nat
    BY <1>8, <1>a DEF Construct, Destroy
  <2>2. ring' \in [Slots -> Nat \cup {Raw}]
    BY <1>8, <2>1 DEF Construct, Destroy
  <2>3. done[t] + 1 # len[t] => done[t] + 1 < len[t]
    BY <1>a, <2>1
  <2>4. done' = [done EXCEPT ![t] = done[t] + 1] /\ len' = len
    BY <1>8 DEF Construct, Destroy, AccessDone
  <2>5. pc' = [pc EXCEPT ![t] = IF done[t] + 1 = len[t] THEN "publish" ELSE "access"]
    BY <1>8 DEF Construct, Destroy, AccessDone, Goto
  <2>6. UNCHANGED <<head, tail, want, old, len, seen, next, tick, enq, deq, org>>
    BY <1>8 DEF Construct, Destroy, AccessDone
  <2> QED
    BY <2>1, <2>2, <2>3, <2>4, <2>5, <2>6
<1>9. ASSUME NEW t \in Threads, MoveTail(t)
      PROVE  TypeInv'
  <2> DEFINE p == Add(tail[Side(t)].pos, len[t])
  <2>1. p \in U32
    BY <1>0, AddType
  <2> HIDE DEF p
  <2>2. [tail[Side(t)] EXCEPT !.pos = p] \in Pos
    BY <1>0, <2>1 DEF Pos
  <2>3. tail' = [tail EXCEPT ![Side(t)] = [tail[Side(t)] EXCEPT !.pos = p]]
    BY <1>0, <1>9 DEF MoveTail, p
  <2>4. tail' \in [{"prod", "cons"} -> Pos]
    BY <1>0, <2>2, <2>3
  <2> QED
    BY <1>2, <1>9, <2>4 DEF MoveTail
<1>10. ASSUME NEW t \in Threads, RtsLoadTail(t)
       PROVE  TypeInv'
  BY <1>0, <1>10 DEF RtsLoadTail, Goto
<1>11. ASSUME NEW t \in Threads, RtsLoadHead(t)
       PROVE  TypeInv'
  <2>1. PICK n \in Pos : next' = [next EXCEPT ![t] = n]
    BY <1>0, <1>11, <1>a, AddType DEF RtsLoadHead, Pos
  <2> QED
    BY <1>11, <2>1 DEF RtsLoadHead, Goto
<1>12. ASSUME NEW t \in Threads, RtsCasWins(t)
       PROVE  TypeInv'
  BY <1>0, <1>2, <1>12 DEF RtsCasWins
<1>13. ASSUME NEW t \in Threads, RtsCasLoses(t)
       PROVE  TypeInv'
  BY <1>0, <1>13 DEF RtsCasLoses, Goto
<1>14. ASSUME clear
       PROVE  TypeInv'
  <2>1. ring' \in [Slots -> Nat \cup {Raw}]
    BY <1>14 DEF clear
  <2>2. org' \in Pos /\ enq \in Nat
    <3>1. enq \in Nat /\ enq \in U32
      BY LapAssumption, SizeAssumption DEF U32
    <3>2. org' = [org EXCEPT !.pos = Sub(0, enq)]
      BY <1>14 DEF clear
    <3>3. Sub(0, enq) \in U32
      BY <1>a, <3>1, SubType
    <3> QED
      BY <3>1, <3>2, <3>3 DEF Pos
  <2>3. \A p \in Pos : [p EXCEPT !.pos = 0] \in Pos
    BY <1>a DEF Pos
  <2>4. head' \in [{"prod", "cons"} -> Pos]
    <3>1. head' = [s \in {"prod", "cons"} |-> [head[s] EXCEPT !.pos = 0]]
      BY <1>14 DEF clear
    <3> QED
      BY <2>3, <3>1
  <2>5. tail' \in [{"prod", "cons"} -> Pos]
    <3>1. tail' = [s \in {"prod", "cons"} |-> [tail[s] EXCEPT !.pos = 0]]
      BY <1>14 DEF clear
    <3> QED
      BY <2>3, <3>1
  <2> QED
    BY <1>14, <2>1, <2>2, <2>4, <2>5 DEF clear, locals
<1>15. ASSUME UNCHANGED vars
       PROVE  TypeInv'
  BY <1>15 DEF vars, locals
<1> QED
  BY <1>1, <1>3, <1>5, <1>6, <1>7, <1>8, <1>9, <1>10, <1>11, <1>12, <1>13, <1>14, <1>15
     DEF Next, Push, Pop, Step, Threads

\* Every variable has its type in every reachable state, in all modes.
THEOREM TypeCorrect == Spec => []TypeOK
<1>1. Spec => []TypeInv
  BY InitType, NextType, PTL DEF Spec
<1> QED
  BY <1>1, PTL DEF TypeInv

-----------------------------------------------------------------------------
(* Positions and tickets: inside one lap the circle is a line. *)

LEMMA Before ==
  ASSUME NEW a \in Int, NEW b \in Int, NEW k \in Int, a <= k, k < b
  PROVE  k \in a .. (b - 1)
OBVIOUS

LEMMA Constants ==
  /\ PosMod \in Nat /\ MaxSize \in Nat \ {0} /\ MaxEnq \in Nat
  /\ RingSlots \in Nat \ {0} /\ MaxSize <= RingSlots /\ RingSlots <= PosMod
  /\ MaxEnq + MaxSize < PosMod
  /\ U32 = 0 .. (PosMod - 1)
BY SizeAssumption, LapAssumption DEF U32

LEMMA OriginType ==
  ASSUME org \in Pos
  PROVE  org.pos \in Nat /\ org.pos < PosMod
BY Constants DEF Pos

LEMMA TicketType ==
  ASSUME org \in Pos, NEW p \in U32
  PROVE  Ticket(p) \in Nat /\ Ticket(p) < PosMod /\ Ticket(p) \in U32
BY OriginType, Constants DEF Ticket, Sub

LEMMA TicketAdd ==
  ASSUME org \in Pos, NEW p \in U32, NEW n \in Nat, Ticket(p) + n < PosMod
  PROVE  Ticket(Add(p, n)) = Ticket(p) + n
BY OriginType, Constants DEF Ticket, Add, Sub

LEMMA TicketEqual ==
  ASSUME org \in Pos, NEW p \in U32, NEW q \in U32, Ticket(p) = Ticket(q)
  PROVE  p = q
BY OriginType, Constants DEF Ticket, Sub

LEMMA TicketOfOrigin ==
  ASSUME org \in Pos
  PROVE  Ticket(org.pos) = 0
BY OriginType, Constants DEF Ticket, Sub

LEMMA SlotOfTicket ==
  ASSUME org \in Pos, NEW p \in U32, NEW i \in Nat, Ticket(p) + i < PosMod
  PROVE  to_id(Add(p, i)) = SlotOf(Ticket(p) + i)
<1>1. Add(p, i) = PosOf(Ticket(p) + i)
  BY OriginType, Constants DEF Ticket, Add, Sub, PosOf
<1> QED
  BY <1>1 DEF SlotOf

LEMMA SubOfTickets ==
  ASSUME org \in Pos, NEW p \in U32, NEW q \in U32, Ticket(q) <= Ticket(p)
  PROVE  Sub(p, q) = Ticket(p) - Ticket(q)
BY OriginType, Constants DEF Ticket, Sub

\* A position is its ticket away from the origin.
LEMMA TicketFrom ==
  ASSUME org \in Pos, NEW p \in U32
  PROVE  /\ Ticket(p) \in Nat
         /\ p = org.pos + Ticket(p) \/ p = org.pos + Ticket(p) - PosMod
BY OriginType, Constants DEF Ticket, Sub

\* The difference of two numbers of the circle, and their sum.
LEMMA SubIs ==
  ASSUME NEW x \in U32, NEW y \in U32
  PROVE  /\ Sub(x, y) \in U32
         /\ Sub(x, y) = x - y \/ Sub(x, y) = x - y + PosMod
BY Constants DEF Sub

LEMMA AddIs ==
  ASSUME NEW x \in U32, NEW y \in U32
  PROVE  /\ Add(x, y) \in U32
         /\ Add(x, y) = x + y \/ Add(x, y) = x + y - PosMod
BY Constants DEF Add

\* Two numbers of the circle that differ by whole circles are the same.
LEMMA SameOnCircle ==
  ASSUME NEW P \in Nat, NEW x \in 0 .. P - 1, NEW y \in 0 .. P - 1,
         \/ x = y  \/ x = y + P  \/ x = y - P  \/ x = y + P + P  \/ x = y - P - P
  PROVE  x = y
OBVIOUS

LEMMA Differences ==
  ASSUME NEW P \in Nat, NEW o \in Nat, NEW a \in Nat, NEW b \in Nat, NEW p, NEW q,
         p = o + a \/ p = o + a - P, q = o + b \/ q = o + b - P
  PROVE  \/ q - p = b - a
         \/ q - p = b - a - P
         \/ q - p = b - a + P
OBVIOUS

LEMMA RoomOfTickets ==
  ASSUME org \in Pos, NEW p \in U32, NEW q \in U32,
         Ticket(p) <= Ticket(q) + MaxSize, Ticket(q) + MaxSize < PosMod
  PROVE  Add(Sub(MaxSize, p), q) = Ticket(q) + MaxSize - Ticket(p)
<1>1. PICK P \in Nat, m \in Nat, o \in Nat : P = PosMod /\ m = MaxSize /\ o = org.pos /\ U32 = 0 .. P - 1
  BY OriginType, Constants
<1>2. PICK a \in Nat : a = Ticket(p) /\ (p = o + a \/ p = o + a - P)
  BY <1>1, TicketFrom
<1>3. PICK b \in Nat : b = Ticket(q) /\ (q = o + b \/ q = o + b - P)
  BY <1>1, TicketFrom
<1>4. PICK d \in U32 : d = Sub(MaxSize, p) /\ (d = m - p \/ d = m - p + P)
  <2>1. MaxSize \in U32
    BY Constants
  <2>2. Sub(MaxSize, p) \in U32 /\ (Sub(MaxSize, p) = MaxSize - p \/ Sub(MaxSize, p) = MaxSize - p + PosMod)
    BY <2>1, SubIs
  <2> QED
    BY <1>1, <2>2
<1>5. PICK r \in U32 : r = Add(d, q) /\ (r = d + q \/ r = d + q - P)
  BY <1>1, AddIs
<1>6. a <= b + m /\ b + m < P
  BY <1>1, <1>2, <1>3
<1>7. \/ q - p = b - a
      \/ q - p = b - a - P
      \/ q - p = b - a + P
  BY <1>2, <1>3, Differences
<1>8. \/ r = m + (q - p)
      \/ r = m + (q - p) + P
      \/ r = m + (q - p) - P
  BY <1>1, <1>4, <1>5
<1>9. r = b + m - a
  <2>1. r \in 0 .. P - 1 /\ b + m - a \in 0 .. P - 1
    BY <1>1, <1>6
  <2>2. \/ r = b + m - a  \/ r = (b + m - a) + P  \/ r = (b + m - a) - P
        \/ r = (b + m - a) + P + P  \/ r = (b + m - a) - P - P
    BY <1>1, <1>7, <1>8
  <2> QED
    BY <2>1, <2>2, SameOnCircle
<1> QED
  BY <1>1, <1>2, <1>3, <1>4, <1>5, <1>9

(* Slots. *)

LEMMA SlotType ==
  ASSUME NEW i \in Nat
  PROVE  to_id(i) \in Slots
BY Constants DEF to_id, Slots

\* Less than a ring apart and equal modulo the ring is equal.
LEMMA SameSlot ==
  ASSUME NEW a \in Nat, NEW b \in Nat, a % RingSlots = b % RingSlots,
         a - b < RingSlots, b - a < RingSlots
  PROVE  a = b
<1> DEFINE R == RingSlots
           qa == a \div R
           qb == b \div R
<1>1. R \in Nat /\ R > 0
  BY Constants
<1>2. a = R * qa + (a % R) /\ b = R * qb + (b % R) /\ qa \in Nat /\ qb \in Nat
  BY <1>1
<1>3. R * qa - R * qb = a - b
  BY <1>1, <1>2
<1>4. CASE qa >= qb + 1
  <2>1. R * qa >= R * (qb + 1)
    BY <1>1, <1>2, <1>4
  <2>2. R * (qb + 1) = R * qb + R
    BY <1>1, <1>2
  <2> QED
    BY <1>1, <1>2, <1>3, <2>1, <2>2
<1>5. CASE qb >= qa + 1
  <2>1. R * qb >= R * (qa + 1)
    BY <1>1, <1>2, <1>5
  <2>2. R * (qa + 1) = R * qa + R
    BY <1>1, <1>2
  <2> QED
    BY <1>1, <1>2, <1>3, <2>1, <2>2
<1>6. CASE qa = qb
  BY <1>2, <1>6
<1> QED
  BY <1>2, <1>4, <1>5, <1>6

\* A lap of the circle is a whole number of rings.
LEMMA LapKeepsSlot ==
  ASSUME NEW a \in Nat, a >= PosMod
  PROVE  (a - PosMod) % RingSlots = a % RingSlots
<1> DEFINE R == RingSlots
           m == PosMod \div R
           q == a \div R
           b == a - PosMod
           qb == b \div R
<1>1. R \in Nat /\ R > 0 /\ PosMod \in Nat /\ PosMod % R = 0
  BY Constants, RingAssumption
<1>2. PosMod = R * m /\ m \in Nat
  BY <1>1
<1>3. a = R * q + (a % R) /\ q \in Nat /\ a % R \in 0 .. (R - 1)
  BY <1>1
<1>4. b \in Nat /\ b = R * qb + (b % R) /\ qb \in Nat /\ b % R \in 0 .. (R - 1)
  BY <1>1
<1>5. R * (qb + m) = R * qb + R * m
  BY <1>1, <1>2, <1>4
<1>6. R * (qb + m) + (b % R) = R * q + (a % R)
  BY <1>1, <1>2, <1>3, <1>4, <1>5
<1>7. qb + m = q
  <2> DEFINE x == qb + m
  <2>1. x \in Nat
    BY <1>2, <1>4
  <2>2. CASE x >= q + 1
    <3>1. R * x >= R * (q + 1) /\ R * (q + 1) = R * q + R
      BY <1>1, <1>3, <2>1, <2>2
    <3> QED
      BY <1>1, <1>3, <1>4, <1>6, <3>1
  <2>3. CASE q >= x + 1
    <3>1. R * q >= R * (x + 1) /\ R * (x + 1) = R * x + R
      BY <1>1, <1>3, <2>1, <2>3
    <3> QED
      BY <1>1, <1>3, <1>4, <1>6, <3>1
  <2> QED
    BY <1>3, <2>1, <2>2, <2>3
<1> QED
  BY <1>6, <1>7, <1>1, <1>3, <1>4

\* No two elements that fit in the queue together share a slot.
LEMMA SlotInjective ==
  ASSUME org \in Pos, NEW j \in Nat, NEW k \in Nat,
         j < PosMod, k < PosMod, j - k < MaxSize, k - j < MaxSize,
         SlotOf(j) = SlotOf(k)
  PROVE  j = k
<1>1. org.pos \in Nat /\ org.pos < PosMod
  BY OriginType
<1>2. ASSUME NEW n \in Nat, n < PosMod
      PROVE  SlotOf(n) = (org.pos + n) % RingSlots
  <2>1. CASE org.pos + n < PosMod
    BY <2>1 DEF SlotOf, PosOf, Add, to_id
  <2>2. CASE org.pos + n >= PosMod
    <3>1. SlotOf(n) = ((org.pos + n) - PosMod) % RingSlots
      BY <1>1, <1>2, <2>2, Constants DEF SlotOf, PosOf, Add, to_id
    <3>2. org.pos + n \in Nat
      BY <1>1
    <3> QED
      BY <2>2, <3>1, <3>2, LapKeepsSlot
  <2> QED
    BY <1>1, <2>1, <2>2, Constants
<1>3. (org.pos + j) % RingSlots = (org.pos + k) % RingSlots
  BY <1>2
<1>4. /\ org.pos + j \in Nat /\ org.pos + k \in Nat
      /\ (org.pos + j) - (org.pos + k) < RingSlots
      /\ (org.pos + k) - (org.pos + j) < RingSlots
  BY <1>1, Constants
<1>5. org.pos + j = org.pos + k
  BY <1>3, <1>4, SameSlot
<1> QED
  BY <1>1, <1>5

-----------------------------------------------------------------------------
(* Facts about the vocabulary of the invariant. *)

LEMMA SidesOfThreads ==
  /\ \A t \in Threads : Side(t) \in Sides /\ t \in On(Side(t))
  /\ \A s \in Sides : \A t \in On(s) : t \in Threads /\ Side(t) = s
  /\ \A t \in Threads : Relaxed(t) = RelaxedSide(Side(t))
  /\ \A t, u \in Threads : Side(t) = Side(u) => Single(t) = Single(u)
  /\ \A t, u \in Threads : Single(t) /\ Side(t) = Side(u) => t = u
BY ThreadAssumption DEF Threads, Side, Sides, On, Relaxed, RelaxedSide, Single

LEMMA Numbers ==
  ASSUME TypeInv
  PROVE  /\ org \in Pos
         /\ enq \in Nat /\ deq \in Nat /\ enq + MaxSize < PosMod
         /\ \A s \in Sides : /\ tail[s] \in Pos /\ tail[s].pos \in U32 /\ tail[s].cnt \in U32
                             /\ head[s] \in Pos /\ head[s].pos \in U32 /\ head[s].cnt \in U32
                             /\ Moved(s) \in Nat /\ Claimed(s) \in Nat
                             /\ Ticket(head[s].pos) \in Nat
         /\ Freed \in Nat /\ Published \in Nat
         /\ \A t \in Threads :
              /\ tick[t] \in Nat /\ len[t] \in Nat /\ done[t] \in Nat
              /\ len[t] \in U32 /\ done[t] \in U32
              /\ old[t] \in Pos /\ old[t].pos \in U32 /\ old[t].cnt \in U32
              /\ Ticket(old[t].pos) \in Nat
              /\ seen[t] \in Pos /\ next[t] \in Pos
              /\ seen[t].cnt \in U32 /\ next[t].cnt \in U32
              /\ next[t].pos \in U32 /\ Ticket(next[t].pos) \in Nat
<1> USE DEF TypeInv, TypeOK
<1>1. org \in Pos /\ enq \in Nat /\ deq \in Nat /\ enq + MaxSize < PosMod
  BY Constants
<1>2. ASSUME NEW s \in Sides
      PROVE  /\ tail[s] \in Pos /\ tail[s].pos \in U32 /\ tail[s].cnt \in U32
             /\ head[s] \in Pos /\ head[s].pos \in U32 /\ head[s].cnt \in U32
  BY DEF Sides, Pos
<1>3. ASSUME NEW s \in Sides
      PROVE  Moved(s) \in Nat /\ Claimed(s) \in Nat /\ Ticket(head[s].pos) \in Nat
  BY <1>1, <1>2, TicketType DEF Moved, Claimed
<1>4. Freed \in Nat /\ Published \in Nat
  BY <1>3 DEF Sides, Moved, Freed, Published
<1>5. ASSUME NEW t \in Threads
      PROVE  /\ tick[t] \in Nat /\ len[t] \in U32 /\ done[t] \in U32
             /\ old[t] \in Pos /\ seen[t] \in Pos /\ next[t] \in Pos
  OBVIOUS
<1>6. ASSUME NEW t \in Threads
      PROVE  /\ old[t].pos \in U32 /\ old[t].cnt \in U32 /\ seen[t].cnt \in U32
             /\ next[t].cnt \in U32 /\ next[t].pos \in U32
             /\ len[t] \in Nat /\ done[t] \in Nat
  <2>1. \A p \in Pos : p.pos \in U32 /\ p.cnt \in U32
    BY DEF Pos
  <2>2. \A i \in U32 : i \in Nat
    BY Constants
  <2> QED
    BY <1>5, <1>6, <2>1, <2>2
<1>7. ASSUME NEW t \in Threads
      PROVE  Ticket(old[t].pos) \in Nat /\ Ticket(next[t].pos) \in Nat
  BY <1>1, <1>6, TicketType
<1> HIDE DEF TypeInv, TypeOK
<1> QED
  BY <1>1, <1>2, <1>3, <1>4, <1>5, <1>6, <1>7

\* Where the claims of the two sides lie.
LEMMA PendingRange ==
  ASSUME TypeInv, HoldingInv, NEW t \in Threads, NEW k \in Pending(t)
  PROVE  /\ Holding(t) /\ k \in Nat
         /\ tick[t] + done[t] <= k /\ k < tick[t] + len[t]
         /\ Moved(Side(t)) <= k /\ k < Claimed(Side(t))
<1>1. Holding(t) /\ k \in (tick[t] + done[t]) .. (tick[t] + len[t] - 1)
  BY DEF Pending
<1>2. Moved(Side(t)) <= tick[t] /\ tick[t] + len[t] <= Claimed(Side(t))
  BY <1>1 DEF HoldingInv
<1>3. /\ tick[t] \in Nat /\ len[t] \in Nat /\ done[t] \in Nat
      /\ Moved(Side(t)) \in Nat /\ Claimed(Side(t)) \in Nat
  BY Numbers, SidesOfThreads
<1> QED
  BY <1>1, <1>2, <1>3

LEMMA LiveRange ==
  ASSUME Inv, NEW k, Live(k)
  PROVE  k \in Nat /\ Freed <= k /\ k < enq
<1>1. /\ enq \in Nat /\ deq \in Nat /\ Freed \in Nat
      /\ Freed <= deq /\ deq <= enq
  BY Numbers DEF Inv, CounterOrder
<1>2. CASE k \in deq .. (enq - 1)
  BY <1>1, <1>2
<1>3. CASE \E c \in Consumers : k \in Pending(c)
  <2>1. PICK c \in Consumers : k \in Pending(c)
    BY <1>3
  <2>2. c \in Threads /\ Side(c) = "cons"
    BY ThreadAssumption DEF Threads, Side
  <2>3. k \in Nat /\ Freed <= k /\ k < deq
    BY <2>1, <2>2, PendingRange DEF Inv, Moved, Claimed, Freed
  <2> QED
    BY <1>1, <2>3
<1> QED
  BY <1>2, <1>3 DEF Live

\* Live elements have different slots, and so do elements between Freed and enq.
LEMMA SlotsApart ==
  ASSUME Inv, NEW j \in Nat, NEW k \in Nat,
         Freed <= j, j < enq, Freed <= k, k < enq, SlotOf(j) = SlotOf(k)
  PROVE  j = k
<1>1. org \in Pos /\ enq \in Nat /\ Freed \in Nat /\ enq <= Freed + MaxSize /\ enq + MaxSize < PosMod
  BY Numbers DEF Inv, CounterOrder
<1>2. j < PosMod /\ k < PosMod /\ j - k < MaxSize /\ k - j < MaxSize
  BY <1>1, Constants
<1> QED
  BY <1>1, <1>2, SlotInjective

-----------------------------------------------------------------------------
(* Steps that touch neither the counters nor the claims. *)

\* The shared state and the claims are as they were.
Quiet ==
  /\ UNCHANGED <<head, tail, ring, enq, deq, org>>
  /\ \A u \in Threads :
       /\ Holding(u)' <=> Holding(u)
       /\ Holding(u) =>
            /\ tick'[u] = tick[u] /\ len'[u] = len[u] /\ done'[u] = done[u]
            /\ old'[u] = old[u]
            /\ pc'[u] = "access" <=> pc[u] = "access"

LEMMA QuietVocabulary ==
  ASSUME Quiet
  PROVE  /\ \A s \in Sides : /\ Claimed(s)' = Claimed(s) /\ Moved(s)' = Moved(s)
                             /\ Room(s)' = Room(s) /\ Holders(s)' = Holders(s)
         /\ Freed' = Freed /\ Published' = Published
         /\ \A k : Live(k)' <=> Live(k)
<1>1. Freed' = Freed /\ Published' = Published
  BY DEF Quiet, Freed, Published, Ticket
<1>2. ASSUME NEW s \in Sides
      PROVE  Claimed(s)' = Claimed(s) /\ Moved(s)' = Moved(s) /\ Room(s)' = Room(s)
  BY <1>1 DEF Quiet, Claimed, Moved, Room, Ticket
<1>3. ASSUME NEW s \in Sides
      PROVE  Holders(s)' = Holders(s)
  BY SidesOfThreads DEF Quiet, Holders, On
<1>4. ASSUME NEW u \in Threads
      PROVE  Pending(u)' = Pending(u)
  BY DEF Quiet, Pending
<1>5. ASSUME NEW k
      PROVE  Live(k)' <=> Live(k)
  BY <1>4 DEF Quiet, Live, Threads
<1> QED
  BY <1>1, <1>2, <1>3, <1>5

LEMMA QuietStep ==
  ASSUME Inv, Quiet
  PROVE  CounterOrder' /\ HeadsInv' /\ HoldingInv' /\ DisjointInv' /\ CoverInv' /\ RingInv'
<1>1. CounterOrder'
  BY QuietVocabulary DEF Inv, CounterOrder, Quiet
<1>2. HeadsInv'
  BY QuietVocabulary, SidesOfThreads DEF Inv, HeadsInv, Quiet, Ticket
<1>3. HoldingInv'
  <2> SUFFICES ASSUME NEW t \in Threads, Holding(t)'
               PROVE  /\ len'[t] > 0
                      /\ Ticket(old[t].pos)' = tick'[t]
                      /\ Moved(Side(t))' <= tick'[t]
                      /\ tick'[t] + len'[t] <= Claimed(Side(t))'
                      /\ pc'[t] # "access" => done'[t] = len'[t]
    BY DEF HoldingInv
  <2>1. /\ Holding(t) /\ tick'[t] = tick[t] /\ len'[t] = len[t] /\ done'[t] = done[t]
        /\ old'[t] = old[t] /\ (pc'[t] = "access" <=> pc[t] = "access") /\ org' = org
    BY DEF Quiet
  <2>2. Ticket(old[t].pos)' = Ticket(old[t].pos)
    BY <2>1 DEF Ticket
  <2>3. Moved(Side(t))' = Moved(Side(t)) /\ Claimed(Side(t))' = Claimed(Side(t))
    BY QuietVocabulary, SidesOfThreads
  <2> QED
    BY <2>1, <2>2, <2>3 DEF Inv, HoldingInv
<1>4. DisjointInv'
  BY DEF Inv, DisjointInv, Quiet
<1>5. CoverInv'
  <2> SUFFICES ASSUME NEW s \in Sides, ~RelaxedSide(s), NEW k \in Moved(s)' .. (Claimed(s)' - 1)
               PROVE  \E t \in Holders(s)' : k \in tick'[t] .. (tick'[t] + len'[t] - 1)
    BY DEF CoverInv
  <2>1. k \in Moved(s) .. (Claimed(s) - 1)
    BY QuietVocabulary
  <2>2. PICK t \in Holders(s) : k \in tick[t] .. (tick[t] + len[t] - 1)
    BY <2>1 DEF Inv, CoverInv
  <2>3. t \in Threads /\ Holding(t)
    BY <2>2, SidesOfThreads DEF Holders
  <2>4. t \in Holders(s)' /\ tick'[t] = tick[t] /\ len'[t] = len[t]
    BY <2>2, <2>3, QuietVocabulary DEF Quiet
  <2> QED
    BY <2>2, <2>4
<1>6. RingInv'
  BY QuietVocabulary DEF Inv, RingInv, Quiet, SlotOf, PosOf
<1> QED
  BY <1>1, <1>2, <1>3, <1>4, <1>5, <1>6

-----------------------------------------------------------------------------
(* Claims: thread t, whose head is up to date, claims l elements. *)

Claims(t, l) ==
  /\ ~Holding(t) /\ Holding(t)'
  /\ done[t] = 0 /\ done'[t] = 0
  /\ l > 0 /\ len'[t] = l
  /\ pc'[t] = "access"
  /\ old'[t] = old[t]
  /\ Claim(t, l)
  /\ Ticket(old[t].pos) = Claimed(Side(t))
  /\ Claimed(Side(t)) + l <= Room(Side(t))
  /\ UNCHANGED <<tail, ring, org>>
  /\ \A u \in Threads :
       u # t => /\ pc'[u] = pc[u] /\ len'[u] = len[u] /\ done'[u] = done[u]
                /\ old'[u] = old[u]
                /\ seen'[u] = seen[u] /\ next'[u] = next[u]
  /\ tick \in [Threads -> Nat]
  /\ ~Single(t) => Ticket(head'[Side(t)].pos) = Claimed(Side(t)) + l
  /\ \A s \in Sides : s # Side(t) => head'[s] = head[s]

LEMMA ClaimVocabulary ==
  ASSUME TypeInv, NEW t \in Threads, NEW l \in Nat, Claims(t, l)
  PROVE  /\ tick'[t] = Claimed(Side(t))
         /\ Claimed(Side(t))' = Claimed(Side(t)) + l
         /\ \A s \in Sides : s # Side(t) => Claimed(s)' = Claimed(s)
         /\ \A s \in Sides : Moved(s)' = Moved(s) /\ Room(s)' = Room(s)
         /\ Freed' = Freed /\ Published' = Published
         /\ \A u \in Threads : u # t => tick'[u] = tick[u]
         /\ \A u \in Threads : u # t => (Holding(u)' <=> Holding(u))
         /\ \A s \in Sides : s # Side(t) => Holders(s)' = Holders(s)
         /\ Holders(Side(t))' = Holders(Side(t)) \cup {t}
         /\ t \notin Holders(Side(t))
<1>1. /\ tick' = [tick EXCEPT ![t] = Claimed(Side(t))]
      /\ Claimed(Side(t))' = Claimed(Side(t)) + l
      /\ \A s \in Sides : s # Side(t) => Claimed(s)' = Claimed(s)
  <2>1. CASE t \in Producers
    BY <2>1, ThreadAssumption DEF Claims, Claim, ClaimPush, Claimed, Side, Sides
  <2>2. CASE t \in Consumers
    BY <2>2, ThreadAssumption DEF Claims, Claim, ClaimPop, Claimed, Side, Sides
  <2> QED
    BY <2>1, <2>2 DEF Threads
<1>2. \A p : Ticket(p)' = Ticket(p)
  BY DEF Claims, Ticket
<1>3. /\ \A s \in Sides : Moved(s)' = Moved(s) /\ Room(s)' = Room(s)
      /\ Freed' = Freed /\ Published' = Published
  BY DEF Claims, Moved, Room, Freed, Published, Ticket
<1>4. \A u \in Threads : u # t => tick'[u] = tick[u] /\ (Holding(u)' <=> Holding(u))
  BY <1>1 DEF Claims, Holding
<1>5. tick'[t] = Claimed(Side(t))
  BY <1>1 DEF Claims
<1>6. ASSUME NEW s \in Sides, s # Side(t)
      PROVE  Holders(s)' = Holders(s)
  <2>1. \A u \in On(s) : u \in Threads /\ u # t
    BY <1>6, SidesOfThreads
  <2> QED
    BY <1>4, <2>1 DEF Holders, On
<1>7. Holders(Side(t))' = Holders(Side(t)) \cup {t} /\ t \notin Holders(Side(t))
  <2>1. \A u \in On(Side(t)) : u \in Threads
    BY SidesOfThreads
  <2>2. t \in On(Side(t)) /\ ~Holding(t) /\ Holding(t)'
    BY SidesOfThreads DEF Claims
  <2> QED
    BY <1>4, <2>1, <2>2 DEF Holders, On
<1> QED
  BY <1>1, <1>3, <1>4, <1>5, <1>6, <1>7

LEMMA ClaimStep ==
  ASSUME Inv, NEW t \in Threads, NEW l \in Nat, Claims(t, l)
  PROVE  /\ CounterOrder' /\ HeadsInv' /\ AskingInv' /\ HoldingInv' /\ DisjointInv'
         /\ CoverInv' /\ RingInv'
<1> DEFINE s == Side(t)
<1>n. TypeInv
  BY DEF Inv
<1>v. /\ tick'[t] = Claimed(s)
      /\ Claimed(s)' = Claimed(s) + l
      /\ \A r \in Sides : r # s => Claimed(r)' = Claimed(r)
      /\ \A r \in Sides : Moved(r)' = Moved(r) /\ Room(r)' = Room(r)
      /\ Freed' = Freed /\ Published' = Published
      /\ \A u \in Threads : u # t => tick'[u] = tick[u]
      /\ \A u \in Threads : u # t => (Holding(u)' <=> Holding(u))
      /\ \A r \in Sides : r # s => Holders(r)' = Holders(r)
      /\ Holders(s)' = Holders(s) \cup {t}
  BY <1>n, ClaimVocabulary
<1>s. /\ s \in Sides /\ \A r \in Sides : Claimed(r) \in Nat /\ Moved(r) \in Nat
      /\ \A u \in Threads : Side(u) \in Sides
      /\ \A r \in Sides : Claimed(r)' \in Nat /\ Claimed(r)' >= Claimed(r)
  BY <1>n, <1>v, SidesOfThreads, Numbers
<1>1. CounterOrder'
  <2>1. CASE s = "prod"
    BY <1>n, <1>s, <1>v, <2>1, Numbers DEF Inv, CounterOrder, Claims, Claimed, Room, Sides
  <2>2. CASE s = "cons"
    BY <1>n, <1>s, <1>v, <2>2, Numbers DEF Inv, CounterOrder, Claims, Claimed, Room, Sides
  <2> QED
    BY <2>1, <2>2 DEF Side
<1>2. HeadsInv'
  <2> SUFFICES ASSUME NEW u \in Threads, ~Single(u)
               PROVE  Ticket(head[Side(u)].pos)' = Claimed(Side(u))'
    BY DEF HeadsInv, Single
  <2>1. Ticket(head[Side(u)].pos)' = Ticket(head'[Side(u)].pos)
    BY DEF Ticket, Claims
  <2>2. CASE Side(u) = s
    BY <1>v, <2>1, <2>2, SidesOfThreads DEF Claims
  <2>3. CASE Side(u) # s
    BY <1>s, <1>v, <2>1, <2>3 DEF Claims, Inv, HeadsInv
  <2> QED
    BY <2>2, <2>3
<1>3. AskingInv'
  <2> SUFFICES ASSUME NEW u \in Threads, pc'[u] \in {"check", "cas"}
               PROVE  /\ Ticket(old[u].pos)' <= Claimed(Side(u))'
                      /\ pc'[u] = "cas" => Ticket(old[u].pos)' + len'[u] <= Room(Side(u))'
                      /\ pc'[u] = "check" /\ Single(u) => old'[u].pos = tail'[Side(u)].pos
    BY DEF AskingInv, Single
  <2>1. u # t /\ pc[u] = pc'[u] /\ old'[u] = old[u] /\ len'[u] = len[u]
    BY DEF Claims
  <2>2. Ticket(old[u].pos)' = Ticket(old[u].pos) /\ Ticket(old[u].pos) \in Nat /\ tail' = tail
    BY <1>n, <2>1, Numbers DEF Ticket, Claims
  <2>3. Ticket(old[u].pos) <= Claimed(Side(u))
    BY <2>1 DEF Inv, AskingInv
  <2>4. Ticket(old[u].pos)' <= Claimed(Side(u))'
    BY <1>s, <2>2, <2>3
  <2> QED
    BY <1>s, <1>v, <2>1, <2>2, <2>4 DEF Inv, AskingInv
<1>4. HoldingInv'
  <2> SUFFICES ASSUME NEW u \in Threads, Holding(u)'
               PROVE  /\ len'[u] > 0
                      /\ Ticket(old[u].pos)' = tick'[u]
                      /\ Moved(Side(u))' <= tick'[u]
                      /\ tick'[u] + len'[u] <= Claimed(Side(u))'
                      /\ pc'[u] # "access" => done'[u] = len'[u]
    BY DEF HoldingInv
  <2>1. Ticket(old[u].pos)' = Ticket(old[u].pos)
    BY DEF Ticket, Claims
  <2>2. CASE u = t
    <3>1. Moved(s) <= Claimed(s)
      BY <1>s DEF Inv, CounterOrder, Moved, Claimed, Sides, Freed, Published
    <3> QED
      BY <1>s, <1>v, <2>1, <2>2, <3>1 DEF Claims
  <2>3. CASE u # t
    <3>1. Holding(u) /\ tick'[u] = tick[u] /\ len'[u] = len[u] /\ pc'[u] = pc[u] /\ done'[u] = done[u]
      BY <1>v, <2>3 DEF Claims
    <3>2. tick[u] + len[u] <= Claimed(Side(u)) /\ tick[u] \in Nat /\ len[u] \in Nat
      BY <1>n, <3>1, Numbers DEF Inv, HoldingInv
    <3>3. tick[u] + len[u] <= Claimed(Side(u))'
      BY <1>s, <3>2
    <3> QED
      BY <1>s, <1>v, <2>1, <3>1, <3>3 DEF Inv, HoldingInv
  <2> QED
    BY <2>2, <2>3
<1>5. DisjointInv'
  <2> SUFFICES ASSUME NEW a \in Threads, NEW b \in Threads,
                      Holding(a)', Holding(b)', Side(a) = Side(b), a # b
               PROVE  \/ tick'[a] + len'[a] <= tick'[b]
                      \/ tick'[b] + len'[b] <= tick'[a]
    BY DEF DisjointInv, Side
  <2>1. ASSUME NEW u \in Threads, u # t, Side(u) = s, Holding(u)'
        PROVE  tick'[u] + len'[u] <= tick'[t]
    BY <1>v, <2>1 DEF Claims, Inv, HoldingInv
  <2>2. CASE a = t
    BY <2>1, <2>2
  <2>3. CASE b = t
    BY <2>1, <2>3
  <2>4. CASE a # t /\ b # t
    BY <1>v, <2>4 DEF Claims, Inv, DisjointInv
  <2> QED
    BY <2>2, <2>3, <2>4
<1>6. CoverInv'
  <2> SUFFICES ASSUME NEW r \in Sides, ~RelaxedSide(r), NEW k \in Moved(r)' .. (Claimed(r)' - 1)
               PROVE  \E u \in Holders(r)' : k \in tick'[u] .. (tick'[u] + len'[u] - 1)
    BY DEF CoverInv, RelaxedSide
  <2>1. CASE k \in Moved(r) .. (Claimed(r) - 1)
    <3>1. PICK u \in Holders(r) : k \in tick[u] .. (tick[u] + len[u] - 1)
      BY <2>1 DEF Inv, CoverInv
    <3>2. u \in Threads /\ Holding(u) /\ u # t
      BY <3>1, SidesOfThreads DEF Holders, Claims
    <3>3. u \in Holders(r)' /\ tick'[u] = tick[u] /\ len'[u] = len[u]
      BY <1>v, <3>1, <3>2 DEF Claims
    <3> QED
      BY <3>1, <3>3
  <2>2. CASE k \notin Moved(r) .. (Claimed(r) - 1)
    <3>1. r = s
      BY <1>s, <1>v, <2>2
    <3>2. k \in Claimed(s) .. (Claimed(s) + l - 1)
      BY <1>s, <1>v, <2>2, <3>1
    <3> QED
      BY <1>v, <3>1, <3>2 DEF Claims
  <2> QED
    BY <2>1, <2>2
<1>7. RingInv'
  <2>1. /\ enq \in Nat /\ deq \in Nat /\ Freed \in Nat /\ Published \in Nat
        /\ Freed <= deq /\ deq <= Published /\ Published <= enq
    BY <1>n, Numbers DEF Inv, CounterOrder
  <2>2. \A u \in Threads : u # t => Pending(u)' = Pending(u)
    BY <1>v DEF Pending, Claims
  <2>3. Pending(t)' = Claimed(s) .. (Claimed(s) + l - 1) /\ Pending(t) = {}
    BY <1>s, <1>v DEF Pending, Claims
  <2>4. \A c \in Consumers : \A k \in Pending(c) : k < deq
    BY <1>n, PendingRange, SidesOfThreads, ThreadAssumption DEF Inv, Claimed, Side, Threads
  <2>5. \A p \in Producers : \A k \in Pending(p) : k >= Published
    BY <1>n, PendingRange, SidesOfThreads DEF Inv, Moved, Side, Threads, Published
  <2>6. ASSUME NEW k \in Int PROVE Live(k)' <=> Live(k)
    <3>1. CASE t \in Producers
      <4>1. enq' = enq + l /\ deq' = deq /\ s = "prod" /\ Claimed(s) = enq
        BY <3>1, ThreadAssumption DEF Claims, Claim, ClaimPush, Side, Claimed, ClaimPop
      <4>2. t \notin Consumers
        BY <3>1, ThreadAssumption
      <4>3. \A c \in Consumers : Pending(c)' = Pending(c)
        BY <2>2, <4>2 DEF Threads
      <4>4. \A p \in Producers : p # t => Pending(p)' = Pending(p)
        BY <2>2 DEF Threads
      <4>5. Pending(t)' = enq .. (enq + l - 1) /\ Pending(t) = {}
        BY <2>3, <4>1
      <4> QED
        BY <2>1, <3>1, <4>1, <4>3, <4>4, <4>5 DEF Live
    <3>2. CASE t \in Consumers
      <4>1. deq' = deq + l /\ enq' = enq /\ s = "cons" /\ Claimed(s) = deq /\ deq + l <= Published
        BY <3>2, ThreadAssumption DEF Claims, Claim, ClaimPop, ClaimPush, Side, Claimed, Room
      <4>2. t \notin Producers
        BY <3>2, ThreadAssumption
      <4>3. \A p \in Producers : Pending(p)' = Pending(p)
        BY <2>2, <4>2 DEF Threads
      <4>4. \A c \in Consumers : c # t => Pending(c)' = Pending(c)
        BY <2>2 DEF Threads
      <4>5. Pending(t)' = deq .. (deq + l - 1) /\ Pending(t) = {}
        BY <2>3, <4>1
      <4>6. k \in deq .. (deq + l - 1) => \A p \in Producers : k \notin Pending(p)
        BY <2>1, <2>5, <4>1
      <4> QED
        BY <2>1, <2>4, <3>2, <4>1, <4>3, <4>4, <4>5, <4>6 DEF Live
    <3> QED
      BY <3>1, <3>2 DEF Threads
  <2>7. \A k : Live(k)' /\ k \in Int => k < enq
    BY <2>6, LiveRange
  <2>8. enq' \in Nat /\ enq' >= enq
    BY <1>s, <1>v, <2>1 DEF Claimed, Sides
  <2>9. \A k : SlotOf(k)' = SlotOf(k)
    BY DEF SlotOf, PosOf, Claims
  <2>10. ASSUME NEW i \in Slots
         PROVE  \/ \E k \in Freed' .. (enq' - 1) : Live(k)' /\ i = SlotOf(k)' /\ ring'[i] = k
                \/ ring'[i] = Raw /\ \A k \in Freed' .. (enq' - 1) : Live(k)' => i # SlotOf(k)'
    <3>0. Freed' = Freed /\ ring' = ring
      BY <1>v DEF Claims
    <3>1. CASE \E k \in Freed .. (enq - 1) : Live(k) /\ i = SlotOf(k) /\ ring[i] = k
      <4>1. PICK k \in Freed .. (enq - 1) : Live(k) /\ i = SlotOf(k) /\ ring[i] = k
        BY <3>1
      <4>2. k \in Int /\ k \in Freed' .. (enq' - 1)
        <5>1. k \in Int /\ Freed' \in Int /\ enq' \in Int /\ Freed' <= k /\ k < enq'
          BY <2>1, <2>8, <3>0
        <5> QED
          BY <5>1, Before
      <4>3. Live(k)'
        BY <2>6, <4>1, <4>2
      <4>4. i = SlotOf(k)' /\ ring'[i] = k
        BY <2>9, <3>0, <4>1
      <4> QED
        BY <4>2, <4>3, <4>4
    <3>2. CASE ring[i] = Raw /\ \A k \in Freed .. (enq - 1) : Live(k) => i # SlotOf(k)
      <4>1. ASSUME NEW k \in Freed' .. (enq' - 1), Live(k)'
            PROVE  i # SlotOf(k)'
        <5>1. k \in Int /\ Live(k) /\ k \in Freed .. (enq - 1)
          BY <2>1, <2>6, <2>7, <2>8, <3>0, <4>1
        <5> QED
          BY <2>9, <3>2, <5>1
      <4> QED
        BY <3>0, <3>2, <4>1
    <3> QED
      BY <3>1, <3>2 DEF Inv, RingInv
  <2> QED
    BY <2>10 DEF RingInv, Slots
<1> QED
  BY <1>1, <1>2, <1>3, <1>4, <1>5, <1>6, <1>7

-----------------------------------------------------------------------------
(* One element is constructed or destroyed. *)

LEMMA AccessStep ==
  ASSUME Inv, NEW t \in Threads, Construct(t) \/ Destroy(t)
  PROVE  /\ CounterOrder' /\ HeadsInv' /\ AskingInv' /\ HoldingInv' /\ DisjointInv'
         /\ CoverInv' /\ RingInv' /\ RelaxedInv'
<1> DEFINE e == tick[t] + done[t]
<1>n. TypeInv
  BY DEF Inv
<1>a. /\ pc[t] = "access" /\ Holding(t) /\ done[t] < len[t]
      /\ tick[t] \in Nat /\ len[t] \in Nat /\ done[t] \in Nat
  BY <1>n, Numbers DEF Construct, Destroy, Holding, TypeInv
<1>b. /\ done' = [done EXCEPT ![t] = done[t] + 1]
      /\ pc' = [pc EXCEPT ![t] = IF done[t] + 1 = len[t] THEN "publish" ELSE "access"]
      /\ UNCHANGED <<head, tail, want, old, len, seen, next, tick, enq, deq, org>>
  BY DEF Construct, Destroy, AccessDone, Goto
<1>c. /\ pc'[t] \in {"publish", "access"}
      /\ \A u \in Threads : u # t => pc'[u] = pc[u] /\ done'[u] = done[u]
      /\ done'[t] = done[t] + 1
      /\ \A u \in Threads : Holding(u)' <=> Holding(u)
  <2>1. /\ pc'[t] \in {"publish", "access"}
        /\ \A u \in Threads : u # t => pc'[u] = pc[u] /\ done'[u] = done[u]
        /\ done'[t] = done[t] + 1
    BY <1>b, <1>n DEF TypeInv, TypeOK
  <2> QED
    BY <1>a, <2>1 DEF Holding
<1>d. /\ Freed' = Freed /\ Published' = Published
      /\ \A s \in Sides : /\ Claimed(s)' = Claimed(s) /\ Moved(s)' = Moved(s)
                          /\ Room(s)' = Room(s)
      /\ \A p : Ticket(p)' = Ticket(p)
      /\ \A k : SlotOf(k)' = SlotOf(k)
  BY <1>b DEF Freed, Published, Claimed, Moved, Room, Ticket, SlotOf, PosOf
<1>e. \A s \in Sides : Holders(s)' = Holders(s)
  BY <1>c, SidesOfThreads DEF Holders, On
<1>1. CounterOrder'
  BY <1>b, <1>d DEF Inv, CounterOrder
<1>2. HeadsInv'
  BY <1>b, <1>d, SidesOfThreads DEF Inv, HeadsInv, Ticket
<1>3. AskingInv'
  <2> SUFFICES ASSUME NEW u \in Threads, pc'[u] \in {"check", "cas"}
               PROVE  /\ Ticket(old[u].pos)' <= Claimed(Side(u))'
                      /\ pc'[u] = "cas" => Ticket(old[u].pos)' + len'[u] <= Room(Side(u))'
                      /\ pc'[u] = "check" /\ Single(u) => old'[u].pos = tail'[Side(u)].pos
    BY DEF AskingInv, Single
  <2>1. u # t /\ pc[u] = pc'[u]
    BY <1>c
  <2>2. Ticket(old[u].pos)' = Ticket(old[u].pos)
    BY <1>b DEF Ticket
  <2> QED
    BY <1>b, <1>d, <2>1, <2>2, SidesOfThreads DEF Inv, AskingInv
<1>4. HoldingInv'
  <2> SUFFICES ASSUME NEW u \in Threads, Holding(u)'
               PROVE  /\ len'[u] > 0
                      /\ Ticket(old[u].pos)' = tick'[u]
                      /\ Moved(Side(u))' <= tick'[u]
                      /\ tick'[u] + len'[u] <= Claimed(Side(u))'
                      /\ pc'[u] # "access" => done'[u] = len'[u]
    BY DEF HoldingInv
  <2>1. Ticket(old[u].pos)' = Ticket(old[u].pos)
    BY <1>b DEF Ticket
  <2>2. pc'[u] # "access" => done'[u] = len'[u]
    BY <1>b, <1>c DEF Inv, HoldingInv, TypeInv, TypeOK
  <2> QED
    BY <1>b, <1>c, <1>d, <2>1, <2>2, SidesOfThreads DEF Inv, HoldingInv
<1>5. DisjointInv'
  BY <1>b, <1>c DEF Inv, DisjointInv
<1>6. CoverInv'
  BY <1>b, <1>d, <1>e DEF Inv, CoverInv
<1>7. RelaxedInv'
  <2>1. \A u \in Threads : /\ pc'[u] = "rts_cas" <=> pc[u] = "rts_cas"
                           /\ pc'[u] \in {"rts_head", "rts_cas"} <=> pc[u] \in {"rts_head", "rts_cas"}
    BY <1>a, <1>c
  <2>2. /\ \A c : Count(c)' = Count(c)
        /\ \A u \in Threads : Ticket(next[u].pos)' = Ticket(next[u].pos)
    BY <1>b DEF Count, Ticket
  <2>3. \A s \in Sides : \A u \in On(s) : u \in Threads
    BY SidesOfThreads
  <2> SUFFICES ASSUME NEW s \in Sides, RelaxedSide(s)
               PROVE  CountsInv(s)' /\ \A u \in On(s) : ComparesInv(s, u)' /\ MovesInv(s, u)'
    BY DEF RelaxedInv, RelaxedSide, On
  <2>4. CountsInv(s) /\ \A u \in On(s) : ComparesInv(s, u) /\ MovesInv(s, u)
    BY DEF Inv, RelaxedInv
  <2>5. CountsInv(s)'
    BY <1>b, <1>d, <1>e, <2>2, <2>4 DEF CountsInv
  <2>6. ASSUME NEW u \in On(s) PROVE ComparesInv(s, u)'
    BY <1>b, <2>1, <2>2, <2>3, <2>4 DEF ComparesInv
  <2>7. ASSUME NEW u \in On(s) PROVE MovesInv(s, u)'
    BY <1>b, <1>d, <1>e, <2>1, <2>2, <2>3, <2>4 DEF MovesInv
  <2> QED
    BY <2>5, <2>6, <2>7
<1>8. RingInv'
  <2>1. /\ e \in Nat /\ e \in Pending(t)
        /\ Pending(t)' = Pending(t) \ {e}
        /\ \A u \in Threads : u # t => Pending(u)' = Pending(u)
    <3>1. Pending(t) = (tick[t] + done[t]) .. (tick[t] + len[t] - 1)
      BY <1>a DEF Pending
    <3>2. Pending(t)' = (tick[t] + (done[t] + 1)) .. (tick[t] + len[t] - 1)
      BY <1>a, <1>b, <1>c DEF Pending
    <3>3. \A u \in Threads : u # t => Pending(u)' = Pending(u)
      BY <1>b, <1>c DEF Pending
    <3>4. e \in Nat /\ e = tick[t] + done[t] /\ e <= tick[t] + len[t] - 1
      BY <1>a
    <3>5. /\ tick[t] \in Nat /\ len[t] \in Nat /\ done[t] \in Nat
      BY <1>a
    <3>6. e \in Pending(t) /\ Pending(t)' = Pending(t) \ {e}
      BY <3>1, <3>2, <3>4, <3>5
    <3> QED
      BY <3>3, <3>4, <3>6
  <2>2. \A u \in Threads : u # t /\ Side(u) = Side(t) => e \notin Pending(u)
    <3> SUFFICES ASSUME NEW u \in Threads, u # t, Side(u) = Side(t), e \in Pending(u)
                 PROVE  FALSE
      OBVIOUS
    <3>1. /\ Holding(u) /\ tick[u] + done[u] <= e /\ e < tick[u] + len[u]
          /\ tick[u] \in Nat /\ done[u] \in Nat /\ len[u] \in Nat
      BY <1>n, PendingRange, Numbers DEF Inv
    <3> QED
      BY <1>a, <3>1 DEF Inv, DisjointInv
  <2>3. /\ enq \in Nat /\ deq \in Nat /\ Freed \in Nat /\ Published \in Nat
        /\ Freed <= deq /\ deq <= Published /\ Published <= enq
    BY <1>n, Numbers DEF Inv, CounterOrder
  <2>4. Freed <= e /\ e < enq
    <3>1. Moved(Side(t)) <= e /\ e < Claimed(Side(t))
      BY <1>n, <2>1, PendingRange DEF Inv
    <3>2. CASE t \in Producers
      BY <2>1, <2>3, <3>1, <3>2 DEF Side, Moved, Claimed, Published
    <3>3. CASE t \in Consumers
      BY <2>1, <2>3, <3>1, <3>3, ThreadAssumption DEF Side, Moved, Claimed, Freed
    <3> QED
      BY <3>2, <3>3 DEF Threads
  <2>5. Reached(t) = SlotOf(e) /\ Reached(t) \in Slots
    <3>1. /\ Ticket(old[t].pos) = tick[t] /\ old[t].pos \in U32 /\ org \in Pos
          /\ enq + MaxSize < PosMod
      BY <1>a, <1>n, Numbers DEF Inv, HoldingInv
    <3>2. Ticket(old[t].pos) + done[t] < PosMod
      <4>1. /\ MaxSize \in Nat /\ PosMod \in Nat
            /\ Ticket(old[t].pos) + done[t] = e
        BY <3>1, Constants
      <4> QED
        BY <1>a, <2>3, <2>4, <3>1, <4>1
    <3>3. Add(old[t].pos, done[t]) \in Nat
      <4>1. done[t] \in U32
        BY <1>n, Numbers
      <4>2. Add(old[t].pos, done[t]) \in U32
        BY <3>1, <4>1, AddType
      <4> QED
        BY <4>2, Constants
    <3> QED
      BY <1>a, <3>1, <3>2, <3>3, SlotOfTicket, SlotType DEF Reached
  <2>6. \A k : Live(k) => k \in Freed .. (enq - 1)
    BY <2>3, LiveRange
  <2>7. \A k \in Freed .. (enq - 1) : SlotOf(k) = SlotOf(e) => k = e
    BY <2>1, <2>3, <2>4, SlotsApart
  <2>8. e \in Freed .. (enq - 1)
    BY <2>1, <2>3, <2>4
  <2>9. CASE Construct(t)
    <3>1. t \in Producers /\ t \notin Consumers /\ Side(t) = "prod"
      BY <2>9, ThreadAssumption DEF Construct, Side
    <3>2. ring' = [ring EXCEPT ![SlotOf(e)] = e]
      BY <2>5, <2>9 DEF Construct
    <3>3. e \in deq .. (enq - 1)
      <4>1. Moved("prod") <= e
        BY <1>n, <2>1, <3>1, PendingRange DEF Inv
      <4> QED
        BY <2>1, <2>3, <2>4, <4>1 DEF Moved, Published
    <3>4. \A p \in Producers : p # t => Pending(p)' = Pending(p) /\ e \notin Pending(p)
      BY <2>1, <2>2, <3>1 DEF Threads, Side
    <3>5. \A c \in Consumers : Pending(c)' = Pending(c)
      BY <2>1, <3>1 DEF Threads
    <3>6. \A k : Live(k)' <=> Live(k) \/ k = e
      BY <1>b, <2>1, <3>1, <3>3, <3>4, <3>5 DEF Live
    <3>7. ASSUME NEW i \in Slots
          PROVE  \/ \E k \in Freed .. (enq - 1) : (Live(k) \/ k = e) /\ i = SlotOf(k) /\ ring'[i] = k
                 \/ ring'[i] = Raw /\ \A k \in Freed .. (enq - 1) : (Live(k) \/ k = e) => i # SlotOf(k)
      <4>1. CASE i = SlotOf(e)
        BY <1>n, <2>8, <3>2, <4>1 DEF TypeInv, TypeOK
      <4>2. CASE i # SlotOf(e)
        <5>1. ring'[i] = ring[i]
          BY <1>n, <3>2, <4>2 DEF TypeInv, TypeOK
        <5> QED
          BY <4>2, <5>1 DEF Inv, RingInv
      <4> QED
        BY <4>1, <4>2
    <3> QED
      BY <1>b, <1>d, <3>6, <3>7 DEF RingInv, Slots
  <2>10. CASE Destroy(t)
    <3>1. t \in Consumers /\ t \notin Producers /\ Side(t) = "cons"
      BY <2>10, ThreadAssumption DEF Destroy, Side
    <3>2. ring' = [ring EXCEPT ![SlotOf(e)] = Raw]
      BY <2>5, <2>10 DEF Destroy
    <3>3. e < deq
      BY <1>n, <2>1, <3>1, PendingRange DEF Inv, Claimed
    <3>4. \A c \in Consumers : c # t => Pending(c)' = Pending(c) /\ e \notin Pending(c)
      BY <2>1, <2>2, <3>1, ThreadAssumption DEF Threads, Side
    <3>5. \A p \in Producers : Pending(p)' = Pending(p)
      BY <2>1, <3>1 DEF Threads
    <3>6. e \notin deq .. (enq - 1)
      BY <2>1, <2>3, <3>3
    <3>7. \A k : Live(k)' <=> Live(k) /\ k # e
      BY <1>b, <2>1, <3>1, <3>4, <3>5, <3>6 DEF Live
    <3>8. ASSUME NEW i \in Slots
          PROVE  \/ \E k \in Freed .. (enq - 1) : (Live(k) /\ k # e) /\ i = SlotOf(k) /\ ring'[i] = k
                 \/ ring'[i] = Raw /\ \A k \in Freed .. (enq - 1) : (Live(k) /\ k # e) => i # SlotOf(k)
      <4>1. CASE i = SlotOf(e)
        BY <1>n, <2>7, <3>2, <4>1 DEF TypeInv, TypeOK
      <4>2. CASE i # SlotOf(e)
        <5>1. ring'[i] = ring[i]
          BY <1>n, <3>2, <4>2 DEF TypeInv, TypeOK
        <5> QED
          BY <4>2, <5>1 DEF Inv, RingInv
      <4> QED
        BY <4>1, <4>2
    <3> QED
      BY <1>b, <1>d, <3>7, <3>8 DEF RingInv, Slots
  <2> QED
    BY <2>9, <2>10
<1> QED
  BY <1>1, <1>2, <1>3, <1>4, <1>5, <1>6, <1>7, <1>8

-----------------------------------------------------------------------------
(* Tails: thread t gives up its claim and the tail of its side moves to m. *)

Leaves(t, m) ==
  /\ Holding(t) /\ done[t] = len[t]
  /\ Return(t)
  /\ UNCHANGED <<head, ring, enq, deq, org>>
  /\ \A s \in Sides : s # Side(t) => tail'[s] = tail[s]
  /\ tail' \in [Sides -> Pos]
  /\ Ticket(tail'[Side(t)].pos) = m
  /\ Moved(Side(t)) <= m /\ m <= Claimed(Side(t))
  /\ \A u \in Holders(Side(t)) : u # t => m <= tick[u]

LEMMA LeaveVocabulary ==
  ASSUME TypeInv, NEW t \in Threads, NEW m \in Nat, Leaves(t, m)
  PROVE  /\ \A s \in Sides : Claimed(s)' = Claimed(s)
         /\ Moved(Side(t))' = m
         /\ \A s \in Sides : s # Side(t) => Moved(s)' = Moved(s)
         /\ pc'[t] = "idle" /\ ~Holding(t)'
         /\ \A u \in Threads :
              u # t => /\ pc'[u] = pc[u] /\ want'[u] = want[u] /\ old'[u] = old[u]
                       /\ len'[u] = len[u] /\ done'[u] = done[u] /\ tick'[u] = tick[u]
                       /\ seen'[u] = seen[u] /\ next'[u] = next[u]
                       /\ (Holding(u)' <=> Holding(u))
         /\ \A u \in Threads : Pending(u)' = Pending(u)
         /\ Pending(t) = {}
         /\ \A s \in Sides : s # Side(t) => Holders(s)' = Holders(s)
         /\ Holders(Side(t))' = Holders(Side(t)) \ {t}
<1>1. \A s \in Sides : Claimed(s)' = Claimed(s)
  BY DEF Leaves, Claimed
<1>2. \A p : Ticket(p)' = Ticket(p)
  BY DEF Leaves, Ticket
<1>3. /\ Moved(Side(t))' = m
      /\ \A s \in Sides : s # Side(t) => Moved(s)' = Moved(s)
  BY DEF Leaves, Moved, Ticket
<1>4. /\ pc' = [pc EXCEPT ![t] = "idle"] /\ want' = [want EXCEPT ![t] = 0]
      /\ old' = [old EXCEPT ![t] = Zero] /\ len' = [len EXCEPT ![t] = 0]
      /\ done' = [done EXCEPT ![t] = 0] /\ tick' = [tick EXCEPT ![t] = 0]
      /\ seen' = [seen EXCEPT ![t] = Zero] /\ next' = [next EXCEPT ![t] = Zero]
  BY DEF Leaves, Return, Goto
<1>5. pc'[t] = "idle" /\ ~Holding(t)'
  BY <1>4 DEF TypeInv, TypeOK, Holding
<1>6. \A u \in Threads :
        u # t => /\ pc'[u] = pc[u] /\ want'[u] = want[u] /\ old'[u] = old[u]
                 /\ len'[u] = len[u] /\ done'[u] = done[u] /\ tick'[u] = tick[u]
                 /\ seen'[u] = seen[u] /\ next'[u] = next[u]
  BY <1>4 DEF TypeInv, TypeOK
<1>7. \A u \in Threads : u # t => (Holding(u)' <=> Holding(u))
  BY <1>6 DEF Holding
<1>8. Pending(t) = {} /\ Pending(t)' = {}
  <2>1. tick[t] \in Nat /\ len[t] \in Nat
    BY Numbers
  <2> QED
    BY <1>5, <2>1 DEF Pending, Leaves
<1>9. \A u \in Threads : Pending(u)' = Pending(u)
  BY <1>6, <1>7, <1>8 DEF Pending
<1>10. \A s \in Sides : s # Side(t) => Holders(s)' = Holders(s)
  <2>1. \A s \in Sides : s # Side(t) => \A u \in On(s) : u \in Threads /\ u # t
    BY SidesOfThreads
  <2> QED
    BY <1>7, <2>1 DEF Holders, On
<1>11. Holders(Side(t))' = Holders(Side(t)) \ {t}
  <2>1. \A u \in On(Side(t)) : u \in Threads
    BY SidesOfThreads
  <2> QED
    BY <1>5, <1>7, <2>1 DEF Holders, On
<1> QED
  BY <1>1, <1>3, <1>5, <1>6, <1>7, <1>8, <1>9, <1>10, <1>11

LEMMA LeaveStep ==
  ASSUME Inv, NEW t \in Threads, NEW m \in Nat, Leaves(t, m)
  PROVE  CounterOrder' /\ HeadsInv' /\ AskingInv' /\ HoldingInv' /\ DisjointInv' /\ RingInv'
<1> DEFINE s == Side(t)
<1>n. TypeInv
  BY DEF Inv
<1>v. /\ \A r \in Sides : Claimed(r)' = Claimed(r)
      /\ Moved(s)' = m
      /\ \A r \in Sides : r # s => Moved(r)' = Moved(r)
      /\ pc'[t] = "idle" /\ ~Holding(t)'
      /\ \A u \in Threads :
           u # t => /\ pc'[u] = pc[u] /\ want'[u] = want[u] /\ old'[u] = old[u]
                    /\ len'[u] = len[u] /\ done'[u] = done[u] /\ tick'[u] = tick[u]
                    /\ (Holding(u)' <=> Holding(u))
      /\ \A u \in Threads : Pending(u)' = Pending(u)
      /\ Pending(t) = {}
  BY <1>n, LeaveVocabulary
<1>s. /\ s \in Sides
      /\ \A u \in Threads : Side(u) \in Sides
      /\ \A r \in Sides : Claimed(r) \in Nat /\ Moved(r) \in Nat
      /\ \A r \in Sides : Moved(r) <= Moved(r)' /\ Moved(r)' \in Nat
      /\ m \in Nat /\ m <= Claimed(s)
  BY <1>n, <1>v, SidesOfThreads, Numbers DEF Leaves
<1>c. /\ enq \in Nat /\ deq \in Nat /\ Freed \in Nat /\ Published \in Nat
      /\ Freed <= deq /\ deq <= Published /\ Published <= enq /\ enq <= Freed + MaxSize
      /\ MaxSize \in Nat
  BY <1>n, Numbers, Constants DEF Inv, CounterOrder
<1>m. Moved("prod") = Published /\ Moved("cons") = Freed
  BY DEF Moved, Published, Freed
<1>mm. Moved("prod")' = Published' /\ Moved("cons")' = Freed'
  BY DEF Moved, Published, Freed
<1>f. /\ Freed' \in Nat /\ Published' \in Nat /\ Freed <= Freed' /\ Published <= Published'
      /\ Freed' <= deq /\ Published' <= enq
  <2>1. "prod" \in Sides /\ "cons" \in Sides /\ Claimed("prod") = enq /\ Claimed("cons") = deq
    BY DEF Sides, Claimed
  <2>2. CASE s = "prod"
    BY <1>c, <1>m, <1>mm, <1>s, <1>v, <2>1, <2>2
  <2>3. CASE s = "cons"
    BY <1>c, <1>m, <1>mm, <1>s, <1>v, <2>1, <2>3
  <2> QED
    BY <2>2, <2>3 DEF Side
<1>1. CounterOrder'
  <2>1. enq' = enq /\ deq' = deq
    BY DEF Leaves
  <2>2. Freed' <= deq /\ deq <= Published' /\ Published' <= enq
    BY <1>c, <1>f
  <2>3. PICK f \in Nat : f = Freed'
    BY <1>f
  <2>4. Freed <= f
    BY <1>f, <2>3
  <2>5. enq <= f + MaxSize
    BY <1>c, <2>4
  <2> QED
    BY <2>1, <2>2, <2>3, <2>5 DEF CounterOrder
<1>2. HeadsInv'
  BY <1>s, <1>v DEF Inv, HeadsInv, Leaves, Ticket
<1>3. AskingInv'
  <2> SUFFICES ASSUME NEW u \in Threads, pc'[u] \in {"check", "cas"}
               PROVE  /\ Ticket(old[u].pos)' <= Claimed(Side(u))'
                      /\ pc'[u] = "cas" => Ticket(old[u].pos)' + len'[u] <= Room(Side(u))'
                      /\ pc'[u] = "check" /\ Single(u) => old'[u].pos = tail'[Side(u)].pos
    BY DEF AskingInv, Single
  <2>1. u # t /\ pc[u] = pc'[u] /\ old'[u] = old[u] /\ len'[u] = len[u]
    BY <1>v
  <2>2. /\ Ticket(old[u].pos)' = Ticket(old[u].pos) /\ Ticket(old[u].pos) \in Nat
        /\ len[u] \in Nat
    <3>1. Ticket(old[u].pos) \in Nat /\ len[u] \in Nat
      BY <1>n, Numbers
    <3>2. Ticket(old[u].pos)' = Ticket(old[u].pos)
      BY <2>1 DEF Ticket, Leaves
    <3> QED
      BY <3>1, <3>2
  <2>3. Room(Side(u)) \in Nat /\ Room(Side(u))' \in Nat /\ Room(Side(u)) <= Room(Side(u))'
    <3>1. PICK f \in Nat : f = Freed'
      BY <1>f
    <3>a. Freed <= f
      BY <1>f, <3>1
    <3>2. Freed + MaxSize <= f + MaxSize
      BY <1>c, <3>a
    <3>3. CASE Side(u) = "prod"
      <4>1. Room(Side(u)) = Freed + MaxSize /\ Room(Side(u))' = f + MaxSize
        BY <3>1, <3>3 DEF Room, Side
      <4> QED
        BY <1>c, <3>2, <4>1
    <3>4. CASE Side(u) # "prod"
      <4>1. Room(Side(u)) = Published /\ Room(Side(u))' = Published'
        BY <3>4 DEF Room, Side
      <4> QED
        BY <1>c, <1>f, <4>1
    <3> QED
      BY <3>3, <3>4
  <2>4. pc'[u] = "check" /\ Single(u) => old'[u].pos = tail'[Side(u)].pos
    <3> SUFFICES ASSUME pc'[u] = "check", Single(u)
                 PROVE  old'[u].pos = tail'[Side(u)].pos
      OBVIOUS
    <3>1. Side(u) # s
      BY <2>1, SidesOfThreads
    <3>2. tail'[Side(u)] = tail[Side(u)]
      BY <1>s, <3>1 DEF Leaves
    <3> QED
      BY <2>1, <3>2 DEF Inv, AskingInv
  <2>5. Ticket(old[u].pos)' <= Claimed(Side(u))'
    BY <1>s, <1>v, <2>1, <2>2 DEF Inv, AskingInv
  <2>6. pc[u] = "cas" => Ticket(old[u].pos) + len[u] <= Room(Side(u))
    BY DEF Inv, AskingInv
  <2> QED
    BY <2>1, <2>2, <2>3, <2>4, <2>5, <2>6
<1>4. HoldingInv'
  <2> SUFFICES ASSUME NEW u \in Threads, Holding(u)'
               PROVE  /\ len'[u] > 0
                      /\ Ticket(old[u].pos)' = tick'[u]
                      /\ Moved(Side(u))' <= tick'[u]
                      /\ tick'[u] + len'[u] <= Claimed(Side(u))'
                      /\ pc'[u] # "access" => done'[u] = len'[u]
    BY DEF HoldingInv
  <2>1. /\ u # t /\ Holding(u) /\ pc[u] = pc'[u] /\ old'[u] = old[u] /\ len'[u] = len[u]
        /\ tick'[u] = tick[u] /\ done'[u] = done[u]
    BY <1>v
  <2>2. Ticket(old[u].pos)' = Ticket(old[u].pos)
    BY <2>1 DEF Ticket, Leaves
  <2>3. Moved(Side(u))' <= tick[u]
    <3>1. CASE Side(u) = s
      <4>1. u \in Holders(s)
        BY <2>1, <3>1, SidesOfThreads DEF Holders
      <4> QED
        BY <1>v, <2>1, <3>1, <4>1 DEF Leaves
    <3>2. CASE Side(u) # s
      BY <1>s, <1>v, <2>1, <3>2 DEF Inv, HoldingInv
    <3> QED
      BY <3>1, <3>2
  <2> QED
    BY <1>s, <1>v, <2>1, <2>2, <2>3 DEF Inv, HoldingInv
<1>5. DisjointInv'
  BY <1>v DEF Inv, DisjointInv
<1>6. RingInv'
  <2>1. \A k : Live(k)' <=> Live(k)
    BY <1>v DEF Live, Leaves, Threads
  <2>2. \A k : SlotOf(k)' = SlotOf(k)
    BY DEF SlotOf, PosOf, Leaves
  <2>3. \A k : Live(k) => k \in Nat /\ Freed' <= k /\ k < enq
    <3> SUFFICES ASSUME NEW k, Live(k) PROVE k \in Nat /\ Freed' <= k /\ k < enq
      OBVIOUS
    <3>1. k \in Nat /\ k < enq
      BY LiveRange
    <3>2. CASE k \in deq .. (enq - 1)
      BY <1>c, <1>f, <3>1, <3>2
    <3>3. CASE \E c \in Consumers : k \in Pending(c)
      <4>1. PICK c \in Consumers : k \in Pending(c)
        BY <3>3
      <4>2. c \in Threads /\ Side(c) = "cons" /\ c # t /\ c \in On("cons")
        BY <1>v, <4>1, ThreadAssumption DEF Threads, Side, On
      <4>3. /\ Holding(c) /\ tick[c] + done[c] <= k /\ tick[c] \in Nat /\ done[c] \in Nat
            /\ Freed <= k
        BY <1>m, <1>n, <4>1, <4>2, PendingRange, Numbers DEF Inv
      <4>4. CASE s = "cons"
        <5>1. c \in Holders(s)
          BY <4>2, <4>3, <4>4 DEF Holders
        <5>2. m <= tick[c] /\ Freed' = m
          BY <1>mm, <1>v, <4>2, <4>4, <5>1 DEF Leaves
        <5> QED
          BY <1>s, <3>1, <4>3, <5>2
      <4>5. CASE s # "cons"
        <5>1. Freed' = Freed
          BY <1>m, <1>mm, <1>v, <4>5 DEF Sides
        <5> QED
          BY <3>1, <4>3, <5>1
      <4> QED
        BY <4>4, <4>5
    <3> QED
      BY <3>2, <3>3 DEF Live
  <2>4. ASSUME NEW i \in Slots
        PROVE  \/ \E k \in Freed' .. (enq - 1) : Live(k) /\ i = SlotOf(k) /\ ring[i] = k
               \/ ring[i] = Raw /\ \A k \in Freed' .. (enq - 1) : Live(k) => i # SlotOf(k)
    <3>1. CASE \E k \in Freed .. (enq - 1) : Live(k) /\ i = SlotOf(k) /\ ring[i] = k
      <4>1. PICK k \in Freed .. (enq - 1) : Live(k) /\ i = SlotOf(k) /\ ring[i] = k
        BY <3>1
      <4>2. k \in Freed' .. (enq - 1)
        BY <1>c, <1>f, <2>3, <4>1, Before
      <4> QED
        BY <4>1, <4>2
    <3>2. CASE ring[i] = Raw /\ \A k \in Freed .. (enq - 1) : Live(k) => i # SlotOf(k)
      <4>1. \A k \in Freed' .. (enq - 1) : k \in Freed .. (enq - 1)
        BY <1>c, <1>f
      <4> QED
        BY <3>2, <4>1
    <3> QED
      BY <3>1, <3>2 DEF Inv, RingInv
  <2> QED
    BY <2>1, <2>2, <2>4 DEF RingInv, Slots, Leaves
<1> QED
  BY <1>1, <1>2, <1>3, <1>4, <1>5, <1>6

-----------------------------------------------------------------------------
(* The counts of the relaxed tails. *)

LEMMA CountType ==
  ASSUME org \in Pos, NEW c \in U32
  PROVE  Count(c) \in Nat
<1>1. org.cnt \in U32
  BY DEF Pos
<1> QED
  BY <1>1, Constants DEF Count, Sub

LEMMA CountAdd ==
  ASSUME org \in Pos, NEW c \in U32, Count(c) + 1 < PosMod
  PROVE  Count(Add(c, 1)) = Count(c) + 1
<1>1. org.cnt \in U32
  BY DEF Pos
<1> QED
  BY <1>1, Constants DEF Count, Add, Sub

LEMMA CountEqual ==
  ASSUME org \in Pos, NEW c \in U32, NEW d \in U32, Count(c) = Count(d)
  PROVE  c = d
<1>1. org.cnt \in U32
  BY DEF Pos
<1> QED
  BY <1>1, Constants DEF Count, Sub

LEMMA FiniteHolders ==
  ASSUME NEW s \in Sides
  PROVE  IsFiniteSet(Holders(s)) /\ Cardinality(Holders(s)) \in Nat
<1>1. IsFiniteSet(On(s)) /\ Holders(s) \subseteq On(s)
  BY FiniteAssumption DEF On, Holders
<1> QED
  BY <1>1, FS_Subset, FS_CardinalityType

LEMMA HoldersPlus ==
  ASSUME NEW s \in Sides, NEW t, Holders(s)' = Holders(s) \cup {t}, t \notin Holders(s)
  PROVE  Cardinality(Holders(s)') = Cardinality(Holders(s)) + 1
<1>1. Cardinality(Holders(s) \cup {t}) = Cardinality(Holders(s)) + 1
  BY FiniteHolders, FS_AddElement
<1> QED
  BY <1>1

LEMMA HoldersMinus ==
  ASSUME NEW s \in Sides, NEW t \in Holders(s), Holders(s)' = Holders(s) \ {t}
  PROVE  Cardinality(Holders(s)) = Cardinality(Holders(s)') + 1
<1>1. Cardinality(Holders(s) \ {t}) = Cardinality(Holders(s)) - 1
  BY FiniteHolders, FS_RemoveElement
<1> QED
  BY <1>1, FiniteHolders

LEMMA OneHolder ==
  ASSUME NEW s \in Sides, NEW t \in Holders(s)
  PROVE  Holders(s) = {t} <=> Cardinality(Holders(s)) = 1
<1>1. Cardinality({t}) = 1
  BY FS_Singleton
<1>2. ASSUME Cardinality(Holders(s)) = 1
      PROVE  Holders(s) = {t}
  <2>1. Cardinality(Holders(s) \ {t}) = 0 /\ IsFiniteSet(Holders(s) \ {t})
    BY <1>2, FiniteHolders, FS_RemoveElement
  <2>2. Holders(s) \ {t} = {}
    BY <2>1, FS_EmptySet
  <2> QED
    BY <2>2
<1> QED
  BY <1>1, <1>2

\* What the counts are, and that they are far from a lap.
LEMMA CountNumbers ==
  ASSUME Inv, NEW s \in Sides, RelaxedSide(s)
  PROVE  /\ Count(head[s].cnt) \in Nat /\ Count(tail[s].cnt) \in Nat
         /\ Count(head[s].cnt) = Count(tail[s].cnt) + Cardinality(Holders(s))
         /\ Cardinality(Holders(s)) \in Nat
         /\ Count(head[s].cnt) <= Claimed(s)
         /\ Claimed(s) \in Nat /\ Claimed(s) + 1 < PosMod
<1>1. org \in Pos /\ head[s].cnt \in U32 /\ tail[s].cnt \in U32 /\ Claimed(s) \in Nat
  BY Numbers DEF Inv
<1>2. Count(head[s].cnt) \in Nat /\ Count(tail[s].cnt) \in Nat
  BY <1>1, CountType
<1>3. CountsInv(s)
  BY DEF Inv, RelaxedInv
<1>4. Claimed(s) + 1 < PosMod
  <2>1. /\ enq \in Nat /\ deq \in Nat /\ Published \in Nat /\ enq + MaxSize < PosMod
        /\ deq <= Published /\ Published <= enq /\ MaxSize \in Nat /\ MaxSize > 0
        /\ PosMod \in Nat
    BY Numbers, Constants DEF Inv, CounterOrder
  <2>2. Claimed(s) <= enq
    BY <2>1 DEF Claimed
  <2> QED
    BY <1>1, <2>1, <2>2
<1> QED
  BY <1>1, <1>2, <1>3, <1>4, FiniteHolders DEF CountsInv

LEMMA RelaxedQuiet ==
  ASSUME Inv, Quiet, NEW t \in Threads,
         \A u \in Threads : u # t => pc'[u] = pc[u] /\ seen'[u] = seen[u] /\ next'[u] = next[u],
         RelaxedSide(Side(t)) => ComparesInv(Side(t), t)' /\ MovesInv(Side(t), t)'
  PROVE  RelaxedInv'
<1> SUFFICES ASSUME NEW s \in Sides, RelaxedSide(s)
             PROVE  CountsInv(s)' /\ \A u \in On(s) : ComparesInv(s, u)' /\ MovesInv(s, u)'
  BY DEF RelaxedInv, RelaxedSide, On
<1>1. CountsInv(s) /\ \A u \in On(s) : ComparesInv(s, u) /\ MovesInv(s, u)
  BY DEF Inv, RelaxedInv
<1>2. /\ \A c : Count(c)' = Count(c)
      /\ \A p : Ticket(p)' = Ticket(p)
      /\ \A u \in On(s) : u \in Threads /\ Side(u) = s
      /\ UNCHANGED <<head, tail>>
  BY SidesOfThreads DEF Quiet, Count, Ticket
<1>3. CountsInv(s)'
  BY <1>1, <1>2, QuietVocabulary DEF CountsInv
<1>4. ASSUME NEW u \in On(s), u # t PROVE ComparesInv(s, u)'
  BY <1>1, <1>2, <1>4 DEF ComparesInv
<1>5. ASSUME NEW u \in On(s), u # t PROVE MovesInv(s, u)'
  <2> SUFFICES ASSUME pc'[u] = "rts_cas" PROVE MovesInv(s, u)'
    BY DEF MovesInv
  <2>1. pc[u] = "rts_cas" /\ seen'[u] = seen[u] /\ next'[u] = next[u]
    BY <1>2, <1>5
  <2>2. \A w \in Holders(s) : tick'[w] = tick[w]
    BY SidesOfThreads DEF Quiet, Holders
  <2>3. /\ Count(next[u].cnt)' = Count(next[u].cnt) /\ Count(seen[u].cnt)' = Count(seen[u].cnt)
        /\ Ticket(next[u].pos)' = Ticket(next[u].pos)
    BY <1>2, <2>1 DEF Count, Ticket, Quiet
  <2> QED
    BY <1>1, <1>2, <2>1, <2>2, <2>3, QuietVocabulary DEF MovesInv
<1> QED
  BY <1>2, <1>3, <1>4, <1>5

LEMMA RelaxedClaim ==
  ASSUME Inv, NEW t \in Threads, NEW l \in Nat, Claims(t, l),
         Relaxed(t) => head'[Side(t)].cnt = Add(head[Side(t)].cnt, 1)
  PROVE  RelaxedInv'
<1> SUFFICES ASSUME NEW s \in Sides, RelaxedSide(s)
             PROVE  CountsInv(s)' /\ \A u \in On(s) : ComparesInv(s, u)' /\ MovesInv(s, u)'
  BY DEF RelaxedInv, RelaxedSide, On
<1>n. TypeInv
  BY DEF Inv
<1>1. CountsInv(s) /\ \A u \in On(s) : ComparesInv(s, u) /\ MovesInv(s, u)
  BY DEF Inv, RelaxedInv
<1>2. /\ \A c : Count(c)' = Count(c)
      /\ \A p : Ticket(p)' = Ticket(p)
      /\ tail' = tail
      /\ \A u \in On(s) : u \in Threads /\ Side(u) = s
  BY SidesOfThreads DEF Claims, Count, Ticket
<1>3. \A u \in On(s) : u # t => pc'[u] = pc[u] /\ seen'[u] = seen[u] /\ next'[u] = next[u]
  BY <1>2 DEF Claims
<1>4. /\ Moved(s)' = Moved(s) /\ Claimed(s) \in Nat /\ Claimed(s)' \in Nat
      /\ Claimed(s) <= Claimed(s)' /\ l > 0
  <2>1. /\ Claimed(Side(t))' = Claimed(Side(t)) + l /\ Moved(s)' = Moved(s)
        /\ s # Side(t) => Claimed(s)' = Claimed(s)
    BY <1>n, ClaimVocabulary
  <2>2. Claimed(s) \in Nat
    BY <1>n, Numbers
  <2> QED
    BY <2>1, <2>2 DEF Claims
<1>h. \A u \in Holders(s) : u \in Threads /\ Side(u) = s
  BY <1>2 DEF Holders
<1>k. \A u \in Threads : u # t => tick'[u] = tick[u]
  BY <1>n, ClaimVocabulary
<1>5. \A u \in Holders(s)' : \/ u \in Holders(s) /\ tick'[u] = tick[u]
                             \/ u = t /\ s = Side(t) /\ tick'[u] = Claimed(s)
  <2>1. CASE s = Side(t)
    <3>1. Holders(s)' = Holders(s) \cup {t} /\ tick'[t] = Claimed(s)
      BY <1>n, <2>1, ClaimVocabulary
    <3>2. \A u \in Holders(s) : u # t => tick'[u] = tick[u]
      BY <1>h, <1>k
    <3> QED
      BY <2>1, <3>1, <3>2
  <2>2. CASE s # Side(t)
    <3>1. Holders(s)' = Holders(s)
      BY <1>n, <2>2, ClaimVocabulary
    <3>2. \A u \in Holders(s) : u # t /\ tick'[u] = tick[u]
      BY <1>h, <1>k, <2>2
    <3> QED
      BY <3>1, <3>2
  <2> QED
    BY <2>1, <2>2
<1>6. Holders(s) \subseteq Holders(s)' /\ (s = Side(t) => t \in Holders(s)')
  BY <1>n, ClaimVocabulary
<1>7. CountsInv(s)'
  <2>1. CASE s = Side(t)
    <3>1. /\ Count(head[s].cnt) \in Nat /\ Count(tail[s].cnt) \in Nat
          /\ Count(head[s].cnt) = Count(tail[s].cnt) + Cardinality(Holders(s))
          /\ Cardinality(Holders(s)) \in Nat
          /\ Count(head[s].cnt) <= Claimed(s) /\ Claimed(s) + 1 < PosMod
          /\ PosMod \in Nat /\ org \in Pos /\ head[s].cnt \in U32
      BY <1>n, CountNumbers, Constants, Numbers
    <3>2. head'[s].cnt = Add(head[s].cnt, 1)
      BY <2>1, SidesOfThreads
    <3>3. Count(head[s].cnt) + 1 < PosMod
      BY <1>4, <3>1
    <3>4. Count(Add(head[s].cnt, 1)) = Count(head[s].cnt) + 1
      BY <3>1, <3>3, CountAdd
    <3>6. Cardinality(Holders(s)') = Cardinality(Holders(s)) + 1
      BY <1>n, <2>1, ClaimVocabulary, HoldersPlus
    <3>7. Claimed(s)' = Claimed(s) + l
      BY <1>n, <2>1, ClaimVocabulary
    <3>8. /\ Count(head[s].cnt)' = Count(head[s].cnt) + 1
          /\ Count(tail[s].cnt)' = Count(tail[s].cnt)
      BY <1>2, <3>2, <3>4
    <3>9. Count(head[s].cnt) + 1 <= Claimed(s) + l
      BY <1>4, <3>1
    <3>10. Count(head[s].cnt) + 1 = Count(tail[s].cnt) + (Cardinality(Holders(s)) + 1)
      BY <3>1
    <3> QED
      BY <1>6, <2>1, <3>6, <3>7, <3>8, <3>9, <3>10 DEF CountsInv
  <2>2. CASE s # Side(t)
    <3>1. head'[s] = head[s] /\ Holders(s)' = Holders(s) /\ Claimed(s)' = Claimed(s)
      BY <1>n, <2>2, ClaimVocabulary DEF Claims
    <3> QED
      BY <1>1, <1>2, <1>4, <3>1 DEF CountsInv
  <2> QED
    BY <2>1, <2>2
<1>8. ASSUME NEW u \in On(s) PROVE ComparesInv(s, u)'
  <2>1. CASE u = t
    BY <2>1 DEF ComparesInv, Claims
  <2>2. CASE u # t
    BY <1>1, <1>2, <1>3, <2>2 DEF ComparesInv
  <2> QED
    BY <2>1, <2>2
<1>9. ASSUME NEW u \in On(s) PROVE MovesInv(s, u)'
  <2> SUFFICES ASSUME pc'[u] = "rts_cas" PROVE MovesInv(s, u)'
    BY DEF MovesInv
  <2>1. u # t /\ pc[u] = "rts_cas" /\ seen'[u] = seen[u] /\ next'[u] = next[u]
    <3>1. u # t
      BY DEF Claims
    <3> QED
      BY <1>3, <3>1
  <2>2. u \in Holders(s)
    BY <2>1 DEF Holders, Holding
  <2>3. Ticket(next[u].pos) \in Nat
    BY <1>2, <1>n, Numbers
  <2>4. /\ Count(next[u].cnt)' = Count(next[u].cnt) /\ Count(seen[u].cnt)' = Count(seen[u].cnt)
        /\ Ticket(next[u].pos)' = Ticket(next[u].pos)
    BY <1>2, <2>1
  <2>5. MovesInv(s, u)
    BY <1>1
  <2> SUFFICES ASSUME seen[u].cnt = tail[s].cnt
               PROVE  /\ Moved(s) <= Ticket(next[u].pos)
                      /\ Ticket(next[u].pos) <= Claimed(s)'
                      /\ \A w \in Holders(s)' : w # u => Ticket(next[u].pos) <= tick'[w]
                      /\ Holders(s)' = {u} => Ticket(next[u].pos) = Claimed(s)'
    BY <1>2, <1>4, <2>1, <2>4, <2>5 DEF MovesInv
  <2>6. /\ Moved(s) <= Ticket(next[u].pos) /\ Ticket(next[u].pos) <= Claimed(s)
        /\ \A w \in Holders(s) : w # u => Ticket(next[u].pos) <= tick[w]
        /\ Holders(s) = {u} => Ticket(next[u].pos) = Claimed(s)
    BY <2>1, <2>5 DEF MovesInv
  <2>7. Ticket(next[u].pos) <= Claimed(s)'
    BY <1>4, <2>3, <2>6
  <2>8. \A w \in Holders(s)' : w # u => Ticket(next[u].pos) <= tick'[w]
    BY <1>5, <2>6
  <2>9. Holders(s)' = {u} => Ticket(next[u].pos) = Claimed(s)'
    <3> SUFFICES ASSUME Holders(s)' = {u} PROVE Ticket(next[u].pos) = Claimed(s)'
      OBVIOUS
    <3>1. s # Side(t) /\ Holders(s) = {u}
      BY <1>6, <2>1, <2>2
    <3> QED
      BY <1>n, <2>6, <3>1, ClaimVocabulary
  <2> QED
    BY <2>6, <2>7, <2>8, <2>9
<1> QED
  BY <1>7, <1>8, <1>9

LEMMA RelaxedLeave ==
  ASSUME Inv, NEW t \in Threads, NEW m \in Nat, Leaves(t, m),
         Relaxed(t) => /\ pc[t] = "rts_cas" /\ tail[Side(t)] = seen[t]
                       /\ tail'[Side(t)] = next[t]
  PROVE  RelaxedInv'
<1> SUFFICES ASSUME NEW s \in Sides, RelaxedSide(s)
             PROVE  CountsInv(s)' /\ \A u \in On(s) : ComparesInv(s, u)' /\ MovesInv(s, u)'
  BY DEF RelaxedInv, RelaxedSide, On
<1>n. TypeInv
  BY DEF Inv
<1>1. CountsInv(s) /\ \A u \in On(s) : ComparesInv(s, u) /\ MovesInv(s, u)
  BY DEF Inv, RelaxedInv
<1>2. /\ \A c : Count(c)' = Count(c)
      /\ \A p : Ticket(p)' = Ticket(p)
      /\ head' = head
      /\ \A u \in On(s) : u \in Threads /\ Side(u) = s
  BY SidesOfThreads DEF Leaves, Count, Ticket
<1>3. \A u \in On(s) : u # t => /\ pc'[u] = pc[u] /\ seen'[u] = seen[u] /\ next'[u] = next[u]
                                /\ tick'[u] = tick[u]
  BY <1>2, <1>n, LeaveVocabulary
<1>4. pc'[t] = "idle" /\ Claimed(s)' = Claimed(s)
  BY <1>n, LeaveVocabulary
<1>5. CASE s # Side(t)
  <2>1. /\ tail'[s] = tail[s] /\ Holders(s)' = Holders(s) /\ Moved(s)' = Moved(s)
        /\ \A u \in On(s) : u # t
    BY <1>2, <1>5, <1>n, LeaveVocabulary DEF Leaves
  <2>2. CountsInv(s)'
    BY <1>1, <1>2, <1>4, <2>1 DEF CountsInv
  <2>3. ASSUME NEW u \in On(s) PROVE ComparesInv(s, u)'
    BY <1>1, <1>2, <1>3, <2>1 DEF ComparesInv
  <2>4. ASSUME NEW u \in On(s) PROVE MovesInv(s, u)'
    <3> SUFFICES ASSUME pc'[u] = "rts_cas" PROVE MovesInv(s, u)'
      BY DEF MovesInv
    <3>1. pc[u] = "rts_cas" /\ seen'[u] = seen[u] /\ next'[u] = next[u]
      BY <1>3, <2>1
    <3>2. \A w \in Holders(s) : tick'[w] = tick[w]
      BY <1>3, <2>1 DEF Holders
    <3>3. /\ Count(next[u].cnt)' = Count(next[u].cnt) /\ Count(seen[u].cnt)' = Count(seen[u].cnt)
          /\ Ticket(next[u].pos)' = Ticket(next[u].pos)
      BY <1>2, <3>1
    <3> QED
      BY <1>1, <1>2, <1>4, <2>1, <3>1, <3>2, <3>3 DEF MovesInv
  <2> QED
    BY <2>2, <2>3, <2>4
<1>6. CASE s = Side(t)
  <2>1. pc[t] = "rts_cas" /\ tail[s] = seen[t] /\ tail'[s] = next[t] /\ t \in On(s)
    BY <1>6, SidesOfThreads
  <2>2. /\ Count(next[t].cnt) = Count(tail[s].cnt) + 1
        /\ Holders(s) = {t} => Ticket(next[t].pos) = Claimed(s)
    BY <1>1, <2>1 DEF MovesInv
  <2>3. /\ Count(head[s].cnt) \in Nat /\ Count(tail[s].cnt) \in Nat
        /\ Count(head[s].cnt) = Count(tail[s].cnt) + Cardinality(Holders(s))
        /\ Cardinality(Holders(s)) \in Nat
        /\ Count(head[s].cnt) <= Claimed(s)
    BY CountNumbers
  <2>4. t \in Holders(s) /\ Holders(s)' = Holders(s) \ {t}
    BY <1>6, <1>n, <2>1, LeaveVocabulary DEF Holders, Holding
  <2>5. Cardinality(Holders(s)) = Cardinality(Holders(s)') + 1 /\ Cardinality(Holders(s)') \in Nat
    <3>1. Holders(s)' \subseteq Holders(s) /\ IsFiniteSet(Holders(s))
      BY <2>4, FiniteHolders
    <3>2. Cardinality(Holders(s)') \in Nat
      BY <3>1, FS_Subset, FS_CardinalityType
    <3> QED
      BY <2>4, <3>2, HoldersMinus
  <2>6. /\ Count(tail[s].cnt)' = Count(tail[s].cnt) + 1
        /\ Count(head[s].cnt)' = Count(head[s].cnt)
    BY <1>2, <2>1, <2>2
  <2>7. CountsInv(s)'
    <3>1. Count(head[s].cnt) = (Count(tail[s].cnt) + 1) + Cardinality(Holders(s)')
      BY <2>3, <2>5
    <3>2. ASSUME Holders(s)' = {}
          PROVE  Moved(s)' = Claimed(s)'
      <4>1. Holders(s) = {t}
        BY <2>4, <3>2
      <4>2. Moved(s)' = Ticket(tail'[s].pos)
        BY <1>2 DEF Moved
      <4> QED
        BY <1>4, <2>1, <2>2, <4>1, <4>2
    <3> QED
      BY <1>4, <2>3, <2>6, <3>1, <3>2 DEF CountsInv
  <2>8. ASSUME NEW u \in On(s), pc'[u] \in {"rts_head", "rts_cas"}
        PROVE  /\ u # t /\ pc[u] = pc'[u] /\ seen'[u] = seen[u] /\ next'[u] = next[u]
               /\ Count(seen[u].cnt)' = Count(seen[u].cnt) /\ Count(seen[u].cnt) \in Nat
               /\ Count(next[u].cnt)' = Count(next[u].cnt)
               /\ Count(seen[u].cnt) <= Count(tail[s].cnt)
               /\ seen[u].cnt # tail'[s].cnt
    <3>1. u # t /\ pc[u] = pc'[u] /\ seen'[u] = seen[u] /\ next'[u] = next[u]
      BY <1>3, <1>4, <2>8
    <3>2. Count(seen[u].cnt) <= Count(tail[s].cnt)
      BY <1>1, <2>8, <3>1 DEF ComparesInv
    <3>3. Count(seen[u].cnt) \in Nat
      BY <1>2, <1>n, CountType, Numbers
    <3>4. Count(tail'[s].cnt) = Count(tail[s].cnt) + 1
      BY <2>1, <2>2
    <3>5. seen[u].cnt # tail'[s].cnt
      BY <2>3, <3>2, <3>3, <3>4
    <3>6. /\ Count(seen[u].cnt)' = Count(seen[u].cnt)
          /\ Count(next[u].cnt)' = Count(next[u].cnt)
      BY <1>2, <3>1
    <3> QED
      BY <3>1, <3>2, <3>3, <3>5, <3>6
  <2>9. ASSUME NEW u \in On(s) PROVE ComparesInv(s, u)'
    BY <2>3, <2>6, <2>8 DEF ComparesInv
  <2>10. ASSUME NEW u \in On(s) PROVE MovesInv(s, u)'
    BY <1>1, <2>8 DEF MovesInv
  <2> QED
    BY <2>7, <2>9, <2>10
<1> QED
  BY <1>5, <1>6

\* The ordered tails stay covered: the claims that remain are those above m.
LEMMA CoverLeave ==
  ASSUME Inv, NEW t \in Threads, NEW m \in Nat, Leaves(t, m),
         ~Relaxed(t) => m = tick[t] + len[t]
  PROVE  CoverInv'
<1> SUFFICES ASSUME NEW s \in Sides, ~RelaxedSide(s), NEW k \in Moved(s)' .. (Claimed(s)' - 1)
             PROVE  \E u \in Holders(s)' : k \in tick'[u] .. (tick'[u] + len'[u] - 1)
  BY DEF CoverInv, RelaxedSide
<1>n. TypeInv
  BY DEF Inv
<1>1. /\ Claimed(s)' = Claimed(s) /\ Claimed(s) \in Nat /\ Moved(s) \in Nat
      /\ s = Side(t) => Moved(s)' = m /\ Moved(s) <= m
      /\ s # Side(t) => Moved(s)' = Moved(s)
  BY <1>n, LeaveVocabulary, Numbers DEF Leaves
<1>2. k \in Moved(s) .. (Claimed(s) - 1) /\ (s = Side(t) => m <= k)
  BY <1>1
<1>3. PICK u \in Holders(s) : k \in tick[u] .. (tick[u] + len[u] - 1)
  BY <1>2 DEF Inv, CoverInv
<1>4. u \in Threads /\ Side(u) = s
  BY <1>3, SidesOfThreads DEF Holders
<1>5. u # t
  <2> SUFFICES ASSUME u = t PROVE FALSE
    OBVIOUS
  <2>1. m = tick[t] + len[t] /\ m <= k
    BY <1>2, <1>4, SidesOfThreads
  <2>2. tick[t] \in Nat /\ len[t] \in Nat
    BY <1>n, Numbers
  <2> QED
    BY <1>3, <2>1, <2>2
<1>6. u \in Holders(s)' /\ tick'[u] = tick[u] /\ len'[u] = len[u]
  BY <1>3, <1>4, <1>5, <1>n, LeaveVocabulary
<1> QED
  BY <1>3, <1>6

-----------------------------------------------------------------------------
(* One lemma for each action. *)

\* The steps of t before its claim, and those that end without one.
LEMMA AskingQuiet ==
  ASSUME Inv, Quiet, NEW t \in Threads,
         \A u \in Threads : u # t => pc'[u] = pc[u] /\ old'[u] = old[u] /\ len'[u] = len[u],
         pc'[t] \in {"check", "cas"} => Ticket(old'[t].pos) <= Claimed(Side(t)),
         pc'[t] = "cas" => Ticket(old'[t].pos) + len'[t] <= Room(Side(t)),
         pc'[t] = "check" /\ Single(t) => old'[t].pos = tail[Side(t)].pos
  PROVE  AskingInv'
<1> SUFFICES ASSUME NEW u \in Threads
             PROVE  /\ pc'[u] \in {"check", "cas"} => Ticket(old[u].pos)' <= Claimed(Side(u))'
                    /\ pc'[u] = "cas" => Ticket(old[u].pos)' + len'[u] <= Room(Side(u))'
                    /\ pc'[u] = "check" /\ Single(u) => old'[u].pos = tail'[Side(u)].pos
  BY DEF AskingInv, Single
<1>1. /\ Claimed(Side(u))' = Claimed(Side(u)) /\ Room(Side(u))' = Room(Side(u))
      /\ Ticket(old[u].pos)' = Ticket(old'[u].pos) /\ tail' = tail
  BY QuietVocabulary, SidesOfThreads DEF Quiet, Ticket
<1>2. CASE u = t
  BY <1>1, <1>2
<1>3. CASE u # t
  BY <1>1, <1>3 DEF Inv, AskingInv
<1> QED
  BY <1>2, <1>3

\* How far a side has claimed, and the room it has, are within one lap.
LEMMA RoomLeft ==
  ASSUME Inv, NEW s \in Sides
  PROVE  /\ Moved(s) \in Nat /\ Claimed(s) \in Nat /\ Room(s) \in Nat
         /\ Moved(s) <= Claimed(s) /\ Claimed(s) <= Room(s) /\ Room(s) < PosMod
<1>1. /\ enq \in Nat /\ deq \in Nat /\ Freed \in Nat /\ Published \in Nat
      /\ Freed <= deq /\ deq <= Published /\ Published <= enq /\ enq <= Freed + MaxSize
      /\ enq + MaxSize < PosMod /\ MaxSize \in Nat /\ MaxSize > 0 /\ PosMod \in Nat
  BY Numbers, Constants DEF Inv, CounterOrder
<1>2. CASE s = "prod"
  <2>1. Moved(s) = Published /\ Claimed(s) = enq /\ Room(s) = Freed + MaxSize
    BY <1>2 DEF Moved, Published, Claimed, Room
  <2> QED
    BY <1>1, <2>1
<1>3. CASE s = "cons"
  <2>1. Moved(s) = Freed /\ Claimed(s) = deq /\ Room(s) = Published
    BY <1>3 DEF Moved, Freed, Claimed, Room
  <2> QED
    BY <1>1, <2>1
<1> QED
  BY <1>2, <1>3 DEF Sides

\* The unsigned differences of lines 81, 89, 127, 165 and 171 are the room that
\* is left after the head the call has loaded.
LEMMA AvailableIs ==
  ASSUME Inv, NEW t \in Threads, pc[t] = "check"
  PROVE  /\ Available(t) = Room(Side(t)) - Ticket(old[t].pos)
         /\ Ticket(old[t].pos) \in Nat /\ Ticket(old[t].pos) <= Claimed(Side(t))
<1>1. /\ org \in Pos /\ tail["prod"].pos \in U32 /\ tail["cons"].pos \in U32
      /\ old[t].pos \in U32 /\ Ticket(old[t].pos) \in Nat
  BY Numbers DEF Inv, Sides
<1>2. Ticket(old[t].pos) <= Claimed(Side(t))
  BY DEF Inv, AskingInv
<1>3. /\ Side(t) \in Sides /\ Claimed(Side(t)) \in Nat /\ Room(Side(t)) \in Nat
      /\ Claimed(Side(t)) <= Room(Side(t)) /\ Room(Side(t)) < PosMod
  BY RoomLeft, SidesOfThreads
<1>4. Ticket(old[t].pos) <= Room(Side(t))
  BY <1>1, <1>2, <1>3
<1>5. CASE t \in Producers
  <2>1. Room(Side(t)) = Ticket(tail["cons"].pos) + MaxSize
    BY <1>5 DEF Room, Side, Freed
  <2>2. Available(t) = Add(Sub(MaxSize, old[t].pos), tail["cons"].pos)
    BY <1>5 DEF Available
  <2>3. /\ Ticket(old[t].pos) <= Ticket(tail["cons"].pos) + MaxSize
        /\ Ticket(tail["cons"].pos) + MaxSize < PosMod
    BY <1>3, <1>4, <2>1
  <2>4. Available(t) = Ticket(tail["cons"].pos) + MaxSize - Ticket(old[t].pos)
    BY <1>1, <2>2, <2>3, RoomOfTickets
  <2>5. Ticket(tail["cons"].pos) \in Nat /\ MaxSize \in Nat
    BY <1>1, TicketType, Constants
  <2> QED
    BY <1>1, <1>2, <2>1, <2>4, <2>5
<1>6. CASE t \notin Producers
  <2>1. Room(Side(t)) = Ticket(tail["prod"].pos)
    BY <1>6 DEF Room, Side, Published
  <2> QED
    BY <1>1, <1>2, <1>4, <1>6, <2>1, SubOfTickets DEF Available
<1> QED
  BY <1>5, <1>6

\* A side that nobody is claiming on has its tail where its claims end.
LEMMA CaughtUp ==
  ASSUME Inv, NEW s \in Sides, Holders(s) = {}
  PROVE  Moved(s) = Claimed(s)
<1>1. CASE RelaxedSide(s)
  BY <1>1 DEF Inv, RelaxedInv, CountsInv
<1>2. CASE ~RelaxedSide(s)
  <2>1. Moved(s) .. (Claimed(s) - 1) = {}
    BY <1>2 DEF Inv, CoverInv
  <2> QED
    BY <2>1, RoomLeft
<1> QED
  BY <1>1, <1>2

\* A single side has its thread's own claim or none.
LEMMA SingleHolder ==
  ASSUME NEW t \in Threads, Single(t), NEW u \in Holders(Side(t))
  PROVE  u = t
BY SidesOfThreads DEF Holders

LEMMA LoadStep ==
  ASSUME Inv, NEW t \in Threads, NEW n, Load(t, n), TypeInv'
  PROVE  Inv'
<1>n. TypeInv
  BY DEF Inv
<1>1. /\ pc[t] = "idle" /\ pc'[t] = "check"
      /\ \A u \in Threads : u # t => pc'[u] = pc[u] /\ old'[u] = old[u]
      /\ old'[t] = IF Single(t) THEN tail[Side(t)] ELSE head[Side(t)]
      /\ UNCHANGED <<head, tail, ring, len, done, seen, next, tick, enq, deq, org>>
  BY <1>n DEF Load, Goto, TypeInv, TypeOK
<1>2. Quiet
  BY <1>1 DEF Quiet, Holding
<1>3. Side(t) \in Sides /\ Moved(Side(t)) <= Claimed(Side(t)) /\ Claimed(Side(t)) \in Nat
  BY RoomLeft, SidesOfThreads
<1>4. Ticket(old'[t].pos) <= Claimed(Side(t))
  <2>1. CASE Single(t)
    BY <1>1, <1>3, <2>1 DEF Moved
  <2>2. CASE ~Single(t)
    BY <1>1, <1>3, <2>2 DEF Inv, HeadsInv
  <2> QED
    BY <2>1, <2>2
<1>5. pc'[t] = "check" /\ Single(t) => old'[t].pos = tail[Side(t)].pos
  BY <1>1
<1>6. AskingInv'
  BY <1>1, <1>2, <1>4, <1>5, AskingQuiet
<1>7. RelaxedInv'
  <2>1. ComparesInv(Side(t), t)' /\ MovesInv(Side(t), t)'
    BY <1>1 DEF ComparesInv, MovesInv
  <2> QED
    BY <1>1, <1>2, <2>1, RelaxedQuiet
<1> QED
  BY <1>2, <1>6, <1>7, QuietStep DEF Inv

LEMMA RefuseStep ==
  ASSUME Inv, NEW t \in Threads, Refuse(t), TypeInv'
  PROVE  Inv'
<1>n. TypeInv
  BY DEF Inv
<1>1. /\ pc[t] = "check" /\ pc'[t] = "idle"
      /\ \A u \in Threads :
           u # t => /\ pc'[u] = pc[u] /\ old'[u] = old[u] /\ len'[u] = len[u]
                    /\ done'[u] = done[u] /\ tick'[u] = tick[u]
                    /\ seen'[u] = seen[u] /\ next'[u] = next[u]
      /\ UNCHANGED <<head, tail, ring, enq, deq, org>>
  BY <1>n DEF Refuse, Return, Goto, TypeInv, TypeOK
<1>2. Quiet
  BY <1>1 DEF Quiet, Holding
<1>3. AskingInv'
  BY <1>1, <1>2, AskingQuiet
<1>4. RelaxedInv'
  <2>1. ComparesInv(Side(t), t)' /\ MovesInv(Side(t), t)'
    BY <1>1 DEF ComparesInv, MovesInv
  <2> QED
    BY <1>1, <1>2, <2>1, RelaxedQuiet
<1> QED
  BY <1>2, <1>3, <1>4, QuietStep DEF Inv

LEMMA AcceptStep ==
  ASSUME Inv, NEW t \in Threads, Accept(t), TypeInv'
  PROVE  Inv'
<1> DEFINE l == Min2(Available(t), want[t])
<1>n. TypeInv
  BY DEF Inv
<1>1. /\ pc[t] = "check" /\ ~Holding(t) /\ done[t] = 0 /\ Side(t) \in Sides
      /\ len' = [len EXCEPT ![t] = l]
      /\ \/ Single(t) /\ Goto(t, "access") /\ Claim(t, l)
         \/ ~Single(t) /\ Goto(t, "cas") /\ UNCHANGED <<tick, enq, deq>>
      /\ UNCHANGED <<head, tail, ring, want, old, done, seen, next, org>>
  BY <1>n, SidesOfThreads DEF Accept, TypeInv, Holding
<1>2. l \in Nat /\ l > 0 /\ Ticket(old[t].pos) + l <= Room(Side(t))
  <2>1. /\ Available(t) = Room(Side(t)) - Ticket(old[t].pos)
        /\ Ticket(old[t].pos) \in Nat /\ Ticket(old[t].pos) <= Claimed(Side(t))
    BY <1>1, AvailableIs
  <2>2. /\ Room(Side(t)) \in Nat /\ Claimed(Side(t)) \in Nat
        /\ Claimed(Side(t)) <= Room(Side(t))
    BY <1>1, RoomLeft
  <2>3. Available(t) # 0 /\ want[t] \in U32 /\ want[t] > 0
    BY <1>n DEF Accept, TypeInv, TypeOK
  <2>4. want[t] \in Nat
    BY <2>3, Constants
  <2> QED
    BY <2>1, <2>2, <2>3, <2>4 DEF Min2
<1> HIDE DEF l
<1>3. /\ len'[t] = l
      /\ \A u \in Threads : u # t => len'[u] = len[u]
  BY <1>1, <1>n DEF TypeInv, TypeOK
<1>4. CASE ~Single(t) /\ Goto(t, "cas") /\ UNCHANGED <<tick, enq, deq>>
  <2>1. pc'[t] = "cas" /\ \A u \in Threads : u # t => pc'[u] = pc[u]
    BY <1>4, <1>n DEF Goto, TypeInv, TypeOK
  <2>2. Quiet
    BY <1>1, <1>3, <1>4, <2>1 DEF Quiet, Holding
  <2>3. AskingInv'
    <3>1. Ticket(old'[t].pos) <= Claimed(Side(t))
      BY <1>1, AvailableIs
    <3>2. Ticket(old'[t].pos) + len'[t] <= Room(Side(t))
      BY <1>1, <1>2, <1>3
    <3> QED
      BY <1>1, <1>3, <2>1, <2>2, <3>1, <3>2, AskingQuiet
  <2>4. RelaxedInv'
    <3>1. ComparesInv(Side(t), t)' /\ MovesInv(Side(t), t)'
      BY <2>1 DEF ComparesInv, MovesInv
    <3> QED
      BY <1>1, <2>1, <2>2, <3>1, RelaxedQuiet
  <2> QED
    BY <2>2, <2>3, <2>4, QuietStep DEF Inv
<1>5. CASE Single(t) /\ Goto(t, "access") /\ Claim(t, l)
  <2>1. pc'[t] = "access" /\ \A u \in Threads : u # t => pc'[u] = pc[u]
    BY <1>5, <1>n DEF Goto, TypeInv, TypeOK
  <2>2. Holders(Side(t)) = {}
    BY <1>1, <1>5, SingleHolder DEF Holders
  <2>3. Ticket(old[t].pos) = Claimed(Side(t))
    <3>1. Moved(Side(t)) = Claimed(Side(t))
      BY <1>1, <2>2, CaughtUp
    <3>2. old[t].pos = tail[Side(t)].pos
      BY <1>1, <1>5 DEF Inv, AskingInv
    <3> QED
      BY <3>1, <3>2 DEF Moved
  <2>4. tick \in [Threads -> Nat]
    BY <1>n DEF TypeInv, TypeOK
  <2>5. Claims(t, l)
    BY <1>1, <1>2, <1>3, <1>5, <2>1, <2>3, <2>4 DEF Claims, Holding
  <2>6. RelaxedInv'
    <3>1. ~Relaxed(t)
      BY <1>5 DEF Single, Relaxed
    <3> QED
      BY <1>2, <2>5, <3>1, RelaxedClaim
  <2> QED
    BY <1>2, <2>5, <2>6, ClaimStep DEF Inv
<1> QED
  BY <1>1, <1>4, <1>5

LEMMA CasWinsStep ==
  ASSUME Inv, NEW t \in Threads, CasWins(t), TypeInv'
  PROVE  Inv'
<1>n. TypeInv
  BY DEF Inv
<1>1. /\ pc[t] = "cas" /\ ~Holding(t) /\ done[t] = 0 /\ Side(t) \in Sides
      /\ len[t] > 0 /\ len[t] \in Nat /\ len[t] \in U32 /\ ~Single(t)
  BY <1>n, Numbers, SidesOfThreads DEF CasWins, TypeInv, Holding
<1>2. /\ head[Side(t)] = old[t] /\ Claim(t, len[t])
      /\ pc'[t] = "access" /\ \A u \in Threads : u # t => pc'[u] = pc[u]
      /\ UNCHANGED <<tail, ring, want, old, len, done, seen, next, org>>
  BY <1>n DEF CasWins, Goto, TypeInv, TypeOK
<1>3. PICK c \in IF Relaxed(t) THEN {Add(old[t].cnt, 1)} ELSE JunkCnt :
        head' = [head EXCEPT ![Side(t)] = [pos |-> Add(old[t].pos, len[t]), cnt |-> c]]
  BY DEF CasWins
<1>4. /\ head'[Side(t)] = [pos |-> Add(old[t].pos, len[t]), cnt |-> c]
      /\ \A s \in Sides : s # Side(t) => head'[s] = head[s]
  BY <1>1, <1>3, <1>n DEF TypeInv, TypeOK, Sides
<1>5. Ticket(old[t].pos) = Claimed(Side(t))
  BY <1>1, <1>2 DEF Inv, HeadsInv
<1>6. Claimed(Side(t)) + len[t] <= Room(Side(t))
  BY <1>1, <1>5 DEF Inv, AskingInv
<1>7. Ticket(head'[Side(t)].pos) = Claimed(Side(t)) + len[t]
  <2>1. Claimed(Side(t)) \in Nat /\ Room(Side(t)) \in Nat /\ Room(Side(t)) < PosMod
    BY <1>1, RoomLeft
  <2>2. Ticket(old[t].pos) + len[t] < PosMod
    BY <1>1, <1>5, <1>6, <2>1, Constants
  <2>3. old[t].pos \in U32 /\ org \in Pos
    BY <1>n, Numbers
  <2> QED
    BY <1>1, <1>4, <1>5, <2>2, <2>3, TicketAdd
<1>8. tick \in [Threads -> Nat]
  BY <1>n DEF TypeInv, TypeOK
<1>9. Claims(t, len[t])
  BY <1>1, <1>2, <1>4, <1>5, <1>6, <1>7, <1>8 DEF Claims, Holding
<1>10. RelaxedInv'
  <2>1. Relaxed(t) => head'[Side(t)].cnt = Add(head[Side(t)].cnt, 1)
    BY <1>2, <1>4
  <2> QED
    BY <1>1, <1>9, <2>1, RelaxedClaim
<1> QED
  BY <1>1, <1>9, <1>10, ClaimStep DEF Inv

LEMMA CasLosesStep ==
  ASSUME Inv, NEW t \in Threads, CasLoses(t), TypeInv'
  PROVE  Inv'
<1>n. TypeInv
  BY DEF Inv
<1>1. /\ pc[t] = "cas" /\ pc'[t] = "check" /\ ~Single(t) /\ old'[t] = head[Side(t)]
      /\ \A u \in Threads : u # t => pc'[u] = pc[u] /\ old'[u] = old[u]
      /\ UNCHANGED <<head, tail, ring, want, len, done, seen, next, tick, enq, deq, org>>
  BY <1>n DEF CasLoses, Goto, TypeInv, TypeOK
<1>2. Quiet
  BY <1>1 DEF Quiet, Holding
<1>3. AskingInv'
  <2>1. Ticket(old'[t].pos) <= Claimed(Side(t))
    <3>1. Claimed(Side(t)) \in Nat
      BY RoomLeft, SidesOfThreads
    <3>2. Ticket(old'[t].pos) = Claimed(Side(t))
      BY <1>1 DEF Inv, HeadsInv
    <3> QED
      BY <3>1, <3>2
  <2> QED
    BY <1>1, <1>2, <2>1, AskingQuiet
<1>4. RelaxedInv'
  <2>1. ComparesInv(Side(t), t)' /\ MovesInv(Side(t), t)'
    BY <1>1 DEF ComparesInv, MovesInv
  <2> QED
    BY <1>1, <1>2, <2>1, RelaxedQuiet
<1> QED
  BY <1>2, <1>3, <1>4, QuietStep DEF Inv

LEMMA MoveTailLeaves ==
  ASSUME Inv, NEW t \in Threads, MoveTail(t), TypeInv'
  PROVE  Leaves(t, tick[t] + len[t])
<1> DEFINE s == Side(t)
           m == tick[t] + len[t]
<1>n. TypeInv
  BY DEF Inv
<1>1. /\ pc[t] = "publish" /\ Holding(t) /\ ~Relaxed(t) /\ s \in Sides
      /\ done[t] = len[t] /\ len[t] > 0 /\ Ticket(old[t].pos) = tick[t]
      /\ Moved(s) <= tick[t] /\ tick[t] + len[t] <= Claimed(s)
      /\ len[t] \in Nat /\ len[t] \in U32 /\ tick[t] \in Nat
      /\ Moved(s) \in Nat /\ Claimed(s) \in Nat
      /\ t \in Holders(s)
  BY <1>n, Numbers, SidesOfThreads DEF MoveTail, Holding, Holders, Inv, HoldingInv
<1>2. Moved(s) = tick[t]
  <2>1. CASE ~Single(t)
    BY <1>1, <2>1 DEF MoveTail, Moved
  <2>2. CASE Single(t)
    <3> SUFFICES ASSUME Moved(s) < tick[t] PROVE FALSE
      BY <1>1
    <3>1. Moved(s) \in Moved(s) .. (Claimed(s) - 1)
      BY <1>1
    <3>2. ~RelaxedSide(s)
      BY <1>1, SidesOfThreads
    <3>3. PICK u \in Holders(s) : Moved(s) \in tick[u] .. (tick[u] + len[u] - 1)
      BY <1>1, <3>1, <3>2 DEF Inv, CoverInv
    <3>4. u = t
      BY <2>2, <3>3, SingleHolder
    <3> QED
      BY <1>1, <3>3, <3>4
  <2> QED
    BY <2>1, <2>2
<1>3. \A u \in Holders(s) : u # t => m <= tick[u]
  <2> SUFFICES ASSUME NEW u \in Holders(s), u # t PROVE m <= tick[u]
    OBVIOUS
  <2>1. u \in Threads /\ Side(u) = s /\ Holding(u)
    BY <1>1, SidesOfThreads DEF Holders
  <2>2. Moved(s) <= tick[u] /\ len[u] > 0 /\ tick[u] \in Nat /\ len[u] \in Nat
    BY <1>n, <2>1, Numbers DEF Inv, HoldingInv
  <2>3. tick[t] + len[t] <= tick[u] \/ tick[u] + len[u] <= tick[t]
    BY <1>1, <2>1 DEF Inv, DisjointInv
  <2> QED
    BY <1>1, <1>2, <2>2, <2>3
<1>4. /\ Return(t) /\ UNCHANGED <<head, ring, enq, deq, org>>
      /\ tail' = [tail EXCEPT ![s].pos = Add(tail[s].pos, len[t])]
  BY DEF MoveTail
<1>5. /\ \A r \in Sides : r # s => tail'[r] = tail[r]
      /\ tail'[s].pos = Add(tail[s].pos, len[t])
      /\ tail' \in [Sides -> Pos]
  <2>1. tail \in [Sides -> Pos] /\ tail' \in [Sides -> Pos]
    BY <1>n DEF TypeInv, TypeOK, Sides
  <2>2. tail[s] \in Pos
    BY <1>1, <2>1
  <2> QED
    BY <1>1, <1>4, <2>1, <2>2 DEF Pos
<1>6. Ticket(tail'[s].pos) = m
  <2>1. tail[s].pos \in U32 /\ org \in Pos
    BY <1>1, <1>n, Numbers
  <2>2. Ticket(tail[s].pos) = tick[t]
    BY <1>2 DEF Moved
  <2>3. Claimed(s) < PosMod
    <3>1. Claimed(s) <= Room(s) /\ Room(s) < PosMod /\ Room(s) \in Nat
      BY <1>1, RoomLeft
    <3> QED
      BY <1>1, <3>1, Constants
  <2>4. Ticket(tail[s].pos) + len[t] < PosMod
    BY <1>1, <2>2, <2>3, Constants
  <2> QED
    BY <1>1, <1>5, <2>1, <2>2, <2>4, TicketAdd
<1>7. Moved(s) <= m /\ m <= Claimed(s)
  BY <1>1
<1> QED
  BY <1>1, <1>3, <1>4, <1>5, <1>6, <1>7 DEF Leaves

LEMMA MoveTailStep ==
  ASSUME Inv, NEW t \in Threads, MoveTail(t), TypeInv'
  PROVE  Inv'
<1> DEFINE m == tick[t] + len[t]
<1>1. m \in Nat /\ ~Relaxed(t)
  BY Numbers DEF Inv, MoveTail
<1>2. Leaves(t, m)
  BY MoveTailLeaves
<1>3. CoverInv'
  BY <1>1, <1>2, CoverLeave
<1> HIDE DEF m
<1>4. RelaxedInv'
  BY <1>1, <1>2, RelaxedLeave
<1> QED
  BY <1>1, <1>2, <1>3, <1>4, LeaveStep DEF Inv

\* rts_update_ht reads the tail, at first and when its CAS has failed.
LEMMA RtsTailStep ==
  ASSUME Inv, NEW t \in Threads, RtsLoadTail(t) \/ RtsCasLoses(t), TypeInv'
  PROVE  Inv'
<1>n. TypeInv
  BY DEF Inv
<1>1. /\ pc[t] \in {"publish", "rts_cas"} /\ pc'[t] = "rts_head"
      /\ seen'[t] = tail[Side(t)]
      /\ \A u \in Threads : u # t => pc'[u] = pc[u] /\ seen'[u] = seen[u]
      /\ UNCHANGED <<head, tail, ring, want, old, len, done, next, tick, enq, deq, org>>
  BY <1>n DEF RtsLoadTail, RtsCasLoses, Goto, TypeInv, TypeOK
<1>2. Quiet
  BY <1>1 DEF Quiet, Holding
<1>3. AskingInv'
  BY <1>1, <1>2, AskingQuiet
<1>4. RelaxedInv'
  <2>1. ComparesInv(Side(t), t)'
    <3>1. Count(tail[Side(t)].cnt)' \in Nat
      <4>1. /\ org \in Pos /\ tail[Side(t)].cnt \in U32
        BY <1>n, Numbers, SidesOfThreads
      <4>2. Count(tail[Side(t)].cnt)' = Count(tail[Side(t)].cnt)
        BY <1>1 DEF Count
      <4> QED
        BY <4>1, <4>2, CountType
    <3>2. seen'[t] = tail'[Side(t)] /\ Count(seen[t].cnt)' = Count(tail[Side(t)].cnt)'
      BY <1>1 DEF Count
    <3> QED
      BY <3>1, <3>2 DEF ComparesInv
  <2>2. MovesInv(Side(t), t)'
    BY <1>1 DEF MovesInv
  <2> QED
    BY <1>1, <1>2, <2>1, <2>2, RelaxedQuiet
<1> QED
  BY <1>2, <1>3, <1>4, QuietStep DEF Inv

\* The comparison of line 327: equal when t is the only call under way.
LEMMA RtsLoadHeadStep ==
  ASSUME Inv, NEW t \in Threads, RtsLoadHead(t), TypeInv'
  PROVE  Inv'
<1> DEFINE s == Side(t)
           c == Add(seen[t].cnt, 1)
<1>n. TypeInv
  BY DEF Inv
<1>1. /\ pc[t] = "rts_head" /\ pc'[t] = "rts_cas"
      /\ next'[t] = [pos |-> IF c = head[s].cnt THEN head[s].pos ELSE seen[t].pos, cnt |-> c]
      /\ \A u \in Threads : u # t => pc'[u] = pc[u] /\ next'[u] = next[u]
      /\ UNCHANGED <<head, tail, ring, want, old, len, done, seen, tick, enq, deq, org>>
  BY <1>n DEF RtsLoadHead, Goto, TypeInv, TypeOK
<1>2. Quiet
  BY <1>1 DEF Quiet, Holding
<1>3. AskingInv'
  BY <1>1, <1>2, AskingQuiet
<1>4. /\ Relaxed(t) /\ RelaxedSide(s) /\ s \in Sides /\ ~Single(t) /\ Holding(t)
      /\ t \in Holders(s)
  <2>1. Relaxed(t)
    BY <1>1, <1>n DEF TypeInv
  <2> QED
    BY <1>1, <2>1, SidesOfThreads DEF Holding, Holders, Relaxed, Single
<1>5. /\ Count(seen[t].cnt) <= Count(tail[s].cnt)
      /\ seen[t].cnt = tail[s].cnt => seen[t] = tail[s]
  BY <1>1, <1>4, SidesOfThreads DEF Inv, RelaxedInv, ComparesInv
<1>6. /\ Count(head[s].cnt) \in Nat /\ Count(tail[s].cnt) \in Nat
      /\ Count(head[s].cnt) = Count(tail[s].cnt) + Cardinality(Holders(s))
      /\ Cardinality(Holders(s)) \in Nat
      /\ Count(head[s].cnt) <= Claimed(s)
      /\ Claimed(s) \in Nat /\ Claimed(s) + 1 < PosMod /\ PosMod \in Nat
  BY <1>4, CountNumbers, Constants
<1>7. /\ org \in Pos /\ seen[t].cnt \in U32 /\ head[s].cnt \in U32
      /\ Count(seen[t].cnt) \in Nat
  BY <1>4, <1>n, Numbers, CountType
<1>8. Count(c) = Count(seen[t].cnt) + 1
  <2>1. Count(seen[t].cnt) + 1 < PosMod
    BY <1>5, <1>6, <1>7
  <2> QED
    BY <1>7, <2>1, CountAdd
<1>9. c \in U32
  BY <1>7, SmallNumbers, AddType
<1> HIDE DEF c
<1>10. ComparesInv(s, t)'
  <2>1. /\ Count(seen[t].cnt)' = Count(seen[t].cnt)
        /\ Count(tail[s].cnt)' = Count(tail[s].cnt)
    BY <1>1 DEF Count
  <2> QED
    BY <1>1, <1>5, <2>1 DEF ComparesInv
<1>11. MovesInv(s, t)'
  <2> DEFINE p == IF c = head[s].cnt THEN head[s].pos ELSE seen[t].pos
  <2>1. Count(next[t].cnt)' = Count(seen[t].cnt)' + 1
    <3>1. next'[t].cnt = c
      BY <1>1
    <3>2. Count(next[t].cnt)' = Count(c) /\ Count(seen[t].cnt)' = Count(seen[t].cnt)
      BY <1>1, <3>1 DEF Count
    <3> QED
      BY <1>8, <3>2
  <2>2. ASSUME seen[t].cnt = tail[s].cnt
        PROVE  /\ Moved(s) <= Ticket(p) /\ Ticket(p) <= Claimed(s)
               /\ \A u \in Holders(s) : u # t => Ticket(p) <= tick[u]
               /\ Holders(s) = {t} => Ticket(p) = Claimed(s)
    <3>0. Moved(s) \in Nat /\ Moved(s) <= Claimed(s)
      BY <1>4, RoomLeft
    <3>1. CASE c = head[s].cnt
      <4>1. Holders(s) = {t}
        <5>1. Count(head[s].cnt) = Count(tail[s].cnt) + 1
          BY <1>8, <2>2, <3>1
        <5>2. Cardinality(Holders(s)) = 1
          BY <1>6, <5>1
        <5> QED
          BY <1>4, <5>2, OneHolder
      <4>2. Ticket(p) = Claimed(s)
        BY <1>4, <3>1 DEF Inv, HeadsInv
      <4> QED
        BY <1>6, <3>0, <4>1, <4>2
    <3>2. CASE c # head[s].cnt
      <4>1. Ticket(p) = Moved(s)
        BY <1>5, <2>2, <3>2 DEF Moved
      <4>2. Holders(s) # {t}
        <5> SUFFICES ASSUME Holders(s) = {t} PROVE FALSE
          OBVIOUS
        <5>1. Cardinality(Holders(s)) = 1
          BY <1>4, OneHolder
        <5>2. Count(head[s].cnt) = Count(c)
          BY <1>6, <1>8, <2>2, <5>1
        <5> QED
          BY <1>7, <1>9, <3>2, <5>2, CountEqual
      <4>3. \A u \in Holders(s) : Moved(s) <= tick[u]
        BY <1>4, SidesOfThreads DEF Inv, HoldingInv, Holders
      <4> QED
        BY <3>0, <4>1, <4>2, <4>3
    <3> QED
      BY <3>1, <3>2
  <2>3. next'[t].pos = p
    BY <1>1
  <2> HIDE DEF p
  <2>4. Ticket(next[t].pos)' = Ticket(p)
    BY <1>1, <2>3 DEF Ticket
  <2>5. /\ Moved(s)' = Moved(s) /\ Claimed(s)' = Claimed(s) /\ Holders(s)' = Holders(s)
        /\ tick' = tick /\ tail' = tail /\ seen' = seen
    BY <1>1, <1>2, <1>4, QuietVocabulary
  <2> QED
    BY <2>1, <2>2, <2>4, <2>5 DEF MovesInv
<1>12. RelaxedInv'
  BY <1>1, <1>2, <1>10, <1>11, RelaxedQuiet
<1> QED
  BY <1>2, <1>3, <1>12, QuietStep DEF Inv

LEMMA RtsCasWinsLeaves ==
  ASSUME Inv, NEW t \in Threads, RtsCasWins(t)
  PROVE  /\ Leaves(t, Ticket(next[t].pos))
         /\ tail'[Side(t)] = next[t] /\ tail[Side(t)] = seen[t]
         /\ Relaxed(t) /\ RelaxedSide(Side(t))
<1> DEFINE s == Side(t)
           m == Ticket(next[t].pos)
<1>n. TypeInv
  BY DEF Inv
<1>1. /\ pc[t] = "rts_cas" /\ Holding(t) /\ s \in Sides /\ t \in On(s)
      /\ tail[s] = seen[t] /\ tail' = [tail EXCEPT ![s] = next[t]]
      /\ Return(t) /\ UNCHANGED <<head, ring, enq, deq, org>>
  BY SidesOfThreads DEF RtsCasWins, Holding
<1>2. Relaxed(t) /\ RelaxedSide(s)
  <2>1. Relaxed(t)
    BY <1>1, <1>n DEF TypeInv
  <2> QED
    BY <2>1, SidesOfThreads
<1>3. /\ Moved(s) <= m /\ m <= Claimed(s)
      /\ \A u \in Holders(s) : u # t => m <= tick[u]
  BY <1>1, <1>2 DEF Inv, RelaxedInv, MovesInv
<1>4. /\ m \in Nat /\ next[t] \in Pos
      /\ tail \in [Sides -> Pos]
  BY <1>n, Numbers DEF TypeInv, TypeOK, Sides
<1>5. /\ tail'[s] = next[t] /\ \A r \in Sides : r # s => tail'[r] = tail[r]
      /\ tail' \in [Sides -> Pos]
  BY <1>1, <1>4
<1>6. done[t] = len[t]
  BY <1>1 DEF Inv, HoldingInv
<1>7. Ticket(tail'[s].pos) = m
  BY <1>5
<1> HIDE DEF m
<1>8. Leaves(t, m)
  BY <1>1, <1>3, <1>5, <1>6, <1>7 DEF Leaves
<1> QED
  BY <1>1, <1>2, <1>5, <1>8 DEF m

LEMMA RtsCasWinsStep ==
  ASSUME Inv, NEW t \in Threads, RtsCasWins(t), TypeInv'
  PROVE  Inv'
<1> DEFINE m == Ticket(next[t].pos)
<1>1. m \in Nat /\ Side(t) \in Sides /\ pc[t] = "rts_cas"
  BY Numbers, SidesOfThreads DEF Inv, RtsCasWins
<1>2. /\ Leaves(t, m)
      /\ tail'[Side(t)] = next[t] /\ tail[Side(t)] = seen[t]
      /\ Relaxed(t) /\ RelaxedSide(Side(t))
  BY RtsCasWinsLeaves
<1> HIDE DEF m
<1>3. CoverInv'
  BY <1>1, <1>2, CoverLeave
<1>4. RelaxedInv'
  BY <1>1, <1>2, RelaxedLeave
<1> QED
  BY <1>1, <1>2, <1>3, <1>4, LeaveStep DEF Inv

LEMMA IdleHolders ==
  ASSUME AllIdle
  PROVE  /\ \A s \in Sides : Holders(s) = {}
         /\ \A t \in Threads : ~Holding(t) /\ Pending(t) = {}
BY SidesOfThreads DEF AllIdle, Holders, Holding, Pending

LEMMA ClearStep ==
  ASSUME Inv, clear, TypeInv'
  PROVE  Inv'
<1>n. TypeInv
  BY DEF Inv
<1>1. /\ AllIdle /\ pc' = pc /\ enq' = enq /\ deq' = enq
      /\ head' = [s \in {"prod", "cons"} |-> [head[s] EXCEPT !.pos = 0]]
      /\ tail' = [s \in {"prod", "cons"} |-> [tail[s] EXCEPT !.pos = 0]]
      /\ org' = [org EXCEPT !.pos = Sub(0, enq)]
      /\ UNCHANGED <<len, old, done, tick, seen, next>>
  BY DEF clear, locals
<1>2. /\ \A s \in Sides : Holders(s) = {} /\ Holders(s)' = {}
      /\ \A t \in Threads : pc'[t] = "idle" /\ ~Holding(t)' /\ Pending(t)' = {}
  <2>1. AllIdle'
    BY <1>1 DEF AllIdle
  <2> QED
    BY <1>1, <2>1, IdleHolders DEF AllIdle, Holders, Holding, Pending
<1>3. /\ enq \in Nat /\ deq \in Nat /\ Freed \in Nat /\ Published \in Nat
      /\ org \in Pos /\ enq < PosMod /\ enq \in U32 /\ MaxSize \in Nat
      /\ Freed = deq /\ Published = enq /\ deq <= enq /\ enq - Freed <= MaxSize
  <2>1. /\ enq \in Nat /\ deq \in Nat /\ Freed \in Nat /\ Published \in Nat
        /\ org \in Pos /\ enq + MaxSize < PosMod /\ MaxSize \in Nat /\ PosMod \in Nat
        /\ deq <= Published /\ enq <= Freed + MaxSize
    BY <1>n, Numbers, Constants DEF Inv, CounterOrder
  <2>2. Freed = deq /\ Published = enq
    BY <1>2, CaughtUp DEF Sides, Moved, Claimed, Freed, Published
  <2>3. enq \in U32 /\ enq < PosMod
    BY <2>1, Constants
  <2> QED
    BY <2>1, <2>2, <2>3
<1>4. /\ \A s \in Sides : /\ tail'[s].pos = 0 /\ head'[s].pos = 0
                          /\ tail'[s].cnt = tail[s].cnt /\ head'[s].cnt = head[s].cnt
      /\ org'.pos = Sub(0, enq) /\ org'.cnt = org.cnt
  BY <1>1, <1>3, <1>n, Numbers DEF Sides, Pos
<1>5. Ticket(0)' = enq
  BY <1>3, <1>4, Constants DEF Ticket, Sub
<1>6. \A s \in Sides : Moved(s)' = enq /\ Claimed(s)' = enq /\ Ticket(head[s].pos)' = enq
  BY <1>1, <1>4, <1>5 DEF Moved, Claimed, Ticket
<1>7. Freed' = enq /\ Published' = enq
  BY <1>6 DEF Sides, Moved, Freed, Published
<1>8. CounterOrder'
  BY <1>1, <1>3, <1>7 DEF CounterOrder
<1>9. HeadsInv'
  BY <1>6, SidesOfThreads DEF HeadsInv
<1>10. AskingInv' /\ HoldingInv' /\ DisjointInv'
  BY <1>2 DEF AskingInv, HoldingInv, DisjointInv
<1>11. CoverInv'
  <2>1. \A s \in Sides : Moved(s)' .. (Claimed(s)' - 1) = {}
    BY <1>3, <1>6
  <2> QED
    BY <2>1 DEF CoverInv, RelaxedSide
<1>12. RingInv'
  <2> DEFINE n == Sub(tail["prod"].pos, tail["cons"].pos)
             left == {to_id(Add(tail["cons"].pos, i)) : i \in 0 .. (n - 1)}
  <2>1. ring' = [i \in Slots |-> IF i \in left THEN Raw ELSE ring[i]]
    BY DEF clear
  <2>2. n = Published - Freed
    <3>1. tail["prod"].pos \in U32 /\ tail["cons"].pos \in U32
      BY <1>n, Numbers DEF Sides
    <3> QED
      BY <1>3, <3>1, SubOfTickets DEF Published, Freed
  <2>3. ASSUME NEW k \in Freed .. (enq - 1)
        PROVE  SlotOf(k) \in left
    <3>1. k - Freed \in 0 .. (n - 1) /\ k - Freed \in Nat
      BY <1>3, <2>2
    <3>2. Freed + (k - Freed) = k /\ k < PosMod
      BY <1>3, Constants
    <3>3. to_id(Add(tail["cons"].pos, k - Freed)) = SlotOf(k)
      <4>1. tail["cons"].pos \in U32
        BY <1>n, Numbers DEF Sides
      <4> QED
        BY <1>3, <3>1, <3>2, <4>1, SlotOfTicket DEF Freed
    <3> QED
      BY <3>1, <3>3
  <2>4. ASSUME NEW i \in Slots PROVE ring'[i] = Raw
    <3>1. CASE i \in left
      BY <2>1, <3>1
    <3>2. CASE i \notin left
      BY <2>1, <2>3, <3>2 DEF Inv, RingInv
    <3> QED
      BY <3>1, <3>2
  <2>5. Freed' .. (enq' - 1) = {}
    BY <1>1, <1>3, <1>7
  <2> QED
    BY <2>4, <2>5 DEF RingInv, Slots
<1>13. RelaxedInv'
  <2> SUFFICES ASSUME NEW s \in Sides, RelaxedSide(s)
               PROVE  CountsInv(s)' /\ \A u \in On(s) : ComparesInv(s, u)' /\ MovesInv(s, u)'
    BY DEF RelaxedInv, RelaxedSide, On
  <2>1. CountsInv(s)
    BY DEF Inv, RelaxedInv
  <2>2. /\ Count(head[s].cnt)' = Count(head[s].cnt)
        /\ Count(tail[s].cnt)' = Count(tail[s].cnt)
    BY <1>4 DEF Count
  <2>3. Count(head[s].cnt) <= enq
    <3>1. /\ Count(head[s].cnt) \in Nat /\ Count(head[s].cnt) <= Claimed(s)
          /\ Claimed(s) \in Nat
      BY CountNumbers
    <3>2. Claimed(s) <= enq
      BY <1>3 DEF Claimed
    <3> QED
      BY <1>3, <3>1, <3>2
  <2>4. CountsInv(s)'
    BY <1>2, <1>6, <2>1, <2>2, <2>3 DEF CountsInv
  <2>5. ASSUME NEW u \in On(s) PROVE ComparesInv(s, u)' /\ MovesInv(s, u)'
    <3>1. pc'[u] = "idle"
      BY <1>2, SidesOfThreads
    <3> QED
      BY <3>1 DEF ComparesInv, MovesInv
  <2> QED
    BY <2>4, <2>5
<1> QED
  BY <1>8, <1>9, <1>10, <1>11, <1>12, <1>13 DEF Inv

LEMMA IdleStep ==
  ASSUME Inv, UNCHANGED vars, TypeInv'
  PROVE  Inv'
<1>1. UNCHANGED <<head, tail, ring, pc, want, old, len, done, seen, next, tick, enq, deq, org>>
  BY DEF vars, locals
<1>2. Quiet
  BY <1>1 DEF Quiet, Holding
<1>3. AskingInv'
  BY <1>1 DEF Inv, AskingInv, Claimed, Room, Freed, Published, Ticket
<1>4. RelaxedInv'
  BY <1>1 DEF Inv, RelaxedInv, CountsInv, ComparesInv, MovesInv, Count, Claimed, Moved,
              Ticket, Holders, Holding
<1> QED
  BY <1>2, <1>3, <1>4, QuietStep DEF Inv

-----------------------------------------------------------------------------
(* The invariant holds. *)

LEMMA InitInv == Init => Inv
<1> SUFFICES ASSUME Init PROVE Inv
  OBVIOUS
<1>1. TypeInv
  BY InitType
<1>2. PICK s \in Starts :
        /\ tail = [prod |-> [pos |-> s, cnt |-> IF ProdMode = "RTS" THEN s ELSE 0],
                   cons |-> [pos |-> s, cnt |-> IF ConsMode = "RTS" THEN s ELSE 0]]
        /\ head = [prod |-> IF ProdMode = "SP" THEN Zero ELSE tail["prod"],
                   cons |-> IF ConsMode = "SC" THEN Zero ELSE tail["cons"]]
        /\ org = [pos |-> s, cnt |-> s]
  BY DEF Init
<1>3. /\ ring = [i \in Slots |-> Raw] /\ enq = 0 /\ deq = 0
      /\ \A t \in Threads : pc[t] = "idle"
  BY DEF Init
<1>4. org \in Pos /\ org.pos = s /\ org.cnt = s /\ s \in Nat /\ MaxSize \in Nat
  BY <1>1, <1>2, SmallNumbers, Constants DEF TypeInv, TypeOK
<1>5. Ticket(s) = 0 /\ Count(s) = 0
  BY <1>4 DEF Ticket, Count, Sub
<1>6. /\ \A r \in Sides : Moved(r) = 0 /\ Claimed(r) = 0
      /\ Freed = 0 /\ Published = 0
  <2>1. \A r \in Sides : tail[r].pos = s
    BY <1>2 DEF Sides
  <2> QED
    BY <1>3, <1>5, <2>1 DEF Sides, Moved, Claimed, Freed, Published
<1>7. /\ \A r \in Sides : Holders(r) = {}
      /\ \A t \in Threads : ~Holding(t) /\ Pending(t) = {}
  BY <1>3, IdleHolders DEF AllIdle
<1>8. CounterOrder
  BY <1>3, <1>4, <1>6 DEF CounterOrder
<1>9. HeadsInv
  <2>1. \A t \in Threads : ~Single(t) => head[Side(t)].pos = s
    BY <1>2, ThreadAssumption DEF Threads, Single, Side
  <2> QED
    BY <1>5, <1>6, <2>1, SidesOfThreads DEF HeadsInv
<1>10. AskingInv /\ HoldingInv /\ DisjointInv
  BY <1>3, <1>7 DEF AskingInv, HoldingInv, DisjointInv
<1>11. CoverInv
  <2>1. \A r \in Sides : Moved(r) .. (Claimed(r) - 1) = {}
    BY <1>6
  <2> QED
    BY <2>1 DEF CoverInv
<1>12. RingInv
  <2>1. Freed .. (enq - 1) = {}
    BY <1>3, <1>6
  <2> QED
    BY <1>3, <2>1 DEF RingInv
<1>13. RelaxedInv
  <2> SUFFICES ASSUME NEW r \in Sides, RelaxedSide(r)
               PROVE  CountsInv(r) /\ \A u \in On(r) : ComparesInv(r, u) /\ MovesInv(r, u)
    BY DEF RelaxedInv
  <2>1. head[r].cnt = s /\ tail[r].cnt = s
    BY <1>2 DEF Sides, RelaxedSide
  <2>2. Cardinality(Holders(r)) = 0
    BY <1>7, FS_EmptySet
  <2>3. CountsInv(r)
    BY <1>5, <1>6, <2>1, <2>2 DEF CountsInv
  <2>4. \A u \in On(r) : pc[u] = "idle"
    BY <1>3, SidesOfThreads
  <2> QED
    BY <2>3, <2>4 DEF ComparesInv, MovesInv
<1> QED
  BY <1>1, <1>8, <1>9, <1>10, <1>11, <1>12, <1>13 DEF Inv

LEMMA NextInv == Inv /\ [Next]_vars => Inv'
<1> SUFFICES ASSUME Inv, [Next]_vars PROVE Inv'
  OBVIOUS
<1>1. TypeInv'
  BY NextType DEF Inv
<1>2. ASSUME NEW t \in Threads, Push(t) \/ Pop(t)
      PROVE  Inv'
  BY <1>1, <1>2, LoadStep DEF Push, Pop
<1>3. ASSUME NEW t \in Threads, Construct(t) \/ Destroy(t)
      PROVE  Inv'
  BY <1>1, <1>3, AccessStep DEF Inv
<1>4. ASSUME NEW t \in Threads, Step(t)
      PROVE  Inv'
  BY <1>1, <1>3, <1>4, RefuseStep, AcceptStep, CasWinsStep, CasLosesStep, MoveTailStep,
     RtsTailStep, RtsLoadHeadStep, RtsCasWinsStep DEF Step
<1>5. CASE clear
  BY <1>1, <1>5, ClearStep
<1>6. CASE UNCHANGED vars
  BY <1>1, <1>6, IdleStep
<1> QED
  BY <1>2, <1>4, <1>5, <1>6 DEF Next, Threads

\* The inductive invariant, for any number of threads, every mode and any sizes.
THEOREM Invariant == Spec => []Inv
BY InitInv, NextInv, PTL DEF Spec

-----------------------------------------------------------------------------
(* What follows from it. *)

\* The four counters never pass one another, whatever the number of threads.
THEOREM CountersInOrder == Spec => []CounterOrder
<1>1. Inv => CounterOrder
  BY DEF Inv
<1> QED
  BY <1>1, Invariant, PTL

\* The slot a call is about to touch is that of the element it has come to.
LEMMA ReachedSlot ==
  ASSUME Inv, NEW t \in Threads, pc[t] = "access"
  PROVE  /\ tick[t] + done[t] \in Freed .. (enq - 1)
         /\ tick[t] + done[t] \in Pending(t)
         /\ Reached(t) = SlotOf(tick[t] + done[t]) /\ Reached(t) \in Slots
<1> DEFINE e == tick[t] + done[t]
<1>n. TypeInv
  BY DEF Inv
<1>1. /\ Holding(t) /\ done[t] < len[t] /\ Side(t) \in Sides
      /\ tick[t] \in Nat /\ len[t] \in Nat /\ done[t] \in Nat /\ e \in Nat
      /\ Moved(Side(t)) <= tick[t] /\ tick[t] + len[t] <= Claimed(Side(t))
      /\ Ticket(old[t].pos) = tick[t]
      /\ old[t].pos \in U32 /\ done[t] \in U32
  BY <1>n, Numbers, SidesOfThreads DEF Inv, HoldingInv, Holding, TypeInv
<1>2. e \in Pending(t)
  BY <1>1 DEF Pending
<1>3. /\ enq \in Nat /\ deq \in Nat /\ Freed \in Nat /\ Published \in Nat /\ org \in Pos
      /\ Freed <= deq /\ deq <= Published /\ Published <= enq /\ enq < PosMod
  <2>1. enq + MaxSize < PosMod /\ MaxSize \in Nat /\ PosMod \in Nat
    BY <1>n, Numbers, Constants
  <2> QED
    BY <1>n, <2>1, Numbers DEF Inv, CounterOrder
<1>4. Freed <= e /\ e < enq
  <2>1. Moved(Side(t)) <= e /\ e < Claimed(Side(t))
    <3>1. Moved(Side(t)) \in Nat /\ Claimed(Side(t)) \in Nat
      BY <1>1, <1>n, Numbers
    <3> QED
      BY <1>1, <3>1
  <2>2. CASE t \in Producers
    BY <1>1, <1>3, <2>1, <2>2 DEF Side, Moved, Claimed, Published
  <2>3. CASE t \notin Producers
    BY <1>1, <1>3, <2>1, <2>3 DEF Side, Moved, Claimed, Freed
  <2> QED
    BY <2>2, <2>3
<1>5. Reached(t) = SlotOf(e)
  <2>1. Ticket(old[t].pos) + done[t] < PosMod
    BY <1>1, <1>3, <1>4, Constants
  <2>2. to_id(Add(old[t].pos, done[t])) = SlotOf(Ticket(old[t].pos) + done[t])
    BY <1>1, <1>3, <2>1, SlotOfTicket
  <2> QED
    BY <1>1, <2>2 DEF Reached
<1>6. Reached(t) \in Slots
  <2>1. Add(old[t].pos, done[t]) \in U32
    BY <1>1, AddType
  <2>2. Add(old[t].pos, done[t]) \in Nat
    BY <2>1, Constants
  <2> QED
    BY <2>2, SlotType DEF Reached
<1> QED
  BY <1>1, <1>2, <1>3, <1>4, <1>5, <1>6, Before

\* A slot whose element is not live holds nothing.
LEMMA RingAt ==
  ASSUME Inv, NEW k \in Freed .. (enq - 1), SlotOf(k) \in Slots
  PROVE  ring[SlotOf(k)] = IF Live(k) THEN k ELSE Raw
<1>1. enq \in Nat /\ Freed \in Nat
  BY Numbers DEF Inv
<1>2. \A j \in Freed .. (enq - 1) : SlotOf(k) = SlotOf(j) => j = k
  BY <1>1, SlotsApart
<1>3. \/ \E j \in Freed .. (enq - 1) : Live(j) /\ SlotOf(k) = SlotOf(j) /\ ring[SlotOf(k)] = j
      \/ /\ ring[SlotOf(k)] = Raw
         /\ \A j \in Freed .. (enq - 1) : Live(j) => SlotOf(k) # SlotOf(j)
  BY DEF Inv, RingInv
<1> QED
  BY <1>2, <1>3

\* A consumer moves out of its slot the element its claim stands for, and never
\* an element that a producer has yet to construct, in every mode.
THEOREM ElementsInOrder == Spec => []ReadsOwnElement
<1>1. Inv => ReadsOwnElement
  <2> SUFFICES ASSUME Inv, NEW c \in Consumers, pc[c] = "access"
               PROVE  ring[Reached(c)] = tick[c] + done[c]
    BY DEF ReadsOwnElement
  <2>1. c \in Threads
    BY DEF Threads
  <2>2. Live(tick[c] + done[c])
    BY <2>1, ReachedSlot DEF Live
  <2> QED
    BY <2>1, <2>2, ReachedSlot, RingAt
<1> QED
  BY <1>1, Invariant, PTL

\* A producer never constructs an element over one that is still there.
THEOREM SlotsAreRaw == Spec => []WritesRawSlot
<1>1. Inv => WritesRawSlot
  <2> SUFFICES ASSUME Inv, NEW p \in Producers, pc[p] = "access"
               PROVE  ring[Reached(p)] = Raw
    BY DEF WritesRawSlot
  <2> DEFINE e == tick[p] + done[p]
  <2>1. p \in Threads /\ Side(p) = "prod"
    BY DEF Threads, Side
  <2>2. e \in Pending(p) /\ e \in Freed .. (enq - 1)
    BY <2>1, ReachedSlot
  <2>3. \A c \in Consumers : e \notin Pending(c)
    <3> SUFFICES ASSUME NEW c \in Consumers, e \in Pending(c) PROVE FALSE
      OBVIOUS
    <3>1. c \in Threads /\ Side(c) = "cons"
      BY ThreadAssumption DEF Threads, Side
    <3>2. e < deq /\ e \in Nat
      BY <3>1, PendingRange DEF Inv, Claimed
    <3>3. Published <= e
      BY <2>1, <2>2, PendingRange DEF Inv, Moved, Published
    <3>4. deq <= Published /\ deq \in Nat /\ Published \in Nat
      BY Numbers DEF Inv, CounterOrder
    <3> QED
      BY <3>2, <3>3, <3>4
  <2>4. ~Live(e)
    BY <2>2, <2>3 DEF Live
  <2> QED
    BY <2>1, <2>4, ReachedSlot, RingAt
<1> QED
  BY <1>1, Invariant, PTL

\* An idle queue has nothing half-published.
LEMMA QuietIsExact == Inv => QuiescentExact
<1> SUFFICES ASSUME Inv, AllIdle
             PROVE  /\ Published = enq /\ Freed = deq
                    /\ \A k \in deq .. (enq - 1) : ring[SlotOf(k)] = k
                    /\ \A s \in Slots : ring[s] # Raw => \E k \in deq .. (enq - 1) : s = SlotOf(k)
  BY DEF QuiescentExact
<1>1. Published = enq /\ Freed = deq
  BY IdleHolders, CaughtUp DEF Sides, Moved, Claimed, Freed, Published
<1>2. \A t \in Threads : Pending(t) = {}
  BY IdleHolders
<1>3. ASSUME NEW k \in deq .. (enq - 1)
      PROVE  ring[SlotOf(k)] = k
  <2>1. Live(k)
    BY <1>2 DEF Live, Threads
  <2>2. SlotOf(k) \in Slots
    <3>1. k \in U32 /\ org.pos \in U32 /\ U32 \subseteq Nat
      <4>1. enq \in Nat /\ deq \in Nat /\ enq + MaxSize < PosMod /\ org \in Pos
        BY Numbers DEF Inv
      <4> QED
        BY <4>1, Constants DEF Pos
    <3>2. PosOf(k) \in Nat
      BY <3>1, AddType DEF PosOf
    <3> QED
      BY <3>2, SlotType DEF SlotOf
  <2> QED
    BY <1>1, <2>1, <2>2, RingAt
<1>4. \A s \in Slots : ring[s] # Raw => \E k \in deq .. (enq - 1) : s = SlotOf(k)
  BY <1>1 DEF Inv, RingInv
<1> QED
  BY <1>1, <1>3, <1>4

\* When every call has returned nothing is half-published, also with the
\* relaxed tails, and the ring holds exactly what was pushed and not popped.
THEOREM QuietQueueIsExact == Spec => []QuiescentExact
BY QuietIsExact, Invariant, PTL

\* An ordered push that has returned can be popped.
THEOREM OrderedPushIsVisible == ProdMode # "RTS" => (Spec => []PushedIsVisible)
<1> SUFFICES ASSUME ProdMode # "RTS" PROVE Spec => []PushedIsVisible
  OBVIOUS
<1>1. Inv => PushedIsVisible
  <2> SUFFICES ASSUME Inv, NEW k \in Published .. (enq - 1) PROVE k \in InFlight
    BY DEF PushedIsVisible
  <2>1. k \in Moved("prod") .. (Claimed("prod") - 1) /\ ~RelaxedSide("prod") /\ "prod" \in Sides
    BY DEF Moved, Published, Claimed, RelaxedSide, Sides
  <2>2. PICK p \in Holders("prod") : k \in tick[p] .. (tick[p] + len[p] - 1)
    BY <2>1 DEF Inv, CoverInv
  <2>3. p \in {q \in Producers : pc[q] \notin {"idle", "check", "cas"}}
    BY DEF Holders, Holding, On
  <2> QED
    BY <2>2, <2>3 DEF InFlight
<1> QED
  BY <1>1, Invariant, PTL

\* A call gives up only when the queue is full, or empty, at that moment.
THEOREM RefusalsAreRight == Spec => RefusedForCause
<1>1. ASSUME Inv, NEW t \in Threads, Refuse(t)
      PROVE  IF t \in Producers THEN enq = Freed + MaxSize ELSE deq = Published
  <2>1. Available(t) = Room(Side(t)) - Ticket(old[t].pos) /\ Available(t) = 0
    BY <1>1, AvailableIs DEF Refuse
  <2>2. Ticket(old[t].pos) \in Nat /\ Ticket(old[t].pos) <= Claimed(Side(t))
    BY <1>1, AvailableIs DEF Refuse
  <2>3. /\ Claimed(Side(t)) \in Nat /\ Room(Side(t)) \in Nat
        /\ Claimed(Side(t)) <= Room(Side(t))
    BY <1>1, RoomLeft, SidesOfThreads
  <2>4. Claimed(Side(t)) = Room(Side(t))
    BY <2>1, <2>2, <2>3
  <2> QED
    BY <2>4 DEF Claimed, Room, Side
<1>2. Inv /\ [Next]_vars =>
        [\A t \in Threads :
           Refuse(t) => IF t \in Producers THEN enq = Freed + MaxSize ELSE deq = Published]_vars
  BY <1>1
<1> QED
  BY <1>2, Invariant, PTL DEF Spec, RefusedForCause
-----------------------------------------------------------------------------
(* Runs of numbers. *)

Run(a, b) == [i \in 1 .. (b - a) |-> a + i - 1]

LEMMA RunFacts ==
  ASSUME NEW a \in Nat, NEW b \in Nat, a <= b
  PROVE  /\ Run(a, b) \in Seq(Nat)
         /\ Len(Run(a, b)) = b - a
         /\ \A i \in 1 .. (b - a) : Run(a, b)[i] = a + i - 1
<1>1. b - a \in Nat /\ \A i \in 1 .. (b - a) : a + i - 1 \in Nat
  OBVIOUS
<1>2. Run(a, b) \in [1 .. (b - a) -> Nat]
  BY <1>1 DEF Run
<1>3. Run(a, b) \in Seq(Nat)
  BY <1>1, <1>2, SeqDef
<1>4. Len(Run(a, b)) = b - a
  BY <1>1, <1>2, <1>3, LenProperties
<1> QED
  BY <1>3, <1>4 DEF Run

LEMMA RunGrows ==
  ASSUME NEW a \in Nat, NEW b \in Nat, NEW n \in Nat, a <= b
  PROVE  Run(a, b) \o [i \in 1 .. n |-> b + i - 1] = Run(a, b + n)
<1> DEFINE more == [i \in 1 .. n |-> b + i - 1]
           both == Run(a, b) \o Run(b, b + n)
<1>1. more = Run(b, b + n)
  BY DEF Run
<1>2. /\ Run(a, b) \in Seq(Nat) /\ Len(Run(a, b)) = b - a
      /\ \A i \in 1 .. (b - a) : Run(a, b)[i] = a + i - 1
  BY RunFacts
<1>3. /\ Run(b, b + n) \in Seq(Nat) /\ Len(Run(b, b + n)) = n
      /\ \A i \in 1 .. n : Run(b, b + n)[i] = b + i - 1
  <2>1. b + n \in Nat /\ b <= b + n /\ (b + n) - b = n
    OBVIOUS
  <2> QED
    BY <2>1, RunFacts
<1>4. /\ Run(a, b + n) \in Seq(Nat) /\ Len(Run(a, b + n)) = b + n - a
      /\ \A i \in 1 .. (b + n - a) : Run(a, b + n)[i] = a + i - 1
  <2>1. b + n \in Nat /\ a <= b + n
    OBVIOUS
  <2> QED
    BY <2>1, RunFacts
<1>5. /\ both \in Seq(Nat) /\ Len(both) = (b - a) + n
      /\ \A i \in 1 .. ((b - a) + n) :
           both[i] = IF i <= b - a THEN Run(a, b)[i] ELSE Run(b, b + n)[i - (b - a)]
  BY <1>2, <1>3, ConcatProperties
<1>6. ASSUME NEW i \in 1 .. Len(both)
      PROVE  both[i] = Run(a, b + n)[i]
  <2>1. i \in 1 .. ((b - a) + n) /\ i \in 1 .. (b + n - a)
    BY <1>5
  <2>2. Run(a, b + n)[i] = a + i - 1
    BY <1>4, <2>1
  <2>3. CASE i <= b - a
    <3>1. i \in 1 .. (b - a)
      BY <2>1, <2>3
    <3> QED
      BY <1>2, <1>5, <2>1, <2>2, <2>3, <3>1
  <2>4. CASE ~(i <= b - a)
    <3>1. i - (b - a) \in 1 .. n
      BY <2>1, <2>4
    <3>2. b + (i - (b - a)) - 1 = a + i - 1
      BY <2>1
    <3> QED
      BY <1>3, <1>5, <2>1, <2>2, <2>4, <3>1, <3>2
  <2> QED
    BY <2>3, <2>4
<1>7. Len(both) = Len(Run(a, b + n))
  BY <1>4, <1>5
<1> HIDE DEF both
<1>8. both = Run(a, b + n)
  BY <1>4, <1>5, <1>6, <1>7, SeqEqual
<1> QED
  BY <1>1, <1>8 DEF both

LEMMA RunShrinks ==
  ASSUME NEW a \in Nat, NEW b \in Nat, NEW n \in Nat, a + n <= b
  PROVE  SubSeq(Run(a, b), n + 1, Len(Run(a, b))) = Run(a + n, b)
<1> DEFINE rest == SubSeq(Run(a, b), n + 1, b - a)
<1>1. /\ Run(a, b) \in Seq(Nat) /\ Len(Run(a, b)) = b - a
      /\ \A i \in 1 .. (b - a) : Run(a, b)[i] = a + i - 1
  BY RunFacts
<1>2. /\ Run(a + n, b) \in Seq(Nat) /\ Len(Run(a + n, b)) = b - (a + n)
      /\ \A i \in 1 .. (b - (a + n)) : Run(a + n, b)[i] = a + n + i - 1
  <2>1. a + n \in Nat
    OBVIOUS
  <2> QED
    BY <2>1, RunFacts
<1>3. \A i \in (n + 1) .. (b - a) : Run(a, b)[i] \in Nat
  BY <1>1
<1>4. /\ rest \in Seq(Nat)
      /\ Len(rest) = IF n + 1 <= b - a THEN (b - a) - (n + 1) + 1 ELSE 0
      /\ \A i \in 1 .. ((b - a) - (n + 1) + 1) : rest[i] = Run(a, b)[(n + 1) + i - 1]
  <2>1. n + 1 \in Int /\ b - a \in Int
    OBVIOUS
  <2> QED
    BY <1>3, <2>1, SubSeqProperties
<1>5. Len(rest) = b - (a + n)
  BY <1>4
<1>6. ASSUME NEW i \in 1 .. Len(rest)
      PROVE  rest[i] = Run(a + n, b)[i]
  <2>1. /\ i \in 1 .. ((b - a) - (n + 1) + 1) /\ i \in 1 .. (b - (a + n))
        /\ (n + 1) + i - 1 \in 1 .. (b - a)
    BY <1>5
  <2>2. rest[i] = a + ((n + 1) + i - 1) - 1
    BY <1>1, <1>4, <2>1
  <2>3. Run(a + n, b)[i] = a + n + i - 1
    BY <1>2, <2>1
  <2> QED
    BY <2>1, <2>2, <2>3
<1> HIDE DEF rest
<1>7. rest = Run(a + n, b)
  BY <1>2, <1>4, <1>5, <1>6, SeqEqual
<1> QED
  BY <1>1, <1>7 DEF rest

-----------------------------------------------------------------------------
(* The items are the elements from deq to Published. *)

Items == [i \in 1 .. (Published - deq) |-> ring[SlotOf(deq + i - 1)]]

LEMMA InOrder ==
  Inv => /\ Freed \in Nat /\ deq \in Nat /\ Published \in Nat /\ enq \in Nat
         /\ Freed <= deq /\ deq <= Published /\ Published <= enq
         /\ enq <= Freed + MaxSize
BY Numbers DEF Inv, CounterOrder

LEMMA ItemAt ==
  ASSUME Inv, NEW k \in deq .. (Published - 1)
  PROVE  ring[SlotOf(k)] = k
<1>1. /\ Freed \in Nat /\ deq \in Nat /\ Published \in Nat /\ enq \in Nat
      /\ Freed <= deq /\ deq <= Published /\ Published <= enq
  BY InOrder
<1>2. k \in deq .. (enq - 1) /\ k \in Freed .. (enq - 1) /\ k \in Nat /\ k < Published
  BY <1>1
<1>3. ASSUME NEW p \in Producers
      PROVE  k \notin Pending(p)
  <2> SUFFICES ASSUME k \in Pending(p) PROVE FALSE
    OBVIOUS
  <2>1. p \in Threads /\ Side(p) = "prod"
    BY DEF Threads, Side
  <2>2. Published <= k
    BY <2>1, PendingRange DEF Inv, Moved, Published
  <2> QED
    BY <1>1, <1>2, <2>2
<1>4. Live(k)
  BY <1>2, <1>3 DEF Live
<1>5. SlotOf(k) \in Slots
  <2>1. k \in U32 /\ org.pos \in U32 /\ U32 \subseteq Nat
    <3>1. enq + MaxSize < PosMod /\ org \in Pos
      BY Numbers DEF Inv
    <3> QED
      BY <1>1, <1>2, <3>1, Constants DEF Pos
  <2>2. PosOf(k) \in Nat
    BY <2>1, AddType DEF PosOf
  <2> QED
    BY <2>2, SlotType DEF SlotOf
<1> QED
  BY <1>2, <1>4, <1>5, RingAt

LEMMA ItemsAreRun == Inv => Items = Run(deq, Published)
<1> SUFFICES ASSUME Inv PROVE Items = Run(deq, Published)
  OBVIOUS
<1>1. deq \in Nat /\ Published \in Nat
  BY InOrder
<1>2. ASSUME NEW i \in 1 .. (Published - deq)
      PROVE  ring[SlotOf(deq + i - 1)] = deq + i - 1
  <2>1. deq + i - 1 \in deq .. (Published - 1)
    BY <1>1
  <2> QED
    BY <2>1, ItemAt
<1> QED
  BY <1>2 DEF Items, Run

-----------------------------------------------------------------------------
(* A step moves at most one of the four counters, and forwards. *)

Enters == enq' >= enq /\ Published' = Published /\ deq' = deq /\ Freed' = Freed
Appears == Published' >= Published /\ enq' = enq /\ deq' = deq /\ Freed' = Freed
Takes == deq' >= deq /\ enq' = enq /\ Published' = Published /\ Freed' = Freed
Frees == Freed' >= Freed /\ enq' = enq /\ Published' = Published /\ deq' = deq

LEMMA ClaimMoves ==
  ASSUME Inv, NEW t \in Threads, NEW l \in Nat, Claim(t, l), UNCHANGED <<tail, org>>
  PROVE  Enters \/ Takes
<1>1. enq \in Nat /\ deq \in Nat
  BY InOrder
<1>2. Published' = Published /\ Freed' = Freed
  BY DEF Published, Freed, Ticket
<1>3. CASE ClaimPush(t, l)
  BY <1>1, <1>2, <1>3 DEF ClaimPush, Enters
<1>4. CASE ClaimPop(t, l)
  BY <1>1, <1>2, <1>4 DEF ClaimPop, Takes
<1> QED
  BY <1>3, <1>4 DEF Claim

LEMMA LeaveMoves ==
  ASSUME Inv, NEW t \in Threads, NEW m \in Nat, Leaves(t, m)
  PROVE  Appears \/ Frees
<1>n. TypeInv
  BY DEF Inv
<1>1. /\ Moved(Side(t))' = m /\ Moved(Side(t)) <= m
      /\ \A s \in Sides : s # Side(t) => Moved(s)' = Moved(s)
      /\ enq' = enq /\ deq' = deq
  BY <1>n, LeaveVocabulary DEF Leaves
<1>2. /\ Published = Moved("prod") /\ Published' = Moved("prod")'
      /\ Freed = Moved("cons") /\ Freed' = Moved("cons")'
      /\ "prod" \in Sides /\ "cons" \in Sides
  BY DEF Published, Freed, Moved, Sides
<1>3. CASE Side(t) = "prod"
  BY <1>1, <1>2, <1>3 DEF Appears
<1>4. CASE Side(t) = "cons"
  BY <1>1, <1>2, <1>4 DEF Frees
<1> QED
  BY <1>3, <1>4 DEF Side

LEMMA QuietMoves ==
  ASSUME Inv, UNCHANGED <<tail, enq, deq, org>>
  PROVE  Enters
<1>1. Published' = Published /\ Freed' = Freed
  BY DEF Published, Freed, Ticket
<1>2. enq \in Nat
  BY InOrder
<1> QED
  BY <1>1, <1>2 DEF Enters

LEMMA StepMoves ==
  ASSUME Inv, TypeInv', NEW t \in Threads, Push(t) \/ Pop(t) \/ Step(t)
  PROVE  Enters \/ Appears \/ Takes \/ Frees
<1>n. TypeInv
  BY DEF Inv
<1>1. CASE Push(t) \/ Pop(t)
  BY <1>1, QuietMoves DEF Push, Pop, Load
<1>2. CASE Refuse(t) \/ CasLoses(t) \/ RtsLoadTail(t) \/ RtsLoadHead(t) \/ RtsCasLoses(t)
  BY <1>2, QuietMoves DEF Refuse, CasLoses, RtsLoadTail, RtsLoadHead, RtsCasLoses
<1>3. CASE Construct(t) \/ Destroy(t)
  BY <1>3, QuietMoves DEF Construct, Destroy, AccessDone
<1>4. CASE Accept(t)
  <2> DEFINE l == Min2(Available(t), want[t])
  <2>1. l \in Nat
    <3>1. Available(t) \in U32 /\ want[t] \in U32
      BY <1>n, AvailableType DEF TypeInv, TypeOK
    <3> QED
      BY <3>1, Constants DEF Min2
  <2> HIDE DEF l
  <2>2. UNCHANGED <<tail, org>> /\ (Claim(t, l) \/ UNCHANGED <<enq, deq>>)
    BY <1>4 DEF Accept, l
  <2> QED
    BY <2>1, <2>2, ClaimMoves, QuietMoves
<1>5. CASE CasWins(t)
  <2>1. len[t] \in Nat
    BY <1>n, Numbers
  <2> QED
    BY <1>5, <2>1, ClaimMoves DEF CasWins
<1>6. CASE MoveTail(t)
  <2>1. tick[t] + len[t] \in Nat
    BY <1>n, Numbers
  <2> QED
    BY <1>6, <2>1, MoveTailLeaves, LeaveMoves
<1>7. CASE RtsCasWins(t)
  <2>1. Ticket(next[t].pos) \in Nat
    BY <1>n, Numbers
  <2> QED
    BY <1>7, <2>1, RtsCasWinsLeaves, LeaveMoves
<1> QED
  BY <1>1, <1>2, <1>3, <1>4, <1>5, <1>6, <1>7 DEF Step

-----------------------------------------------------------------------------
(* Each of these is a step of BoundedFifo. *)

\* What the steps below know of two states in a row.
LEMMA TwoStates ==
  Inv /\ Inv' =>
    /\ Items = Run(deq, Published) /\ Items' = Run(deq', Published')
    /\ Freed \in Nat /\ deq \in Nat /\ Published \in Nat /\ enq \in Nat
    /\ Freed <= deq /\ deq <= Published /\ Published <= enq
    /\ Freed' \in Nat /\ deq' \in Nat /\ Published' \in Nat /\ enq' \in Nat
    /\ Freed' <= deq' /\ deq' <= Published' /\ Published' <= enq'
    /\ enq' <= Freed' + MaxSize /\ MaxSize \in Nat
<1>1. Inv' => Items' = Run(deq', Published')
  <2>1. Inv' => (Items = Run(deq, Published))'
    BY ItemsAreRun, PTL
  <2> QED
    BY <2>1 DEF Run
<1>2. Inv' => /\ Freed' \in Nat /\ deq' \in Nat /\ Published' \in Nat /\ enq' \in Nat
              /\ Freed' <= deq' /\ deq' <= Published' /\ Published' <= enq'
              /\ enq' <= Freed' + MaxSize
  <2>1. Inv' => (/\ Freed \in Nat /\ deq \in Nat /\ Published \in Nat /\ enq \in Nat
                 /\ Freed <= deq /\ deq <= Published /\ Published <= enq
                 /\ enq <= Freed + MaxSize)'
    BY InOrder, PTL
  <2> QED
    BY <2>1
<1> QED
  BY <1>1, <1>2, ItemsAreRun, InOrder, Constants

\* The variables of BoundedFifo do not change.
Stutters ==
  /\ Items' = Items /\ Published' = Published
  /\ (enq - Published)' = enq - Published /\ (deq - Freed)' = deq - Freed

LEMMA SameFifo ==
  ASSUME Stutters
  PROVE  UNCHANGED Fifo!vars
BY DEF Stutters, Fifo!vars, Items

LEMMA EntersSimulates ==
  ASSUME Inv, Inv', Enters
  PROVE  [Fifo!Next]_(Fifo!vars)
<1> DEFINE n == enq' - enq
<1>1. /\ Items = Run(deq, Published) /\ Items' = Run(deq', Published')
      /\ Freed \in Nat /\ deq \in Nat /\ Published \in Nat /\ enq \in Nat
      /\ Freed <= deq /\ deq <= Published /\ Published <= enq
      /\ enq' \in Nat /\ enq' <= Freed + MaxSize /\ MaxSize \in Nat
      /\ Published' = Published /\ deq' = deq /\ Freed' = Freed /\ n \in Nat
      /\ enq' = enq + n
  BY TwoStates DEF Enters
<1>2. /\ Items' = Items
      /\ (enq - Published)' = (enq - Published) + n
      /\ (deq - Freed)' = deq - Freed
  BY <1>1
<1> HIDE DEF n
<1>3. Len(Items) = Published - deq
  BY <1>1, RunFacts
<1>4. CASE n = 0
  <2>1. Stutters
    BY <1>1, <1>2, <1>4 DEF Stutters
  <2> QED
    BY <2>1, SameFifo
<1>5. CASE n # 0
  <2>1. n \in 1 .. MaxSize
    BY <1>1, <1>5
  <2>2. (enq - Published) + Len(Items) + (deq - Freed) + n <= MaxSize
    BY <1>1, <1>3
  <2>3. Fifo!Enter(n)
    BY <1>1, <1>2, <2>2 DEF Fifo!Enter, Items
  <2> QED
    BY <2>1, <2>3 DEF Fifo!Next
<1> QED
  BY <1>4, <1>5

LEMMA AppearsSimulates ==
  ASSUME Inv, Inv', Appears
  PROVE  [Fifo!Next]_(Fifo!vars)
<1> DEFINE n == Published' - Published
<1>1. /\ Items = Run(deq, Published) /\ Items' = Run(deq', Published')
      /\ Freed \in Nat /\ deq \in Nat /\ Published \in Nat /\ enq \in Nat
      /\ Freed <= deq /\ deq <= Published /\ Published <= enq
      /\ Published' \in Nat /\ Published' <= enq
      /\ enq' = enq /\ deq' = deq /\ Freed' = Freed /\ n \in Nat
      /\ Published' = Published + n
  BY TwoStates DEF Appears
<1>2. /\ (enq - Published)' = (enq - Published) - n
      /\ (deq - Freed)' = deq - Freed
  BY <1>1
<1> HIDE DEF n
<1>3. Items' = Items \o [i \in 1 .. n |-> Published + i - 1]
  <2>1. Items' = Run(deq, Published + n)
    BY <1>1, Zenon
  <2>2. Run(deq, Published) \o [i \in 1 .. n |-> Published + i - 1] = Run(deq, Published + n)
    <3>1. deq \in Nat /\ Published \in Nat /\ n \in Nat /\ deq <= Published
      BY <1>1
    <3> QED
      BY <3>1, RunGrows, Zenon
  <2> QED
    BY <1>1, <2>1, <2>2, Zenon
<1>4. CASE n = 0
  <2>1. Stutters
    BY <1>1, <1>2, <1>4 DEF Stutters
  <2> QED
    BY <2>1, SameFifo
<1>5. CASE n # 0
  <2>1. n \in 1 .. (enq - Published)
    BY <1>1, <1>5
  <2>2. Fifo!Appear(n)
    BY <1>1, <1>2, <1>3 DEF Fifo!Appear, Items
  <2> QED
    BY <2>1, <2>2 DEF Fifo!Next
<1> QED
  BY <1>4, <1>5

LEMMA TakesSimulates ==
  ASSUME Inv, Inv', Takes
  PROVE  [Fifo!Next]_(Fifo!vars)
<1> DEFINE n == deq' - deq
<1>1. /\ Items = Run(deq, Published) /\ Items' = Run(deq', Published')
      /\ Freed \in Nat /\ deq \in Nat /\ Published \in Nat /\ enq \in Nat
      /\ Freed <= deq /\ deq <= Published /\ Published <= enq
      /\ deq' \in Nat /\ deq' <= Published
      /\ enq' = enq /\ Published' = Published /\ Freed' = Freed /\ n \in Nat
      /\ deq' = deq + n
  BY TwoStates DEF Takes
<1>2. /\ (enq - Published)' = enq - Published
      /\ (deq - Freed)' = (deq - Freed) + n
  BY <1>1
<1> HIDE DEF n
<1>3. Items' = SubSeq(Items, n + 1, Len(Items)) /\ Len(Items) = Published - deq
  BY <1>1, RunShrinks, RunFacts
<1>4. CASE n = 0
  <2>1. Stutters
    BY <1>1, <1>2, <1>4 DEF Stutters
  <2> QED
    BY <2>1, SameFifo
<1>5. CASE n # 0
  <2>1. n \in 1 .. Len(Items)
    BY <1>1, <1>3, <1>5
  <2>2. Fifo!Take(n)
    BY <1>1, <1>2, <1>3 DEF Fifo!Take, Items
  <2> QED
    BY <2>1, <2>2 DEF Fifo!Next, Items
<1> QED
  BY <1>4, <1>5

LEMMA FreesSimulates ==
  ASSUME Inv, Inv', Frees
  PROVE  [Fifo!Next]_(Fifo!vars)
<1> DEFINE n == Freed' - Freed
<1>1. /\ Items = Run(deq, Published) /\ Items' = Run(deq', Published')
      /\ Freed \in Nat /\ deq \in Nat /\ Published \in Nat /\ enq \in Nat
      /\ Freed' \in Nat /\ Freed' <= deq
      /\ enq' = enq /\ Published' = Published /\ deq' = deq /\ n \in Nat
      /\ Freed' = Freed + n
  BY TwoStates DEF Frees
<1>2. /\ Items' = Items
      /\ (enq - Published)' = enq - Published
      /\ (deq - Freed)' = (deq - Freed) - n
  BY <1>1
<1> HIDE DEF n
<1>3. CASE n = 0
  <2>1. Stutters
    BY <1>1, <1>2, <1>3 DEF Stutters
  <2> QED
    BY <2>1, SameFifo
<1>4. CASE n # 0
  <2>1. n \in 1 .. (deq - Freed)
    BY <1>1, <1>4
  <2>2. Fifo!Leave(n)
    BY <1>1, <1>2 DEF Fifo!Leave, Items
  <2> QED
    BY <2>1, <2>2 DEF Fifo!Next
<1> QED
  BY <1>3, <1>4

LEMMA ClearSimulates ==
  ASSUME Inv, Inv', clear
  PROVE  [Fifo!Next]_(Fifo!vars)
<1>1. /\ Items = Run(deq, Published) /\ Items' = Run(deq', Published')
      /\ Freed \in Nat /\ deq \in Nat /\ Published \in Nat /\ enq \in Nat
  BY TwoStates
<1>2. AllIdle /\ AllIdle' /\ enq' = enq /\ deq' = enq
  BY DEF clear, AllIdle, locals
<1>3. Published = enq /\ Freed = deq
  BY <1>2, QuietIsExact DEF QuiescentExact
<1>4. Published' = enq /\ Freed' = enq
  <2>1. Inv' => QuiescentExact'
    BY QuietIsExact, PTL
  <2> QED
    BY <1>2, <2>1 DEF QuiescentExact
<1>5. Items' = <<>>
  <2>1. enq \in Nat /\ enq <= enq /\ enq - enq = 0
    BY <1>1
  <2>2. Run(enq, enq) \in Seq(Nat) /\ Len(Run(enq, enq)) = 0
    BY <2>1, RunFacts
  <2> QED
    BY <1>1, <1>2, <1>4, <2>2, EmptySeq
<1>6. /\ enq - Published = 0 /\ deq - Freed = 0
      /\ (enq - Published)' = enq - Published /\ (deq - Freed)' = deq - Freed
      /\ Published' = Published
  BY <1>1, <1>2, <1>3, <1>4
<1>7. Fifo!Clear
  BY <1>5, <1>6 DEF Fifo!Clear, Items
<1> QED
  BY <1>7 DEF Fifo!Next

LEMMA StepSimulates ==
  ASSUME Inv, Inv', [Next]_vars
  PROVE  [Fifo!Next]_(Fifo!vars)
<1>1. ASSUME NEW t \in Threads, Push(t) \/ Pop(t) \/ Step(t)
      PROVE  [Fifo!Next]_(Fifo!vars)
  <2>1. TypeInv'
    BY DEF Inv
  <2>2. Enters \/ Appears \/ Takes \/ Frees
    BY <1>1, <2>1, StepMoves
  <2> QED
    BY <2>2, EntersSimulates, AppearsSimulates, TakesSimulates, FreesSimulates
<1>2. CASE clear
  BY <1>2, ClearSimulates
<1>3. CASE UNCHANGED vars
  <2>1. UNCHANGED <<tail, enq, deq, org>>
    BY <1>3 DEF vars
  <2> QED
    BY <2>1, QuietMoves, EntersSimulates
<1> QED
  BY <1>1, <1>2, <1>3 DEF Next, Threads

\* ConQueue implements the bounded FIFO queue, whatever the modes, the sizes and
\* the number of producers and consumers: its promise to every caller at once.
THEOREM Refinement == Spec => ImplementsFifo
<1>1. Init => Fifo!Init
  <2> SUFFICES ASSUME Init PROVE Fifo!Init
    OBVIOUS
  <2>1. Inv /\ AllIdle /\ enq = 0 /\ deq = 0
    BY InitInv DEF Init, AllIdle
  <2>2. Published = 0 /\ Freed = 0
    BY <2>1, QuietIsExact DEF QuiescentExact
  <2>3. Items = <<>>
    <3>1. Run(0, 0) \in Seq(Nat) /\ Len(Run(0, 0)) = 0
      BY RunFacts
    <3> QED
      BY <2>1, <2>2, <3>1, ItemsAreRun, EmptySeq
  <2> QED
    BY <2>1, <2>2, <2>3 DEF Fifo!Init, Items
<1>2. Inv /\ Inv' /\ [Next]_vars => [Fifo!Next]_(Fifo!vars)
  BY StepSimulates
<1> QED
  BY <1>1, <1>2, Invariant, PTL DEF Spec, ImplementsFifo, Fifo!Spec
=============================================================================
