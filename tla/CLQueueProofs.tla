---------------------------- MODULE CLQueueProofs ----------------------------
(***************************************************************************)
(* Theorems about CLQueue, for any number of threads, lines, slots and     *)
(* values of a flag. They say what the queue needs of the behaviour it is  *)
(* in: no call lapped but by the next one (NotLapped) for the flags of a   *)
(* line to have one writer each; room for each of several producers that   *)
(* claims and an element for each of several consumers (ClaimsBacked), and *)
(* a full line that a single producer sees (FullIsSeen), for the FIFO.     *)
(* None can be left out: there are behaviours that break each of them, and *)
(* the promise with it (README, section 5). One producer and one consumer  *)
(* need only the last: SingleIsFifo.                                       *)
(*                                                                         *)
(* A push waits until the turns of its line, hf1, agree with its count,    *)
(* hf2. LeadIsExact says what their difference is: it counts the threads   *)
(* with a position on the line, whose increment of hf2 is to come, and     *)
(* those with a position just before the line, whose increment of hf1 is   *)
(* to come. Where no call is lapped the sum is 0 for a waiting thread only *)
(* when the turn is really its own; where one is, it can be 0 too early.   *)
(*                                                                         *)
(* FlowInv adds what the counts stand for: hf2 of a line is the number of  *)
(* positions below head that lie on the line, less those that a push holds *)
(* (CountIsExact). A single push and a single pop see only their own line, *)
(* and the number of positions on a line never decreases with the          *)
(* position: that is how a line which is not full speaks for the room of   *)
(* the whole queue (SingleRoom), and one which is not empty for its stock  *)
(* (SingleStock).                                                          *)
(***************************************************************************)
EXTENDS CLQueue, FiniteSetTheorems, SequenceTheorems, TLAPS

\* The threads that have a position and have not given the turn on, and the threads
\* whose turn it was and that have not shown what they did.
WaitLabels == {"construct", "await", "take", "turn", "grant"}
TurnLabels == {"grant", "publish", "release"}
Waiting(side) == {t \in side : pc[t] \in WaitLabels}
InTurn(side) == {t \in side : pc[t] \in TurnLabels}

\* The threads with a position on a line.
OnLine(S, a, li) == {t \in S : get_li(a[t]) = li}

\* How many of the positions below k lie on a line, and how many of those below n no
\* thread of H holds.
PositionsOn(k, li) == (k + Lines - 1 - li) \div Lines
DoneOn(H, a, n, li) == PositionsOn(n, li) - Cardinality(OnLine(H, a, li))

\* The position whose turn it is, of those below n that the threads of W hold.
First(W, n) == n - Cardinality(W)

\* How far the turns of a line are ahead of its count: by one when a thread has still
\* to count on the line though its turn is over, less one when the turn is elsewhere.
Lead(W, T, a, n, li) ==
  (IF OnLine(T \ W, a, li) = {} THEN 0 ELSE 1) - (IF get_li(First(W, n)) = li THEN 0 ELSE 1)

LeadIsExact(W, T, a, n, turns, counts) ==
  /\ turns \in [LineIds -> 0 .. (FlagMod - 1)]
  /\ counts \in [LineIds -> 0 .. (FlagMod - 1)]
  /\ \A li \in LineIds : turns[li] = (counts[li] + Lead(W, T, a, n, li)) % FlagMod

OwnPositions(W, T, a, n) ==
  /\ n \in Nat
  /\ \A t \in W \cup T : a[t] \in 0 .. (n - 1)
  /\ \A t, u \in W \cup T : a[t] = a[u] => t = u

\* The positions held from First on are all held by threads that wait for the turn or
\* have it; those before it are of threads whose turn is over, one at most on a line.
TurnsInOrder(W, T, a, n) ==
  /\ IsFiniteSet(W) /\ First(W, n) \in 0 .. n
  /\ \A u \in W : a[u] >= First(W, n)
  /\ \A k \in First(W, n) .. (n - 1) : \E u \in W : a[u] = k
  /\ \A t \in T : IF t \in W THEN a[t] = First(W, n) ELSE a[t] < First(W, n)
  /\ \A t, u \in T : get_li(a[t]) = get_li(a[u]) => t = u

\* Line by line, what the threads of W do not hold are the positions before First.
LinesCounted(W, a, n) ==
  \A li \in LineIds : DoneOn(W, a, n, li) = PositionsOn(First(W, n), li)

Side(W, T, a, n, turns, counts) ==
  /\ LeadIsExact(W, T, a, n, turns, counts)
  /\ OwnPositions(W, T, a, n)
  /\ TurnsInOrder(W, T, a, n)
  /\ LinesCounted(W, a, n)

\* No call of H is lapped but by the next holder of a position.
Rounds(H, a) ==
  \A t, u \in H : a[t] + Lines <= a[u] =>
    Lines > 1 /\ ~ \E w \in H \ {t, u} : a[w] \in a[t] .. a[u]

OnlyOne(side) == \A t \in side : pc[t] # "idle" => Alone(t, side)

Labels == {"idle", "check", "cas", "construct", "turn", "grant", "publish",
           "estimate", "test", "giveup", "claim", "await", "take", "release"}

Types ==
  /\ pc \in [Threads -> Labels]
  /\ at \in [Threads -> Nat]
  /\ head \in Nat /\ tail \in Nat
  /\ dequeue_overcommit \in Nat /\ overcommit \in Nat

PushSide ==
  IF SP THEN OnlyOne(Producers)
  ELSE Side(Waiting(Producers), InTurn(Producers), at, head, hf1, hf2)

PopSide ==
  IF SC THEN OnlyOne(Consumers)
  ELSE Side(Waiting(Consumers), InTurn(Consumers), at, tail, tf1, tf2)

TurnInv == Types /\ PushSide /\ PopSide

-----------------------------------------------------------------------------
(* Remainders. *)

\* Quotient and remainder are unique.
LEMMA DivisionUnique ==
  ASSUME NEW M \in Nat, M > 0, NEW x \in Int, NEW y \in Int,
         NEW r \in 0 .. (M - 1), NEW s \in 0 .. (M - 1), M * x + r = M * y + s
  PROVE  r = s /\ x = y
<1>1. \A a, b \in Int : a > b => M * a >= M * b + M
  <2> SUFFICES ASSUME NEW a \in Int, NEW b \in Int, a > b PROVE M * a >= M * b + M
    OBVIOUS
  <2>1. PICK d \in Nat : a = b + 1 + d
    <3>1. a - b - 1 \in Nat /\ a = b + 1 + (a - b - 1)
      OBVIOUS
    <3> QED
      BY <3>1
  <2>2. M * (b + 1 + d) = M * b + M + M * d
    BY <2>1
  <2>3. M * d >= 0
    BY <2>1
  <2> QED
    BY <2>1, <2>2, <2>3
<1>2. M * x \in Int /\ M * y \in Int
  OBVIOUS
<1>3. ~(x > y) /\ ~(y > x)
  BY <1>1, <1>2
<1>4. x = y
  BY <1>3
<1> QED
  BY <1>2, <1>4

LEMMA Division ==
  ASSUME NEW M \in Nat, M > 0, NEW a \in Int
  PROVE  /\ a % M \in 0 .. (M - 1)
         /\ \E q \in Int : a = M * q + (a % M)
<1>1. a \div M \in Int /\ a = M * (a \div M) + (a % M) /\ a % M \in 0 .. (M - 1)
  OBVIOUS
<1> QED
  BY <1>1

\* A sum may be reduced before it is complete.
LEMMA SumReduced ==
  ASSUME NEW M \in Nat, M > 0, NEW a \in Int, NEW b \in Int
  PROVE  ((a % M) + b) % M = (a + b) % M
<1>1. PICK q \in Int : a = M * q + (a % M)
  BY Division
<1>2. a % M \in 0 .. (M - 1)
  BY Division
<1> DEFINE r == a % M
<1>3. r \in Int /\ r + b \in Int /\ a = M * q + r
  BY <1>1, <1>2
<1> HIDE DEF r
<1>4. PICK p \in Int : r + b = M * p + ((r + b) % M)
  BY <1>3, Division
<1>5. PICK o \in Int : a + b = M * o + ((a + b) % M)
  BY Division
<1>6. (r + b) % M \in 0 .. (M - 1) /\ (a + b) % M \in 0 .. (M - 1)
  BY <1>3, Division
<1>7. M * (q + p) = M * q + M * p /\ M * q \in Int /\ M * p \in Int /\ M * o \in Int /\ q + p \in Int
  BY <1>1, <1>4, <1>5
<1>8. M * (q + p) + ((r + b) % M) = M * o + ((a + b) % M)
  <2>1. PICK x \in Int, y \in Int, z \in Int : x = M * q /\ y = M * p /\ z = M * o /\ x + y = M * (q + p)
    BY <1>7
  <2>2. PICK u \in Int, v \in Int : u = (r + b) % M /\ v = (a + b) % M
    BY <1>6
  <2>3. r + b = y + u /\ a + b = z + v /\ a = x + r
    BY <1>3, <1>4, <1>5, <2>1, <2>2
  <2>4. (x + y) + u = z + v
    BY <1>3, <2>1, <2>2, <2>3
  <2> QED
    BY <2>1, <2>2, <2>4
<1>9. (r + b) % M = (a + b) % M
  <2>1. PICK n \in Int, w \in Int : n = q + p /\ w = o
    BY <1>7
  <2>2. PICK u \in 0 .. (M - 1), v \in 0 .. (M - 1) : u = (r + b) % M /\ v = (a + b) % M
    BY <1>6
  <2>3. M * n + u = M * w + v
    BY <1>8, <2>1, <2>2
  <2>4. u = v
    BY <2>3, DivisionUnique
  <2> QED
    BY <2>2, <2>4
<1> QED
  BY <1>9 DEF r

\* A remainder is changed when one is added or taken away.
LEMMA OneMoves ==
  ASSUME NEW M \in Nat, M > 1, NEW f \in 0 .. (M - 1)
  PROVE  (f + 1) % M # f /\ (f - 1) % M # f
<1>1. /\ M * 1 = M /\ M * 0 = 0 /\ M * (-1) = -M /\ M > 0
      /\ f + 1 \in Int /\ f - 1 \in Int
  OBVIOUS
<1>2. (f + 1) % M = IF f + 1 = M THEN 0 ELSE f + 1
  <2>1. PICK q \in Int : f + 1 = M * q + ((f + 1) % M)
    BY <1>1, Division
  <2>2. (f + 1) % M \in 0 .. (M - 1)
    BY <1>1, Division
  <2>3. CASE f + 1 = M
    BY <1>1, <2>1, <2>2, <2>3, DivisionUnique
  <2>4. CASE f + 1 # M
    <3>1. f + 1 \in 0 .. (M - 1) /\ M * 0 + (f + 1) = M * q + ((f + 1) % M)
      BY <1>1, <2>1, <2>4
    <3> QED
      BY <2>1, <2>2, <2>4, <3>1, DivisionUnique
  <2> QED
    BY <2>3, <2>4
<1>3. (f - 1) % M = IF f = 0 THEN M - 1 ELSE f - 1
  <2>1. PICK q \in Int : f - 1 = M * q + ((f - 1) % M)
    BY <1>1, Division
  <2>2. (f - 1) % M \in 0 .. (M - 1)
    BY <1>1, Division
  <2>3. CASE f = 0
    <3>1. M - 1 \in 0 .. (M - 1) /\ M * (-1) + (M - 1) = M * q + ((f - 1) % M)
      BY <1>1, <2>1, <2>3
    <3> QED
      BY <2>1, <2>2, <2>3, <3>1, DivisionUnique
  <2>4. CASE f # 0
    <3>1. f - 1 \in 0 .. (M - 1) /\ M * 0 + (f - 1) = M * q + ((f - 1) % M)
      BY <1>1, <2>1, <2>4
    <3> QED
      BY <2>1, <2>2, <2>4, <3>1, DivisionUnique
  <2> QED
    BY <2>3, <2>4
<1> QED
  BY <1>2, <1>3

LEMMA MultiplesApart ==
  ASSUME NEW M \in Nat, NEW a \in Int, NEW b \in Int, a > b
  PROVE  M * a >= M * b + M
<1>1. PICK d \in Nat : a = b + 1 + d
  <2>1. a - b - 1 \in Nat /\ a = b + 1 + (a - b - 1)
    OBVIOUS
  <2> QED
    BY <2>1
<1>2. M * (b + 1 + d) = M * b + M + M * d
  BY <1>1
<1>3. M * d >= 0
  BY <1>1
<1> QED
  BY <1>1, <1>2, <1>3

LEMMA LineOf == \A n \in Int : get_li(n) \in LineIds
  BY LinesAssumption DEF get_li, LineIds

\* Two positions of one line are a round of the lines apart.
LEMMA RoundApart ==
  ASSUME NEW x \in Int, NEW y \in Int, x < y, get_li(x) = get_li(y)
  PROVE  x + Lines <= y
<1>1. Lines \in Nat /\ Lines > 0
  BY LinesAssumption
<1>2. PICK p \in Int : x = Lines * p + (x % Lines)
  BY <1>1, Division
<1>3. PICK q \in Int : y = Lines * q + (y % Lines)
  BY <1>1, Division
<1>4. PICK r \in Int : r = x % Lines /\ r = y % Lines
  BY <1>1, Division DEF get_li
<1>5. PICK u \in Int, v \in Int : u = Lines * p /\ v = Lines * q
  BY <1>1
<1>6. u < v
  BY <1>2, <1>3, <1>4, <1>5
<1>7. p < q
  <2>1. q < p => v + Lines <= u
    BY <1>1, <1>5, MultiplesApart
  <2> QED
    BY <1>1, <1>5, <1>6, <2>1
<1>8. u + Lines <= v
  BY <1>1, <1>5, <1>7, MultiplesApart
<1> QED
  BY <1>1, <1>2, <1>3, <1>4, <1>5, <1>8
-----------------------------------------------------------------------------
(* How many of the positions below k lie on a line. *)

LEMMA DivisionIs ==
  ASSUME NEW M \in Nat, M > 0, NEW a \in Int, NEW q \in Int, NEW r \in 0 .. (M - 1), a = M * q + r
  PROVE  a \div M = q /\ a % M = r
<1>1. a \div M \in Int /\ a = M * (a \div M) + (a % M) /\ a % M \in 0 .. (M - 1)
  OBVIOUS
<1> QED
  BY <1>1, DivisionUnique

LEMMA PositionsDivided ==
  ASSUME NEW k \in Nat, NEW li \in LineIds
  PROVE  \E r \in 0 .. (Lines - 1) :
           /\ k + Lines - 1 - li = Lines * PositionsOn(k, li) + r
           /\ PositionsOn(k, li) \in Int
           /\ get_li(k) = li <=> r = Lines - 1
<1>1. Lines \in Nat /\ Lines > 0 /\ li \in 0 .. (Lines - 1)
  BY LinesAssumption DEF LineIds
<1> DEFINE x == k + Lines - 1 - li
           q == PositionsOn(k, li)
           r == x % Lines
<1>2. x \in Int
  BY <1>1
<1>3. q \in Int /\ x = Lines * q + r /\ r \in 0 .. (Lines - 1)
  BY <1>1, <1>2 DEF PositionsOn
<1>4. ASSUME r = Lines - 1 PROVE get_li(k) = li
  <2>1. k = Lines * q + li
    BY <1>1, <1>3, <1>4
  <2> HIDE DEF q
  <2> QED
    BY <1>1, <1>3, <2>1, DivisionIs DEF get_li
<1>5. ASSUME get_li(k) = li PROVE r = Lines - 1
  <2>1. PICK p \in Int : k = Lines * p + (k % Lines)
    BY <1>1, Division
  <2>2. x = Lines * p + (Lines - 1) /\ Lines - 1 \in 0 .. (Lines - 1)
    BY <1>1, <1>5, <2>1 DEF get_li
  <2> HIDE DEF x
  <2> QED
    BY <1>1, <1>2, <2>2, DivisionIs
<1> HIDE DEF q, r
<1> QED
  BY <1>3, <1>4, <1>5 DEF q

LEMMA NextPosition ==
  ASSUME NEW k \in Nat, NEW li \in LineIds
  PROVE  PositionsOn(k + 1, li) = PositionsOn(k, li) + (IF get_li(k) = li THEN 1 ELSE 0)
<1>1. Lines \in Nat /\ Lines > 0 /\ li \in 0 .. (Lines - 1)
  BY LinesAssumption DEF LineIds
<1>2. PICK q \in Int : q = PositionsOn(k, li)
  BY PositionsDivided
<1>3. PICK r \in 0 .. (Lines - 1) : /\ k + Lines - 1 - li = Lines * q + r
                                    /\ get_li(k) = li <=> r = Lines - 1
  BY <1>2, PositionsDivided
<1> DEFINE x == (k + 1) + Lines - 1 - li
<1>4. PICK m \in Int : m = Lines * q /\ Lines * (q + 1) = m + Lines
  BY <1>1
<1>5. x = m + (r + 1) /\ x \in Int
  BY <1>1, <1>3, <1>4
<1>6. PositionsOn(k + 1, li) = x \div Lines
  BY DEF PositionsOn
<1> HIDE DEF x
<1>7. CASE r = Lines - 1
  <2>1. x = Lines * (q + 1) + 0 /\ 0 \in 0 .. (Lines - 1) /\ q + 1 \in Int
    BY <1>1, <1>4, <1>5, <1>7
  <2>2. x \div Lines = q + 1
    BY <1>1, <1>5, <2>1, DivisionIs
  <2>3. get_li(k) = li
    BY <1>3, <1>7
  <2> QED
    BY <1>2, <1>6, <2>2, <2>3
<1>8. CASE r # Lines - 1
  <2>1. x = Lines * q + (r + 1) /\ r + 1 \in 0 .. (Lines - 1)
    BY <1>1, <1>4, <1>5, <1>8
  <2>2. x \div Lines = q
    BY <1>1, <1>5, <2>1, DivisionIs
  <2>3. get_li(k) # li
    BY <1>3, <1>8
  <2> QED
    BY <1>2, <1>6, <2>2, <2>3
<1> QED
  BY <1>7, <1>8

LEMMA PositionsGrow ==
  ASSUME NEW k \in Nat, NEW m \in Nat, k <= m, NEW li \in LineIds
  PROVE  PositionsOn(k, li) <= PositionsOn(m, li)
<1>1. Lines \in Nat /\ Lines > 0 /\ li \in 0 .. (Lines - 1)
  BY LinesAssumption DEF LineIds
<1>2. PICK q \in Int, p \in Int : q = PositionsOn(k, li) /\ p = PositionsOn(m, li)
  BY PositionsDivided
<1>3. PICK r \in 0 .. (Lines - 1), s \in 0 .. (Lines - 1) :
         k + Lines - 1 - li = Lines * q + r /\ m + Lines - 1 - li = Lines * p + s
  BY <1>2, PositionsDivided
<1>4. q > p => Lines * q >= Lines * p + Lines
  BY <1>1, MultiplesApart
<1>5. Lines * q \in Int /\ Lines * p \in Int
  BY <1>1
<1> QED
  BY <1>1, <1>2, <1>3, <1>4, <1>5

LEMMA PositionsBounded ==
  ASSUME NEW k \in Nat, NEW li \in LineIds
  PROVE  PositionsOn(k, li) \in 0 .. k
<1>1. Lines \in Nat /\ Lines > 0 /\ li \in 0 .. (Lines - 1)
  BY LinesAssumption DEF LineIds
<1>2. PICK q \in Int : q = PositionsOn(k, li)
  BY PositionsDivided
<1>3. PICK r \in 0 .. (Lines - 1) : k + Lines - 1 - li = Lines * q + r
  BY <1>2, PositionsDivided
<1>4. Lines * q \in Int /\ Lines * k \in Int /\ Lines * 0 = 0
  BY <1>1
<1>5. (0 > q => Lines * 0 >= Lines * q + Lines) /\ (q > k => Lines * q >= Lines * k + Lines)
  BY <1>1, MultiplesApart
<1>6. Lines * k >= k
  <2>1. PICK d \in Nat : Lines = d + 1
    <3>1. Lines - 1 \in Nat /\ Lines = (Lines - 1) + 1
      BY <1>1
    <3> QED
      BY <3>1
  <2>2. (d + 1) * k = d * k + k /\ d * k >= 0
    OBVIOUS
  <2> QED
    BY <2>1, <2>2
<1> QED
  BY <1>1, <1>2, <1>3, <1>4, <1>5, <1>6

\* A lap later a line has one position more for each of its slots.
LEMMA CapacityType == Capacity \in Nat /\ Capacity > 0
<1>1. Lines \in Nat /\ Lines > 0 /\ SlotsPerLine \in Nat /\ SlotsPerLine > 0
  BY LinesAssumption
<1> QED
  <2>1. \A x, y \in Nat : x > 0 /\ y > 0 => x * y \in Nat /\ x * y > 0
    OBVIOUS
  <2> QED
    BY <1>1, <2>1 DEF Capacity

LEMMA OneLap ==
  ASSUME NEW k \in Nat, NEW li \in LineIds
  PROVE  PositionsOn(k + Capacity, li) = PositionsOn(k, li) + SlotsPerLine
<1>1. /\ Lines \in Nat /\ Lines > 0 /\ li \in 0 .. (Lines - 1) /\ SlotsPerLine \in Nat
      /\ Capacity \in Nat /\ Capacity = Lines * SlotsPerLine
  BY LinesAssumption, CapacityType DEF LineIds, Capacity
<1>2. PICK q \in Int : q = PositionsOn(k, li)
  BY PositionsDivided
<1>3. PICK r \in 0 .. (Lines - 1) : k + Lines - 1 - li = Lines * q + r
  BY <1>2, PositionsDivided
<1>4. Lines * (q + SlotsPerLine) = Lines * q + Lines * SlotsPerLine /\ Lines * q \in Int
  BY <1>1
<1> DEFINE x == (k + Capacity) + Lines - 1 - li
<1>5. x = Lines * (q + SlotsPerLine) + r /\ x \in Int /\ q + SlotsPerLine \in Int
  BY <1>1, <1>3, <1>4
<1> HIDE DEF x
<1>6. x \div Lines = q + SlotsPerLine
  BY <1>1, <1>5, DivisionIs
<1> QED
  BY <1>2, <1>6 DEF PositionsOn, x

\* Two positions less than a lap apart do not share a slot.
LEMMA OneSlotEach ==
  ASSUME NEW n \in Nat, NEW m \in Nat, n # m, n < m + Capacity, m < n + Capacity, get_li(n) = get_li(m)
  PROVE  get_si(n) # get_si(m)
<1>1. /\ Lines \in Nat /\ Lines > 0 /\ SlotsPerLine \in Nat /\ SlotsPerLine > 0
      /\ Capacity \in Nat /\ Capacity = Lines * SlotsPerLine
  BY LinesAssumption, CapacityType DEF Capacity
<1> SUFFICES ASSUME get_si(n) = get_si(m) PROVE FALSE
  OBVIOUS
<1>2. PICK a \in Int, b \in Int, r \in 0 .. (Lines - 1) :
         a = n \div Lines /\ b = m \div Lines /\ n = Lines * a + r /\ m = Lines * b + r
  <2>1. n = Lines * (n \div Lines) + (n % Lines) /\ n \div Lines \in Int /\ n % Lines \in 0 .. (Lines - 1)
    BY <1>1
  <2>2. m = Lines * (m \div Lines) + (m % Lines) /\ m \div Lines \in Int
    BY <1>1
  <2> QED
    BY <2>1, <2>2 DEF get_li
<1>3. PICK c \in Int, d \in Int, s \in 0 .. (SlotsPerLine - 1) :
         a = SlotsPerLine * c + s /\ b = SlotsPerLine * d + s
  <2>1. a = SlotsPerLine * (a \div SlotsPerLine) + (a % SlotsPerLine)
        /\ a \div SlotsPerLine \in Int /\ a % SlotsPerLine \in 0 .. (SlotsPerLine - 1)
    BY <1>1
  <2>2. b = SlotsPerLine * (b \div SlotsPerLine) + (b % SlotsPerLine) /\ b \div SlotsPerLine \in Int
    BY <1>1
  <2>3. a % SlotsPerLine = b % SlotsPerLine
    BY <1>2 DEF get_si
  <2> QED
    BY <2>1, <2>2, <2>3
<1>4. /\ Lines * (SlotsPerLine * c + s) = Capacity * c + Lines * s
      /\ Lines * (SlotsPerLine * d + s) = Capacity * d + Lines * s
      /\ Capacity * c \in Int /\ Capacity * d \in Int /\ Lines * s \in Int
  <2>1. \A x, y, z, w \in Int : x * (y * z + w) = (x * y) * z + x * w
    OBVIOUS
  <2> QED
    BY <1>1, <2>1
<1>5. n = Capacity * c + Lines * s + r /\ m = Capacity * d + Lines * s + r
  BY <1>2, <1>3, <1>4
<1>6. (c > d => Capacity * c >= Capacity * d + Capacity) /\ (d > c => Capacity * d >= Capacity * c + Capacity)
  BY <1>1, MultiplesApart
<1>7. c # d
  BY <1>5
<1> QED
  BY <1>1, <1>4, <1>5, <1>6, <1>7
-----------------------------------------------------------------------------
(* What is done on a line: all below n, but what the threads of H hold. *)

\* How many threads a line has is a number.
LEMMA Counted ==
  ASSUME NEW S, IsFiniteSet(S), NEW a, NEW li
  PROVE  IsFiniteSet(OnLine(S, a, li)) /\ Cardinality(OnLine(S, a, li)) \in Nat
<1>1. OnLine(S, a, li) \subseteq S
  BY DEF OnLine
<1> QED
  BY <1>1, FS_Subset, FS_CardinalityType

LEMMA OneMore ==
  ASSUME NEW S, IsFiniteSet(S), NEW t, t \notin S
  PROVE  Cardinality(S \cup {t}) = Cardinality(S) + 1
  BY FS_AddElement

LEMMA OneLess ==
  ASSUME NEW S, IsFiniteSet(S), NEW t \in S
  PROVE  Cardinality(S \ {t}) = Cardinality(S) - 1
  BY FS_RemoveElement

LEMMA DoneType ==
  ASSUME NEW H, IsFiniteSet(H), NEW a, NEW n \in Nat, NEW li \in LineIds
  PROVE  /\ DoneOn(H, a, n, li) \in Int /\ PositionsOn(n, li) \in 0 .. n
         /\ DoneOn(H, a, n, li) <= PositionsOn(n, li)
<1>1. PositionsOn(n, li) \in 0 .. n
  BY PositionsBounded
<1>2. Cardinality(OnLine(H, a, li)) \in Nat
  BY Counted
<1> QED
  BY <1>1, <1>2 DEF DoneOn

LEMMA DoneSame ==
  ASSUME NEW H, NEW a, NEW b, \A u \in H : b[u] = a[u], NEW n, NEW li
  PROVE  DoneOn(H, b, n, li) = DoneOn(H, a, n, li)
<1>1. OnLine(H, b, li) = OnLine(H, a, li)
  BY DEF OnLine
<1> QED
  BY <1>1 DEF DoneOn

LEMMA DoneClaim ==
  ASSUME NEW H, IsFiniteSet(H), NEW t, t \notin H, NEW a, NEW b, NEW n \in Nat,
         \A u \in H : b[u] = a[u], b[t] = n, NEW li \in LineIds
  PROVE  DoneOn(H \cup {t}, b, n + 1, li) = DoneOn(H, a, n, li)
<1> DEFINE S == OnLine(H, a, li)
           now == OnLine(H \cup {t}, b, li)
<1>0. IsFiniteSet(S) /\ Cardinality(S) \in Nat
  BY Counted
<1>1. PICK c \in Nat : c = Cardinality(S)
  BY <1>0
<1>1a. t \notin S
  BY DEF OnLine
<1>2. PICK q \in Int : q = PositionsOn(n, li)
  BY PositionsBounded
<1>2a. DoneOn(H, a, n, li) = q - c
  BY <1>1, <1>2 DEF DoneOn
<1>2b. DoneOn(H \cup {t}, b, n + 1, li) = PositionsOn(n + 1, li) - Cardinality(now)
  BY DEF DoneOn
<1>3. CASE get_li(n) = li
  <2>1. now = S \cup {t}
    BY <1>3 DEF OnLine
  <2> HIDE DEF S, now
  <2>2. Cardinality(now) = c + 1
    BY <1>0, <1>1, <1>1a, <2>1, OneMore
  <2>3. PositionsOn(n + 1, li) = q + 1
    BY <1>2, <1>3, NextPosition
  <2> QED
    BY <1>2a, <1>2b, <2>2, <2>3
<1>4. CASE get_li(n) # li
  <2>1. now = S
    BY <1>4 DEF OnLine
  <2>2. PositionsOn(n + 1, li) = q
    BY <1>2, <1>4, NextPosition
  <2> QED
    BY <1>1, <1>2a, <1>2b, <2>1, <2>2
<1> QED
  BY <1>3, <1>4

LEMMA DoneShow ==
  ASSUME NEW H, IsFiniteSet(H), NEW t \in H, NEW a, NEW b, NEW n \in Nat,
         \A u \in H \ {t} : b[u] = a[u], NEW li \in LineIds
  PROVE  DoneOn(H \ {t}, b, n, li) = DoneOn(H, a, n, li) + (IF get_li(a[t]) = li THEN 1 ELSE 0)
<1> DEFINE S == OnLine(H, a, li)
           now == OnLine(H \ {t}, b, li)
<1>0. IsFiniteSet(S) /\ Cardinality(S) \in Nat
  BY Counted
<1>1. PICK c \in Nat : c = Cardinality(S)
  BY <1>0
<1>2. PICK q \in Int : q = PositionsOn(n, li)
  BY PositionsBounded
<1>2a. DoneOn(H, a, n, li) = q - c
  BY <1>1, <1>2 DEF DoneOn
<1>2b. DoneOn(H \ {t}, b, n, li) = q - Cardinality(now)
  BY <1>2 DEF DoneOn
<1>3. CASE get_li(a[t]) = li
  <2>1. now = S \ {t} /\ t \in S
    BY <1>3 DEF OnLine
  <2> HIDE DEF S, now
  <2>2. Cardinality(now) = c - 1
    BY <1>0, <1>1, <2>1, OneLess
  <2> QED
    BY <1>2a, <1>2b, <1>3, <2>2
<1>4. CASE get_li(a[t]) # li
  <2>1. now = S
    BY <1>4 DEF OnLine
  <2> QED
    BY <1>1, <1>2a, <1>2b, <1>4, <2>1
<1> QED
  BY <1>3, <1>4

\* Nobody holds a position: all is done.
LEMMA NoneHeld ==
  ASSUME NEW a, NEW n \in Nat, NEW li \in LineIds
  PROVE  DoneOn({}, a, n, li) = PositionsOn(n, li)
<1>1. OnLine({}, a, li) = {} /\ Cardinality({}) = 0 /\ PositionsOn(n, li) \in Int
  BY FS_EmptySet, PositionsBounded DEF OnLine
<1> QED
  BY <1>1 DEF DoneOn
-----------------------------------------------------------------------------
(* A side, whatever its threads do: a thread takes a position, its turn comes, *)
(* it gives the turn on, it shows what it did.                                 *)

\* A step that concerns none of them.
LEMMA OthersKeep ==
  ASSUME NEW W, NEW T, NEW a, NEW b, NEW n, NEW turns, NEW counts,
         Side(W, T, a, n, turns, counts), \A t \in W \cup T : b[t] = a[t]
  PROVE  Side(W, T, b, n, turns, counts)
<1>1. \A li : OnLine(T \ W, b, li) = OnLine(T \ W, a, li)
  BY DEF OnLine
<1>2. LeadIsExact(W, T, b, n, turns, counts)
  BY <1>1 DEF Side, LeadIsExact, Lead
<1>3. OwnPositions(W, T, b, n)
  BY DEF Side, OwnPositions
<1>4. TurnsInOrder(W, T, b, n)
  BY DEF Side, TurnsInOrder
<1>5. LinesCounted(W, b, n)
  BY DoneSame DEF Side, LinesCounted
<1> QED
  BY <1>2, <1>3, <1>4, <1>5 DEF Side

\* A thread takes position n.
LEMMA ClaimKeeps ==
  ASSUME NEW W, NEW T, NEW t, NEW a, NEW b, NEW n, NEW turns, NEW counts,
         Side(W, T, a, n, turns, counts), t \notin W \cup T,
         \A u \in W \cup T : b[u] = a[u], b[t] = n
  PROVE  Side(W \cup {t}, T, b, n + 1, turns, counts)
<1> DEFINE U == W \cup {t}
           m == First(W, n)
<1>1. n \in Nat /\ \A u \in W \cup T : a[u] \in 0 .. (n - 1)
  BY DEF Side, OwnPositions
<1>2. IsFiniteSet(W) /\ m \in 0 .. n
  BY DEF Side, TurnsInOrder
<1>3. IsFiniteSet(U) /\ First(U, n + 1) = m
  <2>1. IsFiniteSet(U) /\ Cardinality(U) = Cardinality(W) + 1 /\ Cardinality(W) \in Nat
    BY <1>2, FS_AddElement, FS_CardinalityType
  <2> HIDE DEF U
  <2> QED
    BY <1>1, <2>1 DEF First
<1>4. LeadIsExact(U, T, b, n + 1, turns, counts)
  <2>1. \A li : OnLine(T \ U, b, li) = OnLine(T \ W, a, li)
    BY DEF OnLine
  <2>2. \A li : Lead(U, T, b, n + 1, li) = Lead(W, T, a, n, li)
    BY <1>3, <2>1 DEF Lead
  <2> QED
    BY <2>2 DEF Side, LeadIsExact
<1>5. OwnPositions(U, T, b, n + 1)
  BY <1>1 DEF Side, OwnPositions
<1>6. TurnsInOrder(U, T, b, n + 1)
  <2>1. \A u \in U : b[u] >= m
    BY <1>1, <1>2 DEF Side, TurnsInOrder
  <2>2. \A k \in m .. n : \E u \in U : b[u] = k
    <3> SUFFICES ASSUME NEW k \in m .. n PROVE \E u \in U : b[u] = k
      OBVIOUS
    <3>1. CASE k = n
      BY <3>1
    <3>2. CASE k # n
      <4>1. k \in m .. (n - 1)
        BY <1>1, <1>2, <3>2
      <4>2. PICK u \in W : a[u] = k
        BY <4>1 DEF Side, TurnsInOrder
      <4> QED
        BY <4>2
    <3> QED
      BY <3>1, <3>2
  <2>3. \A g \in T : IF g \in U THEN b[g] = m ELSE b[g] < m
    BY DEF Side, TurnsInOrder
  <2>4. \A g, h \in T : get_li(b[g]) = get_li(b[h]) => g = h
    BY DEF Side, TurnsInOrder
  <2>5. PICK k : k = n + 1
    OBVIOUS
  <2>6. m \in 0 .. k /\ k - 1 = n /\ First(U, k) = m
    BY <1>1, <1>2, <1>3, <2>5
  <2> HIDE DEF U, m
  <2>7. TurnsInOrder(U, T, b, k)
    BY <1>3, <2>1, <2>2, <2>3, <2>4, <2>6 DEF TurnsInOrder
  <2> QED
    BY <2>5, <2>7
<1>7. LinesCounted(U, b, n + 1)
  <2>1. \A li \in LineIds : DoneOn(U, b, n + 1, li) = DoneOn(W, a, n, li)
    BY <1>1, <1>2, DoneClaim
  <2> QED
    BY <1>3, <2>1 DEF Side, LinesCounted
<1> QED
  BY <1>4, <1>5, <1>6, <1>7 DEF Side

\* A thread gives the turn to the next line.
LEMMA GrantKeeps ==
  ASSUME NEW W, NEW T, NEW t \in W \cap T, NEW a, NEW n, NEW turns, NEW counts,
         Side(W, T, a, n, turns, counts)
  PROVE  Side(W \ {t}, T, a, n, Inc(turns, get_li(a[t] + 1)), counts)
<1> DEFINE U == W \ {t}
           m == First(W, n)
           next == get_li(a[t] + 1)
<1>1. /\ n \in Nat /\ \A u \in W \cup T : a[u] \in 0 .. (n - 1)
      /\ \A u, v \in W \cup T : a[u] = a[v] => u = v
  BY DEF Side, OwnPositions
<1>2. IsFiniteSet(W) /\ m \in 0 .. n /\ a[t] = m
  BY DEF Side, TurnsInOrder
<1>3. IsFiniteSet(U) /\ First(U, n) = m + 1
  <2>1. IsFiniteSet(U) /\ Cardinality(U) = Cardinality(W) - 1 /\ Cardinality(W) \in Nat
    BY <1>2, FS_RemoveElement, FS_CardinalityType
  <2> HIDE DEF U
  <2> QED
    BY <1>1, <2>1 DEF First
<1>4. m < n /\ next = get_li(m + 1) /\ next \in LineIds
  BY <1>1, <1>2, LineOf
<1>5. U \cup T = W \cup T /\ T \ U = (T \ W) \cup {t}
  OBVIOUS
<1>6. \A g, h \in T : get_li(a[g]) = get_li(a[h]) => g = h
  BY DEF Side, TurnsInOrder
<1>7. LeadIsExact(U, T, a, n, Inc(turns, next), counts)
  <2>1. /\ turns \in [LineIds -> 0 .. (FlagMod - 1)] /\ counts \in [LineIds -> 0 .. (FlagMod - 1)]
        /\ FlagMod \in Nat /\ FlagMod > 1 /\ FlagMod > 0
    BY LinesAssumption DEF Side, LeadIsExact
  <2>2. (turns[next] + 1) % FlagMod \in 0 .. (FlagMod - 1)
    BY <1>4, <2>1, Division
  <2>3. Inc(turns, next) \in [LineIds -> 0 .. (FlagMod - 1)]
    BY <1>4, <2>1, <2>2 DEF Inc
  <2>4. ASSUME NEW li \in LineIds
        PROVE  Lead(U, T, a, n, li) = Lead(W, T, a, n, li) + (IF li = next THEN 1 ELSE 0)
    <3>1. OnLine(T \ U, a, li) = IF get_li(m) = li THEN OnLine(T \ W, a, li) \cup {t} ELSE OnLine(T \ W, a, li)
      BY <1>2, <1>5 DEF OnLine
    <3>2. get_li(m) = li => OnLine(T \ W, a, li) = {}
      BY <1>2, <1>6 DEF OnLine
    <3>3. Lead(W, T, a, n, li) = (IF OnLine(T \ W, a, li) = {} THEN 0 ELSE 1) - (IF get_li(m) = li THEN 0 ELSE 1)
      BY DEF Lead
    <3>4. Lead(U, T, a, n, li) = (IF OnLine(T \ U, a, li) = {} THEN 0 ELSE 1) - (IF get_li(m + 1) = li THEN 0 ELSE 1)
      BY <1>3 DEF Lead
    <3> HIDE DEF m, next, U
    <3> QED
      BY <1>4, <3>1, <3>2, <3>3, <3>4
  <2>5. ASSUME NEW li \in LineIds
        PROVE  Inc(turns, next)[li] = (counts[li] + Lead(U, T, a, n, li)) % FlagMod
    <3> DEFINE d == Lead(W, T, a, n, li)
    <3>1. counts[li] \in Nat /\ turns[li] = (counts[li] + d) % FlagMod
      BY <2>1 DEF Side, LeadIsExact
    <3>1a. d \in Int
      BY DEF Lead
    <3>2. Lead(U, T, a, n, li) = d + (IF li = next THEN 1 ELSE 0)
      BY <2>4
    <3>3. Inc(turns, next)[li] = IF li = next THEN (turns[li] + 1) % FlagMod ELSE turns[li]
      BY <2>1 DEF Inc
    <3> HIDE DEF d
    <3>4. PICK x \in Int : x = counts[li] + d
      BY <3>1, <3>1a
    <3>5. ((x % FlagMod) + 1) % FlagMod = (x + 1) % FlagMod
      <4>1. 1 \in Int
        OBVIOUS
      <4> QED
        BY <2>1, <3>4, <4>1, SumReduced
    <3>6. counts[li] + (d + 1) = x + 1 /\ counts[li] + (d + 0) = x
      BY <3>1, <3>1a, <3>4
    <3> QED
      BY <3>1, <3>2, <3>3, <3>4, <3>5, <3>6
  <2> QED
    BY <2>1, <2>3, <2>5 DEF LeadIsExact
<1>8. OwnPositions(U, T, a, n)
  BY DEF Side, OwnPositions
<1>9. TurnsInOrder(U, T, a, n)
  <2>1. \A u \in U : a[u] >= m + 1
    <3> SUFFICES ASSUME NEW u \in U PROVE a[u] >= m + 1
      OBVIOUS
    <3>1. a[u] >= m /\ a[u] # m /\ a[u] \in Int
      BY <1>1, <1>2 DEF Side, TurnsInOrder
    <3> QED
      BY <1>2, <3>1
  <2>2. \A k \in (m + 1) .. (n - 1) : \E u \in U : a[u] = k
    <3> SUFFICES ASSUME NEW k \in (m + 1) .. (n - 1) PROVE \E u \in U : a[u] = k
      OBVIOUS
    <3>1. k \in m .. (n - 1) /\ k # m
      BY <1>1, <1>2
    <3>2. PICK u \in W : a[u] = k
      BY <3>1 DEF Side, TurnsInOrder
    <3> QED
      BY <1>2, <3>1, <3>2
  <2>3. \A g \in T : IF g \in U THEN a[g] = m + 1 ELSE a[g] < m + 1
    <3> SUFFICES ASSUME NEW g \in T PROVE IF g \in U THEN a[g] = m + 1 ELSE a[g] < m + 1
      OBVIOUS
    <3>1. IF g \in W THEN a[g] = m ELSE a[g] < m
      BY DEF Side, TurnsInOrder
    <3>2. g \notin U
      BY <1>1, <1>2, <3>1
    <3>3. a[g] \in Int
      BY <1>1
    <3> QED
      BY <1>2, <3>1, <3>2, <3>3
  <2>4. PICK k \in 0 .. n : k = m + 1
    BY <1>1, <1>2, <1>4
  <2>5. First(U, n) = k /\ First(U, n) \in 0 .. n
    BY <1>3, <2>4
  <2> HIDE DEF U, m
  <2> QED
    BY <1>3, <1>6, <2>1, <2>2, <2>3, <2>4, <2>5 DEF TurnsInOrder
<1>10. LinesCounted(U, a, n)
  <2>1. ASSUME NEW li \in LineIds PROVE DoneOn(U, a, n, li) = PositionsOn(m + 1, li)
    <3>1. DoneOn(U, a, n, li) = DoneOn(W, a, n, li) + (IF get_li(a[t]) = li THEN 1 ELSE 0)
      <4>1. IsFiniteSet(W) /\ t \in W /\ n \in Nat /\ \A u \in W \ {t} : a[u] = a[u]
        BY <1>1, <1>2
      <4>2. DoneOn(W \ {t}, a, n, li) = DoneOn(W, a, n, li) + (IF get_li(a[t]) = li THEN 1 ELSE 0)
        BY <4>1, DoneShow
      <4> QED
        BY <4>2
    <3>2. DoneOn(W, a, n, li) = PositionsOn(m, li)
      BY DEF Side, LinesCounted
    <3>3. m \in Nat
      BY <1>1, <1>2
    <3> HIDE DEF m, U
    <3> QED
      BY <1>2, <3>1, <3>2, <3>3, NextPosition
  <2> QED
    BY <1>3, <2>1 DEF LinesCounted
<1> QED
  BY <1>7, <1>8, <1>9, <1>10 DEF Side

\* A thread that has given the turn on counts its element.
LEMMA ShowKeeps ==
  ASSUME NEW W, NEW T, NEW t \in T, t \notin W, NEW a, NEW b, NEW n, NEW turns, NEW counts,
         Side(W, T, a, n, turns, counts),
         \A u \in (W \cup T) \ {t} : b[u] = a[u]
  PROVE  Side(W, T \ {t}, b, n, turns, Inc(counts, get_li(a[t])))
<1> DEFINE U == T \ {t}
           line == get_li(a[t])
<1>1. \A u \in W \cup U : u \in W \cup T /\ b[u] = a[u]
  OBVIOUS
<1>2. n \in Nat /\ a[t] \in 0 .. (n - 1) /\ line \in LineIds
  BY LineOf DEF Side, OwnPositions
<1>3. \A g, h \in T : get_li(a[g]) = get_li(a[h]) => g = h
  BY DEF Side, TurnsInOrder
<1>4. LeadIsExact(W, U, b, n, turns, Inc(counts, line))
  <2>1. /\ turns \in [LineIds -> 0 .. (FlagMod - 1)] /\ counts \in [LineIds -> 0 .. (FlagMod - 1)]
        /\ FlagMod \in Nat /\ FlagMod > 1 /\ FlagMod > 0
    BY LinesAssumption DEF Side, LeadIsExact
  <2>2. (counts[line] + 1) % FlagMod \in 0 .. (FlagMod - 1)
    BY <1>2, <2>1, Division
  <2>3. Inc(counts, line) \in [LineIds -> 0 .. (FlagMod - 1)]
    BY <1>2, <2>1, <2>2 DEF Inc
  <2>4. ASSUME NEW li \in LineIds
        PROVE  Lead(W, U, b, n, li) = Lead(W, T, a, n, li) - (IF li = line THEN 1 ELSE 0)
    <3>1. li # line => OnLine(U \ W, b, li) = OnLine(T \ W, a, li)
      BY <1>1 DEF OnLine
    <3>2. li = line => OnLine(U \ W, b, li) = {} /\ t \in OnLine(T \ W, a, li)
      BY <1>1, <1>3 DEF OnLine
    <3> HIDE DEF U, line
    <3> QED
      BY <3>1, <3>2 DEF Lead
  <2>5. ASSUME NEW li \in LineIds
        PROVE  turns[li] = (Inc(counts, line)[li] + Lead(W, U, b, n, li)) % FlagMod
    <3> DEFINE d == Lead(W, T, a, n, li)
    <3>1. counts[li] \in Nat /\ turns[li] = (counts[li] + d) % FlagMod
      BY <2>1 DEF Side, LeadIsExact
    <3>1a. d \in Int
      BY DEF Lead
    <3>2. Lead(W, U, b, n, li) = d - (IF li = line THEN 1 ELSE 0)
      BY <2>4
    <3>3. Inc(counts, line)[li] = IF li = line THEN (counts[li] + 1) % FlagMod ELSE counts[li]
      BY <2>1 DEF Inc
    <3> HIDE DEF d
    <3>4. PICK x \in Int : x = counts[li]
      BY <3>1
    <3>5. x + 1 \in Int /\ d - 1 \in Int /\ (x + 1) + (d - 1) = x + d /\ d - 0 = d
      BY <3>1a, <3>4
    <3>6. (((x + 1) % FlagMod) + (d - 1)) % FlagMod = ((x + 1) + (d - 1)) % FlagMod
      BY <2>1, <3>5, SumReduced
    <3> QED
      BY <3>1, <3>2, <3>3, <3>4, <3>5, <3>6
  <2> QED
    BY <2>1, <2>3, <2>5 DEF LeadIsExact
<1>5. OwnPositions(W, U, b, n)
  BY <1>1 DEF Side, OwnPositions
<1>6. TurnsInOrder(W, U, b, n)
  <2>1. \A u \in W : b[u] = a[u]
    OBVIOUS
  <2>2. \A g \in U : IF g \in W THEN b[g] = First(W, n) ELSE b[g] < First(W, n)
    BY <1>1 DEF Side, TurnsInOrder
  <2>3. \A g, h \in U : get_li(b[g]) = get_li(b[h]) => g = h
    BY <1>1, <1>3
  <2> HIDE DEF U
  <2> QED
    BY <2>1, <2>2, <2>3 DEF Side, TurnsInOrder
<1>7. LinesCounted(W, b, n)
  <2>1. \A u \in W : b[u] = a[u]
    OBVIOUS
  <2> QED
    BY <2>1, DoneSame DEF Side, LinesCounted
<1> QED
  BY <1>4, <1>5, <1>6, <1>7 DEF Side

\* When the turns of a thread's line agree with its count, its position is the one
\* whose turn it is, and no other thread is about to count on its line; where the
\* turns agree too early, a call is lapped.
LEMMA AgreementMeansTurn ==
  ASSUME NEW W, NEW T, NEW t \in W, t \notin T, NEW a, NEW n, NEW turns, NEW counts,
         Side(W, T, a, n, turns, counts), Rounds(W \cup T, a),
         turns[get_li(a[t])] = counts[get_li(a[t])]
  PROVE  /\ a[t] = First(W, n)
         /\ \A g \in T : get_li(a[g]) # get_li(a[t])
<1> DEFINE li == get_li(a[t])
           m == First(W, n)
<1>1. n \in Nat /\ \A u \in W \cup T : a[u] \in 0 .. (n - 1)
  BY DEF Side, OwnPositions
<1>2. \A u, v \in W \cup T : a[u] = a[v] => u = v
  BY DEF Side, OwnPositions
<1>3. li \in LineIds /\ Lines \in Nat /\ Lines > 0
  BY <1>1, LineOf, LinesAssumption
<1>4. /\ FlagMod \in Nat /\ FlagMod > 1 /\ counts[li] \in 0 .. (FlagMod - 1)
      /\ turns[li] = (counts[li] + Lead(W, T, a, n, li)) % FlagMod
  BY <1>3, LinesAssumption DEF Side, LeadIsExact
<1>5. Lead(W, T, a, n, li) # 1 /\ Lead(W, T, a, n, li) # -1
  <2>1. counts[li] + (-1) = counts[li] - 1
    BY <1>4
  <2> QED
    BY <1>4, <2>1, OneMoves
<1>6. OnLine(T \ W, a, li) = {} <=> get_li(m) = li
  BY <1>5 DEF Lead
<1>7. m \in 0 .. n /\ m <= a[t] /\ a[t] <= n - 1
  BY <1>1 DEF Side, TurnsInOrder
<1>8. PICK w \in W : a[w] = m
  <2>1. m \in m .. (n - 1)
    BY <1>1, <1>7
  <2> QED
    BY <2>1 DEF Side, TurnsInOrder
<1>9. get_li(m) = li => a[t] = m
  <2> SUFFICES ASSUME get_li(m) = li, a[t] # m PROVE FALSE
    OBVIOUS
  <2>1. a[w] + Lines <= a[t] /\ w # t
    BY <1>1, <1>7, <1>8, RoundApart
  <2>2. Lines > 1 /\ ~ \E v \in (W \cup T) \ {w, t} : a[v] \in a[w] .. a[t]
    BY <2>1 DEF Rounds
  <2>3. m + 1 \in m .. (n - 1) /\ m + 1 < a[t]
    BY <1>1, <1>3, <1>7, <1>8, <2>1, <2>2
  <2>4. PICK v \in W : a[v] = m + 1
    BY <2>3 DEF Side, TurnsInOrder
  <2>5. a[v] \in a[w] .. a[t]
    BY <1>1, <1>7, <1>8, <2>3, <2>4
  <2>6. v # w /\ v # t
    BY <1>7, <1>8, <2>3, <2>4
  <2> QED
    BY <2>2, <2>5, <2>6
<1>10. get_li(m) = li
  <2> SUFFICES ASSUME get_li(m) # li PROVE FALSE
    OBVIOUS
  <2>1. PICK g \in T \ W : get_li(a[g]) = li
    BY <1>6 DEF OnLine
  <2>2. a[g] < m /\ a[g] \in Int
    BY <1>1, <2>1 DEF Side, TurnsInOrder
  <2>3. a[g] + Lines <= a[t]
    BY <1>1, <1>7, <2>1, <2>2, RoundApart
  <2>4. a[t] # m
    OBVIOUS
  <2>5. w # g /\ w # t /\ a[w] \in a[g] .. a[t]
    BY <1>1, <1>7, <1>8, <2>2, <2>4
  <2> QED
    BY <2>3, <2>5 DEF Rounds
<1>11. ASSUME NEW g \in T, get_li(a[g]) = li PROVE FALSE
  <2>1. g \in W
    BY <1>6, <1>10, <1>11 DEF OnLine
  <2>2. a[g] = m
    BY <2>1 DEF Side, TurnsInOrder
  <2> QED
    BY <1>2, <1>9, <1>10, <2>2
<1> QED
  BY <1>9, <1>10, <1>11

\* The turn of a thread has come.
LEMMA TurnKeeps ==
  ASSUME NEW W, NEW T, NEW t \in W, t \notin T, NEW a, NEW n, NEW turns, NEW counts,
         Side(W, T, a, n, turns, counts), Rounds(W \cup T, a),
         turns[get_li(a[t])] = counts[get_li(a[t])]
  PROVE  Side(W, T \cup {t}, a, n, turns, counts)
<1>1. W \cup (T \cup {t}) = W \cup T /\ (T \cup {t}) \ W = T \ W
  OBVIOUS
<1>2. /\ a[t] = First(W, n)
      /\ \A g \in T : get_li(a[g]) # get_li(a[t])
  BY AgreementMeansTurn
<1>3. LeadIsExact(W, T \cup {t}, a, n, turns, counts)
  BY <1>1 DEF Side, LeadIsExact, Lead
<1>4. OwnPositions(W, T \cup {t}, a, n)
  BY <1>1 DEF Side, OwnPositions
<1>5. TurnsInOrder(W, T \cup {t}, a, n)
  BY <1>1, <1>2 DEF Side, TurnsInOrder
<1> QED
  BY <1>3, <1>4, <1>5 DEF Side

\* A side that has just been set back.
LEMMA EmptySide ==
  ASSUME NEW a
  PROVE  Side({}, {}, a, 0, TurnFlags, CountFlags)
<1>1. FlagMod \in Nat /\ FlagMod > 1 /\ Lines \in Nat /\ Lines > 0
  BY LinesAssumption
<1>2. \A li : OnLine({} \ {}, a, li) = {}
  BY DEF OnLine
<1>3. IsFiniteSet({}) /\ First({}, 0) = 0
  BY FS_EmptySet DEF First
<1>4. get_li(0) = 0
  BY <1>1 DEF get_li
<1>5. ASSUME NEW li \in LineIds
      PROVE  TurnFlags[li] = (CountFlags[li] + Lead({}, {}, a, 0, li)) % FlagMod
  <2>1. Lead({}, {}, a, 0, li) = IF li = 0 THEN 0 ELSE -1
    BY <1>2, <1>3, <1>4 DEF Lead
  <2>2. 1 % FlagMod = 1 /\ 0 % FlagMod = 0 /\ 1 + 0 = 1 /\ 1 + (-1) = 0
    BY <1>1
  <2> QED
    BY <2>1, <2>2 DEF TurnFlags, CountFlags
<1>6. LeadIsExact({}, {}, a, 0, TurnFlags, CountFlags)
  BY <1>1, <1>5 DEF LeadIsExact, TurnFlags, CountFlags
<1>7. LinesCounted({}, a, 0)
  BY <1>3, NoneHeld DEF LinesCounted
<1> QED
  BY <1>3, <1>6, <1>7 DEF Side, OwnPositions, TurnsInOrder
-----------------------------------------------------------------------------
(* The actions. *)

\* Every step keeps the types.
LEMMA StepTypes == Types /\ [Next]_clvars => Types'
<1> SUFFICES ASSUME Types, [Next]_clvars PROVE Types'
  OBVIOUS
<1> USE DEF Types, Labels, Goto, Keep, Done
<1>1. CountMod \in Nat /\ CountMod > 0 /\ Producers \subseteq Threads /\ Consumers \subseteq Threads
  BY LinesAssumption DEF Threads
<1>2. ASSUME NEW p \in Producers, PushLoad(p) \/ PushStep(p) PROVE Types'
  <2>1. CASE PushLoad(p) \/ PushRefuse(p) \/ CasLoses(p)
    BY <1>1, <2>1 DEF PushLoad, PushRefuse, CasLoses, commits, lines
  <2>2. CASE PushAccept(p) \/ CasWins(p)
    BY <1>1, <2>2 DEF PushAccept, CasWins, commits, lines
  <2>3. CASE Construct(p)
    BY <1>1, <2>3 DEF Construct, commits
  <2>4. CASE PushTurn(p) \/ PushGrant(p) \/ Publish(p)
    BY <1>1, <2>4 DEF PushTurn, PushGrant, Publish, commits, lines
  <2> QED
    BY <1>2, <2>1, <2>2, <2>3, <2>4 DEF PushStep
<1>3. ASSUME NEW c \in Consumers, PopSingle(c) \/ PopEnter(c) PROVE Types'
  <2>1. (dequeue_overcommit + 1) % CountMod \in Nat
    <3>1. dequeue_overcommit + 1 \in Int
      OBVIOUS
    <3> QED
      BY <1>1, <3>1, Division
  <2> QED
    BY <1>1, <1>3, <2>1 DEF PopSingle, PopEnter, commits, lines
<1>4. ASSUME NEW c \in Consumers, PopStep(c) PROVE Types'
  <2>1. at[c] \in Nat /\ at[c] - overcommit \in Int /\ overcommit + 1 \in Int
    BY <1>1
  <2>2. (at[c] - overcommit) % CountMod \in Nat /\ (overcommit + 1) % CountMod \in Nat
    BY <1>1, <2>1, Division
  <2> QED
    <3>1. CASE PopEstimate(c) \/ PopTest(c) \/ PopGiveUp(c)
      BY <1>1, <2>2, <3>1 DEF PopEstimate, PopTest, PopGiveUp, commits, lines
    <3>2. CASE PopClaim(c) \/ PopAwait(c) \/ PopTurn(c)
      BY <1>1, <3>2 DEF PopClaim, PopAwait, PopTurn, commits, lines
    <3>3. CASE Destroy(c)
      BY <1>1, <3>3 DEF Destroy, commits
    <3>4. CASE PopGrant(c) \/ Release(c)
      BY <1>1, <3>4 DEF PopGrant, Release, commits
    <3> QED
      BY <1>4, <3>1, <3>2, <3>3, <3>4 DEF PopStep
<1>5. CASE clear
  BY <1>5 DEF clear, commits
<1>6. CASE UNCHANGED clvars
  BY <1>6 DEF clvars
<1> QED
  BY <1>2, <1>3, <1>4, <1>5, <1>6 DEF Next

\* What a step of one thread does to the sets of a side.
LEMMA SetsAfter ==
  ASSUME Types, NEW CONSTANT side, side \subseteq Threads, NEW CONSTANT p \in Threads, NEW CONSTANT l, Goto(p, l)
  PROVE  /\ p \notin side => Waiting(side)' = Waiting(side) /\ InTurn(side)' = InTurn(side)
         /\ p \in side =>
              /\ Waiting(side)' = IF l \in WaitLabels THEN Waiting(side) \cup {p} ELSE Waiting(side) \ {p}
              /\ InTurn(side)' = IF l \in TurnLabels THEN InTurn(side) \cup {p} ELSE InTurn(side) \ {p}
<1>1. \A t \in side : pc'[t] = IF t = p THEN l ELSE pc[t]
  BY DEF Types, Goto
<1> QED
  BY <1>1 DEF Waiting, InTurn

\* What NotLapped says of the sets of a side.
LEMMA RoundsOf ==
  ASSUME NotLapped, NEW side \in {Producers, Consumers}
  PROVE  Rounds(Waiting(side) \cup InTurn(side), at)
<1>1. Waiting(side) \cup InTurn(side) = Holders(side)
  BY DEF Waiting, InTurn, Holders, WaitLabels, TurnLabels
<1> QED
  BY <1>1 DEF NotLapped, Rounds

\* A step of the other side.
LEMMA OtherSideKeeps ==
  ASSUME Types, NEW CONSTANT side, side \subseteq Threads, NEW CONSTANT p \in Threads \ side, NEW CONSTANT l, Goto(p, l),
         NEW CONSTANT x, at' = at \/ at' = [at EXCEPT ![p] = x],
         NEW n, NEW turns, NEW counts,
         Side(Waiting(side), InTurn(side), at, n, turns, counts)
  PROVE  Side(Waiting(side)', InTurn(side)', at', n, turns, counts)
<1>1. Waiting(side)' = Waiting(side) /\ InTurn(side)' = InTurn(side)
  BY SetsAfter
<1>2. \A t \in Waiting(side) \cup InTurn(side) : at'[t] = at[t]
  BY DEF Types, Waiting, InTurn
<1> QED
  BY <1>1, <1>2, OthersKeep

\* What a push and a pop leave to the other side.
LEMMA PushLeaves ==
  ASSUME NEW p \in Producers, PushLoad(p) \/ PushStep(p)
  PROVE  /\ \E l : Goto(p, l)
         /\ at' = at \/ \E x : at' = [at EXCEPT ![p] = x]
         /\ UNCHANGED <<flags, tail, tf1, tf2>>
<1> USE DEF Keep, Done
<1>1. CASE PushLoad(p) \/ PushRefuse(p) \/ CasLoses(p)
  BY <1>1 DEF PushLoad, PushRefuse, CasLoses, lines
<1>2. CASE PushAccept(p) \/ CasWins(p)
  BY <1>2 DEF PushAccept, CasWins, lines
<1>3. CASE Construct(p)
  BY <1>3 DEF Construct
<1>4. CASE PushTurn(p) \/ PushGrant(p) \/ Publish(p)
  BY <1>4 DEF PushTurn, PushGrant, Publish, lines
<1> QED
  BY <1>1, <1>2, <1>3, <1>4 DEF PushStep

LEMMA PopLeaves ==
  ASSUME NEW c \in Consumers, PopSingle(c) \/ PopEnter(c) \/ PopStep(c)
  PROVE  /\ \E l : Goto(c, l)
         /\ at' = at \/ \E x : at' = [at EXCEPT ![c] = x]
         /\ UNCHANGED <<flags, head, hf1, hf2>>
<1> USE DEF Keep, Done
<1>1. CASE PopSingle(c) \/ PopEnter(c) \/ PopEstimate(c)
  BY <1>1 DEF PopSingle, PopEnter, PopEstimate, lines
<1>2. CASE PopTest(c) \/ PopGiveUp(c)
  BY <1>2 DEF PopTest, PopGiveUp, lines
<1>3. CASE PopClaim(c) \/ PopAwait(c) \/ PopTurn(c)
  BY <1>3 DEF PopClaim, PopAwait, PopTurn, lines
<1>4. CASE Destroy(c) \/ PopGrant(c) \/ Release(c)
  BY <1>4 DEF Destroy, PopGrant, Release
<1> QED
  BY <1>1, <1>2, <1>3, <1>4 DEF PopStep

LEMMA PushSideKept ==
  ASSUME TurnInv, NEW p \in Producers, PushLoad(p) \/ PushStep(p)
  PROVE  PopSide'
<1>1. Types /\ PopSide /\ Consumers \subseteq Threads /\ p \in Threads \ Consumers
  BY LinesAssumption DEF TurnInv, Threads
<1>2. PICK l : Goto(p, l)
  BY PushLeaves
<1>3. UNCHANGED <<flags, tail, tf1, tf2>>
  BY PushLeaves
<1>4. CASE SC
  <2>1. \A t \in Consumers : pc'[t] = pc[t]
    BY <1>1, <1>2 DEF Types, Goto
  <2>2. OnlyOne(Consumers)'
    BY <1>1, <1>4, <2>1 DEF PopSide, OnlyOne, Alone
  <2> QED
    BY <1>3, <1>4, <2>2 DEF PopSide, SC
<1>5. CASE ~SC
  <2>1. Side(Waiting(Consumers), InTurn(Consumers), at, tail, tf1, tf2)
    BY <1>1, <1>5 DEF PopSide
  <2>2. PICK x : at' = at \/ at' = [at EXCEPT ![p] = x]
    BY PushLeaves
  <2>3. Side(Waiting(Consumers)', InTurn(Consumers)', at', tail, tf1, tf2)
    BY <1>1, <1>2, <2>1, <2>2, OtherSideKeeps
  <2> QED
    BY <1>3, <1>5, <2>3 DEF PopSide, SC
<1> QED
  BY <1>4, <1>5

LEMMA PopSideKept ==
  ASSUME TurnInv, NEW c \in Consumers, PopSingle(c) \/ PopEnter(c) \/ PopStep(c)
  PROVE  PushSide'
<1>1. Types /\ PushSide /\ Producers \subseteq Threads /\ c \in Threads \ Producers
  BY LinesAssumption DEF TurnInv, Threads
<1>2. PICK l : Goto(c, l)
  BY PopLeaves
<1>3. UNCHANGED <<flags, head, hf1, hf2>>
  BY PopLeaves
<1>4. CASE SP
  <2>1. \A t \in Producers : pc'[t] = pc[t]
    BY <1>1, <1>2 DEF Types, Goto
  <2>2. OnlyOne(Producers)'
    BY <1>1, <1>4, <2>1 DEF PushSide, OnlyOne, Alone
  <2> QED
    BY <1>3, <1>4, <2>2 DEF PushSide, SP
<1>5. CASE ~SP
  <2>1. Side(Waiting(Producers), InTurn(Producers), at, head, hf1, hf2)
    BY <1>1, <1>5 DEF PushSide
  <2>2. PICK x : at' = at \/ at' = [at EXCEPT ![c] = x]
    BY PopLeaves
  <2>3. Side(Waiting(Producers)', InTurn(Producers)', at', head, hf1, hf2)
    BY <1>1, <1>2, <2>1, <2>2, OtherSideKeeps
  <2> QED
    BY <1>3, <1>5, <2>3 DEF PushSide, SP
<1> QED
  BY <1>4, <1>5

\* A push keeps the order of its own side.
LEMMA PushKeeps ==
  ASSUME NotLapped, TurnInv, NEW p \in Producers, PushLoad(p) \/ PushStep(p)
  PROVE  PushSide'
<1> DEFINE W == Waiting(Producers)
           T == InTurn(Producers)
<1>1. Types /\ PushSide /\ Producers \subseteq Threads /\ p \in Threads
  BY DEF TurnInv, Threads
<1>2. flags' = flags
  BY PushLeaves
<1>3. CASE SP
  <2>1. PICK l : Goto(p, l)
    BY PushLeaves
  <2>2. \A t \in Producers : t # p => pc'[t] = pc[t]
    BY <1>1, <2>1 DEF Types, Goto
  <2>3. Alone(p, Producers)
    <3>1. CASE PushLoad(p)
      BY <1>3, <3>1 DEF PushLoad
    <3>2. CASE PushStep(p)
      <4>1. pc[p] # "idle"
        BY <3>2 DEF PushStep, PushRefuse, PushAccept, CasLoses, CasWins, Construct, PushTurn, PushGrant, Publish
      <4> QED
        BY <1>1, <1>3, <4>1 DEF PushSide, OnlyOne
    <3> QED
      BY <3>1, <3>2
  <2>4. OnlyOne(Producers)'
    BY <1>1, <1>3, <2>2, <2>3 DEF PushSide, OnlyOne, Alone
  <2> QED
    BY <1>2, <1>3, <2>4 DEF PushSide, SP
<1>4. CASE ~SP
  <2> SUFFICES Side(W', T', at', head', hf1', hf2')
    BY <1>2, <1>4 DEF PushSide, SP
  <2>1. Side(W, T, at, head, hf1, hf2)
    BY <1>1, <1>4 DEF PushSide
  <2>2. Rounds(W \cup T, at)
    BY RoundsOf
  <2>3. CASE PushLoad(p) \/ PushRefuse(p) \/ CasLoses(p) \/ PushAccept(p)
    <3>1. \E l : l \notin WaitLabels \cup TurnLabels /\ Goto(p, l)
      BY <1>4, <2>3 DEF PushLoad, PushRefuse, CasLoses, PushAccept, Keep, Done, WaitLabels, TurnLabels
    <3>2. p \notin W \cup T
      BY <2>3 DEF PushLoad, PushRefuse, CasLoses, PushAccept, Waiting, InTurn, WaitLabels, TurnLabels
    <3>3. W' = W /\ T' = T
      <4>1. PICK l : l \notin WaitLabels \cup TurnLabels /\ Goto(p, l)
        BY <3>1
      <4> HIDE DEF W, T
      <4>2. /\ W' = IF l \in WaitLabels THEN W \cup {p} ELSE W \ {p}
            /\ T' = IF l \in TurnLabels THEN T \cup {p} ELSE T \ {p}
        BY <1>1, <4>1, SetsAfter DEF W, T
      <4> QED
        BY <3>2, <4>1, <4>2
    <3>4. \A t \in W \cup T : at'[t] = at[t]
      BY <1>1, <3>2, PushLeaves DEF Types, Waiting, InTurn
    <3>5. UNCHANGED <<head, hf1, hf2>>
      BY <1>4, <2>3 DEF PushLoad, PushRefuse, CasLoses, PushAccept, lines
    <3> HIDE DEF W, T
    <3> QED
      BY <2>1, <3>3, <3>4, <3>5, OthersKeep
  <2>4. CASE CasWins(p)
    <3>1. Goto(p, "construct") /\ at' = at /\ head' = head + 1 /\ UNCHANGED <<hf1, hf2>> /\ at[p] = head
      BY <2>4 DEF CasWins, Keep, lines
    <3>2. p \notin W \cup T
      BY <2>4 DEF CasWins, Waiting, InTurn, WaitLabels, TurnLabels
    <3> HIDE DEF W, T
    <3>3. W' = W \cup {p} /\ T' = T \ {p}
      BY <1>1, <3>1, SetsAfter DEF W, T, WaitLabels, TurnLabels
    <3>4. Side(W \cup {p}, T, at, head + 1, hf1, hf2)
      BY <2>1, <3>1, <3>2, ClaimKeeps
    <3>5. T' = T
      BY <3>2, <3>3
    <3> QED
      BY <3>1, <3>3, <3>4, <3>5
  <2>5. CASE Construct(p)
    <3>1. Goto(p, "turn") /\ UNCHANGED <<at, head, hf1, hf2>>
      BY <1>4, <2>5 DEF Construct, Keep
    <3>2. p \in W /\ p \notin T
      BY <2>5 DEF Construct, Waiting, InTurn, WaitLabels, TurnLabels
    <3> HIDE DEF W, T
    <3>3. W' = W \cup {p} /\ T' = T \ {p}
      BY <1>1, <3>1, SetsAfter DEF W, T, WaitLabels, TurnLabels
    <3>4. W' = W /\ T' = T
      BY <3>2, <3>3
    <3> QED
      BY <2>1, <3>1, <3>4
  <2>6. CASE PushTurn(p)
    <3>1. Goto(p, "grant") /\ UNCHANGED <<at, head, hf1, hf2>> /\ hf1[get_li(at[p])] = hf2[get_li(at[p])]
      BY <2>6 DEF PushTurn, Keep, lines
    <3>2. p \in W /\ p \notin T
      BY <2>6 DEF PushTurn, Waiting, InTurn, WaitLabels, TurnLabels
    <3> HIDE DEF W, T
    <3>3. W' = W \cup {p} /\ T' = T \cup {p}
      BY <1>1, <3>1, SetsAfter DEF W, T, WaitLabels, TurnLabels
    <3>4. Side(W, T \cup {p}, at, head, hf1, hf2)
      BY <2>1, <2>2, <3>1, <3>2, TurnKeeps
    <3>5. W' = W
      BY <3>2, <3>3
    <3> QED
      BY <3>1, <3>3, <3>4, <3>5
  <2>7. CASE PushGrant(p)
    <3>1. Goto(p, "publish") /\ UNCHANGED <<at, head, hf2>> /\ hf1' = Inc(hf1, get_li(at[p] + 1))
      BY <2>7 DEF PushGrant, Keep
    <3>2. p \in W \cap T
      BY <2>7 DEF PushGrant, Waiting, InTurn, WaitLabels, TurnLabels
    <3> HIDE DEF W, T
    <3>3. W' = W \ {p} /\ T' = T \cup {p}
      BY <1>1, <3>1, SetsAfter DEF W, T, WaitLabels, TurnLabels
    <3>4. Side(W \ {p}, T, at, head, Inc(hf1, get_li(at[p] + 1)), hf2)
      BY <2>1, <3>2, GrantKeeps
    <3>5. T' = T
      BY <3>2, <3>3
    <3> QED
      BY <3>1, <3>3, <3>4, <3>5
  <2>8. CASE Publish(p)
    <3>1. /\ Goto(p, "idle") /\ at' = [at EXCEPT ![p] = 0]
          /\ UNCHANGED <<head, hf1>> /\ hf2' = Inc(hf2, get_li(at[p]))
      BY <2>8 DEF Publish, Done
    <3>2. p \in T /\ p \notin W
      BY <2>8 DEF Publish, Waiting, InTurn, WaitLabels, TurnLabels
    <3>3. \A t \in (W \cup T) \ {p} : at'[t] = at[t]
      BY <1>1, <3>1 DEF Types, Waiting, InTurn
    <3> HIDE DEF W, T
    <3>4. W' = W \ {p} /\ T' = T \ {p}
      BY <1>1, <3>1, SetsAfter DEF W, T, WaitLabels, TurnLabels
    <3>5. Side(W, T \ {p}, at', head, hf1, Inc(hf2, get_li(at[p])))
      BY <2>1, <3>2, <3>3, ShowKeeps
    <3>6. W' = W
      BY <3>2, <3>4
    <3> QED
      BY <3>1, <3>4, <3>5, <3>6
  <2> HIDE DEF W, T
  <2> QED
    BY <2>3, <2>4, <2>5, <2>6, <2>7, <2>8 DEF PushStep
<1> QED
  BY <1>3, <1>4

\* A pop keeps the order of its own side.
LEMMA PopKeeps ==
  ASSUME NotLapped, TurnInv, NEW c \in Consumers, PopSingle(c) \/ PopEnter(c) \/ PopStep(c)
  PROVE  PopSide'
<1> DEFINE W == Waiting(Consumers)
           T == InTurn(Consumers)
<1>1. Types /\ PopSide /\ Consumers \subseteq Threads /\ c \in Threads
  BY DEF TurnInv, Threads
<1>2. flags' = flags
  BY PopLeaves
<1>3. CASE SC
  <2>1. PICK l : Goto(c, l)
    BY PopLeaves
  <2>2. \A t \in Consumers : t # c => pc'[t] = pc[t]
    BY <1>1, <2>1 DEF Types, Goto
  <2>3. Alone(c, Consumers)
    <3>1. CASE PopSingle(c)
      BY <3>1 DEF PopSingle
    <3>2. CASE PopStep(c)
      <4>1. pc[c] # "idle"
        BY <3>2 DEF PopStep, PopEstimate, PopTest, PopGiveUp, PopClaim, PopAwait, Destroy, PopTurn,
          PopGrant, Release
      <4> QED
        BY <1>1, <1>3, <4>1 DEF PopSide, OnlyOne
    <3> QED
      BY <1>3, <3>1, <3>2 DEF PopEnter
  <2>4. OnlyOne(Consumers)'
    BY <1>1, <1>3, <2>2, <2>3 DEF PopSide, OnlyOne, Alone
  <2> QED
    BY <1>2, <1>3, <2>4 DEF PopSide, SC
<1>4. CASE ~SC
  <2> SUFFICES Side(W', T', at', tail', tf1', tf2')
    BY <1>2, <1>4 DEF PopSide, SC
  <2>1. Side(W, T, at, tail, tf1, tf2)
    BY <1>1, <1>4 DEF PopSide
  <2>2. Rounds(W \cup T, at)
    BY RoundsOf
  <2>3. CASE PopEnter(c) \/ PopEstimate(c) \/ PopTest(c) \/ PopGiveUp(c)
    <3>1. \E l : l \notin WaitLabels \cup TurnLabels /\ Goto(c, l)
      BY <2>3 DEF PopEnter, PopEstimate, PopTest, PopGiveUp, Keep, Done, WaitLabels, TurnLabels
    <3>2. c \notin W \cup T
      BY <2>3 DEF PopEnter, PopEstimate, PopTest, PopGiveUp, Waiting, InTurn, WaitLabels, TurnLabels
    <3>3. W' = W /\ T' = T
      <4>1. PICK l : l \notin WaitLabels \cup TurnLabels /\ Goto(c, l)
        BY <3>1
      <4> HIDE DEF W, T
      <4>2. /\ W' = IF l \in WaitLabels THEN W \cup {c} ELSE W \ {c}
            /\ T' = IF l \in TurnLabels THEN T \cup {c} ELSE T \ {c}
        BY <1>1, <4>1, SetsAfter DEF W, T
      <4> QED
        BY <3>2, <4>1, <4>2
    <3>4. \A t \in W \cup T : at'[t] = at[t]
      BY <1>1, <3>2, PopLeaves DEF Types, Waiting, InTurn
    <3>5. UNCHANGED <<tail, tf1, tf2>>
      BY <2>3 DEF PopEnter, PopEstimate, PopTest, PopGiveUp, lines
    <3> HIDE DEF W, T
    <3> QED
      BY <2>1, <3>3, <3>4, <3>5, OthersKeep
  <2>4. CASE PopClaim(c)
    <3>1. /\ Goto(c, "await") /\ at' = [at EXCEPT ![c] = tail] /\ tail' = tail + 1
          /\ UNCHANGED <<tf1, tf2>>
      BY <2>4 DEF PopClaim, lines
    <3>2. c \notin W \cup T
      BY <2>4 DEF PopClaim, Waiting, InTurn, WaitLabels, TurnLabels
    <3>3. at'[c] = tail /\ \A t \in W \cup T : at'[t] = at[t]
      BY <1>1, <3>1, <3>2 DEF Types, Waiting, InTurn
    <3> HIDE DEF W, T
    <3>4. W' = W \cup {c} /\ T' = T \ {c}
      BY <1>1, <3>1, SetsAfter DEF W, T, WaitLabels, TurnLabels
    <3>5. Side(W \cup {c}, T, at', tail + 1, tf1, tf2)
      BY <2>1, <3>2, <3>3, ClaimKeeps
    <3>6. T' = T
      BY <3>2, <3>4
    <3> QED
      BY <3>1, <3>4, <3>5, <3>6
  <2>5. CASE PopAwait(c) \/ Destroy(c)
    <3>1. /\ Goto(c, "take") \/ Goto(c, "turn")
          /\ UNCHANGED <<at, tail, tf1, tf2>>
      BY <1>4, <2>5 DEF PopAwait, Destroy, Keep, lines
    <3>2. c \in W /\ c \notin T
      BY <2>5 DEF PopAwait, Destroy, Waiting, InTurn, WaitLabels, TurnLabels
    <3> HIDE DEF W, T
    <3>3. W' = W \cup {c} /\ T' = T \ {c}
      BY <1>1, <3>1, SetsAfter DEF W, T, WaitLabels, TurnLabels
    <3>4. W' = W /\ T' = T
      BY <3>2, <3>3
    <3> QED
      BY <2>1, <3>1, <3>4
  <2>6. CASE PopTurn(c)
    <3>1. Goto(c, "grant") /\ UNCHANGED <<at, tail, tf1, tf2>> /\ tf1[get_li(at[c])] = tf2[get_li(at[c])]
      BY <2>6 DEF PopTurn, Keep, lines
    <3>2. c \in W /\ c \notin T
      BY <2>6 DEF PopTurn, Waiting, InTurn, WaitLabels, TurnLabels
    <3> HIDE DEF W, T
    <3>3. W' = W \cup {c} /\ T' = T \cup {c}
      BY <1>1, <3>1, SetsAfter DEF W, T, WaitLabels, TurnLabels
    <3>4. Side(W, T \cup {c}, at, tail, tf1, tf2)
      BY <2>1, <2>2, <3>1, <3>2, TurnKeeps
    <3>5. W' = W
      BY <3>2, <3>3
    <3> QED
      BY <3>1, <3>3, <3>4, <3>5
  <2>7. CASE PopGrant(c)
    <3>1. Goto(c, "release") /\ UNCHANGED <<at, tail, tf2>> /\ tf1' = Inc(tf1, get_li(at[c] + 1))
      BY <2>7 DEF PopGrant, Keep
    <3>2. c \in W \cap T
      BY <2>7 DEF PopGrant, Waiting, InTurn, WaitLabels, TurnLabels
    <3> HIDE DEF W, T
    <3>3. W' = W \ {c} /\ T' = T \cup {c}
      BY <1>1, <3>1, SetsAfter DEF W, T, WaitLabels, TurnLabels
    <3>4. Side(W \ {c}, T, at, tail, Inc(tf1, get_li(at[c] + 1)), tf2)
      BY <2>1, <3>2, GrantKeeps
    <3>5. T' = T
      BY <3>2, <3>3
    <3> QED
      BY <3>1, <3>3, <3>4, <3>5
  <2>8. CASE Release(c)
    <3>1. /\ Goto(c, "idle") /\ at' = [at EXCEPT ![c] = 0]
          /\ UNCHANGED <<tail, tf1>> /\ tf2' = Inc(tf2, get_li(at[c]))
      BY <2>8 DEF Release, Done
    <3>2. c \in T /\ c \notin W
      BY <2>8 DEF Release, Waiting, InTurn, WaitLabels, TurnLabels
    <3>3. \A t \in (W \cup T) \ {c} : at'[t] = at[t]
      BY <1>1, <3>1 DEF Types, Waiting, InTurn
    <3> HIDE DEF W, T
    <3>4. W' = W \ {c} /\ T' = T \ {c}
      BY <1>1, <3>1, SetsAfter DEF W, T, WaitLabels, TurnLabels
    <3>5. Side(W, T \ {c}, at', tail, tf1, Inc(tf2, get_li(at[c])))
      BY <2>1, <3>2, <3>3, ShowKeeps
    <3>6. W' = W
      BY <3>2, <3>4
    <3> QED
      BY <3>1, <3>4, <3>5, <3>6
  <2>9. ~PopSingle(c)
    BY <1>4 DEF PopSingle
  <2> HIDE DEF W, T
  <2> QED
    BY <2>3, <2>4, <2>5, <2>6, <2>7, <2>8, <2>9 DEF PopStep
<1> QED
  BY <1>3, <1>4

\* Where no call is under way and all is set back, the sides are as they should be.
SetBack ==
  /\ AllIdle /\ head = 0 /\ tail = 0
  /\ hf1 = TurnFlags /\ tf1 = TurnFlags /\ hf2 = CountFlags /\ tf2 = CountFlags

LEMMA QuietSides == SetBack => PushSide /\ PopSide
<1> SUFFICES ASSUME SetBack PROVE PushSide /\ PopSide
  OBVIOUS
<1>1. \A t \in Producers \cup Consumers : pc[t] = "idle"
  BY DEF SetBack, AllIdle, Threads
<1>2. /\ Waiting(Producers) = {} /\ InTurn(Producers) = {}
      /\ Waiting(Consumers) = {} /\ InTurn(Consumers) = {}
  BY <1>1 DEF Waiting, InTurn, WaitLabels, TurnLabels
<1>3. OnlyOne(Producers) /\ OnlyOne(Consumers)
  BY <1>1 DEF OnlyOne
<1> QED
  BY <1>2, <1>3, EmptySide DEF SetBack, PushSide, PopSide

LEMMA QuietSidesNext == (SetBack => PushSide /\ PopSide)'
  BY QuietSides, PTL

LEMMA InitTurnInv == Init => TurnInv
<1> SUFFICES ASSUME Init PROVE TurnInv
  OBVIOUS
<1>1. Types
  BY DEF Init, Types, Labels
<1>2. AllIdle
  BY DEF Init, AllIdle
<1> QED
  BY <1>1, <1>2, QuietSides DEF Init, SetBack, TurnInv

\* Every step preserves the invariant.
LEMMA NextTurnInv == NotLapped /\ TurnInv /\ [Next]_clvars => TurnInv'
<1> SUFFICES ASSUME NotLapped, TurnInv, [Next]_clvars PROVE TurnInv'
  OBVIOUS
<1>1. Types'
  BY StepTypes DEF TurnInv
<1>2. ASSUME NEW p \in Producers, PushLoad(p) \/ PushStep(p) PROVE PushSide' /\ PopSide'
  BY <1>2, PushKeeps, PushSideKept
<1>3. ASSUME NEW c \in Consumers, PopSingle(c) \/ PopEnter(c) \/ PopStep(c) PROVE PushSide' /\ PopSide'
  BY <1>3, PopKeeps, PopSideKept
<1>4. CASE clear
  <2>1. SetBack'
    BY <1>4 DEF clear, SetBack, AllIdle, TurnFlags, CountFlags
  <2> QED
    BY <1>1, <2>1, QuietSidesNext DEF TurnInv
<1>5. CASE UNCHANGED clvars
  <2>1. UNCHANGED <<flags, hf1, hf2, tf1, tf2, head, tail, pc, at>>
    BY <1>5 DEF clvars
  <2>2. \A side : Waiting(side)' = Waiting(side) /\ InTurn(side)' = InTurn(side)
    BY <2>1 DEF Waiting, InTurn
  <2>3. OnlyOne(Producers)' = OnlyOne(Producers) /\ OnlyOne(Consumers)' = OnlyOne(Consumers)
    BY <2>1 DEF OnlyOne, Alone
  <2> QED
    <3>1. PushSide' = PushSide /\ PopSide' = PopSide
      BY <2>1, <2>2, <2>3 DEF PushSide, PopSide, SP, SC
    <3> QED
      BY <1>1, <3>1 DEF TurnInv
<1> QED
  BY <1>1, <1>2, <1>3, <1>4, <1>5 DEF TurnInv, Next

LEMMA OneWriterHere == TurnInv => FlagHasOneWriter
<1> SUFFICES ASSUME TurnInv PROVE FlagHasOneWriter
  OBVIOUS
<1>1. ASSUME NEW t \in Producers, NEW u \in Producers,
             t # u, pc[t] = pc[u], pc[t] \in {"grant", "publish"}
      PROVE  get_li(at[t]) # get_li(at[u])
  <2>1. CASE SP
    BY <1>1, <2>1 DEF TurnInv, PushSide, OnlyOne, Alone
  <2>2. CASE ~SP
    BY <1>1, <2>2 DEF TurnInv, PushSide, Side, TurnsInOrder, InTurn, TurnLabels
  <2> QED
    BY <2>1, <2>2
<1>2. ASSUME NEW t \in Consumers, NEW u \in Consumers,
             t # u, pc[t] = pc[u], pc[t] \in {"grant", "release"}
      PROVE  get_li(at[t]) # get_li(at[u])
  <2>1. CASE SC
    BY <1>2, <2>1 DEF TurnInv, PopSide, OnlyOne, Alone
  <2>2. CASE ~SC
    BY <1>2, <2>2 DEF TurnInv, PopSide, Side, TurnsInOrder, InTurn, TurnLabels
  <2> QED
    BY <2>1, <2>2
<1> QED
  BY <1>1, <1>2 DEF FlagHasOneWriter

\* As long as no call is lapped but by the next one, no two threads are ever about to
\* increment the same flag of a line, whatever the number of threads, in any mode that
\* gives the turn from line to line, and whether or not the callers know that there is
\* room (lines 466-484 and 545-562).
THEOREM OneWriter == Spec /\ []NotLapped => []FlagHasOneWriter
<1>1. NotLapped /\ TurnInv /\ [Next]_clvars => TurnInv'
  BY NextTurnInv
<1> QED
  BY <1>1, InitTurnInv, OneWriterHere, PTL DEF Spec

\* So two producers and two consumers on more than one line are safe whatever they do:
\* nobody is left that could hold a position between theirs.
THEOREM TwoASide ==
  ASSUME Lines > 1,
         \A side \in {Producers, Consumers} : \E t, u : side \subseteq {t, u}
  PROVE  Spec => []FlagHasOneWriter
<1>1. TurnInv => NotLapped
  <2> SUFFICES ASSUME TurnInv,
                      NEW side \in {Producers, Consumers},
                      NEW t \in Holders(side), NEW u \in Holders(side),
                      at[t] + Lines <= at[u]
               PROVE  ~ \E w \in Holders(side) \ {t, u} : at[w] \in at[t] .. at[u]
    BY DEF NotLapped
  <2>1. t # u
    <3>1. at[t] \in Int /\ Lines \in Int
      BY LinesAssumption DEF TurnInv, Types, Holders, Threads
    <3> QED
      BY <3>1
  <2> QED
    BY <2>1 DEF Holders
<1>2. TurnInv /\ [Next]_clvars => TurnInv'
  BY <1>1, NextTurnInv
<1> QED
  BY <1>2, InitTurnInv, OneWriterHere, PTL DEF Spec
-----------------------------------------------------------------------------
(* What the counts stand for. *)

CountsAre(H, a, n, counts) ==
  /\ counts \in [LineIds -> 0 .. (FlagMod - 1)]
  /\ \A li \in LineIds : counts[li] = (1 + DoneOn(H, a, n, li)) % FlagMod

\* The positions of W are the last below n, and what is done lies before them.
Last(W, H, a, n) ==
  /\ n - Cardinality(W) \in Nat /\ Cardinality(W) \in Nat
  /\ \A t \in W : a[t] \in (n - Cardinality(W)) .. (n - 1)
  /\ \A li \in LineIds : DoneOn(H, a, n, li) <= PositionsOn(n - Cardinality(W), li)

\* A count agrees after a step that claims, that shows, or that does neither.
LEMMA CountsSame ==
  ASSUME NEW H, NEW a, NEW b, \A u \in H : b[u] = a[u], NEW n, NEW counts, CountsAre(H, a, n, counts)
  PROVE  CountsAre(H, b, n, counts)
  BY DoneSame DEF CountsAre

LEMMA CountsClaim ==
  ASSUME NEW H, IsFiniteSet(H), NEW t, t \notin H, NEW a, NEW b, NEW n \in Nat,
         \A u \in H : b[u] = a[u], b[t] = n, NEW counts, CountsAre(H, a, n, counts)
  PROVE  CountsAre(H \cup {t}, b, n + 1, counts)
<1>1. \A li \in LineIds : DoneOn(H \cup {t}, b, n + 1, li) = DoneOn(H, a, n, li)
  BY DoneClaim
<1> QED
  BY <1>1 DEF CountsAre

LEMMA CountsShow ==
  ASSUME NEW H, IsFiniteSet(H), NEW t \in H, NEW a, NEW b, NEW n \in Nat, get_li(a[t]) \in LineIds,
         \A u \in H \ {t} : b[u] = a[u], NEW counts, CountsAre(H, a, n, counts)
  PROVE  CountsAre(H \ {t}, b, n, Inc(counts, get_li(a[t])))
<1>1. FlagMod \in Nat /\ FlagMod > 0
  BY LinesAssumption
<1> DEFINE more == Inc(counts, get_li(a[t]))
<1>2. /\ counts \in [LineIds -> 0 .. (FlagMod - 1)]
      /\ \A li \in LineIds : counts[li] = (1 + DoneOn(H, a, n, li)) % FlagMod
  BY DEF CountsAre
<1>3. \A li \in LineIds : more[li] = IF li = get_li(a[t]) THEN (counts[li] + 1) % FlagMod ELSE counts[li]
  BY <1>2 DEF Inc
<1>4. more \in [LineIds -> 0 .. (FlagMod - 1)]
  <2>1. \A k \in 0 .. (FlagMod - 1) : (k + 1) % FlagMod \in 0 .. (FlagMod - 1)
    BY <1>1
  <2>2. counts[get_li(a[t])] \in 0 .. (FlagMod - 1)
    BY <1>2
  <2>3. (counts[get_li(a[t])] + 1) % FlagMod \in 0 .. (FlagMod - 1)
    BY <2>1, <2>2
  <2>4. more = [counts EXCEPT ![get_li(a[t])] = (counts[get_li(a[t])] + 1) % FlagMod]
    BY DEF Inc
  <2> HIDE DEF more
  <2> QED
    BY <1>2, <2>3, <2>4
<1> HIDE DEF more
<1>5. ASSUME NEW li \in LineIds
      PROVE  more[li] = (1 + DoneOn(H \ {t}, b, n, li)) % FlagMod
  <2>0. DoneOn(H, a, n, li) \in Int
    BY DoneType
  <2>1. PICK d \in Int : d = DoneOn(H, a, n, li)
    BY <2>0
  <2>1a. DoneOn(H \ {t}, b, n, li) = DoneOn(H, a, n, li) + (IF get_li(a[t]) = li THEN 1 ELSE 0)
    BY DoneShow
  <2>2. DoneOn(H \ {t}, b, n, li) = d + (IF get_li(a[t]) = li THEN 1 ELSE 0)
    BY <2>1, <2>1a
  <2>3. counts[li] = (1 + d) % FlagMod
    BY <1>2, <2>1
  <2>4. CASE get_li(a[t]) = li
    <3>1. 1 + d \in Int /\ 1 \in Int /\ (1 + d) + 1 = 1 + (d + 1)
      BY <2>1
    <3>2. (((1 + d) % FlagMod) + 1) % FlagMod = ((1 + d) + 1) % FlagMod
      BY <1>1, <3>1, SumReduced
    <3>3. more[li] = (((1 + d) % FlagMod) + 1) % FlagMod
      BY <1>3, <2>3, <2>4
    <3>4. DoneOn(H \ {t}, b, n, li) = d + 1
      BY <2>2, <2>4
    <3> QED
      BY <3>1, <3>2, <3>3, <3>4
  <2>5. CASE get_li(a[t]) # li
    <3>1. DoneOn(H \ {t}, b, n, li) = d
      BY <2>1, <2>2, <2>5
    <3> QED
      BY <1>3, <2>3, <2>5, <3>1
  <2> QED
    BY <2>4, <2>5
<1> QED
  BY <1>4, <1>5 DEF CountsAre, more

\* One that holds the last position.
LEMMA LessTheLast ==
  ASSUME NEW H, IsFiniteSet(H), NEW t \in H, NEW a, NEW n \in Nat, n > 0, a[t] = n - 1, NEW li \in LineIds
  PROVE  DoneOn(H, a, n, li) = DoneOn(H \ {t}, a, n - 1, li)
<1>1. n - 1 \in Nat /\ (n - 1) + 1 = n
  OBVIOUS
<1>2. IsFiniteSet(H \ {t}) /\ t \notin H \ {t} /\ (H \ {t}) \cup {t} = H
  BY FS_RemoveElement
<1>3. DoneOn((H \ {t}) \cup {t}, a, (n - 1) + 1, li) = DoneOn(H \ {t}, a, n - 1, li)
  BY <1>1, <1>2, DoneClaim
<1> QED
  BY <1>1, <1>2, <1>3

LEMMA NoneWaits ==
  ASSUME NEW H, IsFiniteSet(H), NEW a, NEW n \in Nat
  PROVE  Last({}, H, a, n)
<1>1. Cardinality({}) = 0
  BY FS_EmptySet
<1> QED
  BY <1>1, DoneType DEF Last

LEMMA OneWaits ==
  ASSUME NEW H, IsFiniteSet(H), NEW t \in H, NEW a, NEW n \in Nat, n > 0, a[t] = n - 1
  PROVE  Last({t}, H, a, n)
<1>1. Cardinality({t}) = 1
  BY FS_Singleton
<1>1a. IsFiniteSet(H \ {t})
  BY FS_RemoveElement
<1>1b. n - 1 \in Nat
  OBVIOUS
<1>2. ASSUME NEW li \in LineIds
      PROVE  DoneOn(H, a, n, li) <= PositionsOn(n - 1, li)
  <2>1. DoneOn(H, a, n, li) = DoneOn(H \ {t}, a, n - 1, li)
    BY LessTheLast
  <2>2. DoneOn(H \ {t}, a, n - 1, li) <= PositionsOn(n - 1, li)
    BY <1>1a, <1>1b, DoneType
  <2> QED
    BY <2>1, <2>2
<1>3. n - Cardinality({t}) = n - 1 /\ Cardinality({t}) \in Nat
  BY <1>1
<1>4. \A u \in {t} : a[u] \in (n - 1) .. (n - 1)
  BY <1>1b
<1> QED
  BY <1>1b, <1>2, <1>3, <1>4 DEF Last

\* Where the turn goes from line to line, the threads that wait for it hold the last.
LEMMA WaitingLast ==
  ASSUME NEW W, NEW T, NEW a, NEW n, NEW turns, NEW counts,
         Side(W, T, a, n, turns, counts), IsFiniteSet(W \cup T)
  PROVE  Last(W, W \cup T, a, n)
<1>1. IsFiniteSet(W) /\ First(W, n) \in 0 .. n /\ n \in Nat
  BY DEF Side, TurnsInOrder, OwnPositions
<1>2. Cardinality(W) \in Nat /\ First(W, n) \in Nat /\ First(W, n) = n - Cardinality(W)
  BY <1>1, FS_CardinalityType DEF First
<1>3. \A t \in W : a[t] \in First(W, n) .. (n - 1)
  BY <1>1 DEF Side, TurnsInOrder, OwnPositions
<1>4. ASSUME NEW li \in LineIds
      PROVE  DoneOn(W \cup T, a, n, li) <= PositionsOn(First(W, n), li)
  <2>1. OnLine(W, a, li) \subseteq OnLine(W \cup T, a, li)
    BY DEF OnLine
  <2>2. IsFiniteSet(OnLine(W \cup T, a, li)) /\ Cardinality(OnLine(W \cup T, a, li)) \in Nat
    BY Counted
  <2>3. Cardinality(OnLine(W, a, li)) <= Cardinality(OnLine(W \cup T, a, li))
    BY <2>1, <2>2, FS_Subset
  <2>4. PositionsOn(n, li) \in Int /\ Cardinality(OnLine(W, a, li)) \in Nat
    BY <1>1, Counted, PositionsBounded
  <2>5. DoneOn(W, a, n, li) = PositionsOn(First(W, n), li)
    BY DEF Side, LinesCounted
  <2> QED
    BY <2>2, <2>3, <2>4, <2>5 DEF DoneOn
<1> QED
  BY <1>2, <1>3, <1>4 DEF Last
-----------------------------------------------------------------------------
(* What the steps of a thread do to the positions of its side. *)

HoldLabels == {"construct", "await", "take", "turn", "grant", "publish", "release"}
Labelled(side, L) == {t \in side : pc[t] \in L}

OthersStay(p) == \A u \in Threads : u # p => at'[u] = at[u]

Idles(side) ==
  /\ Holders(side)' = Holders(side) /\ Unturned(side)' = Unturned(side)
  /\ \A u \in Holders(side) : at'[u] = at[u]

Claims(side, t, n) ==
  /\ t \in side /\ t \notin Holders(side)
  /\ Holders(side)' = Holders(side) \cup {t} /\ Unturned(side)' = Unturned(side) \cup {t}
  /\ \A u \in Holders(side) : at'[u] = at[u]
  /\ at'[t] = n

Turns(side, t) ==
  /\ t \in Unturned(side)
  /\ Holders(side)' = Holders(side) /\ Unturned(side)' = Unturned(side) \ {t}
  /\ \A u \in Holders(side) : at'[u] = at[u]

Shows(side, t) ==
  /\ t \in Holders(side) /\ t \notin Unturned(side)
  /\ Holders(side)' = Holders(side) \ {t} /\ Unturned(side)' = Unturned(side)
  /\ \A u \in Holders(side) \ {t} : at'[u] = at[u]

LEMMA SetsAre ==
  \A side \in {Producers, Consumers} :
    Holders(side) = Labelled(side, HoldLabels) /\ Unturned(side) = Labelled(side, WaitLabels)
  BY DEF Holders, Unturned, Labelled, HoldLabels, WaitLabels

LEMMA SetsAreNext ==
  (\A side \in {Producers, Consumers} :
     Holders(side) = Labelled(side, HoldLabels) /\ Unturned(side) = Labelled(side, WaitLabels))'
  BY SetsAre, PTL

LEMMA OthersDoStay ==
  ASSUME Types, NEW p \in Threads, at' = at \/ \E x : at' = [at EXCEPT ![p] = x]
  PROVE  OthersStay(p)
  BY DEF Types, OthersStay

LEMMA LabelledAfter ==
  ASSUME Types, NEW CONSTANT side, side \subseteq Threads, NEW CONSTANT p \in Threads,
         NEW CONSTANT l, Goto(p, l), NEW CONSTANT L
  PROVE  /\ p \notin side => Labelled(side, L)' = Labelled(side, L)
         /\ p \in side /\ l \in L => Labelled(side, L)' = Labelled(side, L) \cup {p}
         /\ p \in side /\ l \notin L => Labelled(side, L)' = Labelled(side, L) \ {p}
<1>1. \A t \in side : pc'[t] = IF t = p THEN l ELSE pc[t]
  BY DEF Types, Goto
<1> QED
  BY <1>1 DEF Labelled

LEMMA LabelledFinite ==
  ASSUME NEW side \in {Producers, Consumers}, NEW L
  PROVE  IsFiniteSet(Labelled(side, L)) /\ Cardinality(Labelled(side, L)) \in Nat
<1>1. IsFiniteSet(side) /\ Labelled(side, L) \subseteq side
  BY LinesAssumption DEF Labelled
<1> QED
  BY <1>1, FS_Subset, FS_CardinalityType

\* A step of a thread of the other side, and one of its own by the labels before and after.
LEMMA OtherIdles ==
  ASSUME Types, NEW CONSTANT side \in {Producers, Consumers}, NEW CONSTANT p \in Threads \ side,
         NEW CONSTANT l, Goto(p, l), OthersStay(p)
  PROVE  Idles(side)
<1>1. side \subseteq Threads /\ p \in Threads /\ p \notin side
  BY DEF Threads
<1>2. \A L \in {HoldLabels, WaitLabels} : Labelled(side, L)' = Labelled(side, L)
  BY <1>1, LabelledAfter
<1>3. \A u \in Holders(side) : at'[u] = at[u]
  BY <1>1 DEF OthersStay, Holders
<1> QED
  BY <1>2, <1>3, SetsAre, SetsAreNext DEF Idles

LEMMA LabelSets == WaitLabels \subseteq HoldLabels
  BY DEF WaitLabels, HoldLabels

LEMMA OwnStep ==
  ASSUME Types, NEW CONSTANT side \in {Producers, Consumers}, NEW CONSTANT p \in side,
         NEW CONSTANT l, Goto(p, l), OthersStay(p)
  PROVE  /\ pc[p] \notin HoldLabels /\ l \notin HoldLabels => Idles(side)
         /\ pc[p] \in WaitLabels /\ l \in WaitLabels /\ at' = at => Idles(side)
         /\ pc[p] \notin HoldLabels /\ l \in WaitLabels => Claims(side, p, at'[p])
         /\ pc[p] \in WaitLabels /\ l \in HoldLabels \ WaitLabels /\ at' = at => Turns(side, p)
         /\ pc[p] \in HoldLabels \ WaitLabels /\ l \notin HoldLabels => Shows(side, p)
<1>1. side \subseteq Threads /\ p \in Threads
  BY DEF Threads
<1>2. \A u \in side : u # p => at'[u] = at[u]
  BY <1>1 DEF OthersStay
<1>3. Holders(side) \subseteq side /\ Unturned(side) \subseteq Holders(side)
  BY DEF Holders, Unturned
<1>4. /\ p \in Holders(side) <=> pc[p] \in HoldLabels
      /\ p \in Unturned(side) <=> pc[p] \in WaitLabels
  BY SetsAre DEF Labelled
<1>5. /\ l \in HoldLabels => Holders(side)' = Holders(side) \cup {p}
      /\ l \notin HoldLabels => Holders(side)' = Holders(side) \ {p}
  <2>1. /\ l \in HoldLabels => Labelled(side, HoldLabels)' = Labelled(side, HoldLabels) \cup {p}
        /\ l \notin HoldLabels => Labelled(side, HoldLabels)' = Labelled(side, HoldLabels) \ {p}
    BY <1>1, LabelledAfter
  <2>2. Holders(side) = Labelled(side, HoldLabels) /\ Holders(side)' = Labelled(side, HoldLabels)'
    BY SetsAre, SetsAreNext
  <2> QED
    BY <2>1, <2>2
<1>6. /\ l \in WaitLabels => Unturned(side)' = Unturned(side) \cup {p}
      /\ l \notin WaitLabels => Unturned(side)' = Unturned(side) \ {p}
  <2>1. /\ l \in WaitLabels => Labelled(side, WaitLabels)' = Labelled(side, WaitLabels) \cup {p}
        /\ l \notin WaitLabels => Labelled(side, WaitLabels)' = Labelled(side, WaitLabels) \ {p}
    BY <1>1, LabelledAfter
  <2>2. Unturned(side) = Labelled(side, WaitLabels) /\ Unturned(side)' = Labelled(side, WaitLabels)'
    BY SetsAre, SetsAreNext
  <2> QED
    BY <2>1, <2>2
<1>7. ASSUME pc[p] \notin HoldLabels, l \notin HoldLabels PROVE Idles(side)
  BY <1>2, <1>3, <1>4, <1>5, <1>6, <1>7, LabelSets DEF Idles
<1>8. ASSUME pc[p] \in WaitLabels, l \in WaitLabels, at' = at PROVE Idles(side)
  BY <1>3, <1>4, <1>5, <1>6, <1>8, LabelSets DEF Idles
<1>9. ASSUME pc[p] \notin HoldLabels, l \in WaitLabels PROVE Claims(side, p, at'[p])
  BY <1>2, <1>3, <1>4, <1>5, <1>6, <1>9, LabelSets DEF Claims
<1>10. ASSUME pc[p] \in WaitLabels, l \in HoldLabels \ WaitLabels, at' = at PROVE Turns(side, p)
  BY <1>3, <1>4, <1>5, <1>6, <1>10, LabelSets DEF Turns
<1>11. ASSUME pc[p] \in HoldLabels \ WaitLabels, l \notin HoldLabels PROVE Shows(side, p)
  BY <1>2, <1>3, <1>4, <1>5, <1>6, <1>11, LabelSets DEF Shows
<1> QED
  BY <1>7, <1>8, <1>9, <1>10, <1>11

-----------------------------------------------------------------------------
(* The numbers of a side. *)

LEMMA HoldersFinite ==
  ASSUME NEW side \in {Producers, Consumers}
  PROVE  /\ IsFiniteSet(Holders(side)) /\ IsFiniteSet(Unturned(side))
         /\ Cardinality(Holders(side)) \in Nat /\ Cardinality(Unturned(side)) \in Nat
         /\ Cardinality(Unturned(side)) <= Cardinality(Holders(side))
<1>1. IsFiniteSet(Holders(side)) /\ Cardinality(Holders(side)) \in Nat
  BY SetsAre, LabelledFinite
<1>2. Unturned(side) \subseteq Holders(side)
  BY DEF Unturned
<1>3. IsFiniteSet(Unturned(side)) /\ Cardinality(Unturned(side)) <= Cardinality(Holders(side))
  BY <1>1, <1>2, FS_Subset
<1>4. Cardinality(Unturned(side)) \in Nat
  BY <1>3, FS_CardinalityType
<1> QED
  BY <1>1, <1>3, <1>4

LEMMA Numbers ==
  ASSUME Types
  PROVE  /\ head \in Nat /\ tail \in Nat
         /\ Pushed \in Int /\ Shown \in Int /\ Popped \in Int /\ Freed \in Int
         /\ Pushed <= Shown /\ Shown <= head /\ Popped <= Freed /\ Freed <= tail
<1>1. head \in Nat /\ tail \in Nat
  BY DEF Types
<1>2. PICK h \in Nat, w \in Nat : h = Cardinality(Holders(Producers)) /\ w = Cardinality(Unturned(Producers)) /\ w <= h
  BY HoldersFinite
<1>3. PICK g \in Nat, v \in Nat : g = Cardinality(Holders(Consumers)) /\ v = Cardinality(Unturned(Consumers)) /\ v <= g
  BY HoldersFinite
<1>4. Pushed = head - h /\ Popped = tail - g
  BY <1>2, <1>3 DEF Pushed, Popped
<1>5. Shown = IF SP THEN Pushed ELSE head - w
  BY <1>2 DEF Shown
<1>6. Freed = IF SC THEN Popped ELSE tail - v
  BY <1>3 DEF Freed
<1>7. Pushed \in Int /\ Shown \in Int /\ Pushed <= Shown /\ Shown <= head
  <2>1. CASE SP
    BY <1>1, <1>2, <1>4, <1>5, <2>1
  <2>2. CASE ~SP
    BY <1>1, <1>2, <1>4, <1>5, <2>2
  <2> QED
    BY <2>1, <2>2
<1>8. Popped \in Int /\ Freed \in Int /\ Popped <= Freed /\ Freed <= tail
  <2>1. CASE SC
    BY <1>1, <1>3, <1>4, <1>6, <2>1
  <2>2. CASE ~SC
    BY <1>1, <1>3, <1>4, <1>6, <2>2
  <2> QED
    BY <2>1, <2>2
<1> QED
  BY <1>1, <1>7, <1>8

\* What each kind of step does to them.
LEMMA HoldersAfter ==
  ASSUME NEW CONSTANT side \in {Producers, Consumers}, NEW CONSTANT t, NEW CONSTANT n
  PROVE  /\ Idles(side) => /\ Cardinality(Holders(side))' = Cardinality(Holders(side))
                           /\ Cardinality(Unturned(side))' = Cardinality(Unturned(side))
         /\ Claims(side, t, n) => /\ Cardinality(Holders(side))' = Cardinality(Holders(side)) + 1
                                  /\ Cardinality(Unturned(side))' = Cardinality(Unturned(side)) + 1
         /\ Turns(side, t) => /\ Cardinality(Holders(side))' = Cardinality(Holders(side))
                              /\ Cardinality(Unturned(side))' = Cardinality(Unturned(side)) - 1
         /\ Shows(side, t) => /\ Cardinality(Holders(side))' = Cardinality(Holders(side)) - 1
                              /\ Cardinality(Unturned(side))' = Cardinality(Unturned(side))
<1>1. IsFiniteSet(Holders(side)) /\ IsFiniteSet(Unturned(side)) /\ Unturned(side) \subseteq Holders(side)
  BY HoldersFinite DEF Unturned
<1>2. ASSUME Idles(side)
      PROVE  /\ Cardinality(Holders(side))' = Cardinality(Holders(side))
             /\ Cardinality(Unturned(side))' = Cardinality(Unturned(side))
  BY <1>2 DEF Idles
<1>3. ASSUME Claims(side, t, n)
      PROVE  /\ Cardinality(Holders(side))' = Cardinality(Holders(side)) + 1
             /\ Cardinality(Unturned(side))' = Cardinality(Unturned(side)) + 1
  <2>1. /\ t \notin Holders(side) /\ t \notin Unturned(side)
        /\ Holders(side)' = Holders(side) \cup {t} /\ Unturned(side)' = Unturned(side) \cup {t}
    BY <1>1, <1>3 DEF Claims
  <2> QED
    BY <1>1, <2>1, OneMore
<1>4. ASSUME Turns(side, t)
      PROVE  /\ Cardinality(Holders(side))' = Cardinality(Holders(side))
             /\ Cardinality(Unturned(side))' = Cardinality(Unturned(side)) - 1
  <2>1. t \in Unturned(side) /\ Holders(side)' = Holders(side) /\ Unturned(side)' = Unturned(side) \ {t}
    BY <1>4 DEF Turns
  <2> QED
    BY <1>1, <2>1, OneLess
<1>5. ASSUME Shows(side, t)
      PROVE  /\ Cardinality(Holders(side))' = Cardinality(Holders(side)) - 1
             /\ Cardinality(Unturned(side))' = Cardinality(Unturned(side))
  <2>1. t \in Holders(side) /\ Holders(side)' = Holders(side) \ {t} /\ Unturned(side)' = Unturned(side)
    BY <1>5 DEF Shows
  <2> QED
    BY <1>1, <2>1, OneLess
<1> QED
  BY <1>2, <1>3, <1>4, <1>5
-----------------------------------------------------------------------------
(* The invariant of the flow of elements. *)

FlowTypes ==
  /\ base \in Nat
  /\ slots \in [LineIds -> [0 .. (SlotsPerLine - 1) -> Nat \cup {Raw}]]

PushesDone(li) == DoneOn(Holders(Producers), at, head, li)
PopsDone(li) == DoneOn(Holders(Consumers), at, tail, li)

\* The count of a line is what is done on it.
CountIsExact ==
  /\ CountsAre(Holders(Producers), at, head, hf2)
  /\ CountsAre(Holders(Consumers), at, tail, tf2)

SingleP == SP => \A p \in Producers :
  /\ pc[p] \in {"idle", "check", "construct", "publish"}
  /\ pc[p] = "check" => at[p] = head
  /\ pc[p] \in {"construct", "publish"} => at[p] = head - 1

SingleC == SC => \A c \in Consumers :
  /\ pc[c] \in {"idle", "take", "release"}
  /\ pc[c] \in {"take", "release"} => at[c] = tail - 1

\* No push has a position that there is no room for; what a single producer knows of
\* it, it has from the line of its position.
Room ==
  /\ head <= Freed + Capacity
  /\ SP => \A li \in LineIds : PositionsOn(head, li) <= PopsDone(li) + SlotsPerLine

\* No pop has a position that has not appeared.
Stock ==
  /\ tail <= Shown
  /\ SC => \A li \in LineIds : PositionsOn(tail, li) <= PushesDone(li)

\* Element n has been constructed and not been moved out.
Kept(n) ==
  /\ ~\E p \in Producers : pc[p] = "construct" /\ at[p] = n
  /\ n >= tail \/ \E c \in Consumers : pc[c] \in {"await", "take"} /\ at[c] = n

SlotsHold == \A n \in 0 .. (head - 1) : Kept(n) => SlotAt(n) = base + n

FlowInv == TurnInv /\ FlowTypes /\ CountIsExact /\ SingleP /\ SingleC /\ Room /\ Stock /\ SlotsHold

\* The positions that are still to be shown, or freed, are the last.
LEMMA PushesLast ==
  ASSUME TurnInv, SingleP
  PROVE  Last(IF SP THEN Holders(Producers) ELSE Unturned(Producers), Holders(Producers), at, head)
<1>1. Types /\ PushSide /\ head \in Nat /\ Producers \subseteq Threads
  BY DEF TurnInv, Types, Threads
<1>2. IsFiniteSet(Holders(Producers))
  BY HoldersFinite
<1>3. CASE SP
  <2>1. CASE Holders(Producers) = {}
    BY <1>1, <1>2, <1>3, <2>1, NoneWaits
  <2>2. CASE Holders(Producers) # {}
    <3>1. PICK p \in Producers : p \in Holders(Producers)
      BY <2>2 DEF Holders
    <3>2. \A t \in Holders(Producers) : t = p
      BY <1>1, <1>3, <3>1 DEF PushSide, OnlyOne, Alone, Holders
    <3>3. Holders(Producers) = {p}
      BY <3>1, <3>2
    <3>4. pc[p] \in {"construct", "publish"}
      BY <1>3, <3>1 DEF SingleP, Holders
    <3>5. at[p] = head - 1 /\ at[p] \in Nat
      BY <1>1, <1>3, <3>4 DEF SingleP, Types
    <3>6. head > 0
      BY <1>1, <3>5
    <3> QED
      BY <1>1, <1>2, <1>3, <3>1, <3>3, <3>5, <3>6, OneWaits
  <2> QED
    BY <2>1, <2>2
<1>4. CASE ~SP
  <2>1. Side(Waiting(Producers), InTurn(Producers), at, head, hf1, hf2)
    BY <1>1, <1>4 DEF PushSide
  <2>2. IsFiniteSet(Waiting(Producers) \cup InTurn(Producers))
    <3>1. Waiting(Producers) \cup InTurn(Producers) = Holders(Producers)
      BY DEF Waiting, InTurn, Holders, WaitLabels, TurnLabels
    <3> QED
      BY <1>2, <3>1
  <2>3. Last(Waiting(Producers), Waiting(Producers) \cup InTurn(Producers), at, head)
    BY <2>1, <2>2, WaitingLast
  <2>4. Waiting(Producers) = Unturned(Producers)
    BY SetsAre DEF Labelled, Waiting
  <2>5. Waiting(Producers) \cup InTurn(Producers) = Holders(Producers)
    BY DEF Waiting, InTurn, Holders, WaitLabels, TurnLabels
  <2> QED
    BY <1>4, <2>3, <2>4, <2>5
<1> QED
  BY <1>3, <1>4

LEMMA PopsLast ==
  ASSUME TurnInv, SingleC
  PROVE  Last(IF SC THEN Holders(Consumers) ELSE Unturned(Consumers), Holders(Consumers), at, tail)
<1>1. Types /\ PopSide /\ tail \in Nat /\ Consumers \subseteq Threads
  BY DEF TurnInv, Types, Threads
<1>2. IsFiniteSet(Holders(Consumers))
  BY HoldersFinite
<1>3. CASE SC
  <2>1. CASE Holders(Consumers) = {}
    BY <1>1, <1>2, <1>3, <2>1, NoneWaits
  <2>2. CASE Holders(Consumers) # {}
    <3>1. PICK p \in Consumers : p \in Holders(Consumers)
      BY <2>2 DEF Holders
    <3>2. \A t \in Holders(Consumers) : t = p
      BY <1>1, <1>3, <3>1 DEF PopSide, OnlyOne, Alone, Holders
    <3>3. Holders(Consumers) = {p}
      BY <3>1, <3>2
    <3>4. pc[p] \in {"take", "release"}
      BY <1>3, <3>1 DEF SingleC, Holders
    <3>5. at[p] = tail - 1 /\ at[p] \in Nat
      BY <1>1, <1>3, <3>4 DEF SingleC, Types
    <3>6. tail > 0
      BY <1>1, <3>5
    <3> QED
      BY <1>1, <1>2, <1>3, <3>1, <3>3, <3>5, <3>6, OneWaits
  <2> QED
    BY <2>1, <2>2
<1>4. CASE ~SC
  <2>1. Side(Waiting(Consumers), InTurn(Consumers), at, tail, tf1, tf2)
    BY <1>1, <1>4 DEF PopSide
  <2>2. IsFiniteSet(Waiting(Consumers) \cup InTurn(Consumers))
    <3>1. Waiting(Consumers) \cup InTurn(Consumers) = Holders(Consumers)
      BY DEF Waiting, InTurn, Holders, WaitLabels, TurnLabels
    <3> QED
      BY <1>2, <3>1
  <2>3. Last(Waiting(Consumers), Waiting(Consumers) \cup InTurn(Consumers), at, tail)
    BY <2>1, <2>2, WaitingLast
  <2>4. Waiting(Consumers) = Unturned(Consumers)
    BY SetsAre DEF Labelled, Waiting
  <2>5. Waiting(Consumers) \cup InTurn(Consumers) = Holders(Consumers)
    BY DEF Waiting, InTurn, Holders, WaitLabels, TurnLabels
  <2> QED
    BY <1>4, <2>3, <2>4, <2>5
<1> QED
  BY <1>3, <1>4

LEMMA DoneTypes ==
  ASSUME Types, NEW li \in LineIds
  PROVE  /\ PushesDone(li) \in Int /\ PopsDone(li) \in Int
         /\ PositionsOn(head, li) \in Nat /\ PositionsOn(tail, li) \in Nat
         /\ PushesDone(li) <= PositionsOn(head, li) /\ PositionsOn(head, li) <= head
         /\ PopsDone(li) <= PositionsOn(tail, li) /\ PositionsOn(tail, li) <= tail
<1>1. head \in Nat /\ tail \in Nat
  BY DEF Types
<1>2. IsFiniteSet(Holders(Producers)) /\ IsFiniteSet(Holders(Consumers))
  BY HoldersFinite
<1>3. /\ PushesDone(li) \in Int /\ PositionsOn(head, li) \in 0 .. head
      /\ PushesDone(li) <= PositionsOn(head, li)
  BY <1>1, <1>2, DoneType DEF PushesDone
<1>4. /\ PopsDone(li) \in Int /\ PositionsOn(tail, li) \in 0 .. tail
      /\ PopsDone(li) <= PositionsOn(tail, li)
  BY <1>1, <1>2, DoneType DEF PopsDone
<1> QED
  BY <1>1, <1>3, <1>4

LEMMA Ahead ==
  ASSUME TurnInv, SingleP
  PROVE  /\ Shown \in Nat
         /\ \A li \in LineIds : PushesDone(li) <= PositionsOn(Shown, li)
         /\ \A p \in Producers : pc[p] = "construct" => at[p] \in Shown .. (head - 1)
<1> DEFINE W == IF SP THEN Holders(Producers) ELSE Unturned(Producers)
<1>1. Last(W, Holders(Producers), at, head)
  BY PushesLast
<1>2. Shown = head - Cardinality(W)
  BY DEF Shown, Pushed
<1>3. \A p \in Producers : pc[p] = "construct" => p \in W
  BY DEF Holders, Unturned
<1> HIDE DEF W
<1>4. /\ head - Cardinality(W) \in Nat
      /\ \A t \in W : at[t] \in (head - Cardinality(W)) .. (head - 1)
      /\ \A li \in LineIds : DoneOn(Holders(Producers), at, head, li) <= PositionsOn(head - Cardinality(W), li)
  BY <1>1 DEF Last
<1> QED
  BY <1>2, <1>3, <1>4 DEF PushesDone

LEMMA Behind ==
  ASSUME TurnInv, SingleC
  PROVE  /\ Freed \in Nat
         /\ \A li \in LineIds : PopsDone(li) <= PositionsOn(Freed, li)
         /\ \A c \in Consumers : pc[c] \in {"await", "take"} => at[c] \in Freed .. (tail - 1)
<1> DEFINE W == IF SC THEN Holders(Consumers) ELSE Unturned(Consumers)
<1>1. Last(W, Holders(Consumers), at, tail)
  BY PopsLast
<1>2. Freed = tail - Cardinality(W)
  BY DEF Freed, Popped
<1>3. \A c \in Consumers : pc[c] \in {"await", "take"} => c \in W
  BY DEF Holders, Unturned
<1> HIDE DEF W
<1>4. /\ tail - Cardinality(W) \in Nat
      /\ \A t \in W : at[t] \in (tail - Cardinality(W)) .. (tail - 1)
      /\ \A li \in LineIds : DoneOn(Holders(Consumers), at, tail, li) <= PositionsOn(tail - Cardinality(W), li)
  BY <1>1 DEF Last
<1> QED
  BY <1>2, <1>3, <1>4 DEF PopsDone

\* Where each element that is there lies: it was shown, or is about to be, and its room
\* was not given back.
LEMMA KeptRange ==
  ASSUME FlowInv, NEW n \in 0 .. (head - 1), Kept(n)
  PROVE  n \in Freed .. (head - 1)
<1>1. Freed \in Nat /\ \A c \in Consumers : pc[c] \in {"await", "take"} => at[c] \in Freed .. (tail - 1)
  BY Behind DEF FlowInv
<1>2. Freed <= tail /\ tail \in Nat /\ head \in Nat
  BY Numbers DEF FlowInv, TurnInv
<1> QED
  BY <1>1, <1>2 DEF Kept

\* A pop finds its own element: what it took was shown.
LEMMA TakesHere ==
  ASSUME FlowInv
  PROVE  TakesOwnElement
<1> SUFFICES ASSUME NEW c \in Consumers, pc[c] = "take" PROVE SlotAt(at[c]) = base + at[c]
  BY DEF TakesOwnElement
<1>1. /\ Shown \in Nat /\ \A p \in Producers : pc[p] = "construct" => at[p] \in Shown .. (head - 1)
  BY Ahead DEF FlowInv
<1>2. Freed \in Nat /\ at[c] \in Freed .. (tail - 1)
  BY Behind DEF FlowInv
<1>3. tail <= Shown /\ Shown <= head /\ tail \in Nat /\ head \in Nat
  BY Numbers DEF FlowInv, TurnInv, Stock
<1>4. at[c] \in 0 .. (head - 1)
  BY <1>1, <1>2, <1>3
<1>5. ~\E p \in Producers : pc[p] = "construct" /\ at[p] = at[c]
  BY <1>1, <1>2, <1>3
<1>6. Kept(at[c])
  BY <1>5 DEF Kept
<1> QED
  BY <1>4, <1>6 DEF FlowInv, SlotsHold
-----------------------------------------------------------------------------
(* What a push does. *)

PushQuiet ==
  Idles(Producers) /\ UNCHANGED <<head, hf2>>

PushClaims(p) ==
  /\ Claims(Producers, p, head) /\ head' = head + 1 /\ hf2' = hf2
  /\ SP => pc[p] = "check" /\ at[p] = head /\ ~LineFull(head)

PushTurns(p) ==
  Turns(Producers, p) /\ UNCHANGED <<head, hf2>>

PushShows(p) ==
  Shows(Producers, p) /\ head' = head /\ hf2' = Inc(hf2, get_li(at[p]))

LEMMA PushEffects ==
  ASSUME Types, SingleP, NEW p \in Producers, PushLoad(p) \/ PushStep(p)
  PROVE  PushQuiet \/ PushClaims(p) \/ PushTurns(p) \/ PushShows(p)
<1>1. Types /\ Producers \in {Producers, Consumers} /\ Producers \subseteq Threads
  BY DEF Threads
<1>1a. OthersStay(p)
  BY <1>1, PushLeaves, OthersDoStay
<1>2. CASE PushLoad(p)
  <2>1. /\ pc[p] = "idle" /\ Goto(p, "check") /\ at' = [at EXCEPT ![p] = head]
        /\ UNCHANGED <<head, hf2>>
    BY <1>2 DEF PushLoad, lines
  <2>2. Idles(Producers)
    BY <1>1, <1>1a, <2>1, OwnStep DEF HoldLabels
  <2> QED
    BY <2>1, <2>2 DEF PushQuiet
<1>3. CASE PushRefuse(p)
  <2>1. /\ pc[p] = "check" /\ Goto(p, "idle") /\ at' = [at EXCEPT ![p] = 0]
        /\ UNCHANGED <<head, hf2>>
    BY <1>3 DEF PushRefuse, Done, lines
  <2>2. Idles(Producers)
    BY <1>1, <1>1a, <2>1, OwnStep DEF HoldLabels
  <2> QED
    BY <2>1, <2>2 DEF PushQuiet
<1>4. CASE PushAccept(p) /\ ~SP
  <2>1. /\ pc[p] = "check" /\ Goto(p, "cas") /\ at' = at
        /\ UNCHANGED <<head, hf2>>
    BY <1>4 DEF PushAccept, Keep, lines
  <2>2. Idles(Producers)
    BY <1>1, <1>1a, <2>1, OwnStep DEF HoldLabels
  <2> QED
    BY <2>1, <2>2 DEF PushQuiet
<1>5. CASE PushAccept(p) /\ SP
  <2>1. /\ pc[p] = "check" /\ Goto(p, "construct") /\ at' = at
        /\ head' = head + 1 /\ hf2' = hf2 /\ ~LineFull(at[p])
    BY <1>5 DEF PushAccept, Keep, lines
  <2>2. at[p] = head
    BY <1>5, <2>1 DEF SingleP
  <2>3. Claims(Producers, p, at'[p])
    BY <1>1, <1>1a, <2>1, OwnStep DEF HoldLabels, WaitLabels
  <2> QED
    BY <2>1, <2>2, <2>3 DEF PushClaims
<1>6. CASE CasLoses(p)
  <2>1. /\ pc[p] = "cas" /\ Goto(p, "check") /\ at' = [at EXCEPT ![p] = head]
        /\ UNCHANGED <<head, hf2>>
    BY <1>6 DEF CasLoses, lines
  <2>2. Idles(Producers)
    BY <1>1, <1>1a, <2>1, OwnStep DEF HoldLabels
  <2> QED
    BY <2>1, <2>2 DEF PushQuiet
<1>7. CASE CasWins(p)
  <2>1. /\ pc[p] = "cas" /\ Goto(p, "construct") /\ at' = at /\ at[p] = head
        /\ head' = head + 1 /\ hf2' = hf2
    BY <1>7 DEF CasWins, Keep, lines
  <2>2. ~SP
    BY <2>1 DEF SingleP
  <2>3. Claims(Producers, p, at'[p])
    BY <1>1, <1>1a, <2>1, OwnStep DEF HoldLabels, WaitLabels
  <2> QED
    BY <2>1, <2>2, <2>3 DEF PushClaims
<1>8. CASE Construct(p)
  <2>1. /\ pc[p] = "construct" /\ Goto(p, IF SP THEN "publish" ELSE "turn") /\ at' = at
        /\ UNCHANGED <<head, hf2>>
    BY <1>8 DEF Construct, Keep
  <2>2. SP => Turns(Producers, p)
    BY <1>1, <1>1a, <2>1, OwnStep DEF HoldLabels, WaitLabels
  <2>3. ~SP => Idles(Producers)
    BY <1>1, <1>1a, <2>1, OwnStep DEF HoldLabels, WaitLabels
  <2> QED
    BY <2>1, <2>2, <2>3 DEF PushQuiet, PushTurns
<1>9. CASE PushTurn(p)
  <2>1. /\ pc[p] = "turn" /\ Goto(p, "grant") /\ at' = at
        /\ UNCHANGED <<head, hf2>>
    BY <1>9 DEF PushTurn, Keep, lines
  <2>2. Idles(Producers)
    BY <1>1, <1>1a, <2>1, OwnStep DEF HoldLabels, WaitLabels
  <2> QED
    BY <2>1, <2>2 DEF PushQuiet
<1>10. CASE PushGrant(p)
  <2>1. /\ pc[p] = "grant" /\ Goto(p, "publish") /\ at' = at
        /\ UNCHANGED <<head, hf2>>
    BY <1>10 DEF PushGrant, Keep
  <2>2. Turns(Producers, p)
    BY <1>1, <1>1a, <2>1, OwnStep DEF HoldLabels, WaitLabels
  <2> QED
    BY <2>1, <2>2 DEF PushTurns
<1>11. CASE Publish(p)
  <2>1. /\ pc[p] = "publish" /\ Goto(p, "idle") /\ at' = [at EXCEPT ![p] = 0]
        /\ head' = head /\ hf2' = Inc(hf2, get_li(at[p]))
    BY <1>11 DEF Publish, Done
  <2>2. Shows(Producers, p)
    BY <1>1, <1>1a, <2>1, OwnStep DEF HoldLabels, WaitLabels
  <2> QED
    BY <2>1, <2>2 DEF PushShows
<1> QED
  BY <1>2, <1>3, <1>4, <1>5, <1>6, <1>7, <1>8, <1>9, <1>10, <1>11 DEF PushStep

\* ... and leaves to the pops.
LEMMA PushSpares ==
  ASSUME Types, NEW p \in Producers, PushLoad(p) \/ PushStep(p)
  PROVE  /\ UNCHANGED <<flags, tail, tf2, base>>
         /\ Idles(Consumers)
<1>1. UNCHANGED base
  <2>1. CASE PushLoad(p) \/ PushRefuse(p) \/ CasLoses(p)
    BY <2>1 DEF PushLoad, PushRefuse, CasLoses
  <2>2. CASE PushAccept(p) \/ CasWins(p)
    BY <2>2 DEF PushAccept, CasWins
  <2>3. CASE Construct(p) \/ PushTurn(p)
    BY <2>3 DEF Construct, PushTurn
  <2>4. CASE PushGrant(p) \/ Publish(p)
    BY <2>4 DEF PushGrant, Publish
  <2> QED
    BY <2>1, <2>2, <2>3, <2>4 DEF PushStep
<1>2. p \in Threads \ Consumers /\ Consumers \in {Producers, Consumers}
  BY LinesAssumption DEF Threads
<1>3. PICK l : Goto(p, l)
  BY PushLeaves
<1>4. OthersStay(p)
  BY <1>2, PushLeaves, OthersDoStay
<1>5. Idles(Consumers)
  BY <1>2, <1>3, <1>4, OtherIdles
<1>6. UNCHANGED <<flags, tail, tf2>>
  BY PushLeaves
<1> QED
  BY <1>1, <1>5, <1>6

\* What becomes of the numbers.
LEMMA PushNumbers ==
  ASSUME Types, NEW p \in Producers, PushLoad(p) \/ PushStep(p),
         PushQuiet \/ PushClaims(p) \/ PushTurns(p) \/ PushShows(p)
  PROVE  /\ Popped' = Popped /\ Freed' = Freed
         /\ Idles(Producers) /\ head' = head => Pushed' = Pushed /\ Shown' = Shown
         /\ PushClaims(p) => Pushed' = Pushed /\ Shown' = Shown
         /\ PushTurns(p) => Pushed' = Pushed /\ Shown' = IF SP THEN Shown ELSE Shown + 1
         /\ PushShows(p) => Pushed' = Pushed + 1 /\ Shown' = IF SP THEN Shown + 1 ELSE Shown
<1>1. UNCHANGED <<flags, tail>> /\ Idles(Consumers)
  BY PushSpares
<1>2. PICK h \in Nat, w \in Nat, n \in Nat :
         h = Cardinality(Holders(Producers)) /\ w = Cardinality(Unturned(Producers)) /\ n = head
  BY HoldersFinite DEF Types
<1>3. SP' = SP /\ SC' = SC
  BY <1>1 DEF SP, SC
<1>4. Popped' = Popped /\ Freed' = Freed
  <2>1. /\ Cardinality(Holders(Consumers))' = Cardinality(Holders(Consumers))
        /\ Cardinality(Unturned(Consumers))' = Cardinality(Unturned(Consumers))
    BY <1>1, HoldersAfter
  <2> QED
    BY <1>1, <1>3, <2>1 DEF Popped, Freed
<1>5. Pushed = n - h /\ Shown = IF SP THEN n - h ELSE n - w
  BY <1>2 DEF Pushed, Shown
<1>6. /\ Pushed' = head' - Cardinality(Holders(Producers))'
      /\ Shown' = IF SP THEN Pushed' ELSE head' - Cardinality(Unturned(Producers))'
  BY <1>3 DEF Pushed, Shown
<1>7. ASSUME Idles(Producers), head' = head PROVE Pushed' = Pushed /\ Shown' = Shown
  <2>1. Cardinality(Holders(Producers))' = h /\ Cardinality(Unturned(Producers))' = w
    BY <1>2, <1>7, HoldersAfter
  <2> QED
    BY <1>2, <1>5, <1>6, <1>7, <2>1
<1>8. ASSUME PushClaims(p) PROVE Pushed' = Pushed /\ Shown' = Shown
  <2>1. Claims(Producers, p, head) /\ head' = n + 1
    BY <1>2, <1>8 DEF PushClaims
  <2>2. PICK m : m = head /\ Claims(Producers, p, m)
    BY <2>1
  <2>3. Cardinality(Holders(Producers))' = h + 1 /\ Cardinality(Unturned(Producers))' = w + 1
    BY <1>2, <2>2, HoldersAfter
  <2> QED
    BY <1>5, <1>6, <2>1, <2>3
<1>9. ASSUME PushTurns(p) PROVE Pushed' = Pushed /\ Shown' = IF SP THEN Shown ELSE Shown + 1
  <2>1. Turns(Producers, p) /\ head' = n
    BY <1>2, <1>9 DEF PushTurns
  <2>2. Cardinality(Holders(Producers))' = h /\ Cardinality(Unturned(Producers))' = w - 1
    BY <1>2, <2>1, HoldersAfter
  <2> QED
    BY <1>5, <1>6, <2>1, <2>2
<1>10. ASSUME PushShows(p) PROVE Pushed' = Pushed + 1 /\ Shown' = IF SP THEN Shown + 1 ELSE Shown
  <2>1. Shows(Producers, p) /\ head' = n
    BY <1>2, <1>10 DEF PushShows
  <2>2. Cardinality(Holders(Producers))' = h - 1 /\ Cardinality(Unturned(Producers))' = w
    BY <1>2, <2>1, HoldersAfter
  <2> QED
    BY <1>5, <1>6, <2>1, <2>2
<1> QED
  BY <1>4, <1>7, <1>8, <1>9, <1>10
-----------------------------------------------------------------------------
(* What a pop does. *)

PopQuiet ==
  Idles(Consumers) /\ UNCHANGED <<tail, tf2>>

PopClaims(c) ==
  /\ Claims(Consumers, c, tail) /\ tail' = tail + 1 /\ tf2' = tf2
  /\ SC => Alone(c, Consumers) /\ ~LineEmpty(tail)

PopTurns(c) ==
  Turns(Consumers, c) /\ UNCHANGED <<tail, tf2>>

PopShows(c) ==
  Shows(Consumers, c) /\ tail' = tail /\ tf2' = Inc(tf2, get_li(at[c]))

LEMMA PopEffects ==
  ASSUME Types, SingleC, NEW c \in Consumers, PopSingle(c) \/ PopEnter(c) \/ PopStep(c)
  PROVE  PopQuiet \/ PopClaims(c) \/ PopTurns(c) \/ PopShows(c)
<1>1. Types /\ Consumers \in {Producers, Consumers} /\ Consumers \subseteq Threads
  BY DEF Threads
<1>1a. OthersStay(c)
  BY <1>1, PopLeaves, OthersDoStay
<1>2. CASE PopSingle(c)
  <2>1. /\ pc[c] = "idle" /\ Goto(c, "take") /\ at' = [at EXCEPT ![c] = tail]
        /\ tail' = tail + 1 /\ tf2' = tf2 /\ SC /\ Alone(c, Consumers) /\ ~LineEmpty(tail)
    BY <1>2 DEF PopSingle, lines
  <2>2. Claims(Consumers, c, at'[c])
    BY <1>1, <1>1a, <2>1, OwnStep DEF HoldLabels, WaitLabels
  <2>3. at'[c] = tail
    BY <1>1, <2>1 DEF Types
  <2> QED
    BY <2>1, <2>2, <2>3 DEF PopClaims
<1>3. CASE PopEnter(c)
  <2>1. /\ pc[c] = "idle" /\ Goto(c, "estimate") /\ UNCHANGED <<tail, tf2>>
    BY <1>3 DEF PopEnter, lines
  <2>2. Idles(Consumers)
    BY <1>1, <1>1a, <2>1, OwnStep DEF HoldLabels
  <2> QED
    BY <2>1, <2>2 DEF PopQuiet
<1>4. CASE PopEstimate(c)
  <2>1. pc[c] = "estimate" /\ Goto(c, "test") /\ UNCHANGED <<tail, tf2>>
    BY <1>4 DEF PopEstimate, lines
  <2>2. Idles(Consumers)
    BY <1>1, <1>1a, <2>1, OwnStep DEF HoldLabels
  <2> QED
    BY <2>1, <2>2 DEF PopQuiet
<1>5. CASE PopTest(c)
  <2>1. pc[c] = "test" /\ UNCHANGED <<tail, tf2>>
        /\ Goto(c, IF LineEmpty(at[c]) THEN "giveup" ELSE "claim")
    BY <1>5 DEF PopTest, Keep, lines
  <2>2. PICK l \in {"giveup", "claim"} : Goto(c, l)
    BY <2>1
  <2>3. Idles(Consumers)
    BY <1>1, <1>1a, <2>1, <2>2, OwnStep DEF HoldLabels
  <2> QED
    BY <2>1, <2>3 DEF PopQuiet
<1>6. CASE PopGiveUp(c)
  <2>1. pc[c] = "giveup" /\ Goto(c, "idle") /\ UNCHANGED <<tail, tf2>>
    BY <1>6 DEF PopGiveUp, Done, lines
  <2>2. Idles(Consumers)
    BY <1>1, <1>1a, <2>1, OwnStep DEF HoldLabels
  <2> QED
    BY <2>1, <2>2 DEF PopQuiet
<1>7. CASE PopClaim(c)
  <2>1. /\ pc[c] = "claim" /\ Goto(c, "await") /\ at' = [at EXCEPT ![c] = tail]
        /\ tail' = tail + 1 /\ tf2' = tf2
    BY <1>7 DEF PopClaim, lines
  <2>2. ~SC
    BY <2>1 DEF SingleC
  <2>3. Claims(Consumers, c, at'[c])
    BY <1>1, <1>1a, <2>1, OwnStep DEF HoldLabels, WaitLabels
  <2>4. at'[c] = tail
    BY <1>1, <2>1 DEF Types
  <2> QED
    BY <2>1, <2>2, <2>3, <2>4 DEF PopClaims
<1>8. CASE PopAwait(c)
  <2>1. pc[c] = "await" /\ Goto(c, "take") /\ at' = at /\ UNCHANGED <<tail, tf2>>
    BY <1>8 DEF PopAwait, Keep, lines
  <2>2. Idles(Consumers)
    BY <1>1, <1>1a, <2>1, OwnStep DEF HoldLabels, WaitLabels
  <2> QED
    BY <2>1, <2>2 DEF PopQuiet
<1>9. CASE Destroy(c)
  <2>1. /\ pc[c] = "take" /\ Goto(c, IF SC THEN "release" ELSE "turn") /\ at' = at
        /\ UNCHANGED <<tail, tf2>>
    BY <1>9 DEF Destroy, Keep
  <2>2. SC => Turns(Consumers, c)
    BY <1>1, <1>1a, <2>1, OwnStep DEF HoldLabels, WaitLabels
  <2>3. ~SC => Idles(Consumers)
    BY <1>1, <1>1a, <2>1, OwnStep DEF HoldLabels, WaitLabels
  <2> QED
    BY <2>1, <2>2, <2>3 DEF PopQuiet, PopTurns
<1>10. CASE PopTurn(c)
  <2>1. pc[c] = "turn" /\ Goto(c, "grant") /\ at' = at /\ UNCHANGED <<tail, tf2>>
    BY <1>10 DEF PopTurn, Keep, lines
  <2>2. Idles(Consumers)
    BY <1>1, <1>1a, <2>1, OwnStep DEF HoldLabels, WaitLabels
  <2> QED
    BY <2>1, <2>2 DEF PopQuiet
<1>11. CASE PopGrant(c)
  <2>1. pc[c] = "grant" /\ Goto(c, "release") /\ at' = at /\ UNCHANGED <<tail, tf2>>
    BY <1>11 DEF PopGrant, Keep
  <2>2. Turns(Consumers, c)
    BY <1>1, <1>1a, <2>1, OwnStep DEF HoldLabels, WaitLabels
  <2> QED
    BY <2>1, <2>2 DEF PopTurns
<1>12. CASE Release(c)
  <2>1. /\ pc[c] = "release" /\ Goto(c, "idle") /\ tail' = tail
        /\ tf2' = Inc(tf2, get_li(at[c]))
    BY <1>12 DEF Release, Done
  <2>2. Shows(Consumers, c)
    BY <1>1, <1>1a, <2>1, OwnStep DEF HoldLabels, WaitLabels
  <2> QED
    BY <2>1, <2>2 DEF PopShows
<1> QED
  BY <1>2, <1>3, <1>4, <1>5, <1>6, <1>7, <1>8, <1>9, <1>10, <1>11, <1>12 DEF PopStep

\* ... and leaves to the pushes.
LEMMA PopSpares ==
  ASSUME Types, NEW c \in Consumers, PopSingle(c) \/ PopEnter(c) \/ PopStep(c)
  PROVE  /\ UNCHANGED <<flags, head, hf2, base>>
         /\ Idles(Producers)
<1>1. UNCHANGED base
  <2>1. CASE PopSingle(c) \/ PopEnter(c) \/ PopEstimate(c)
    BY <2>1 DEF PopSingle, PopEnter, PopEstimate
  <2>2. CASE PopTest(c) \/ PopGiveUp(c)
    BY <2>2 DEF PopTest, PopGiveUp
  <2>3. CASE PopClaim(c) \/ PopAwait(c) \/ Destroy(c)
    BY <2>3 DEF PopClaim, PopAwait, Destroy
  <2>4. CASE PopTurn(c) \/ PopGrant(c) \/ Release(c)
    BY <2>4 DEF PopTurn, PopGrant, Release
  <2> QED
    BY <2>1, <2>2, <2>3, <2>4 DEF PopStep
<1>2. c \in Threads \ Producers /\ Producers \in {Producers, Consumers}
  BY LinesAssumption DEF Threads
<1>3. PICK l : Goto(c, l)
  BY PopLeaves
<1>4. OthersStay(c)
  BY <1>2, PopLeaves, OthersDoStay
<1>5. Idles(Producers)
  BY <1>2, <1>3, <1>4, OtherIdles
<1>6. UNCHANGED <<flags, head, hf2>>
  BY PopLeaves
<1> QED
  BY <1>1, <1>5, <1>6

LEMMA PopNumbers ==
  ASSUME Types, NEW c \in Consumers, PopSingle(c) \/ PopEnter(c) \/ PopStep(c)
  PROVE  /\ Pushed' = Pushed /\ Shown' = Shown
         /\ Idles(Consumers) /\ tail' = tail => Popped' = Popped /\ Freed' = Freed
         /\ PopClaims(c) => Popped' = Popped /\ Freed' = Freed
         /\ PopTurns(c) => Popped' = Popped /\ Freed' = IF SC THEN Freed ELSE Freed + 1
         /\ PopShows(c) => Popped' = Popped + 1 /\ Freed' = IF SC THEN Freed + 1 ELSE Freed
<1>1. UNCHANGED <<flags, head>> /\ Idles(Producers)
  BY PopSpares
<1>2. PICK h \in Nat, w \in Nat, n \in Nat :
         h = Cardinality(Holders(Consumers)) /\ w = Cardinality(Unturned(Consumers)) /\ n = tail
  BY HoldersFinite DEF Types
<1>3. SP' = SP /\ SC' = SC
  BY <1>1 DEF SP, SC
<1>4. Pushed' = Pushed /\ Shown' = Shown
  <2>1. /\ Cardinality(Holders(Producers))' = Cardinality(Holders(Producers))
        /\ Cardinality(Unturned(Producers))' = Cardinality(Unturned(Producers))
    BY <1>1, HoldersAfter
  <2> QED
    BY <1>1, <1>3, <2>1 DEF Pushed, Shown
<1>5. Popped = n - h /\ Freed = IF SC THEN n - h ELSE n - w
  BY <1>2 DEF Popped, Freed
<1>6. /\ Popped' = tail' - Cardinality(Holders(Consumers))'
      /\ Freed' = IF SC THEN Popped' ELSE tail' - Cardinality(Unturned(Consumers))'
  BY <1>3 DEF Popped, Freed
<1>7. ASSUME Idles(Consumers), tail' = tail PROVE Popped' = Popped /\ Freed' = Freed
  <2>1. Cardinality(Holders(Consumers))' = h /\ Cardinality(Unturned(Consumers))' = w
    BY <1>2, <1>7, HoldersAfter
  <2> QED
    BY <1>2, <1>5, <1>6, <1>7, <2>1
<1>8. ASSUME PopClaims(c) PROVE Popped' = Popped /\ Freed' = Freed
  <2>1. Claims(Consumers, c, tail) /\ tail' = n + 1
    BY <1>2, <1>8 DEF PopClaims
  <2>2. PICK m : m = tail /\ Claims(Consumers, c, m)
    BY <2>1
  <2>3. Cardinality(Holders(Consumers))' = h + 1 /\ Cardinality(Unturned(Consumers))' = w + 1
    BY <1>2, <2>2, HoldersAfter
  <2> QED
    BY <1>5, <1>6, <2>1, <2>3
<1>9. ASSUME PopTurns(c) PROVE Popped' = Popped /\ Freed' = IF SC THEN Freed ELSE Freed + 1
  <2>1. Turns(Consumers, c) /\ tail' = n
    BY <1>2, <1>9 DEF PopTurns
  <2>2. Cardinality(Holders(Consumers))' = h /\ Cardinality(Unturned(Consumers))' = w - 1
    BY <1>2, <2>1, HoldersAfter
  <2> QED
    BY <1>5, <1>6, <2>1, <2>2
<1>10. ASSUME PopShows(c) PROVE Popped' = Popped + 1 /\ Freed' = IF SC THEN Freed + 1 ELSE Freed
  <2>1. Shows(Consumers, c) /\ tail' = n
    BY <1>2, <1>10 DEF PopShows
  <2>2. Cardinality(Holders(Consumers))' = h - 1 /\ Cardinality(Unturned(Consumers))' = w
    BY <1>2, <2>1, HoldersAfter
  <2> QED
    BY <1>5, <1>6, <2>1, <2>2
<1> QED
  BY <1>4, <1>7, <1>8, <1>9, <1>10
-----------------------------------------------------------------------------
(* The counts, and what is done on a line. *)

LEMMA PushCounts ==
  ASSUME Types, CountIsExact, NEW p \in Producers, PushLoad(p) \/ PushStep(p),
         PushQuiet \/ PushClaims(p) \/ PushTurns(p) \/ PushShows(p)
  PROVE  /\ CountIsExact'
         /\ \A li \in LineIds : PopsDone(li)' = PopsDone(li) /\ PushesDone(li)' >= PushesDone(li)
<1> DEFINE H == Holders(Producers)
<1>1. /\ UNCHANGED <<tail, tf2>> /\ Holders(Consumers)' = Holders(Consumers)
      /\ \A u \in Holders(Consumers) : at'[u] = at[u]
  BY PushSpares DEF Idles
<1>2. CountsAre(Holders(Consumers)', at', tail', tf2')
  BY <1>1, CountsSame DEF CountIsExact
<1>3. ASSUME NEW li \in LineIds PROVE PopsDone(li)' = PopsDone(li)
  BY <1>1, DoneSame DEF PopsDone
<1>4. CountsAre(H, at, head, hf2) /\ IsFiniteSet(H) /\ head \in Nat
  BY HoldersFinite DEF CountIsExact, Types
<1>5. \A li \in LineIds : PushesDone(li) \in Int
  BY DoneTypes
<1>6. CASE H' = H /\ UNCHANGED <<head, hf2>> /\ \A u \in H : at'[u] = at[u]
  <2>1. CountsAre(H', at', head', hf2')
    BY <1>4, <1>6, CountsSame
  <2>2. \A li \in LineIds : PushesDone(li)' = PushesDone(li)
    BY <1>6, DoneSame DEF PushesDone
  <2> QED
    BY <1>2, <1>3, <1>5, <2>1, <2>2 DEF CountIsExact
<1>7. CASE PushClaims(p)
  <2>1. /\ H' = H \cup {p} /\ p \notin H /\ head' = head + 1 /\ hf2' = hf2
        /\ \A u \in H : at'[u] = at[u]
        /\ at'[p] = head
    BY <1>7 DEF PushClaims, Claims
  <2>1a. PICK b : b = at' /\ (\A u \in H : b[u] = at[u]) /\ b[p] = head
    BY <2>1
  <2> HIDE DEF H
  <2>2. CountsAre(H', at', head', hf2')
    <3>1. CountsAre(H \cup {p}, b, head + 1, hf2)
      BY <1>4, <2>1, <2>1a, CountsClaim
    <3> QED
      BY <2>1, <2>1a, <3>1
  <2>3. ASSUME NEW li \in LineIds PROVE PushesDone(li)' = PushesDone(li)
    <3>1. DoneOn(H \cup {p}, b, head + 1, li) = DoneOn(H, at, head, li)
      BY <1>4, <2>1, <2>1a, DoneClaim
    <3>2. DoneOn(H', at', head', li) = DoneOn(H, at, head, li)
      BY <2>1, <2>1a, <3>1
    <3> QED
      BY <3>2 DEF PushesDone, H
  <2> QED
    BY <1>2, <1>3, <1>5, <2>2, <2>3 DEF CountIsExact, H
<1>8. CASE PushShows(p)
  <2>1. /\ H' = H \ {p} /\ p \in H /\ head' = head /\ hf2' = Inc(hf2, get_li(at[p]))
        /\ \A u \in H \ {p} : at'[u] = at[u]
    BY <1>8 DEF PushShows, Shows
  <2>2. get_li(at[p]) \in LineIds
    BY <2>1, LineOf DEF Types, Holders, Threads
  <2>2a. PICK b : b = at' /\ \A u \in H \ {p} : b[u] = at[u]
    BY <2>1
  <2> HIDE DEF H
  <2>3. CountsAre(H', at', head', hf2')
    <3>1. CountsAre(H \ {p}, b, head, Inc(hf2, get_li(at[p])))
      BY <1>4, <2>1, <2>2, <2>2a, CountsShow
    <3> QED
      BY <2>1, <2>2a, <3>1
  <2>4. ASSUME NEW li \in LineIds PROVE PushesDone(li)' >= PushesDone(li)
    <3>0. IsFiniteSet(H) /\ p \in H /\ head \in Nat /\ \A u \in H \ {p} : b[u] = at[u]
      BY <1>4, <2>1, <2>2a
    <3>1. DoneOn(H \ {p}, b, head, li) = DoneOn(H, at, head, li) + (IF get_li(at[p]) = li THEN 1 ELSE 0)
      BY <3>0, DoneShow
    <3>2. DoneOn(H', at', head', li) = DoneOn(H, at, head, li) + (IF get_li(at[p]) = li THEN 1 ELSE 0)
      BY <2>1, <2>2a, <3>1
    <3>3. PushesDone(li)' = PushesDone(li) + (IF get_li(at[p]) = li THEN 1 ELSE 0)
      BY <3>2 DEF PushesDone, H
    <3> QED
      BY <1>5, <3>3
  <2> QED
    BY <1>2, <1>3, <2>3, <2>4 DEF CountIsExact, H
<1>9. PushQuiet \/ PushTurns(p) => H' = H /\ UNCHANGED <<head, hf2>> /\ \A u \in H : at'[u] = at[u]
  BY DEF PushQuiet, PushTurns, Idles, Turns
<1> QED
  BY <1>6, <1>7, <1>8, <1>9

LEMMA PopCounts ==
  ASSUME Types, CountIsExact, NEW c \in Consumers, PopSingle(c) \/ PopEnter(c) \/ PopStep(c),
         PopQuiet \/ PopClaims(c) \/ PopTurns(c) \/ PopShows(c)
  PROVE  /\ CountIsExact'
         /\ \A li \in LineIds : PushesDone(li)' = PushesDone(li) /\ PopsDone(li)' >= PopsDone(li)
<1> DEFINE H == Holders(Consumers)
<1>1. /\ UNCHANGED <<head, hf2>> /\ Holders(Producers)' = Holders(Producers)
      /\ \A u \in Holders(Producers) : at'[u] = at[u]
  BY PopSpares DEF Idles
<1>2. CountsAre(Holders(Producers)', at', head', hf2')
  BY <1>1, CountsSame DEF CountIsExact
<1>3. ASSUME NEW li \in LineIds PROVE PushesDone(li)' = PushesDone(li)
  BY <1>1, DoneSame DEF PushesDone
<1>4. CountsAre(H, at, tail, tf2) /\ IsFiniteSet(H) /\ tail \in Nat
  BY HoldersFinite DEF CountIsExact, Types
<1>5. \A li \in LineIds : PopsDone(li) \in Int
  BY DoneTypes
<1>6. CASE H' = H /\ UNCHANGED <<tail, tf2>> /\ \A u \in H : at'[u] = at[u]
  <2>1. CountsAre(H', at', tail', tf2')
    BY <1>4, <1>6, CountsSame
  <2>2. \A li \in LineIds : PopsDone(li)' = PopsDone(li)
    BY <1>6, DoneSame DEF PopsDone
  <2> QED
    BY <1>2, <1>3, <1>5, <2>1, <2>2 DEF CountIsExact
<1>7. CASE PopClaims(c)
  <2>1. /\ H' = H \cup {c} /\ c \notin H /\ tail' = tail + 1 /\ tf2' = tf2
        /\ \A u \in H : at'[u] = at[u]
        /\ at'[c] = tail
    BY <1>7 DEF PopClaims, Claims
  <2>1a. PICK b : b = at' /\ (\A u \in H : b[u] = at[u]) /\ b[c] = tail
    BY <2>1
  <2> HIDE DEF H
  <2>2. CountsAre(H', at', tail', tf2')
    <3>1. CountsAre(H \cup {c}, b, tail + 1, tf2)
      BY <1>4, <2>1, <2>1a, CountsClaim
    <3> QED
      BY <2>1, <2>1a, <3>1
  <2>3. ASSUME NEW li \in LineIds PROVE PopsDone(li)' = PopsDone(li)
    <3>1. DoneOn(H \cup {c}, b, tail + 1, li) = DoneOn(H, at, tail, li)
      BY <1>4, <2>1, <2>1a, DoneClaim
    <3>2. DoneOn(H', at', tail', li) = DoneOn(H, at, tail, li)
      BY <2>1, <2>1a, <3>1
    <3> QED
      BY <3>2 DEF PopsDone, H
  <2> QED
    BY <1>2, <1>3, <1>5, <2>2, <2>3 DEF CountIsExact, H
<1>8. CASE PopShows(c)
  <2>1. /\ H' = H \ {c} /\ c \in H /\ tail' = tail /\ tf2' = Inc(tf2, get_li(at[c]))
        /\ \A u \in H \ {c} : at'[u] = at[u]
    BY <1>8 DEF PopShows, Shows
  <2>2. get_li(at[c]) \in LineIds
    BY <2>1, LineOf DEF Types, Holders, Threads
  <2>2a. PICK b : b = at' /\ \A u \in H \ {c} : b[u] = at[u]
    BY <2>1
  <2> HIDE DEF H
  <2>3. CountsAre(H', at', tail', tf2')
    <3>1. CountsAre(H \ {c}, b, tail, Inc(tf2, get_li(at[c])))
      BY <1>4, <2>1, <2>2, <2>2a, CountsShow
    <3> QED
      BY <2>1, <2>2a, <3>1
  <2>4. ASSUME NEW li \in LineIds PROVE PopsDone(li)' >= PopsDone(li)
    <3>0. IsFiniteSet(H) /\ c \in H /\ tail \in Nat /\ \A u \in H \ {c} : b[u] = at[u]
      BY <1>4, <2>1, <2>2a
    <3>1. DoneOn(H \ {c}, b, tail, li) = DoneOn(H, at, tail, li) + (IF get_li(at[c]) = li THEN 1 ELSE 0)
      BY <3>0, DoneShow
    <3>2. DoneOn(H', at', tail', li) = DoneOn(H, at, tail, li) + (IF get_li(at[c]) = li THEN 1 ELSE 0)
      BY <2>1, <2>2a, <3>1
    <3>3. PopsDone(li)' = PopsDone(li) + (IF get_li(at[c]) = li THEN 1 ELSE 0)
      BY <3>2 DEF PopsDone, H
    <3> QED
      BY <1>5, <3>3
  <2> QED
    BY <1>2, <1>3, <2>3, <2>4 DEF CountIsExact, H
<1>9. PopQuiet \/ PopTurns(c) => H' = H /\ UNCHANGED <<tail, tf2>> /\ \A u \in H : at'[u] = at[u]
  BY DEF PopQuiet, PopTurns, Idles, Turns
<1> QED
  BY <1>6, <1>7, <1>8, <1>9

-----------------------------------------------------------------------------
(* The room of a single producer and the stock of a single consumer. *)

LEMMA SmallRemainder ==
  ASSUME NEW M \in Nat, NEW k \in Nat, k < M
  PROVE  k % M = k
<1>1. M > 0 /\ k \in 0 .. (M - 1) /\ k = M * 0 + k
  OBVIOUS
<1> QED
  BY <1>1, DivisionIs

LEMMA DifferenceReduced ==
  ASSUME NEW M \in Nat, M > 0, NEW x \in Int, NEW y \in Int
  PROVE  ((x % M) - (y % M)) % M = (x - y) % M
<1>1. PICK q \in Int, r \in 0 .. (M - 1) : y = M * q + r /\ r = y % M
  BY Division
<1>2. PICK s \in Int : s = -r
  OBVIOUS
<1>2a. ((x % M) + s) % M = (x + s) % M
  BY SumReduced
<1>3. PICK p \in Int, u \in 0 .. (M - 1) : x - y = M * p + u /\ u = (x - y) % M
  <2>1. x - y \in Int
    OBVIOUS
  <2> QED
    BY <2>1, Division
<1>4. PICK z \in Int : z = x + s
  OBVIOUS
<1>5. z = M * (p + q) + u
  <2>1. M * (p + q) = M * p + M * q /\ M * p \in Int /\ M * q \in Int
    OBVIOUS
  <2> QED
    BY <1>1, <1>2, <1>3, <1>4, <2>1
<1>6. z % M = u
  BY <1>5, DivisionIs
<1>7. (x % M) - (y % M) = (x % M) + s
  <2>1. PICK v \in Int : v = x % M
    BY Division
  <2> QED
    BY <1>1, <1>2, <2>1
<1> QED
  BY <1>2a, <1>3, <1>4, <1>6, <1>7

LEMMA SingleRoom ==
  ASSUME FullIsSeen, FlowInv, NEW p \in Producers, SP, PushClaims(p)
  PROVE  /\ head < Freed + Capacity
         /\ PositionsOn(head, get_li(head)) < PopsDone(get_li(head)) + SlotsPerLine
<1> DEFINE li == get_li(head)
<1>1. Types /\ PushSide /\ head \in Nat /\ tail \in Nat
  BY DEF FlowInv, TurnInv, Types
<1>2. li \in LineIds
  BY <1>1, LineOf
<1>3. Holders(Producers) = {}
  <2>1. p \notin Holders(Producers) /\ pc[p] = "check"
    BY DEF PushClaims, Claims
  <2>2. \A t \in Holders(Producers) : t = p
    BY <1>1, <2>1 DEF PushSide, OnlyOne, Alone, Holders
  <2> QED
    BY <2>1, <2>2
<1>4. PushesDone(li) = PositionsOn(head, li)
  BY <1>1, <1>2, <1>3, NoneHeld DEF PushesDone
<1>5. PICK k \in Nat : k = PositionsOn(head, li) /\ k <= head
  BY <1>1, <1>2, DoneTypes
<1>6. PICK d \in Int : d = PopsDone(li) /\ k <= d + SlotsPerLine
  <2>1. PopsDone(li) \in Int
    BY <1>1, <1>2, DoneTypes
  <2>2. PositionsOn(head, li) <= PopsDone(li) + SlotsPerLine
    BY <1>2 DEF FlowInv, Room
  <2> QED
    BY <1>5, <2>1, <2>2
<1>7. FlagMod \in Nat /\ FlagMod > 0 /\ SlotsPerLine \in Nat /\ Capacity \in Nat
  BY LinesAssumption, CapacityType
<1>8. hf2[li] = (1 + k) % FlagMod
  BY <1>2, <1>4, <1>5 DEF FlowInv, CountIsExact, CountsAre, PushesDone
<1>9. tf2[li] = (1 + d) % FlagMod
  BY <1>2, <1>6 DEF FlowInv, CountIsExact, CountsAre, PopsDone
<1>10. pc[p] = "check" /\ at[p] = head /\ ~LineFull(head)
  BY DEF PushClaims
<1>11. k # d + SlotsPerLine
  <2> SUFFICES ASSUME k = d + SlotsPerLine PROVE FALSE
    OBVIOUS
  <2>1. PICK x \in Int, y \in Int : x = 1 + k /\ y = 1 + d /\ x - y = SlotsPerLine
    BY <1>6, <1>7
  <2> HIDE DEF li
  <2>2. ((x % FlagMod) - (y % FlagMod)) % FlagMod = SlotsPerLine % FlagMod
    <3>1. ((x % FlagMod) - (y % FlagMod)) % FlagMod = (x - y) % FlagMod
      BY <1>7, DifferenceReduced
    <3> QED
      BY <2>1, <3>1
  <2>3. hf2[li] = x % FlagMod /\ tf2[li] = y % FlagMod
    BY <1>8, <1>9, <2>1
  <2>4. get_li(at[p]) = li
    BY <1>10 DEF li
  <2>5. (hf2[get_li(at[p])] - tf2[get_li(at[p])]) % FlagMod = SlotsPerLine % FlagMod
    BY <2>2, <2>3, <2>4
  <2> QED
    BY <1>10, <2>5 DEF FullIsSeen
<1>12. k < d + SlotsPerLine
  BY <1>6, <1>7, <1>11
<1> HIDE DEF li
<1>13. Freed \in Nat /\ PopsDone(li) <= PositionsOn(Freed, li)
  BY <1>2, Behind DEF FlowInv
<1>14. head < Freed + Capacity
  <2> SUFFICES ASSUME Freed + Capacity <= head PROVE FALSE
    BY <1>1, <1>7, <1>13
  <2>1. PICK f \in Nat : f = Freed
    BY <1>13
  <2>2. f + Capacity \in Nat /\ f + Capacity <= head
    BY <1>7, <2>1
  <2>3. PositionsOn(f + Capacity, li) <= PositionsOn(head, li)
    BY <1>1, <1>2, <2>2, PositionsGrow
  <2>4. PositionsOn(f + Capacity, li) = PositionsOn(f, li) + SlotsPerLine
    BY <1>2, OneLap
  <2>5. PICK g \in Nat : g = PositionsOn(f, li)
    BY <1>2, PositionsBounded
  <2>6. g + SlotsPerLine <= k /\ d <= g
    BY <1>5, <1>6, <1>13, <2>1, <2>3, <2>4, <2>5
  <2> QED
    BY <1>7, <1>12, <2>6
<1> QED
  BY <1>5, <1>6, <1>12, <1>14 DEF li

LEMMA SingleStock ==
  ASSUME FlowInv, NEW c \in Consumers, SC, PopClaims(c)
  PROVE  tail < Shown /\ PositionsOn(tail, get_li(tail)) < PushesDone(get_li(tail))
<1> DEFINE li == get_li(tail)
<1>1. Types /\ PopSide /\ head \in Nat /\ tail \in Nat
  BY DEF FlowInv, TurnInv, Types
<1>2. li \in LineIds
  BY <1>1, LineOf
<1>3. Holders(Consumers) = {}
  <2>1. c \notin Holders(Consumers) /\ Alone(c, Consumers)
    BY DEF PopClaims, Claims
  <2>2. \A t \in Holders(Consumers) : t = c
    BY <1>1, <2>1 DEF PopSide, OnlyOne, Alone, Holders
  <2> QED
    BY <2>1, <2>2
<1>4. PopsDone(li) = PositionsOn(tail, li)
  BY <1>1, <1>2, <1>3, NoneHeld DEF PopsDone
<1>5. PICK k \in Nat : k = PositionsOn(tail, li)
  BY <1>1, <1>2, DoneTypes
<1>6. PICK d \in Int : d = PushesDone(li) /\ k <= d
  <2>1. PushesDone(li) \in Int
    BY <1>1, <1>2, DoneTypes
  <2>2. PositionsOn(tail, li) <= PushesDone(li)
    BY <1>2 DEF FlowInv, Stock
  <2> QED
    BY <1>5, <2>1, <2>2
<1>7. hf2[li] = (1 + d) % FlagMod
  BY <1>2, <1>6 DEF FlowInv, CountIsExact, CountsAre, PushesDone
<1>8. tf2[li] = (1 + k) % FlagMod
  BY <1>2, <1>4, <1>5 DEF FlowInv, CountIsExact, CountsAre, PopsDone
<1>9. hf2[li] # tf2[li]
  BY DEF PopClaims, LineEmpty
<1>10. k < d
  BY <1>6, <1>7, <1>8, <1>9
<1> HIDE DEF li
<1>11. Shown \in Nat /\ PushesDone(li) <= PositionsOn(Shown, li)
  BY <1>2, Ahead DEF FlowInv
<1>12. tail < Shown
  <2> SUFFICES ASSUME Shown <= tail PROVE FALSE
    BY <1>1, <1>11
  <2>1. PICK f \in Nat : f = Shown
    BY <1>11
  <2>2. PositionsOn(f, li) <= PositionsOn(tail, li) /\ PositionsOn(f, li) \in Nat
    BY <1>1, <1>2, <2>1, PositionsGrow, PositionsBounded
  <2> QED
    BY <1>5, <1>6, <1>10, <1>11, <2>1, <2>2
<1> QED
  BY <1>5, <1>6, <1>10, <1>12 DEF li
-----------------------------------------------------------------------------
(* A single thread on its side. *)

LEMMA OnlyStep ==
  ASSUME Types, NEW CONSTANT side \in {Producers, Consumers}, NEW CONSTANT p \in side,
         NEW CONSTANT l, Goto(p, l), OnlyOne(side), Alone(p, side)
  PROVE  /\ pc'[p] = l
         /\ \A u \in side : u # p => pc'[u] = "idle"
<1>1. side \subseteq Threads /\ \A u \in side : u # p => pc[u] = "idle"
  BY DEF Threads, OnlyOne, Alone
<1> QED
  BY <1>1 DEF Types, Goto

LEMMA PushSingle ==
  ASSUME Types, PushSide, SingleP, SP, NEW p \in Producers, PushLoad(p) \/ PushStep(p)
  PROVE  SingleP'
<1>1. OnlyOne(Producers) /\ Producers \in {Producers, Consumers} /\ p \in Threads
  BY DEF PushSide, Threads
<1>2. Alone(p, Producers)
  <2>1. CASE PushLoad(p)
    BY <2>1 DEF PushLoad
  <2>2. CASE PushStep(p)
    <3>1. pc[p] # "idle"
      BY <2>2 DEF PushStep, PushRefuse, PushAccept, CasLoses, CasWins, Construct, PushTurn, PushGrant, Publish
    <3> QED
      BY <1>1, <3>1 DEF OnlyOne
  <2> QED
    BY <2>1, <2>2
<1>3. /\ pc[p] \in {"idle", "check", "construct", "publish"}
      /\ pc[p] = "check" => at[p] = head
      /\ pc[p] \in {"construct", "publish"} => at[p] = head - 1
  BY DEF SingleP
<1>4. head \in Nat
  BY DEF Types
<1>5. \E l : /\ Goto(p, l)
             /\ l \in {"idle", "check", "construct", "publish"}
             /\ l = "check" => at'[p] = head'
             /\ l \in {"construct", "publish"} => at'[p] = head' - 1
  <2>1. CASE PushLoad(p)
    <3>1. Goto(p, "check") /\ at' = [at EXCEPT ![p] = head] /\ head' = head
      BY <2>1 DEF PushLoad
    <3>2. at'[p] = head'
      BY <1>1, <3>1 DEF Types
    <3> QED
      BY <3>1, <3>2
  <2>2. CASE PushRefuse(p) \/ Publish(p)
    <3>1. Goto(p, "idle")
      BY <2>2 DEF PushRefuse, Publish, Done
    <3> QED
      BY <3>1
  <2>3. CASE PushAccept(p)
    <3>1. pc[p] = "check" /\ Goto(p, "construct") /\ at' = at /\ head' = head + 1
      BY <2>3 DEF PushAccept, Keep
    <3>2. at'[p] = head' - 1
      BY <1>3, <1>4, <3>1
    <3> QED
      BY <3>1, <3>2
  <2>4. CASE Construct(p)
    <3>1. pc[p] = "construct" /\ Goto(p, "publish") /\ at' = at /\ head' = head
      BY <2>4 DEF Construct, Keep
    <3>2. at'[p] = head' - 1
      BY <1>3, <3>1
    <3> QED
      BY <3>1, <3>2
  <2>5. ~CasLoses(p) /\ ~CasWins(p) /\ ~PushTurn(p) /\ ~PushGrant(p)
    BY <1>3 DEF CasLoses, CasWins, PushTurn, PushGrant
  <2> QED
    BY <2>1, <2>2, <2>3, <2>4, <2>5 DEF PushStep
<1>6. PICK l : /\ Goto(p, l)
               /\ l \in {"idle", "check", "construct", "publish"}
               /\ l = "check" => at'[p] = head'
               /\ l \in {"construct", "publish"} => at'[p] = head' - 1
  BY <1>5
<1>7. pc'[p] = l /\ \A u \in Producers : u # p => pc'[u] = "idle"
  BY <1>1, <1>2, <1>6, OnlyStep
<1> QED
  BY <1>6, <1>7 DEF SingleP

LEMMA PopSingleKept ==
  ASSUME Types, PopSide, SingleC, SC, NEW c \in Consumers, PopSingle(c) \/ PopEnter(c) \/ PopStep(c)
  PROVE  SingleC'
<1>1. OnlyOne(Consumers) /\ Consumers \in {Producers, Consumers} /\ c \in Threads
  BY DEF PopSide, Threads
<1>2. Alone(c, Consumers)
  <2>1. CASE PopSingle(c)
    BY <2>1 DEF PopSingle
  <2>2. CASE PopStep(c)
    <3>1. pc[c] # "idle"
      BY <2>2 DEF PopStep, PopEstimate, PopTest, PopGiveUp, PopClaim, PopAwait, Destroy, PopTurn,
        PopGrant, Release
    <3> QED
      BY <1>1, <3>1 DEF OnlyOne
  <2>3. ~PopEnter(c)
    BY DEF PopEnter
  <2> QED
    BY <2>1, <2>2, <2>3
<1>3. /\ pc[c] \in {"idle", "take", "release"}
      /\ pc[c] \in {"take", "release"} => at[c] = tail - 1
  BY DEF SingleC
<1>4. tail \in Nat
  BY DEF Types
<1>5. \E l : /\ Goto(c, l)
             /\ l \in {"idle", "take", "release"}
             /\ l \in {"take", "release"} => at'[c] = tail' - 1
  <2>1. CASE PopSingle(c)
    <3>1. Goto(c, "take") /\ at' = [at EXCEPT ![c] = tail] /\ tail' = tail + 1
      BY <2>1 DEF PopSingle
    <3>2. at'[c] = tail' - 1
      BY <1>1, <1>4, <3>1 DEF Types
    <3> QED
      BY <3>1, <3>2
  <2>2. CASE Release(c)
    <3>1. Goto(c, "idle")
      BY <2>2 DEF Release, Done
    <3> QED
      BY <3>1
  <2>3. CASE Destroy(c)
    <3>1. pc[c] = "take" /\ Goto(c, "release") /\ at' = at /\ tail' = tail
      BY <2>3 DEF Destroy, Keep
    <3>2. at'[c] = tail' - 1
      BY <1>3, <3>1
    <3> QED
      BY <3>1, <3>2
  <2>4. ~PopEnter(c) /\ ~PopEstimate(c) /\ ~PopTest(c) /\ ~PopGiveUp(c)
    BY <1>3 DEF PopEnter, PopEstimate, PopTest, PopGiveUp
  <2>5. ~PopClaim(c) /\ ~PopAwait(c) /\ ~PopTurn(c) /\ ~PopGrant(c)
    BY <1>3 DEF PopClaim, PopAwait, PopTurn, PopGrant
  <2> QED
    BY <2>1, <2>2, <2>3, <2>4, <2>5 DEF PopStep
<1>6. PICK l : /\ Goto(c, l)
               /\ l \in {"idle", "take", "release"}
               /\ l \in {"take", "release"} => at'[c] = tail' - 1
  BY <1>5
<1>7. pc'[c] = l /\ \A u \in Consumers : u # c => pc'[u] = "idle"
  BY <1>1, <1>2, <1>6, OnlyStep
<1> QED
  BY <1>6, <1>7 DEF SingleC

\* What a thread of one side leaves to those of the other.
LEMMA OtherStep ==
  ASSUME Types, NEW CONSTANT side \in {Producers, Consumers}, NEW CONSTANT p \in Threads \ side,
         NEW CONSTANT l, Goto(p, l), OthersStay(p)
  PROVE  \A u \in side : pc'[u] = pc[u] /\ at'[u] = at[u]
<1>1. side \subseteq Threads /\ p \in Threads /\ p \notin side
  BY DEF Threads
<1> QED
  BY <1>1 DEF Types, Goto, OthersStay

LEMMA PushLeavesPops ==
  ASSUME Types, NEW p \in Producers, PushLoad(p) \/ PushStep(p)
  PROVE  \A u \in Consumers : pc'[u] = pc[u] /\ at'[u] = at[u]
<1>1. p \in Threads \ Consumers /\ Consumers \in {Producers, Consumers}
  BY LinesAssumption DEF Threads
<1>2. PICK l : Goto(p, l)
  BY PushLeaves
<1>3. OthersStay(p)
  BY <1>1, PushLeaves, OthersDoStay
<1> QED
  BY <1>1, <1>2, <1>3, OtherStep

LEMMA PopLeavesPushes ==
  ASSUME Types, NEW c \in Consumers, PopSingle(c) \/ PopEnter(c) \/ PopStep(c)
  PROVE  \A u \in Producers : pc'[u] = pc[u] /\ at'[u] = at[u]
<1>1. c \in Threads \ Producers /\ Producers \in {Producers, Consumers}
  BY LinesAssumption DEF Threads
<1>2. PICK l : Goto(c, l)
  BY PopLeaves
<1>3. OthersStay(c)
  BY <1>1, PopLeaves, OthersDoStay
<1> QED
  BY <1>1, <1>2, <1>3, OtherStep

LEMMA SinglesAfterPush ==
  ASSUME Types, PushSide, SingleP, SingleC, NEW p \in Producers, PushLoad(p) \/ PushStep(p)
  PROVE  SingleP' /\ SingleC'
<1>1. UNCHANGED <<flags, tail>>
  BY PushLeaves
<1>2. SingleC'
  BY <1>1, PushLeavesPops DEF SingleC, SC
<1>3. SP' = SP
  BY <1>1 DEF SP
<1>4. SingleP'
  BY <1>3, PushSingle DEF SingleP
<1> QED
  BY <1>2, <1>4

LEMMA SinglesAfterPop ==
  ASSUME Types, PopSide, SingleP, SingleC, NEW c \in Consumers, PopSingle(c) \/ PopEnter(c) \/ PopStep(c)
  PROVE  SingleP' /\ SingleC'
<1>1. UNCHANGED <<flags, head>>
  BY PopLeaves
<1>2. SingleP'
  BY <1>1, PopLeavesPushes DEF SingleP, SP
<1>3. SC' = SC
  BY <1>1 DEF SC
<1>4. SingleC'
  BY <1>3, PopSingleKept DEF SingleC
<1> QED
  BY <1>2, <1>4
-----------------------------------------------------------------------------
(* Room and stock after a step. *)

LEMMA DoneNumbers == Types => \A li \in LineIds : PushesDone(li) \in Int /\ PopsDone(li) \in Int
  BY DoneTypes

LEMMA DoneNumbersNext == (Types => \A li \in LineIds : PushesDone(li) \in Int /\ PopsDone(li) \in Int)'
  BY DoneNumbers, PTL

\* What the calls of several claim, they claim with room and with an element.
LEMMA RoomAfterPush ==
  ASSUME FullIsSeen, ClaimsBacked', FlowInv, NEW p \in Producers, PushLoad(p) \/ PushStep(p)
  PROVE  Room'
<1>1. Types /\ SingleP /\ CountIsExact /\ Room
  BY DEF FlowInv, TurnInv
<1>2. PushQuiet \/ PushClaims(p) \/ PushTurns(p) \/ PushShows(p)
  BY <1>1, PushEffects
<1>3. PICK n \in Nat, f \in Int : n = head /\ f = Freed
  BY <1>1, Numbers
<1>4. Freed' = f /\ Capacity \in Nat
  BY <1>1, <1>2, <1>3, PushNumbers, CapacityType
<1>5. /\ n <= f + Capacity
      /\ SP => \A li \in LineIds : PositionsOn(n, li) <= PopsDone(li) + SlotsPerLine
  BY <1>1, <1>3 DEF Room
<1>6. SP' = SP
  BY PushSpares, <1>1 DEF SP
<1>7. \A li \in LineIds : PopsDone(li)' = PopsDone(li)
  BY <1>1, <1>2, PushCounts
<1>8. CASE ~SP
  BY <1>6, <1>8 DEF Room, ClaimsBacked
<1>9. CASE SP /\ ~PushClaims(p)
  <2>1. head' = n
    BY <1>2, <1>3, <1>9 DEF PushQuiet, PushTurns, PushShows
  <2> QED
    BY <1>4, <1>5, <1>6, <1>7, <1>9, <2>1 DEF Room
<1>10. CASE SP /\ PushClaims(p)
  <2>1. head' = n + 1
    BY <1>3, <1>10 DEF PushClaims
  <2>2. n < f + Capacity /\ PositionsOn(n, get_li(n)) < PopsDone(get_li(n)) + SlotsPerLine
    BY <1>3, <1>10, SingleRoom
  <2>3. ASSUME NEW li \in LineIds PROVE PositionsOn(n + 1, li) <= PopsDone(li)' + SlotsPerLine
    <3>1. PICK k \in Nat, m \in Int : k = PositionsOn(n, li) /\ m = PopsDone(li)
      BY <1>1, <1>3, DoneTypes
    <3>2. k <= m + SlotsPerLine
      BY <1>5, <1>10, <3>1
    <3>3. get_li(n) = li => k < m + SlotsPerLine
      BY <2>2, <3>1
    <3>4. PositionsOn(n + 1, li) = k + (IF get_li(n) = li THEN 1 ELSE 0)
      BY <3>1, NextPosition
    <3>5. SlotsPerLine \in Nat
      BY LinesAssumption
    <3> QED
      BY <1>7, <3>1, <3>2, <3>3, <3>4, <3>5
  <2>4. n + 1 <= f + Capacity
    BY <1>3, <1>4, <2>2
  <2> QED
    BY <1>4, <1>6, <2>1, <2>3, <2>4 DEF Room
<1> QED
  BY <1>8, <1>9, <1>10

LEMMA StockAfterPush ==
  ASSUME FlowInv, NEW p \in Producers, PushLoad(p) \/ PushStep(p)
  PROVE  Stock'
<1>1. Types /\ SingleP /\ CountIsExact /\ Stock
  BY DEF FlowInv, TurnInv
<1>2. PushQuiet \/ PushClaims(p) \/ PushTurns(p) \/ PushShows(p)
  BY <1>1, PushEffects
<1>3. PICK n \in Nat, f \in Int : n = tail /\ f = Shown
  BY <1>1, Numbers
<1>4. tail' = n /\ SC' = SC
  BY <1>1, <1>3, PushSpares DEF SC
<1>5. Shown' \in {f, f + 1}
  <2>1. PushQuiet => Idles(Producers) /\ head' = head
    BY DEF PushQuiet
  <2>2. /\ Idles(Producers) /\ head' = head => Shown' = Shown
        /\ PushClaims(p) => Shown' = Shown
        /\ PushTurns(p) => Shown' = IF SP THEN Shown ELSE Shown + 1
        /\ PushShows(p) => Shown' = IF SP THEN Shown + 1 ELSE Shown
    BY <1>1, <1>2, PushNumbers
  <2> QED
    BY <1>2, <1>3, <2>1, <2>2
<1>6. /\ n <= f
      /\ SC => \A li \in LineIds : PositionsOn(n, li) <= PushesDone(li)
  BY <1>1, <1>3 DEF Stock
<1>7. ASSUME NEW li \in LineIds, SC PROVE PositionsOn(n, li) <= PushesDone(li)'
  <2>1. PushesDone(li)' >= PushesDone(li)
    BY <1>1, <1>2, PushCounts
  <2>2. PICK k \in Nat, d \in Int : k = PositionsOn(n, li) /\ d = PushesDone(li)
    BY <1>1, <1>3, DoneTypes
  <2>3. k <= d
    BY <1>6, <1>7, <2>2
  <2>4. PushesDone(li)' \in Int
    <3>1. Types'
      BY <1>1, StepTypes DEF Next
    <3> QED
      BY <3>1, DoneNumbersNext
  <2> QED
    BY <2>1, <2>2, <2>3, <2>4
<1>8. n <= Shown'
  BY <1>3, <1>5, <1>6
<1> QED
  BY <1>4, <1>7, <1>8 DEF Stock

LEMMA StockAfterPop ==
  ASSUME ClaimsBacked', FlowInv, NEW c \in Consumers, PopSingle(c) \/ PopEnter(c) \/ PopStep(c)
  PROVE  Stock'
<1>1. Types /\ SingleC /\ CountIsExact /\ Stock
  BY DEF FlowInv, TurnInv
<1>2. PopQuiet \/ PopClaims(c) \/ PopTurns(c) \/ PopShows(c)
  BY <1>1, PopEffects
<1>3. PICK n \in Nat, f \in Int : n = tail /\ f = Shown
  BY <1>1, Numbers
<1>4. Shown' = f
  BY <1>1, <1>3, PopNumbers
<1>5. /\ n <= f
      /\ SC => \A li \in LineIds : PositionsOn(n, li) <= PushesDone(li)
  BY <1>1, <1>3 DEF Stock
<1>6. SC' = SC
  BY PopSpares, <1>1 DEF SC
<1>7. \A li \in LineIds : PushesDone(li)' = PushesDone(li)
  BY <1>1, <1>2, PopCounts
<1>8. CASE ~SC
  BY <1>6, <1>8 DEF Stock, ClaimsBacked
<1>9. CASE SC /\ ~PopClaims(c)
  <2>1. tail' = n
    BY <1>2, <1>3, <1>9 DEF PopQuiet, PopTurns, PopShows
  <2> QED
    BY <1>4, <1>5, <1>6, <1>7, <1>9, <2>1 DEF Stock
<1>10. CASE SC /\ PopClaims(c)
  <2>1. tail' = n + 1
    BY <1>3, <1>10 DEF PopClaims
  <2>2. n < f /\ PositionsOn(n, get_li(n)) < PushesDone(get_li(n))
    BY <1>3, <1>10, SingleStock
  <2>3. ASSUME NEW li \in LineIds PROVE PositionsOn(n + 1, li) <= PushesDone(li)'
    <3>1. PICK k \in Nat, m \in Int : k = PositionsOn(n, li) /\ m = PushesDone(li)
      BY <1>1, <1>3, DoneTypes
    <3>2. k <= m
      BY <1>5, <1>10, <3>1
    <3>3. get_li(n) = li => k < m
      BY <2>2, <3>1
    <3>4. PositionsOn(n + 1, li) = k + (IF get_li(n) = li THEN 1 ELSE 0)
      BY <3>1, NextPosition
    <3> QED
      BY <1>7, <3>1, <3>2, <3>3, <3>4
  <2>4. n + 1 <= f
    BY <1>3, <2>2
  <2> QED
    BY <1>4, <1>6, <2>1, <2>3, <2>4 DEF Stock
<1> QED
  BY <1>8, <1>9, <1>10

LEMMA RoomAfterPop ==
  ASSUME FlowInv, NEW c \in Consumers, PopSingle(c) \/ PopEnter(c) \/ PopStep(c)
  PROVE  Room'
<1>1. Types /\ SingleC /\ CountIsExact /\ Room
  BY DEF FlowInv, TurnInv
<1>2. PopQuiet \/ PopClaims(c) \/ PopTurns(c) \/ PopShows(c)
  BY <1>1, PopEffects
<1>3. PICK n \in Nat, f \in Int : n = head /\ f = Freed
  BY <1>1, Numbers
<1>4. head' = n /\ SP' = SP
  BY <1>1, <1>3, PopSpares DEF SP
<1>5. Freed' \in {f, f + 1}
  <2>1. PopQuiet => Idles(Consumers) /\ tail' = tail
    BY DEF PopQuiet
  <2>2. /\ Idles(Consumers) /\ tail' = tail => Freed' = Freed
        /\ PopClaims(c) => Freed' = Freed
        /\ PopTurns(c) => Freed' = IF SC THEN Freed ELSE Freed + 1
        /\ PopShows(c) => Freed' = IF SC THEN Freed + 1 ELSE Freed
    BY <1>1, <1>2, PopNumbers
  <2> QED
    BY <1>2, <1>3, <2>1, <2>2
<1>6. /\ n <= f + Capacity
      /\ SP => \A li \in LineIds : PositionsOn(n, li) <= PopsDone(li) + SlotsPerLine
  BY <1>1, <1>3 DEF Room
<1>7. ASSUME NEW li \in LineIds, SP PROVE PositionsOn(n, li) <= PopsDone(li)' + SlotsPerLine
  <2>1. PopsDone(li)' >= PopsDone(li)
    BY <1>1, <1>2, PopCounts
  <2>2. PICK k \in Nat, d \in Int : k = PositionsOn(n, li) /\ d = PopsDone(li)
    BY <1>1, <1>3, DoneTypes
  <2>3. k <= d + SlotsPerLine
    BY <1>6, <1>7, <2>2
  <2>4. PopsDone(li)' \in Int /\ SlotsPerLine \in Nat
    <3>1. Types'
      BY <1>1, StepTypes DEF Next
    <3> QED
      BY <3>1, DoneNumbersNext, LinesAssumption
  <2> QED
    BY <2>1, <2>2, <2>3, <2>4
<1>8. n <= Freed' + Capacity
  <2>1. PICK m \in Nat, e \in {f, f + 1} : m = Capacity /\ e = Freed'
    BY <1>5, CapacityType
  <2>2. n <= f + m
    BY <1>6, <2>1
  <2>3. n <= e + m
    BY <2>2
  <2> QED
    BY <2>1, <2>3
<1> QED
  BY <1>4, <1>7, <1>8 DEF Room
-----------------------------------------------------------------------------
(* The slots after a step. *)

Slots == [LineIds -> [0 .. (SlotsPerLine - 1) -> Nat \cup {Raw}]]

LEMMA SlotOf == \A n \in Nat : get_li(n) \in LineIds /\ get_si(n) \in 0 .. (SlotsPerLine - 1)
<1> SUFFICES ASSUME NEW n \in Nat PROVE get_li(n) \in LineIds /\ get_si(n) \in 0 .. (SlotsPerLine - 1)
  OBVIOUS
<1>1. Lines \in Nat /\ Lines > 0 /\ SlotsPerLine \in Nat /\ SlotsPerLine > 0
  BY LinesAssumption
<1>2. PICK k \in Int : k = n \div Lines
  BY <1>1
<1>3. k % SlotsPerLine \in 0 .. (SlotsPerLine - 1)
  BY <1>1, Division
<1> QED
  BY <1>2, <1>3, LineOf DEF get_si

LEMMA SlotWritten ==
  ASSUME slots \in Slots, NEW m \in Nat, NEW v,
         slots' = [slots EXCEPT ![get_li(m)][get_si(m)] = v]
  PROVE  /\ v \in Nat \cup {Raw} => slots' \in Slots
         /\ SlotAt(m)' = v
         /\ \A n \in Nat : get_li(n) # get_li(m) \/ get_si(n) # get_si(m) => SlotAt(n)' = SlotAt(n)
<1>1. PICK li \in LineIds, si \in 0 .. (SlotsPerLine - 1) : li = get_li(m) /\ si = get_si(m)
  BY SlotOf
<1>2. slots' = [slots EXCEPT ![li] = [slots[li] EXCEPT ![si] = v]]
  BY <1>1
<1>3. slots[li] \in [0 .. (SlotsPerLine - 1) -> Nat \cup {Raw}]
  BY DEF Slots
<1>4. slots'[li][si] = v /\ slots'[li] = [slots[li] EXCEPT ![si] = v]
  BY <1>2, <1>3 DEF Slots
<1>5. ASSUME NEW i \in LineIds, NEW j \in 0 .. (SlotsPerLine - 1), i # li \/ j # si
      PROVE  slots'[i][j] = slots[i][j]
  <2>1. CASE i # li
    BY <1>2, <2>1 DEF Slots
  <2>2. CASE i = li
    BY <1>3, <1>4, <1>5, <2>2
  <2> QED
    BY <2>1, <2>2
<1>6. ASSUME v \in Nat \cup {Raw} PROVE slots' \in Slots
  <2>1. [slots[li] EXCEPT ![si] = v] \in [0 .. (SlotsPerLine - 1) -> Nat \cup {Raw}]
    BY <1>3, <1>6
  <2> QED
    BY <1>2, <2>1 DEF Slots
<1>7. SlotAt(m)' = v
  BY <1>1, <1>4 DEF SlotAt
<1>8. ASSUME NEW n \in Nat, get_li(n) # get_li(m) \/ get_si(n) # get_si(m) PROVE SlotAt(n)' = SlotAt(n)
  <2>1. PICK i \in LineIds, j \in 0 .. (SlotsPerLine - 1) : i = get_li(n) /\ j = get_si(n)
    BY SlotOf
  <2>2. slots'[i][j] = slots[i][j]
    BY <1>1, <1>5, <1>8, <2>1
  <2> QED
    BY <2>1, <2>2 DEF SlotAt
<1> QED
  BY <1>6, <1>7, <1>8

LEMMA PushSlots ==
  ASSUME NEW p \in Producers, PushLoad(p) \/ PushStep(p)
  PROVE  (slots' = slots /\ pc[p] # "construct") \/ Construct(p)
<1>1. CASE PushLoad(p) \/ PushRefuse(p) \/ CasLoses(p)
  BY <1>1 DEF PushLoad, PushRefuse, CasLoses, lines
<1>2. CASE PushAccept(p) \/ CasWins(p)
  BY <1>2 DEF PushAccept, CasWins, lines
<1>3. CASE PushTurn(p) \/ PushGrant(p) \/ Publish(p)
  BY <1>3 DEF PushTurn, PushGrant, Publish, lines
<1> QED
  BY <1>1, <1>2, <1>3 DEF PushStep

LEMMA PopSlots ==
  ASSUME NEW c \in Consumers, PopSingle(c) \/ PopEnter(c) \/ PopStep(c)
  PROVE  slots' = slots \/ Destroy(c)
<1>1. CASE PopSingle(c) \/ PopEnter(c) \/ PopEstimate(c)
  BY <1>1 DEF PopSingle, PopEnter, PopEstimate, lines
<1>2. CASE PopTest(c) \/ PopGiveUp(c) \/ PopClaim(c)
  BY <1>2 DEF PopTest, PopGiveUp, PopClaim, lines
<1>3. CASE PopAwait(c) \/ PopTurn(c)
  BY <1>3 DEF PopAwait, PopTurn, lines
<1>4. CASE PopGrant(c) \/ Release(c)
  BY <1>4 DEF PopGrant, Release
<1> QED
  BY <1>1, <1>2, <1>3, <1>4 DEF PopStep

\* A position that is new to the pushes is under construction.
LEMMA PushHead ==
  ASSUME Types, SingleP, NEW p \in Producers, PushLoad(p) \/ PushStep(p)
  PROVE  head' = head \/ (head' = head + 1 /\ pc'[p] = "construct" /\ at'[p] = head)
<1>1. p \in Threads
  BY DEF Threads
<1>2. CASE PushLoad(p) \/ PushRefuse(p) \/ CasLoses(p)
  BY <1>2 DEF PushLoad, PushRefuse, CasLoses
<1>3. CASE PushAccept(p)
  <2>1. CASE SP
    BY <1>1, <1>3, <2>1 DEF PushAccept, Keep, Goto, SingleP, Types
  <2>2. CASE ~SP
    BY <1>3, <2>2 DEF PushAccept
  <2> QED
    BY <2>1, <2>2
<1>4. CASE CasWins(p)
  BY <1>1, <1>4 DEF CasWins, Keep, Goto, Types
<1>5. CASE Construct(p) \/ PushTurn(p) \/ PushGrant(p) \/ Publish(p)
  BY <1>5 DEF Construct, PushTurn, PushGrant, Publish
<1> QED
  BY <1>2, <1>3, <1>4, <1>5 DEF PushStep

\* An element that is kept after a pop's step was kept before.
LEMMA PopTail ==
  ASSUME Types, NEW c \in Consumers, PopSingle(c) \/ PopEnter(c) \/ PopStep(c)
  PROVE  /\ tail' \in {tail, tail + 1}
         /\ pc'[c] \in {"await", "take"} =>
              at'[c] = tail \/ (pc[c] \in {"await", "take"} /\ at'[c] = at[c])
<1>1. c \in Threads
  BY DEF Threads
<1>2. CASE PopSingle(c)
  BY <1>1, <1>2 DEF PopSingle, Goto, Types
<1>3. CASE PopEnter(c) \/ PopEstimate(c)
  BY <1>1, <1>3 DEF PopEnter, PopEstimate, Goto, Types
<1>4. CASE PopTest(c) \/ PopGiveUp(c)
  BY <1>1, <1>4 DEF PopTest, PopGiveUp, Keep, Done, Goto, Types
<1>5. CASE PopClaim(c)
  BY <1>1, <1>5 DEF PopClaim, Goto, Types
<1>6. CASE PopAwait(c)
  BY <1>1, <1>6 DEF PopAwait, Keep, Goto, Types
<1>7. CASE Destroy(c) \/ PopTurn(c)
  BY <1>1, <1>7 DEF Destroy, PopTurn, Keep, Goto, Types
<1>8. CASE PopGrant(c) \/ Release(c)
  BY <1>1, <1>8 DEF PopGrant, Release, Keep, Done, Goto, Types
<1> QED
  BY <1>2, <1>3, <1>4, <1>5, <1>6, <1>7, <1>8 DEF PopStep

\* The positions of two pops differ.
LEMMA OwnElement ==
  ASSUME TurnInv, NEW c \in Consumers, NEW u \in Consumers,
         pc[c] \in {"await", "take"}, pc[u] \in {"await", "take"}, at[c] = at[u]
  PROVE  c = u
<1>1. CASE SC
  BY <1>1 DEF TurnInv, PopSide, OnlyOne, Alone
<1>2. CASE ~SC
  <2>1. OwnPositions(Waiting(Consumers), InTurn(Consumers), at, tail)
    BY <1>2 DEF TurnInv, PopSide, Side
  <2>2. c \in Waiting(Consumers) /\ u \in Waiting(Consumers)
    BY DEF Waiting, WaitLabels
  <2> QED
    BY <2>1, <2>2 DEF OwnPositions
<1> QED
  BY <1>1, <1>2

\* Elements that are there lie in slots of their own.
LEMMA ApartFromPush ==
  ASSUME FlowInv, NEW p \in Producers, pc[p] = "construct",
         NEW n \in 0 .. (head - 1), Kept(n), n # at[p]
  PROVE  get_li(n) # get_li(at[p]) \/ get_si(n) # get_si(at[p])
<1>1. Shown \in Nat /\ at[p] \in Shown .. (head - 1)
  BY Ahead DEF FlowInv
<1>2. n \in Freed .. (head - 1) /\ Freed \in Nat
  BY KeptRange, Behind DEF FlowInv
<1>3. Freed <= tail /\ tail <= Shown /\ head <= Freed + Capacity /\ tail \in Nat /\ head \in Nat
  BY Numbers DEF FlowInv, TurnInv, Stock, Room
<1>4. PICK m \in Nat, f \in Nat, k \in Nat : m = at[p] /\ f = Freed /\ k = Capacity
  BY <1>1, <1>2, CapacityType
<1>5. n \in Nat /\ n < m + k /\ m < n + k
  BY <1>1, <1>2, <1>3, <1>4
<1> QED
  BY <1>4, <1>5, OneSlotEach

LEMMA ApartFromPop ==
  ASSUME FlowInv, NEW c \in Consumers, pc[c] = "take",
         NEW n \in 0 .. (head - 1), Kept(n), n # at[c]
  PROVE  get_li(n) # get_li(at[c]) \/ get_si(n) # get_si(at[c])
<1>1. Freed \in Nat /\ at[c] \in Freed .. (tail - 1)
  BY Behind DEF FlowInv
<1>2. n \in Freed .. (head - 1)
  BY KeptRange
<1>3. Shown \in Int /\ tail <= Shown /\ Shown <= head /\ head <= Freed + Capacity /\ tail \in Nat /\ head \in Nat
  BY Numbers DEF FlowInv, TurnInv, Stock, Room
<1>4. PICK m \in Nat, f \in Nat, k \in Nat : m = at[c] /\ f = Freed /\ k = Capacity
  BY <1>1, CapacityType
<1>5. n \in Nat /\ n < m + k /\ m < n + k
  BY <1>1, <1>2, <1>3, <1>4
<1> QED
  BY <1>4, <1>5, OneSlotEach

LEMMA SlotsAfterPush ==
  ASSUME FlowInv, NEW p \in Producers, PushLoad(p) \/ PushStep(p)
  PROVE  slots' \in Slots /\ SlotsHold'
<1>1. Types /\ SingleP /\ SlotsHold /\ slots \in Slots /\ base \in Nat /\ at[p] \in Nat /\ head \in Nat
  BY DEF FlowInv, TurnInv, FlowTypes, Slots, Types, Threads
<1>2. UNCHANGED <<tail, base>> /\ \A u \in Consumers : pc'[u] = pc[u] /\ at'[u] = at[u]
  BY <1>1, PushSpares, PushLeavesPops
<1>3. \A u \in Producers : u # p => pc'[u] = pc[u] /\ at'[u] = at[u]
  <2>1. PICK l : Goto(p, l)
    BY PushLeaves
  <2>2. p \in Threads /\ Producers \subseteq Threads
    BY DEF Threads
  <2>3. OthersStay(p)
    BY <1>1, <2>2, PushLeaves, OthersDoStay
  <2> QED
    BY <1>1, <2>1, <2>2, <2>3 DEF Types, Goto, OthersStay
<1>4. head' = head \/ (head' = head + 1 /\ pc'[p] = "construct" /\ at'[p] = head)
  BY <1>1, PushHead
<1>5. CASE slots' = slots /\ pc[p] # "construct"
  <2>1. ASSUME NEW n \in 0 .. (head' - 1), Kept(n)' PROVE SlotAt(n)' = base' + n
    <3>1. ~\E u \in Producers : pc'[u] = "construct" /\ at'[u] = n
      BY <2>1 DEF Kept
    <3>2. n >= tail \/ \E c \in Consumers : pc[c] \in {"await", "take"} /\ at[c] = n
      BY <1>2, <2>1 DEF Kept
    <3>3. n \in 0 .. (head - 1)
      BY <1>1, <1>4, <3>1
    <3>4. Kept(n)
      BY <1>3, <1>5, <3>1, <3>2 DEF Kept
    <3>5. SlotAt(n) = base + n
      BY <1>1, <3>3, <3>4 DEF SlotsHold
    <3> QED
      BY <1>2, <1>5, <3>5 DEF SlotAt
  <2> QED
    BY <1>1, <1>5, <2>1 DEF SlotsHold
<1>6. CASE Construct(p)
  <2>1. /\ pc[p] = "construct" /\ head' = head /\ at' = at
        /\ slots' = [slots EXCEPT ![get_li(at[p])][get_si(at[p])] = base + at[p]]
    BY <1>6 DEF Construct, Keep
  <2>2. PICK m \in Nat : m = at[p] /\ slots' = [slots EXCEPT ![get_li(m)][get_si(m)] = base + m]
    BY <1>1, <2>1
  <2>3. base + m \in Nat \cup {Raw}
    BY <1>1, <2>2
  <2>4. /\ slots' \in Slots /\ SlotAt(m)' = base + m
        /\ \A n \in Nat : get_li(n) # get_li(m) \/ get_si(n) # get_si(m) => SlotAt(n)' = SlotAt(n)
    BY <1>1, <2>2, <2>3, SlotWritten
  <2>5. ASSUME NEW n \in 0 .. (head' - 1), Kept(n)' PROVE SlotAt(n)' = base' + n
    <3>1. CASE n = m
      BY <1>2, <2>4, <3>1
    <3>2. CASE n # m
      <4>1. ~\E u \in Producers : pc'[u] = "construct" /\ at'[u] = n
        BY <2>5 DEF Kept
      <4>2. n >= tail \/ \E c \in Consumers : pc[c] \in {"await", "take"} /\ at[c] = n
        BY <1>2, <2>5 DEF Kept
      <4>3. n \in 0 .. (head - 1)
        BY <2>1
      <4>4. Kept(n)
        BY <1>3, <2>2, <3>2, <4>1, <4>2 DEF Kept
      <4>5. get_li(n) # get_li(m) \/ get_si(n) # get_si(m)
        BY <2>1, <2>2, <3>2, <4>3, <4>4, ApartFromPush
      <4>6. SlotAt(n)' = SlotAt(n)
        BY <2>4, <4>3, <4>5
      <4>7. SlotAt(n) = base + n
        BY <1>1, <4>3, <4>4 DEF SlotsHold
      <4> QED
        BY <1>2, <4>6, <4>7
    <3> QED
      BY <3>1, <3>2
  <2> QED
    BY <2>4, <2>5 DEF SlotsHold
<1> QED
  BY <1>5, <1>6, PushSlots

LEMMA SlotsAfterPop ==
  ASSUME FlowInv, NEW c \in Consumers, PopSingle(c) \/ PopEnter(c) \/ PopStep(c)
  PROVE  slots' \in Slots /\ SlotsHold'
<1>1. Types /\ SlotsHold /\ slots \in Slots /\ base \in Nat /\ at[c] \in Nat /\ tail \in Nat
  BY DEF FlowInv, TurnInv, FlowTypes, Slots, Types, Threads
<1>2. UNCHANGED <<head, base>> /\ \A u \in Producers : pc'[u] = pc[u] /\ at'[u] = at[u]
  BY <1>1, PopSpares, PopLeavesPushes
<1>3. \A u \in Consumers : u # c => pc'[u] = pc[u] /\ at'[u] = at[u]
  <2>1. PICK l : Goto(c, l)
    BY PopLeaves
  <2>2. c \in Threads /\ Consumers \subseteq Threads
    BY DEF Threads
  <2>3. OthersStay(c)
    BY <1>1, <2>2, PopLeaves, OthersDoStay
  <2> QED
    BY <1>1, <2>1, <2>2, <2>3 DEF Types, Goto, OthersStay
<1>4. /\ tail' \in {tail, tail + 1}
      /\ pc'[c] \in {"await", "take"} =>
           at'[c] = tail \/ (pc[c] \in {"await", "take"} /\ at'[c] = at[c])
  BY <1>1, PopTail
<1>5. ASSUME NEW n \in 0 .. (head - 1), Kept(n)' PROVE Kept(n)
  <2>1. ~\E u \in Producers : pc[u] = "construct" /\ at[u] = n
    BY <1>2, <1>5 DEF Kept
  <2>2. n >= tail' \/ \E u \in Consumers : pc'[u] \in {"await", "take"} /\ at'[u] = n
    BY <1>5 DEF Kept
  <2>3. CASE n >= tail'
    BY <1>1, <1>4, <2>1, <2>3 DEF Kept
  <2>4. CASE \E u \in Consumers : pc'[u] \in {"await", "take"} /\ at'[u] = n
    <3>1. PICK u \in Consumers : pc'[u] \in {"await", "take"} /\ at'[u] = n
      BY <2>4
    <3>2. n >= tail \/ (pc[u] \in {"await", "take"} /\ at[u] = n)
      BY <1>1, <1>3, <1>4, <3>1
    <3> QED
      BY <2>1, <3>2 DEF Kept
  <2> QED
    BY <2>2, <2>3, <2>4
<1>6. CASE slots' = slots
  <2>1. ASSUME NEW n \in 0 .. (head' - 1), Kept(n)' PROVE SlotAt(n)' = base' + n
    <3>1. n \in 0 .. (head - 1) /\ Kept(n)
      BY <1>2, <1>5, <2>1
    <3>2. SlotAt(n) = base + n
      BY <1>1, <3>1 DEF SlotsHold
    <3> QED
      BY <1>2, <1>6, <3>2 DEF SlotAt
  <2> QED
    BY <1>1, <1>6, <2>1 DEF SlotsHold
<1>7. CASE Destroy(c)
  <2>1. /\ pc[c] = "take" /\ tail' = tail /\ at' = at
        /\ slots' = [slots EXCEPT ![get_li(at[c])][get_si(at[c])] = Raw]
        /\ pc'[c] \in {"release", "turn"}
    BY <1>1, <1>7 DEF Destroy, Keep, Goto, Types, Threads
  <2>2. PICK m \in Nat : m = at[c] /\ slots' = [slots EXCEPT ![get_li(m)][get_si(m)] = Raw]
    BY <1>1, <2>1
  <2>3. /\ slots' \in Slots
        /\ \A n \in Nat : get_li(n) # get_li(m) \/ get_si(n) # get_si(m) => SlotAt(n)' = SlotAt(n)
    <3>1. Raw \in Nat \cup {Raw}
      OBVIOUS
    <3> QED
      BY <1>1, <2>2, <3>1, SlotWritten
  <2>4. ASSUME NEW n \in 0 .. (head' - 1), Kept(n)' PROVE SlotAt(n)' = base' + n
    <3>1. n \in 0 .. (head - 1) /\ Kept(n)
      BY <1>2, <1>5, <2>4
    <3>2. n # m
      <4> SUFFICES ASSUME n = m PROVE FALSE
        OBVIOUS
      <4>1. n \in Freed .. (tail - 1) /\ Freed \in Nat
        BY <2>1, <2>2, Behind DEF FlowInv
      <4>2. PICK u \in Consumers : pc'[u] \in {"await", "take"} /\ at'[u] = n
        BY <1>1, <2>1, <2>4, <4>1 DEF Kept
      <4>3. u # c
        BY <2>1, <4>2
      <4>4. pc[u] \in {"await", "take"} /\ at[u] = at[c]
        BY <1>3, <2>2, <4>2, <4>3
      <4> QED
        BY <2>1, <4>3, <4>4, OwnElement DEF FlowInv
    <3>3. get_li(n) # get_li(m) \/ get_si(n) # get_si(m)
      BY <2>1, <2>2, <3>1, <3>2, ApartFromPop
    <3>4. SlotAt(n)' = SlotAt(n)
      BY <2>3, <3>1, <3>3
    <3>5. SlotAt(n) = base + n
      BY <1>1, <3>1 DEF SlotsHold
    <3> QED
      BY <1>2, <3>4, <3>5
  <2> QED
    BY <2>3, <2>4 DEF SlotsHold
<1> QED
  BY <1>6, <1>7, PopSlots
-----------------------------------------------------------------------------
(* Where no call is under way and all is set back, and the steps together. *)

LEMMA QuietFlow == SetBack => CountIsExact /\ SingleP /\ SingleC /\ Room /\ Stock /\ SlotsHold
<1> SUFFICES ASSUME SetBack PROVE CountIsExact /\ SingleP /\ SingleC /\ Room /\ Stock /\ SlotsHold
  OBVIOUS
<1>1. /\ \A t \in Producers \cup Consumers : pc[t] = "idle"
      /\ head = 0 /\ tail = 0 /\ hf2 = CountFlags /\ tf2 = CountFlags
  BY DEF SetBack, AllIdle, Threads
<1>2. /\ Holders(Producers) = {} /\ Holders(Consumers) = {}
      /\ Unturned(Producers) = {} /\ Unturned(Consumers) = {}
  BY <1>1 DEF Holders, Unturned
<1>3. Cardinality({}) = 0
  BY FS_EmptySet
<1>4. Pushed = 0 /\ Popped = 0 /\ Shown = 0 /\ Freed = 0
  <2>1. Pushed = 0 /\ Popped = 0
    BY <1>1, <1>2, <1>3 DEF Pushed, Popped
  <2>2. Shown = 0 /\ Freed = 0
    BY <1>1, <1>2, <1>3, <2>1 DEF Shown, Freed
  <2> QED
    BY <2>1, <2>2
<1>5. ASSUME NEW li \in LineIds
      PROVE  DoneOn({}, at, 0, li) = 0 /\ PositionsOn(0, li) = 0
  <2>1. PositionsOn(0, li) = 0
    BY PositionsBounded
  <2> QED
    BY <2>1, NoneHeld
<1>6. SlotsPerLine \in Nat /\ FlagMod \in Nat /\ FlagMod > 1
  BY LinesAssumption
<1>7. CountsAre({}, at, 0, CountFlags)
  <2>1. CountFlags \in [LineIds -> 0 .. (FlagMod - 1)]
    BY <1>6 DEF CountFlags
  <2>2. 1 % FlagMod = 1
    BY <1>6, SmallRemainder
  <2>3. ASSUME NEW li \in LineIds PROVE CountFlags[li] = (1 + DoneOn({}, at, 0, li)) % FlagMod
    BY <1>5, <2>2 DEF CountFlags
  <2> QED
    BY <2>1, <2>3 DEF CountsAre
<1>8. CountIsExact
  BY <1>1, <1>2, <1>7 DEF CountIsExact
<1>9. SingleP /\ SingleC
  BY <1>1 DEF SingleP, SingleC
<1>10. \A li \in LineIds : PushesDone(li) = 0 /\ PopsDone(li) = 0
  BY <1>1, <1>2, <1>5 DEF PushesDone, PopsDone
<1>11. Capacity \in Nat
  BY CapacityType
<1>12. Room
  BY <1>1, <1>4, <1>5, <1>6, <1>10, <1>11 DEF Room
<1>13. Stock
  BY <1>1, <1>4, <1>5, <1>10 DEF Stock
<1>14. SlotsHold
  BY <1>1 DEF SlotsHold
<1> QED
  BY <1>8, <1>9, <1>12, <1>13, <1>14

LEMMA QuietFlowNext ==
  (SetBack => CountIsExact /\ SingleP /\ SingleC /\ Room /\ Stock /\ SlotsHold)'
  BY QuietFlow, PTL

LEMMA InitFlow == Init => FlowInv
<1> SUFFICES ASSUME Init PROVE FlowInv
  OBVIOUS
<1>1. SetBack
  BY DEF Init, SetBack, AllIdle
<1>2. FlowTypes
  BY DEF Init, FlowTypes
<1> QED
  BY <1>1, <1>2, QuietFlow, InitTurnInv DEF FlowInv

LEMMA ClearFlow == FlowInv /\ clear => FlowTypes' /\ SetBack'
<1> SUFFICES ASSUME FlowInv, clear PROVE FlowTypes' /\ SetBack'
  OBVIOUS
<1>1. SetBack'
  BY DEF clear, SetBack, AllIdle, TurnFlags, CountFlags
<1>2. base' = base + head /\ head \in Nat /\ base \in Nat /\ slots \in Slots
  BY DEF clear, FlowInv, FlowTypes, TurnInv, Types, Slots
<1>3. slots' \in Slots
  <2>1. PICK left : slots' = [li \in LineIds |-> [si \in 0 .. (SlotsPerLine - 1) |->
                       IF <<li, si>> \in left THEN Raw ELSE slots[li][si]]]
    BY DEF clear
  <2>2. ASSUME NEW li \in LineIds
        PROVE  [si \in 0 .. (SlotsPerLine - 1) |-> IF <<li, si>> \in left THEN Raw ELSE slots[li][si]]
                 \in [0 .. (SlotsPerLine - 1) -> Nat \cup {Raw}]
    <3>1. \A si \in 0 .. (SlotsPerLine - 1) : slots[li][si] \in Nat \cup {Raw}
      BY <1>2 DEF Slots
    <3> QED
      BY <3>1
  <2> QED
    BY <2>1, <2>2 DEF Slots
<1> QED
  BY <1>1, <1>2, <1>3 DEF FlowTypes, Slots

LEMMA StutterFlow ==
  FlowInv /\ UNCHANGED clvars =>
    (FlowTypes /\ CountIsExact /\ SingleP /\ SingleC /\ Room /\ Stock /\ SlotsHold)'
<1> SUFFICES ASSUME FlowInv, UNCHANGED clvars
             PROVE  (FlowTypes /\ CountIsExact /\ SingleP /\ SingleC /\ Room /\ Stock /\ SlotsHold)'
  OBVIOUS
<1>1. UNCHANGED <<flags, hf2, tf2, slots, head, tail, pc, at, base>>
  BY DEF clvars
<1>2. \A side : Holders(side)' = Holders(side) /\ Unturned(side)' = Unturned(side)
  BY <1>1 DEF Holders, Unturned
<1>3. SP' = SP /\ SC' = SC
  BY <1>1 DEF SP, SC
<1>4. Pushed' = Pushed /\ Popped' = Popped
  BY <1>1, <1>2 DEF Pushed, Popped
<1>5. Shown' = Shown /\ Freed' = Freed
  BY <1>1, <1>2, <1>3, <1>4 DEF Shown, Freed
<1>6. \A li : PushesDone(li)' = PushesDone(li) /\ PopsDone(li)' = PopsDone(li)
  BY <1>1, <1>2 DEF PushesDone, PopsDone
<1>7. FlowTypes' /\ CountIsExact'
  BY <1>1, <1>2, <1>3 DEF FlowInv, FlowTypes, CountIsExact
<1>8. SingleP' /\ SingleC'
  BY <1>1, <1>3 DEF FlowInv, SingleP, SingleC
<1>9. Room'
  BY <1>1, <1>3, <1>4, <1>5, <1>6 DEF FlowInv, Room
<1>10. Stock'
  BY <1>1, <1>3, <1>4, <1>5, <1>6 DEF FlowInv, Stock
<1>11. SlotsHold'
  BY <1>1 DEF FlowInv, SlotsHold, Kept, SlotAt
<1> QED
  BY <1>7, <1>8, <1>9, <1>10, <1>11

LEMMA TypesAfterPush ==
  ASSUME FlowInv, NEW p \in Producers, PushLoad(p) \/ PushStep(p), slots' \in Slots
  PROVE  FlowTypes'
<1>1. Types /\ base \in Nat
  BY DEF FlowInv, TurnInv, FlowTypes
<1>2. base' = base
  BY <1>1, PushSpares
<1> QED
  BY <1>1, <1>2 DEF FlowTypes, Slots

LEMMA TypesAfterPop ==
  ASSUME FlowInv, NEW c \in Consumers, PopSingle(c) \/ PopEnter(c) \/ PopStep(c), slots' \in Slots
  PROVE  FlowTypes'
<1>1. Types /\ base \in Nat
  BY DEF FlowInv, TurnInv, FlowTypes
<1>2. base' = base
  BY <1>1, PopSpares
<1> QED
  BY <1>1, <1>2 DEF FlowTypes, Slots

LEMMA PushFlow ==
  ASSUME FullIsSeen, ClaimsBacked', FlowInv, NEW p \in Producers, PushLoad(p) \/ PushStep(p), TurnInv'
  PROVE  FlowInv'
<1>1. Types /\ PushSide /\ SingleP /\ SingleC /\ CountIsExact
  BY DEF FlowInv, TurnInv
<1>2. SingleP' /\ SingleC'
  BY <1>1, SinglesAfterPush
<1>3. CountIsExact'
  BY <1>1, PushEffects, PushCounts
<1>4. Room' /\ Stock'
  BY RoomAfterPush, StockAfterPush
<1>5. slots' \in Slots /\ SlotsHold'
  BY SlotsAfterPush
<1>6. FlowTypes'
  BY <1>5, TypesAfterPush
<1> QED
  BY <1>2, <1>3, <1>4, <1>5, <1>6 DEF FlowInv

LEMMA PopFlow ==
  ASSUME ClaimsBacked', FlowInv, NEW c \in Consumers, PopSingle(c) \/ PopEnter(c) \/ PopStep(c), TurnInv'
  PROVE  FlowInv'
<1>1. Types /\ PopSide /\ SingleP /\ SingleC /\ CountIsExact
  BY DEF FlowInv, TurnInv
<1>2. SingleP' /\ SingleC'
  BY <1>1, SinglesAfterPop
<1>3. CountIsExact'
  BY <1>1, PopEffects, PopCounts
<1>4. Room' /\ Stock'
  BY RoomAfterPop, StockAfterPop
<1>5. slots' \in Slots /\ SlotsHold'
  BY SlotsAfterPop
<1>6. FlowTypes'
  BY <1>5, TypesAfterPop
<1> QED
  BY <1>2, <1>3, <1>4, <1>5, <1>6 DEF FlowInv

LEMMA NextFlow == NotLapped /\ FullIsSeen /\ ClaimsBacked' /\ FlowInv /\ [Next]_clvars => FlowInv'
<1> SUFFICES ASSUME NotLapped, FullIsSeen, ClaimsBacked', FlowInv, [Next]_clvars PROVE FlowInv'
  OBVIOUS
<1>1. TurnInv'
  BY NextTurnInv DEF FlowInv
<1>2. ASSUME NEW p \in Producers, PushLoad(p) \/ PushStep(p) PROVE FlowInv'
  BY <1>1, <1>2, PushFlow
<1>3. ASSUME NEW c \in Consumers, PopSingle(c) \/ PopEnter(c) \/ PopStep(c) PROVE FlowInv'
  BY <1>1, <1>3, PopFlow
<1>4. CASE clear
  <2>1. FlowTypes' /\ SetBack'
    BY <1>4, ClearFlow
  <2> QED
    BY <1>1, <2>1, QuietFlowNext DEF FlowInv
<1>5. CASE UNCHANGED clvars
  BY <1>1, <1>5, StutterFlow DEF FlowInv
<1> QED
  BY <1>2, <1>3, <1>4, <1>5 DEF Next

\* As long as no call is lapped, each of several that claims has room or an element, and
\* a single producer sees a full line, a pop always finds the element of its position in
\* its slot: it was shown, or the pop has waited for it, and no push has come round to
\* the slot (lines 492-528 and 542).
THEOREM OwnElementTaken ==
  Spec /\ [](NotLapped /\ ClaimsBacked /\ FullIsSeen) => []TakesOwnElement
<1> DEFINE Careful == NotLapped /\ ClaimsBacked /\ FullIsSeen
<1>1. Careful /\ Careful' /\ FlowInv /\ [Next]_clvars => FlowInv'
  BY NextFlow
<1> HIDE DEF Careful
<1>2. Spec /\ []Careful => []TakesOwnElement
  BY <1>1, InitFlow, TakesHere, PTL DEF Spec
<1> QED
  BY <1>2 DEF Careful
-----------------------------------------------------------------------------
(* The queue implements the bounded FIFO. *)

\* The elements from a on and before b, in order.
Names(a, b) == [i \in 1 .. (b - a) |-> a + i - 1]

LEMMA NamesAre ==
  ASSUME NEW a \in Nat, NEW b \in Nat, a <= b
  PROVE  /\ Names(a, b) \in Seq(Nat) /\ Len(Names(a, b)) = b - a
         /\ \A i \in 1 .. (b - a) : Names(a, b)[i] = a + i - 1
<1>1. b - a \in Nat /\ \A i \in 1 .. (b - a) : a + i - 1 \in Nat
  OBVIOUS
<1>2. Names(a, b) \in [1 .. (b - a) -> Nat]
  BY <1>1 DEF Names
<1> QED
  BY <1>1, <1>2 DEF Names

\* More elements at the end, and fewer at the front.
LEMMA NamesAppear ==
  ASSUME NEW a \in Nat, NEW b \in Nat, a <= b, NEW n \in Nat
  PROVE  Names(a, b + n) = Names(a, b) \o [i \in 1 .. n |-> b + i - 1]
<1> DEFINE s == Names(a, b)
           f == [i \in 1 .. n |-> b + i - 1]
           r == Names(a, b + n)
<1>1. s \in Seq(Nat) /\ Len(s) = b - a /\ \A i \in 1 .. (b - a) : s[i] = a + i - 1
  BY NamesAre
<1>2. r \in Seq(Nat) /\ Len(r) = b + n - a /\ \A i \in 1 .. (b + n - a) : r[i] = a + i - 1
  <2>1. b + n \in Nat /\ a <= b + n
    OBVIOUS
  <2> QED
    BY <2>1, NamesAre
<1>3. f \in Seq(Nat) /\ Len(f) = n /\ \A i \in 1 .. n : f[i] = b + i - 1
  <2>1. f \in [1 .. n -> Nat]
    OBVIOUS
  <2> QED
    BY <2>1
<1> HIDE DEF s, f, r
<1>4. s \o f \in Seq(Nat) /\ Len(s \o f) = b + n - a
  BY <1>1, <1>3
<1>5. \A i \in 1 .. (b + n - a) : (s \o f)[i] = a + i - 1
  <2> TAKE i \in 1 .. (b + n - a)
  <2>1. CASE i <= b - a
    BY <1>1, <1>3, <2>1
  <2>2. CASE i > b - a
    <3>1. (s \o f)[i] = f[i - (b - a)]
      BY <1>1, <1>3, <2>2
    <3>2. i - (b - a) \in 1 .. n
      BY <2>2
    <3> QED
      BY <1>3, <3>1, <3>2
  <2>3. i \in Int /\ b - a \in Int
    OBVIOUS
  <2>4. i <= b - a \/ i > b - a
    BY <2>3
  <2> QED
    BY <2>1, <2>2, <2>4
<1>6. r = s \o f
  BY <1>2, <1>4, <1>5, SeqEqual
<1> QED
  BY <1>6 DEF r, s, f

LEMMA OneAppears ==
  ASSUME NEW a \in Nat, NEW b \in Nat, a <= b
  PROVE  Names(a, b + 1) = Names(a, b) \o [i \in 1 .. 1 |-> b + i - 1]
<1>1. PICK n \in Nat : n = 1
  OBVIOUS
<1>2. Names(a, b + n) = Names(a, b) \o [i \in 1 .. n |-> b + i - 1]
  BY <1>1, NamesAppear
<1> QED
  BY <1>1, <1>2

LEMMA NamesTaken ==
  ASSUME NEW a \in Nat, NEW b \in Nat, NEW n \in Nat, a + n <= b
  PROVE  Names(a + n, b) = SubSeq(Names(a, b), n + 1, Len(Names(a, b)))
<1> DEFINE s == Names(a, b)
           r == Names(a + n, b)
<1>1. s \in Seq(Nat) /\ Len(s) = b - a /\ \A i \in 1 .. (b - a) : s[i] = a + i - 1
  BY NamesAre
<1>2. a + n \in Nat
  OBVIOUS
<1>3. r \in Seq(Nat) /\ Len(r) = b - (a + n) /\ \A i \in 1 .. (b - (a + n)) : r[i] = (a + n) + i - 1
  BY <1>2, NamesAre
<1> HIDE DEF s, r
<1>4. /\ SubSeq(s, n + 1, Len(s)) \in Seq(Nat) /\ Len(SubSeq(s, n + 1, Len(s))) = b - (a + n)
      /\ \A i \in 1 .. (b - (a + n)) : SubSeq(s, n + 1, Len(s))[i] = s[n + i]
  BY <1>1
<1>5. \A i \in 1 .. (b - (a + n)) : s[n + i] = (a + n) + i - 1
  <2> TAKE i \in 1 .. (b - (a + n))
  <2>1. n + i \in 1 .. (b - a) /\ a + (n + i) - 1 = (a + n) + i - 1
    OBVIOUS
  <2> QED
    BY <1>1, <2>1
<1>6. \A i \in 1 .. Len(r) : r[i] = SubSeq(s, n + 1, Len(s))[i]
  BY <1>3, <1>4, <1>5
<1>7. r = SubSeq(s, n + 1, Len(s))
  BY <1>3, <1>4, <1>6, SeqEqual
<1> QED
  BY <1>7 DEF r, s

Items == [i \in 1 .. (Shown - tail) |-> SlotAt(tail + i - 1)]

\* The elements that have appeared and not been taken are all there.
LEMMA ItemsAre == FlowInv => Items = Names(base + tail, base + Shown)
<1> SUFFICES ASSUME FlowInv PROVE Items = Names(base + tail, base + Shown)
  OBVIOUS
<1>1. /\ Shown \in Nat
      /\ \A p \in Producers : pc[p] = "construct" => at[p] \in Shown .. (head - 1)
  BY Ahead DEF FlowInv
<1>2. tail <= Shown /\ Shown <= head /\ tail \in Nat /\ head \in Nat /\ base \in Nat
  BY Numbers DEF FlowInv, TurnInv, Stock, FlowTypes
<1>3. ASSUME NEW n \in tail .. (Shown - 1) PROVE SlotAt(n) = base + n
  <2>1. n \in 0 .. (head - 1)
    BY <1>1, <1>2
  <2>2. Kept(n)
    <3>1. ~\E p \in Producers : pc[p] = "construct" /\ at[p] = n
      BY <1>1
    <3>2. n >= tail
      BY <1>2
    <3> QED
      BY <3>1, <3>2 DEF Kept
  <2> QED
    BY <2>1, <2>2 DEF FlowInv, SlotsHold
<1>4. (base + Shown) - (base + tail) = Shown - tail
  BY <1>1, <1>2
<1>5. ASSUME NEW i \in 1 .. (Shown - tail) PROVE SlotAt(tail + i - 1) = (base + tail) + i - 1
  <2>1. tail + i - 1 \in tail .. (Shown - 1) /\ base + (tail + i - 1) = (base + tail) + i - 1
    BY <1>1, <1>2
  <2> QED
    BY <1>3, <2>1
<1> QED
  BY <1>4, <1>5 DEF Items, Names

\* What the steps below know of two states in a row.
Ordered ==
  /\ Items = Names(base + tail, base + Shown)
  /\ base \in Nat /\ Freed \in Nat /\ tail \in Nat /\ Shown \in Nat /\ head \in Nat
  /\ Freed <= tail /\ tail <= Shown /\ Shown <= head /\ head <= Freed + Capacity

LEMMA OrderedHere == FlowInv => Ordered
<1> SUFFICES ASSUME FlowInv PROVE Ordered
  OBVIOUS
<1>1. Shown \in Nat /\ Freed \in Nat
  BY Ahead, Behind DEF FlowInv
<1>2. Freed <= tail /\ tail <= Shown /\ Shown <= head /\ tail \in Nat /\ head \in Nat /\ base \in Nat
  BY Numbers DEF FlowInv, TurnInv, Stock, FlowTypes
<1>3. head <= Freed + Capacity
  BY DEF FlowInv, Room
<1> QED
  BY <1>1, <1>2, <1>3, ItemsAre DEF Ordered

LEMMA OrderedNext == (FlowInv => Ordered)'
  BY OrderedHere, PTL

\* A push takes room or its element appears, a pop takes an element or gives its room back.
Stays == UNCHANGED <<base, head, Shown, tail, Freed>> /\ Items' = Items
Enters == head' = head + 1 /\ UNCHANGED <<base, Shown, tail, Freed>>
Appears == Shown' = Shown + 1 /\ UNCHANGED <<base, head, tail, Freed>>
Takes == tail' = tail + 1 /\ UNCHANGED <<base, head, Shown, Freed>>
Leaves == Freed' = Freed + 1 /\ UNCHANGED <<base, head, Shown, tail>>
Moves == Stays \/ Enters \/ Appears \/ Takes \/ Leaves

LEMMA StaysAre ==
  ASSUME Ordered, Ordered', UNCHANGED <<base, head, Shown, tail, Freed>>
  PROVE  Moves
<1>1. Items' = Names(base' + tail', base' + Shown')
  BY DEF Ordered, Names
<1>2. Items' = Items
  BY <1>1 DEF Ordered
<1> QED
  BY <1>2 DEF Moves, Stays

LEMMA PushMoves ==
  ASSUME FlowInv, Ordered, Ordered', NEW p \in Producers, PushLoad(p) \/ PushStep(p)
  PROVE  Moves
<1>1. Types /\ SingleP
  BY DEF FlowInv, TurnInv
<1>2. PushQuiet \/ PushClaims(p) \/ PushTurns(p) \/ PushShows(p)
  BY <1>1, PushEffects
<1>3. UNCHANGED <<tail, base>>
  BY <1>1, PushSpares
<1>4. /\ Freed' = Freed
      /\ Idles(Producers) /\ head' = head => Pushed' = Pushed /\ Shown' = Shown
      /\ PushClaims(p) => Pushed' = Pushed /\ Shown' = Shown
      /\ PushTurns(p) => Pushed' = Pushed /\ Shown' = IF SP THEN Shown ELSE Shown + 1
      /\ PushShows(p) => Pushed' = Pushed + 1 /\ Shown' = IF SP THEN Shown + 1 ELSE Shown
  BY <1>1, <1>2, PushNumbers
<1>5. CASE PushQuiet
  <2>1. Idles(Producers) /\ head' = head
    BY <1>5 DEF PushQuiet
  <2> QED
    BY <1>3, <1>4, <2>1, StaysAre
<1>6. CASE PushClaims(p)
  <2>1. head' = head + 1
    BY <1>6 DEF PushClaims
  <2> QED
    BY <1>3, <1>4, <1>6, <2>1 DEF Moves, Enters
<1>7. CASE PushTurns(p) \/ PushShows(p)
  <2>1. head' = head
    BY <1>7 DEF PushTurns, PushShows
  <2>2. Shown' = Shown \/ Shown' = Shown + 1
    BY <1>4, <1>7
  <2>3. CASE Shown' = Shown
    BY <1>3, <1>4, <2>1, <2>3, StaysAre
  <2>4. CASE Shown' = Shown + 1
    BY <1>3, <1>4, <2>1, <2>4 DEF Moves, Appears
  <2> QED
    BY <2>2, <2>3, <2>4
<1> QED
  BY <1>2, <1>5, <1>6, <1>7

LEMMA PopMoves ==
  ASSUME FlowInv, Ordered, Ordered', NEW c \in Consumers, PopSingle(c) \/ PopEnter(c) \/ PopStep(c)
  PROVE  Moves
<1>1. Types /\ SingleC
  BY DEF FlowInv, TurnInv
<1>2. PopQuiet \/ PopClaims(c) \/ PopTurns(c) \/ PopShows(c)
  BY <1>1, PopEffects
<1>3. UNCHANGED <<head, base>>
  BY <1>1, PopSpares
<1>4. /\ Shown' = Shown
      /\ Idles(Consumers) /\ tail' = tail => Popped' = Popped /\ Freed' = Freed
      /\ PopClaims(c) => Popped' = Popped /\ Freed' = Freed
      /\ PopTurns(c) => Popped' = Popped /\ Freed' = IF SC THEN Freed ELSE Freed + 1
      /\ PopShows(c) => Popped' = Popped + 1 /\ Freed' = IF SC THEN Freed + 1 ELSE Freed
  BY <1>1, <1>2, PopNumbers
<1>5. CASE PopQuiet
  <2>1. Idles(Consumers) /\ tail' = tail
    BY <1>5 DEF PopQuiet
  <2> QED
    BY <1>3, <1>4, <2>1, StaysAre
<1>6. CASE PopClaims(c)
  <2>1. tail' = tail + 1
    BY <1>6 DEF PopClaims
  <2> QED
    BY <1>3, <1>4, <1>6, <2>1 DEF Moves, Takes
<1>7. CASE PopTurns(c) \/ PopShows(c)
  <2>1. tail' = tail
    BY <1>7 DEF PopTurns, PopShows
  <2>2. Freed' = Freed \/ Freed' = Freed + 1
    BY <1>4, <1>7
  <2>3. CASE Freed' = Freed
    BY <1>3, <1>4, <2>1, <2>3, StaysAre
  <2>4. CASE Freed' = Freed + 1
    BY <1>3, <1>4, <2>1, <2>4 DEF Moves, Leaves
  <2> QED
    BY <2>2, <2>3, <2>4
<1> QED
  BY <1>2, <1>5, <1>6, <1>7

\* Each of these is a step of BoundedFifo, or leaves its variables alone.
LEMMA MoveSimulates ==
  ASSUME Ordered, Ordered', Moves
  PROVE  [Fifo!Next]_(Fifo!vars)
<1>1. PICK b \in Nat, h \in Nat, s \in Nat, o \in Nat, f \in Nat, m \in Nat :
         /\ b = base /\ h = head /\ s = Shown /\ o = tail /\ f = Freed /\ m = Capacity
         /\ f <= o /\ o <= s /\ s <= h /\ h <= f + m
  BY CapacityType DEF Ordered
<1>2. Items = Names(b + o, b + s)
  BY <1>1 DEF Ordered
<1>3. Items' = Names(base' + tail', base' + Shown')
  BY DEF Ordered, Names
<1>4. Len(Items) = s - o
  <2>1. b + o \in Nat /\ b + s \in Nat /\ b + o <= b + s /\ (b + s) - (b + o) = s - o
    BY <1>1
  <2> QED
    BY <1>2, <2>1, NamesAre
<1>5. CASE Stays
  <2>1. UNCHANGED <<Items, base + Shown, head - Shown, tail - Freed>>
    BY <1>5 DEF Stays
  <2> QED
    BY <2>1 DEF Fifo!vars, Items
<1>6. CASE Enters
  <2>1. head' = h + 1 /\ base' = b /\ Shown' = s /\ tail' = o /\ Freed' = f
    BY <1>1, <1>6 DEF Enters
  <2>2. Items' = Items
    BY <1>2, <1>3, <2>1
  <2>3. h + 1 <= f + m
    BY <1>1, <2>1 DEF Ordered
  <2>4. 1 \in 1 .. Capacity /\ (head - Shown) + Len(Items) + (tail - Freed) + 1 <= Capacity
    BY <1>1, <1>4, <2>3
  <2>5. /\ (head - Shown)' = (head - Shown) + 1 /\ (base + Shown)' = base + Shown
        /\ (tail - Freed)' = tail - Freed
    BY <1>1, <2>1
  <2>6. Fifo!Enter(1)
    BY <2>2, <2>4, <2>5 DEF Fifo!Enter, Items
  <2> QED
    BY <2>4, <2>6 DEF Fifo!Next
<1>7. CASE Appears
  <2>1. head' = h /\ base' = b /\ Shown' = s + 1 /\ tail' = o /\ Freed' = f
    BY <1>1, <1>7 DEF Appears
  <2>2. s + 1 <= h
    BY <2>1 DEF Ordered
  <2>3. 1 \in 1 .. (head - Shown)
    BY <1>1, <2>2
  <2>4. /\ (head - Shown)' = (head - Shown) - 1 /\ (base + Shown)' = (base + Shown) + 1
        /\ (tail - Freed)' = tail - Freed
    BY <1>1, <2>1
  <2>5. Items' = Items \o [i \in 1 .. 1 |-> (base + Shown) + i - 1]
    <3>1. b + (s + 1) = (b + s) + 1
      BY <1>1
    <3>2. Items' = Names(b + o, (b + s) + 1)
      BY <1>3, <2>1, <3>1
    <3>3. Names(b + o, (b + s) + 1) = Names(b + o, b + s) \o [i \in 1 .. 1 |-> (b + s) + i - 1]
      <4>1. b + o \in Nat /\ b + s \in Nat /\ b + o <= b + s
        BY <1>1
      <4> QED
        BY <4>1, OneAppears, Zenon
    <3> QED
      BY <1>1, <1>2, <3>2, <3>3, Zenon
  <2>6. Fifo!Appear(1)
    BY <2>4, <2>5 DEF Fifo!Appear, Items
  <2> QED
    BY <2>3, <2>6 DEF Fifo!Next
<1>8. CASE Takes
  <2>1. head' = h /\ base' = b /\ Shown' = s /\ tail' = o + 1 /\ Freed' = f
    BY <1>1, <1>8 DEF Takes
  <2>2. o + 1 <= s
    BY <2>1 DEF Ordered
  <2>3. 1 \in 1 .. Len(Items)
    BY <1>1, <1>4, <2>2
  <2>4. /\ (head - Shown)' = head - Shown /\ (base + Shown)' = base + Shown
        /\ (tail - Freed)' = (tail - Freed) + 1
    BY <1>1, <2>1
  <2>5. Items' = SubSeq(Items, 1 + 1, Len(Items))
    <3>1. b + (o + 1) = (b + o) + 1
      BY <1>1
    <3>2. Items' = Names((b + o) + 1, b + s)
      BY <1>3, <2>1, <3>1
    <3>3. Names((b + o) + 1, b + s) = SubSeq(Names(b + o, b + s), 1 + 1, Len(Names(b + o, b + s)))
      <4>1. b + o \in Nat /\ b + s \in Nat /\ (b + o) + 1 <= b + s /\ 1 \in Nat
        BY <1>1, <2>2
      <4> QED
        BY <4>1, NamesTaken, Zenon
    <3> QED
      BY <1>2, <3>2, <3>3
  <2>6. Fifo!Take(1)
    BY <2>4, <2>5 DEF Fifo!Take, Items
  <2> QED
    BY <2>3, <2>6 DEF Fifo!Next, Items
<1>9. CASE Leaves
  <2>1. head' = h /\ base' = b /\ Shown' = s /\ tail' = o /\ Freed' = f + 1
    BY <1>1, <1>9 DEF Leaves
  <2>2. f + 1 <= o
    BY <2>1 DEF Ordered
  <2>3. 1 \in 1 .. (tail - Freed)
    BY <1>1, <2>2
  <2>4. /\ (head - Shown)' = head - Shown /\ (base + Shown)' = base + Shown
        /\ (tail - Freed)' = (tail - Freed) - 1 /\ Items' = Items
    BY <1>1, <1>2, <1>3, <2>1
  <2>5. Fifo!Leave(1)
    BY <2>4 DEF Fifo!Leave, Items
  <2> QED
    BY <2>3, <2>5 DEF Fifo!Next
<1> QED
  BY <1>5, <1>6, <1>7, <1>8, <1>9 DEF Moves

\* Nobody has a position: all that was claimed has appeared, and all that was taken was
\* given back.
LEMMA AllShown == AllIdle => Shown = head - 0 /\ Freed = tail - 0
<1> SUFFICES ASSUME AllIdle PROVE Shown = head - 0 /\ Freed = tail - 0
  OBVIOUS
<1>1. /\ Holders(Producers) = {} /\ Holders(Consumers) = {}
      /\ Unturned(Producers) = {} /\ Unturned(Consumers) = {}
  BY DEF AllIdle, Threads, Holders, Unturned
<1>2. Cardinality({}) = 0
  BY FS_EmptySet
<1>3. Pushed = head - 0 /\ Popped = tail - 0
  BY <1>1, <1>2 DEF Pushed, Popped
<1> QED
  BY <1>1, <1>2, <1>3 DEF Shown, Freed

LEMMA AllShownNext == (AllIdle => Shown = head - 0 /\ Freed = tail - 0)'
  BY AllShown, PTL

LEMMA NoNames == \A b \in Nat : Names(b, b) = <<>>
<1> SUFFICES ASSUME NEW b \in Nat PROVE Names(b, b) = <<>>
  OBVIOUS
<1>1. Names(b, b) \in Seq(Nat) /\ Len(Names(b, b)) = b - b
  BY NamesAre
<1> QED
  BY <1>1, EmptySeq

LEMMA ClearSimulates ==
  ASSUME Ordered, Ordered', clear
  PROVE  [Fifo!Next]_(Fifo!vars)
<1>1. AllIdle /\ AllIdle' /\ head' = 0 /\ tail' = 0 /\ base' = base + head
  BY DEF clear, AllIdle
<1>2. base \in Nat /\ head \in Nat /\ tail \in Nat
  BY DEF Ordered
<1>3. Shown = head /\ Freed = tail
  BY <1>1, <1>2, AllShown
<1>4. Shown' = 0 /\ Freed' = 0
  BY <1>1, AllShownNext
<1>5. Items' = <<>>
  <2>1. Items' = Names(base' + tail', base' + Shown')
    BY DEF Ordered, Names
  <2>2. base' + 0 \in Nat
    BY <1>1, <1>2
  <2> QED
    BY <1>1, <1>4, <2>1, <2>2, NoNames
<1>6. /\ head - Shown = 0 /\ tail - Freed = 0
      /\ (head - Shown)' = head - Shown /\ (tail - Freed)' = tail - Freed
      /\ (base + Shown)' = base + Shown
  BY <1>1, <1>2, <1>3, <1>4
<1>7. Fifo!Clear
  BY <1>5, <1>6 DEF Fifo!Clear, Items
<1> QED
  BY <1>7 DEF Fifo!Next

LEMMA StutterSimulates ==
  ASSUME UNCHANGED clvars
  PROVE  UNCHANGED Fifo!vars
<1>1. UNCHANGED <<flags, slots, head, tail, pc, base>>
  BY DEF clvars
<1>2. \A side : Holders(side)' = Holders(side) /\ Unturned(side)' = Unturned(side)
  BY <1>1 DEF Holders, Unturned
<1>3. Pushed' = Pushed /\ Popped' = Popped /\ SP' = SP /\ SC' = SC
  BY <1>1, <1>2 DEF Pushed, Popped, SP, SC
<1>4. Shown' = Shown /\ Freed' = Freed
  BY <1>1, <1>2, <1>3 DEF Shown, Freed
<1>5. Items' = Items
  BY <1>1, <1>4 DEF Items, SlotAt
<1> QED
  BY <1>1, <1>4, <1>5 DEF Fifo!vars, Items

LEMMA StepSimulates ==
  ASSUME FlowInv, FlowInv', [Next]_clvars
  PROVE  [Fifo!Next]_(Fifo!vars)
<1>1. Ordered /\ Ordered'
  BY OrderedHere, OrderedNext
<1>2. ASSUME NEW p \in Producers, PushLoad(p) \/ PushStep(p) PROVE [Fifo!Next]_(Fifo!vars)
  BY <1>1, <1>2, PushMoves, MoveSimulates
<1>3. ASSUME NEW c \in Consumers, PopSingle(c) \/ PopEnter(c) \/ PopStep(c) PROVE [Fifo!Next]_(Fifo!vars)
  BY <1>1, <1>3, PopMoves, MoveSimulates
<1>4. CASE clear
  BY <1>1, <1>4, ClearSimulates
<1>5. CASE UNCHANGED clvars
  BY <1>5, StutterSimulates
<1> QED
  BY <1>2, <1>3, <1>4, <1>5 DEF Next

LEMMA InitSimulates == Init => Fifo!Init
<1> SUFFICES ASSUME Init PROVE Fifo!Init
  OBVIOUS
<1>1. AllIdle /\ head = 0 /\ tail = 0 /\ base = 0
  BY DEF Init, AllIdle
<1>2. Shown = 0 /\ Freed = 0
  BY <1>1, AllShown
<1>3. Items = Names(base + tail, base + Shown)
  BY InitFlow, ItemsAre
<1>4. Items = <<>>
  BY <1>1, <1>2, <1>3, NoNames
<1> QED
  BY <1>1, <1>2, <1>4 DEF Fifo!Init, Items

\* CLQueue implements the bounded FIFO queue under the same conditions: an element
\* appears with the turn that its push gives on, in the order of the positions, and its
\* room comes back with the turn that its pop gives on (lines 464-484 and 542-562).
THEOREM QueueIsFifo ==
  Spec /\ [](NotLapped /\ ClaimsBacked /\ FullIsSeen) => ImplementsFifo
<1> DEFINE Careful == NotLapped /\ ClaimsBacked /\ FullIsSeen
<1>1. Careful /\ Careful' /\ FlowInv /\ [Next]_clvars => FlowInv'
  BY NextFlow
<1>2. FlowInv /\ FlowInv' /\ [Next]_clvars => [Fifo!Next]_(Fifo!vars)
  BY StepSimulates
<1> HIDE DEF Careful
<1>3. Spec /\ []Careful => ImplementsFifo
  BY <1>1, <1>2, InitFlow, InitSimulates, PTL DEF Spec, ImplementsFifo, Fifo!Spec
<1> QED
  BY <1>3 DEF Careful

\* One producer and one consumer need no account of room or stock, and cannot be lapped.
LEMMA AloneIsCareful == TurnInv /\ SP /\ SC => NotLapped
<1> SUFFICES ASSUME TurnInv, SP, SC,
                    NEW side \in {Producers, Consumers}, NEW t \in Holders(side), NEW u \in Holders(side),
                    at[t] + Lines <= at[u]
             PROVE  FALSE
  BY DEF NotLapped
<1>1. OnlyOne(side) /\ t \in side /\ u \in side /\ pc[t] # "idle" /\ pc[u] # "idle"
  BY DEF TurnInv, PushSide, PopSide, Holders
<1>2. t = u
  BY <1>1 DEF OnlyOne, Alone
<1>3. at[t] \in Nat /\ Lines \in Nat /\ Lines > 0
  BY <1>1, LinesAssumption DEF TurnInv, Types, Threads
<1> QED
  BY <1>2, <1>3

\* The queue of one producer and one consumer is a bounded FIFO whatever its callers do:
\* a push that finds the line of its position full and a pop that finds it empty return
\* without a position (lines 437-443 and 495-501).  It is enough that the producer sees a
\* full line, which hf2 hides only when it has run round and tf2 has not.
THEOREM SingleIsFifo == Spec /\ [](SP /\ SC /\ FullIsSeen) => ImplementsFifo
<1> DEFINE Single == SP /\ SC /\ FullIsSeen
<1>1. Single /\ Single' /\ FlowInv /\ [Next]_clvars => FlowInv'
  BY AloneIsCareful, NextFlow DEF FlowInv, ClaimsBacked
<1>2. FlowInv /\ FlowInv' /\ [Next]_clvars => [Fifo!Next]_(Fifo!vars)
  BY StepSimulates
<1> HIDE DEF Single
<1>3. Spec /\ []Single => ImplementsFifo
  BY <1>1, <1>2, InitFlow, InitSimulates, PTL DEF Spec, ImplementsFifo, Fifo!Spec
<1> QED
  BY <1>3 DEF Single
=============================================================================
