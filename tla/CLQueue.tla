------------------------------ MODULE CLQueue ------------------------------
(***************************************************************************)
(* CLQueue<T> of conqueue.h: a bounded queue whose slots lie in cache      *)
(* lines, neighbouring positions in neighbouring lines.  A line counts its *)
(* own pushes and pops, in hf2 and tf2, and there is no tail that all      *)
(* threads wait for: a push whose turn it is lets the push of the next     *)
(* line go (hf1) before it shows its own element (hf2); a pop does the     *)
(* same with tf1 and tf2.                                                  *)
(*                                                                         *)
(* One step is one access to shared memory, but for two things that are    *)
(* one step here: the increment of a flag, a load and a store in the code, *)
(* as far as FlagHasOneWriter holds; and a test of two flags of a line.    *)
(* The relaxed modes are left out: their pushes do not wait for a turn, so *)
(* that one held up while the others fill a round of the lines is shown    *)
(* by the next push to its line.                                           *)
(***************************************************************************)
EXTENDS Integers, FiniteSets

CONSTANTS
  Producers, Consumers,   \* the threads that push and that pop
  Flags,                  \* the flags to look at: {"SP", "MP"} \X {"SC", "MC"}
  Lines,                  \* max_line, a power of two
  SlotsPerLine,           \* SLOT_MAX_INLINE
  FlagMod,                \* values of a uint16_t: 2^16 in the code
  CountMod,               \* values of a uint32_t: 2^32 in the code
  RoomKept,               \* several producers never begin more than there is room for
  StockKept,              \* several consumers never begin more than there is to pop
  MaxPush,                \* bound: elements ever claimed by pushes
  Raw                     \* a slot that holds no element

ASSUME LinesAssumption ==
  /\ Lines \in Nat \ {0} /\ SlotsPerLine \in Nat \ {0}
  /\ FlagMod \in Nat \ {0, 1}
  /\ CountMod \in Nat \ {0} /\ CountMod % Lines = 0
  /\ IsFiniteSet(Producers) /\ IsFiniteSet(Consumers)
  /\ Producers \cap Consumers = {}   \* the two sides of a thread go by two names

VARIABLES
  flags,                           \* <<flag of the pushes, flag of the pops>>
  hf1, tf1, hf2, tf2,              \* the flags of each line
  slots,                           \* line -> slot -> element, or Raw
  head, tail,
  dequeue_overcommit, overcommit,
  pc,
  at,                              \* oh or ot
  \* history, not in the code: an element is named by the order of the claims
  base                             \* elements claimed before the last clear()

clvars == <<flags, hf1, tf1, hf2, tf2, slots, head, tail,
            dequeue_overcommit, overcommit, pc, at, base>>

Threads == Producers \cup Consumers
LineIds == 0 .. (Lines - 1)

get_li(n) == n % Lines
get_si_flat(n) == n % SlotsPerLine   \* fault: not divided by the lines
get_si(n) == (n \div Lines) % SlotsPerLine
SlotAt(n) == slots[get_li(n)][get_si(n)]

Inc(f, li) == [f EXCEPT ![li] = (@ + 1) % FlagMod]

TurnFlags == [li \in LineIds |-> IF li = 0 THEN 1 ELSE 0]
CountFlags == [li \in LineIds |-> 1]

Init ==
  /\ flags \in Flags
  /\ hf1 = TurnFlags /\ tf1 = TurnFlags
  /\ hf2 = CountFlags /\ tf2 = CountFlags
  /\ slots = [li \in LineIds |-> [si \in 0 .. (SlotsPerLine - 1) |-> Raw]]
  /\ head = 0 /\ tail = 0
  /\ dequeue_overcommit = 0 /\ overcommit = 0
  /\ pc = [t \in Threads |-> "idle"]
  /\ at = [t \in Threads |-> 0]
  /\ base = 0

SP == flags[1] = "SP"
SC == flags[2] = "SC"

\* Of the threads that could, only one uses a side that is meant for one.
Alone(t, side) == t = CHOOSE u \in side : TRUE

Goto(t, l) == pc' = [pc EXCEPT ![t] = l]
Keep(t, l) == Goto(t, l) /\ UNCHANGED at
Done(t) == Goto(t, "idle") /\ at' = [at EXCEPT ![t] = 0]

lines == <<hf1, tf1, hf2, tf2, slots>>
commits == <<dequeue_overcommit, overcommit>>

(* The callers' account: pushes and pops that have returned with success, and *)
(* calls that have begun and have no position yet.                            *)
Holders(side) ==
  {t \in side : pc[t] \in {"construct", "await", "take", "turn", "grant", "publish", "release"}}
Pushed == head - Cardinality(Holders(Producers))
Popped == tail - Cardinality(Holders(Consumers))
Undecided == {t \in Threads : pc[t] \in {"check", "cas", "estimate", "test", "giveup", "claim"}}
Capacity == Lines * SlotsPerLine
-----------------------------------------------------------------------------
(* emplace_impl *)

\* No room on the line of the position: an int, not a uint16_t, is compared.
LineFull(n) == hf2[get_li(n)] - tf2[get_li(n)] = SlotsPerLine

PushLoad(p) ==
  /\ pc[p] = "idle"
  /\ SP => Alone(p, Producers)
  /\ ~SP /\ RoomKept => head + Cardinality(Undecided \cap Producers) < Popped + Capacity
  /\ at' = [at EXCEPT ![p] = head]
  /\ Goto(p, "check")
  /\ UNCHANGED <<flags, lines, head, tail, commits, base>>

PushRefuse(p) ==
  /\ pc[p] = "check" /\ LineFull(at[p])
  /\ Done(p)
  /\ UNCHANGED <<flags, lines, head, tail, commits, base>>

PushAccept(p) ==
  /\ pc[p] = "check" /\ ~LineFull(at[p])
  /\ \/ ~SP /\ Keep(p, "cas") /\ UNCHANGED head
     \/ SP /\ Keep(p, "construct") /\ base + head < MaxPush /\ head' = head + 1
  /\ UNCHANGED <<flags, lines, tail, commits, base>>

CasLoses(p) ==
  /\ pc[p] = "cas" /\ head # at[p]
  /\ at' = [at EXCEPT ![p] = head]
  /\ Goto(p, "check")
  /\ UNCHANGED <<flags, lines, head, tail, commits, base>>

CasWins(p) ==
  /\ pc[p] = "cas" /\ head = at[p]
  /\ base + head < MaxPush
  /\ head' = head + 1
  /\ Keep(p, "construct")
  /\ UNCHANGED <<flags, lines, tail, commits, base>>

(* new (&cl->slots[si]) T(..) *)
Construct(p) ==
  /\ pc[p] = "construct"
  /\ slots' = [slots EXCEPT ![get_li(at[p])][get_si(at[p])] = base + at[p]]
  /\ Keep(p, IF SP THEN "publish" ELSE "turn")
  /\ UNCHANGED <<flags, hf1, tf1, hf2, tf2, head, tail, commits, base>>

\* Fault: no wait.
PushTurnAtOnce(p) ==
  /\ pc[p] = "turn"
  /\ Keep(p, "grant")
  /\ UNCHANGED <<flags, lines, head, tail, commits, base>>

(* The turn of the line is that of this push ... *)
PushTurn(p) ==
  /\ pc[p] = "turn" /\ hf1[get_li(at[p])] = hf2[get_li(at[p])]
  /\ Keep(p, "grant")
  /\ UNCHANGED <<flags, lines, head, tail, commits, base>>

(* ... which gives it to the next line ... *)
PushGrant(p) ==
  /\ pc[p] = "grant"
  /\ hf1' = Inc(hf1, get_li(at[p] + 1))
  /\ Keep(p, "publish")
  /\ UNCHANGED <<flags, tf1, hf2, tf2, slots, head, tail, commits, base>>

(* ... and shows its element. *)
Publish(p) ==
  /\ pc[p] = "publish"
  /\ hf2' = Inc(hf2, get_li(at[p]))
  /\ Done(p)
  /\ UNCHANGED <<flags, hf1, tf1, tf2, slots, head, tail, commits, base>>
-----------------------------------------------------------------------------
(* pop *)

LineEmpty(n) == hf2[get_li(n)] = tf2[get_li(n)]

(* The only consumer looks at its own tail. *)
PopSingle(c) ==
  /\ pc[c] = "idle" /\ SC /\ Alone(c, Consumers)
  /\ ~LineEmpty(tail)
  /\ at' = [at EXCEPT ![c] = tail]
  /\ tail' = tail + 1
  /\ Goto(c, "take")
  /\ UNCHANGED <<flags, lines, head, commits, base>>

(* One of several counts itself among the pops ... *)
PopEnter(c) ==
  /\ pc[c] = "idle" /\ ~SC
  /\ StockKept => tail + Cardinality(Undecided \cap Consumers) < Pushed
  /\ at' = [at EXCEPT ![c] = dequeue_overcommit]
  /\ dequeue_overcommit' = (dequeue_overcommit + 1) % CountMod
  /\ Goto(c, "estimate")
  /\ UNCHANGED <<flags, lines, head, tail, overcommit, base>>

(* ... less those that failed: the position it will need, if all before it *)
(* succeed.                                                                *)
PopEstimate(c) ==
  /\ pc[c] = "estimate"
  /\ at' = [at EXCEPT ![c] = (@ - overcommit) % CountMod]
  /\ Goto(c, "test")
  /\ UNCHANGED <<flags, lines, head, tail, commits, base>>

PopTest(c) ==
  /\ pc[c] = "test"
  /\ Keep(c, IF LineEmpty(at[c]) THEN "giveup" ELSE "claim")
  /\ UNCHANGED <<flags, lines, head, tail, commits, base>>

PopGiveUp(c) ==
  /\ pc[c] = "giveup"
  /\ overcommit' = (overcommit + 1) % CountMod
  /\ Done(c)
  /\ UNCHANGED <<flags, lines, head, tail, dequeue_overcommit, base>>

PopClaim(c) ==
  /\ pc[c] = "claim"
  /\ at' = [at EXCEPT ![c] = tail]
  /\ tail' = tail + 1
  /\ Goto(c, "await")
  /\ UNCHANGED <<flags, lines, head, commits, base>>

(* The wait for the push that has the slot. *)
PopAwait(c) ==
  /\ pc[c] = "await" /\ ~LineEmpty(at[c])
  /\ Keep(c, "take")
  /\ UNCHANGED <<flags, lines, head, tail, commits, base>>

(* move out of the slot, then ~T() *)
Destroy(c) ==
  /\ pc[c] = "take"
  /\ slots' = [slots EXCEPT ![get_li(at[c])][get_si(at[c])] = Raw]
  /\ Keep(c, IF SC THEN "release" ELSE "turn")
  /\ UNCHANGED <<flags, hf1, tf1, hf2, tf2, head, tail, commits, base>>

PopTurn(c) ==
  /\ pc[c] = "turn" /\ tf1[get_li(at[c])] = tf2[get_li(at[c])]
  /\ Keep(c, "grant")
  /\ UNCHANGED <<flags, lines, head, tail, commits, base>>

\* Fault: the turn goes to the line itself.
PopGrantSame(c) ==
  /\ pc[c] = "grant"
  /\ tf1' = Inc(tf1, get_li(at[c]))
  /\ Keep(c, "release")
  /\ UNCHANGED <<flags, hf1, hf2, tf2, slots, head, tail, commits, base>>

PopGrant(c) ==
  /\ pc[c] = "grant"
  /\ tf1' = Inc(tf1, get_li(at[c] + 1))
  /\ Keep(c, "release")
  /\ UNCHANGED <<flags, hf1, hf2, tf2, slots, head, tail, commits, base>>

Release(c) ==
  /\ pc[c] = "release"
  /\ tf2' = Inc(tf2, get_li(at[c]))
  /\ Done(c)
  /\ UNCHANGED <<flags, hf1, tf1, hf2, slots, head, tail, commits, base>>
-----------------------------------------------------------------------------
AllIdle == \A t \in Threads : pc[t] = "idle"

(* clear() by the owner while no call is under way.  It leaves the two        *)
(* counters of the pops alone.                                                *)
clear ==
  /\ AllIdle
  /\ LET left == {<<get_li(n), get_si(n)>> : n \in tail .. (head - 1)}
     IN  slots' = [li \in LineIds |-> [si \in 0 .. (SlotsPerLine - 1) |->
                     IF <<li, si>> \in left THEN Raw ELSE slots[li][si]]]
  /\ head' = 0 /\ tail' = 0
  /\ hf1' = TurnFlags /\ tf1' = TurnFlags
  /\ hf2' = CountFlags /\ tf2' = CountFlags
  /\ base' = base + head
  /\ UNCHANGED <<flags, commits, pc, at>>

PushStep(p) ==
  \/ PushRefuse(p) \/ PushAccept(p) \/ CasLoses(p) \/ CasWins(p)
  \/ Construct(p) \/ PushTurn(p) \/ PushGrant(p) \/ Publish(p)

PopStep(c) ==
  \/ PopEstimate(c) \/ PopTest(c) \/ PopGiveUp(c) \/ PopClaim(c)
  \/ PopAwait(c) \/ Destroy(c) \/ PopTurn(c) \/ PopGrant(c) \/ Release(c)

Next ==
  \/ \E p \in Producers : PushLoad(p) \/ PushStep(p)
  \/ \E c \in Consumers : PopSingle(c) \/ PopEnter(c) \/ PopStep(c)
  \/ clear

Spec == Init /\ [][Next]_clvars

\* A thread inside a call is scheduled again: the wait loops yield the processor.
FairSpec ==
  /\ Spec
  /\ \A p \in Producers : WF_clvars(PushStep(p))
  /\ \A c \in Consumers : WF_clvars(PopStep(c))
-----------------------------------------------------------------------------
(* Properties.  The passing run checks them with two producers and two        *)
(* consumers on two lines, whose callers keep account; the theorems of        *)
(* CLQueueProofs hold for any number of threads, in behaviours in which       *)
(* NotLapped, ClaimsBacked and FullIsSeen are true.  Where one of them is not  *)
(* a promise can fail: clqueue_three, clqueue_full, and README, section 5.     *)

\* `++' on a volatile flag is a load and a store.  The comments at lines 481 and
\* 559 warn of lost writes in the relaxed modes only: in the others no two threads
\* should ever be about to increment the same flag.
FlagHasOneWriter ==
  /\ \A t, u \in Producers :
       t # u /\ pc[t] = pc[u] /\ pc[t] \in {"grant", "publish"} =>
         get_li(at[t]) # get_li(at[u])
  /\ \A t, u \in Consumers :
       t # u /\ pc[t] = pc[u] /\ pc[t] \in {"grant", "release"} =>
         get_li(at[t]) # get_li(at[u])

\* A push constructs its element in a slot that holds none: it has found out
\* whether the queue is full, which only push_unsafe does not check beforehand
\* (lines 415-420).
WritesRawSlot == \A p \in Producers : pc[p] = "construct" => SlotAt(at[p]) = Raw

\* A pop moves out of its slot the element of its position: it has found out
\* whether there is one, as the comment at lines 503-515 says it must, and has
\* waited for it (lines 525-528).
TakesOwnElement == \A c \in Consumers : pc[c] = "take" => SlotAt(at[c]) = base + at[c]

\* What the calls that take effect in order have done: the pushes that have given
\* the turn on (or shown their element, where there is only one producer), and the
\* pops that have.
Unturned(side) == {t \in Holders(side) : pc[t] \notin {"publish", "release"}}
Shown == IF SP THEN Pushed ELSE head - Cardinality(Unturned(Producers))
Freed == IF SC THEN Popped ELSE tail - Cardinality(Unturned(Consumers))

\* No call is lapped but by the next holder of a position: where one position is a
\* round of the lines or more ahead of another, no third call holds one between.
NotLapped ==
  \A side \in {Producers, Consumers} : \A t, u \in Holders(side) :
    at[t] + Lines <= at[u] =>
      Lines > 1 /\ ~ \E w \in Holders(side) \ {t, u} : at[w] \in at[t] .. at[u]

\* Of several producers each that claims has room, and of several consumers each
\* an element that has appeared: what their tests of one line are there for.
ClaimsBacked ==
  /\ ~SP => head <= Freed + Capacity
  /\ ~SC => tail <= Shown

\* A single producer does not miss a full line because hf2 has run round and tf2
\* has not.
FullIsSeen ==
  SP => \A p \in Producers :
    pc[p] = "check" /\ (hf2[get_li(at[p])] - tf2[get_li(at[p])]) % FlagMod = SlotsPerLine % FlagMod =>
      LineFull(at[p])

\* Though elements become visible line by line and room comes back line by line,
\* the queue is a bounded FIFO: an element appears with the turn its push gives
\* on, and its room comes back with the turn its pop gives on.
Fifo == INSTANCE BoundedFifo WITH
  items <- [i \in 1 .. (Shown - tail) |-> SlotAt(tail + i - 1)],
  appended <- base + Shown,
  filling <- head - Shown,
  draining <- tail - Freed

ImplementsFifo == Fifo!Spec

\* A pop that finds the queue at rest and not empty looks at a line with an
\* element: the position it estimates is the one "that needs to be inserted by the
\* threads currently being popped" (lines 509-511).
QuietPopFindsElement ==
  AllIdle /\ ~SC /\ head # tail => ~LineEmpty((dequeue_overcommit - overcommit) % CountMod)

\* A push or a pop that has taken its position returns, though it waits for the
\* turn of its line and a pop for its element.
ClaimsComplete == \A t \in Threads : pc[t] \in {"construct", "await", "take"} ~> pc[t] = "idle"
=============================================================================
