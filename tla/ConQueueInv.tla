---------------------------- MODULE ConQueueInv ----------------------------
(***************************************************************************)
(* Why ConQueue is correct: its inductive invariant.  Everything is said   *)
(* in elements (tickets), not in positions, so that the uint32_t circle    *)
(* disappears.  TLC checks it here, ConQueueProofs proves it.              *)
(***************************************************************************)
EXTENDS ConQueue, FiniteSets

ASSUME FiniteAssumption == IsFiniteSet(Producers) /\ IsFiniteSet(Consumers)

Sides == {"prod", "cons"}
On(s) == IF s = "prod" THEN Producers ELSE Consumers
RelaxedSide(s) == IF s = "prod" THEN ProdMode = "RTS" ELSE ConsMode = "RTS"

Claimed(s) == IF s = "prod" THEN enq ELSE deq
Moved(s) == Ticket(tail[s].pos)
\* How far the heads of a side may go: to the other side's tail.
Room(s) == IF s = "prod" THEN Freed + MaxSize ELSE Published

\* The calls of a side that have a claim, its elements, and those of them that
\* are not yet constructed or destroyed.
Holding(t) == pc[t] \in {"access", "publish", "rts_head", "rts_cas"}
Holders(s) == {t \in On(s) : Holding(t)}
Pending(t) == IF Holding(t) THEN (tick[t] + done[t]) .. (tick[t] + len[t] - 1) ELSE {}

\* The elements that are in the ring: pushed and not popped, less those a push
\* has yet to construct, and those a pop has yet to destroy.
Live(k) ==
  \/ k \in deq .. (enq - 1) /\ \A p \in Producers : k \notin Pending(p)
  \/ \E c \in Consumers : k \in Pending(c)

TypeInv ==
  /\ TypeOK
  /\ \A t \in Threads : pc[t] \in {"check", "cas"} => want[t] > 0
  /\ \A t \in Threads : pc[t] = "cas" => len[t] > 0
  /\ \A t \in Threads : pc[t] = "access" => done[t] < len[t]
  /\ \A t \in Threads : pc[t] \in {"idle", "check", "cas"} => done[t] = 0
  /\ \A t \in Threads : Single(t) => pc[t] # "cas"
  /\ \A t \in Threads : ~Relaxed(t) => pc[t] \notin {"rts_head", "rts_cas"}

\* A head is where the claims end; a single side has none.
HeadsInv ==
  \A t \in Threads : ~Single(t) => Ticket(head[Side(t)].pos) = Claimed(Side(t))

\* What a call knows before its claim: a head that may be stale, never ahead,
\* and room for what it wants to claim from there.
AskingInv ==
  \A t \in Threads :
    /\ pc[t] \in {"check", "cas"} => Ticket(old[t].pos) <= Claimed(Side(t))
    /\ pc[t] = "cas" => Ticket(old[t].pos) + len[t] <= Room(Side(t))
    /\ pc[t] = "check" /\ Single(t) => old[t].pos = tail[Side(t)].pos

\* A claim lies between the tail and the head of its side ...
HoldingInv ==
  \A t \in Threads :
    Holding(t) =>
      /\ len[t] > 0
      /\ Ticket(old[t].pos) = tick[t]
      /\ Moved(Side(t)) <= tick[t]
      /\ tick[t] + len[t] <= Claimed(Side(t))
      /\ pc[t] # "access" => done[t] = len[t]

\* ... and meets no other claim of the side.
DisjointInv ==
  \A t, u \in Threads :
    Holding(t) /\ Holding(u) /\ Side(t) = Side(u) /\ t # u =>
      \/ tick[t] + len[t] <= tick[u]
      \/ tick[u] + len[u] <= tick[t]

\* Ordered tails: every element between the tail and the head is in a claim.
CoverInv ==
  \A s \in Sides :
    ~RelaxedSide(s) =>
      \A k \in Moved(s) .. (Claimed(s) - 1) :
        \E t \in Holders(s) : k \in tick[t] .. (tick[t] + len[t] - 1)

\* The ring holds the live elements, each in its slot, and nothing else.
RingInv ==
  \A i \in Slots :
    \/ \E k \in Freed .. (enq - 1) : Live(k) /\ i = SlotOf(k) /\ ring[i] = k
    \/ ring[i] = Raw /\ \A k \in Freed .. (enq - 1) : Live(k) => i # SlotOf(k)

\* Relaxed tails: cnt counts the calls that have ended, so that the head's is
\* ahead by the calls under way.  The cnt of a tail never comes back to a value
\* that a call still compares with, and the call that is about to move the tail
\* is the last of those that claimed before the position it moves it to.
Count(c) == Sub(c, org.cnt)

CountsInv(s) ==
  /\ Count(head[s].cnt) = Count(tail[s].cnt) + Cardinality(Holders(s))
  /\ Count(head[s].cnt) <= Claimed(s)
  /\ Holders(s) = {} => Moved(s) = Claimed(s)

ComparesInv(s, t) ==
  pc[t] \in {"rts_head", "rts_cas"} =>
    /\ Count(seen[t].cnt) <= Count(tail[s].cnt)
    /\ seen[t].cnt = tail[s].cnt => seen[t] = tail[s]

MovesInv(s, t) ==
  pc[t] = "rts_cas" =>
    /\ Count(next[t].cnt) = Count(seen[t].cnt) + 1
    /\ seen[t].cnt = tail[s].cnt =>
         /\ Moved(s) <= Ticket(next[t].pos)
         /\ Ticket(next[t].pos) <= Claimed(s)
         /\ \A u \in Holders(s) : u # t => Ticket(next[t].pos) <= tick[u]
         /\ Holders(s) = {t} => Ticket(next[t].pos) = Claimed(s)

RelaxedInv ==
  \A s \in Sides :
    RelaxedSide(s) => /\ CountsInv(s)
                      /\ \A t \in On(s) : ComparesInv(s, t) /\ MovesInv(s, t)

Inv ==
  /\ TypeInv
  /\ CounterOrder
  /\ HeadsInv
  /\ AskingInv
  /\ HoldingInv
  /\ DisjointInv
  /\ CoverInv
  /\ RingInv
  /\ RelaxedInv
=============================================================================
