---------------------------- MODULE ConQueueBulk ----------------------------
(***************************************************************************)
(* The bulk pop of a single consumer (conqueue.h, pop_bulk with F_SC_DEQ). *)
(* It is unlike the bulk pop of the other modes, which ConQueue models:    *)
(* it tests for every element whether there is one, but the test does not  *)
(* look at how far the loop has got.                                       *)
(***************************************************************************)
EXTENDS ConQueue

CONSTANT Careful   \* the caller never asks for more than size()

ASSUME BulkAssumption == ConsMode = "SC" /\ Careful \in BOOLEAN

size == Sub(tail["prod"].pos, tail["cons"].pos)

(* pop_bulk(first, last) with count = n begins: l = 0. *)
LoadBulk(c, n) ==
  /\ pc[c] = "idle"
  /\ Careful => n <= size
  /\ Goto(c, "bulk")
  /\ want' = [want EXCEPT ![c] = n]
  /\ old' = [old EXCEPT ![c] = tail["cons"]]
  /\ tick' = [tick EXCEPT ![c] = deq]
  /\ UNCHANGED <<head, tail, ring, len, done, seen, next, enq, deq, org>>

\* Fault: the last element is left behind.
MoreButOne(c) ==
  done[c] # want[c] /\ tail["cons"].pos + 1 < tail["prod"].pos

(* The condition of the loop. *)
More(c) ==
  done[c] # want[c] /\ tail["cons"].pos < tail["prod"].pos

(* One more element is taken ... *)
BulkTake(c) ==
  /\ pc[c] = "bulk"
  /\ More(c)
  /\ Goto(c, "bulk_access")
  /\ deq' = deq + 1
  /\ UNCHANGED <<head, tail, ring, want, old, len, done, seen, next, tick, enq, org>>

(* ... moved out of ring[to_id(cons_tail.pos + l)] and destroyed. *)
BulkDestroy(c) ==
  /\ pc[c] = "bulk_access"
  /\ ring' = [ring EXCEPT ![Reached(c)] = Raw]
  /\ done' = [done EXCEPT ![c] = @ + 1]
  /\ len' = [len EXCEPT ![c] = @ + 1]
  /\ Goto(c, "bulk")
  /\ UNCHANGED <<head, tail, want, old, seen, next, tick, enq, deq, org>>

(* The loop ends: cons_tail.pos += l. *)
BulkReturn(c) ==
  /\ pc[c] = "bulk"
  /\ ~More(c)
  /\ tail' = [tail EXCEPT !["cons"].pos = Add(@, done[c])]
  /\ Return(c)
  /\ UNCHANGED <<head, ring, enq, deq, org>>

PopBulk(c) ==
  \/ \E n \in PopSizes : LoadBulk(c, n)
  \/ BulkTake(c) \/ BulkDestroy(c) \/ BulkReturn(c)

BulkNext == Next \/ \E c \in Consumers : PopBulk(c)

BulkSpec == Init /\ [][BulkNext]_vars

-----------------------------------------------------------------------------
\* "pop out several elements as much as possible" (lines 202-207): an element is
\* moved out of the ring only if a push has put it there.
BulkReadsElement ==
  \A c \in Consumers :
    pc[c] = "bulk_access" => ring[Reached(c)] = tick[c] + done[c]

\* "... as much as possible": where the loop ends it has all the elements it was
\* asked for, or every published element has been taken.
BulkTakesAll ==
  \A c \in Consumers :
    pc[c] = "bulk" /\ ~More(c) => done[c] = want[c] \/ deq = Published
=============================================================================
