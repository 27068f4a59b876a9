----------------------------- MODULE TicketMutex -----------------------------
(***************************************************************************)
(* ticket_mutex of extend_mutex.h: a fair mutex.  lock() draws the ticket  *)
(* h and waits until it is served, unlock() serves the next one.  Both are *)
(* uint16_t halves of one word; lock() and unlock() add to one half each,  *)
(* try_lock() loads the whole word and exchanges it with one CAS (weak: it *)
(* may fail for no reason).                                                *)
(***************************************************************************)
EXTENDS LockThreads, Integers, FiniteSets

CONSTANT
  Tickets    \* how many numbers a half has: 2^16

\* No two threads hold the same ticket: fewer than 65536 threads.
ASSUME TicketAssumption ==
  /\ IsFiniteSet(Threads)
  /\ Tickets \in Nat
  /\ Cardinality(Threads) < Tickets

VARIABLES
  h,        \* the next ticket to draw
  l,        \* the ticket that is served
  pc,       \* where each thread is
  ct,       \* the ticket each thread has drawn, 0 when it has none
  ov        \* what try_lock has loaded, 0 outside it

vars == <<h, l, pc, ct, ov>>

Number == 0 .. (Tickets - 1)
Inc(n) == IF n + 1 = Tickets THEN 0 ELSE n + 1
At(t, label) == pc[t] = label
Goto(t, label) == pc' = [pc EXCEPT ![t] = label]

Init ==
  /\ h = 0
  /\ l = 0
  /\ pc = [t \in Threads |-> "idle"]
  /\ ct = [t \in Threads |-> 0]
  /\ ov = [t \in Threads |-> 0]

\* Fault: draws no ticket of its own.
lock_same(t) ==
  /\ At(t, "idle")
  /\ ct' = [ct EXCEPT ![t] = l]
  /\ h' = Inc(h)
  /\ Goto(t, "wait")
  /\ UNCHANGED <<l, ov>>

lock(t) ==
  /\ At(t, "idle")
  /\ ct' = [ct EXCEPT ![t] = h]
  /\ h' = Inc(h)
  /\ Goto(t, "wait")
  /\ UNCHANGED <<l, ov>>

(* The ticket of the spinning thread is served. *)
Enter(t) ==
  /\ At(t, "wait")
  /\ l = ct[t]
  /\ Goto(t, "inside")
  /\ UNCHANGED <<h, l, ct, ov>>

(* try_lock() loads the word.  When it finds the lock taken it returns false *)
(* and nothing has changed; ov keeps the one value of both halves otherwise. *)
TryLoad(t) ==
  /\ At(t, "idle")
  /\ h = l
  /\ ov' = [ov EXCEPT ![t] = h]
  /\ Goto(t, "try")
  /\ UNCHANGED <<h, l, ct>>

\* Fault: compares the upper half only.
TryWinsHalf(t) ==
  /\ At(t, "try")
  /\ h = ov[t]
  /\ h' = Inc(h)
  /\ ct' = [ct EXCEPT ![t] = h]
  /\ ov' = [ov EXCEPT ![t] = 0]
  /\ Goto(t, "inside")
  /\ UNCHANGED l

(* The compare-exchange of the whole word. *)
TryWins(t) ==
  /\ At(t, "try")
  /\ h = ov[t] /\ l = ov[t]
  /\ h' = Inc(h)
  /\ ct' = [ct EXCEPT ![t] = h]
  /\ ov' = [ov EXCEPT ![t] = 0]
  /\ Goto(t, "inside")
  /\ UNCHANGED l

TryFails(t) ==
  /\ At(t, "try")
  /\ ov' = [ov EXCEPT ![t] = 0]
  /\ Goto(t, "idle")
  /\ UNCHANGED <<h, l, ct>>

\* Fault: serves the last ticket instead of the next one.
unlock_last(t) ==
  /\ At(t, "inside")
  /\ l' = h
  /\ ct' = [ct EXCEPT ![t] = 0]
  /\ Goto(t, "idle")
  /\ UNCHANGED <<h, ov>>

unlock(t) ==
  /\ At(t, "inside")
  /\ l' = Inc(l)
  /\ ct' = [ct EXCEPT ![t] = 0]
  /\ Goto(t, "idle")
  /\ UNCHANGED <<h, ov>>

Next ==
  \E t \in Threads :
    \/ lock(t) \/ Enter(t) \/ unlock(t)
    \/ TryLoad(t) \/ TryWins(t) \/ TryFails(t)

Spec == Init /\ [][Next]_vars

\* A spinning thread is scheduled again and a holder unlocks.
Fairness == \A t \in Threads : WF_vars(Enter(t) \/ unlock(t))
-----------------------------------------------------------------------------
TypeOK ==
  /\ h \in Number
  /\ l \in Number
  /\ pc \in [Threads -> {"idle", "wait", "inside", "try"}]
  /\ ct \in [Threads -> Number]
  /\ ov \in [Threads -> Number]

Inside == {t \in Threads : pc[t] = "inside"}
\* The threads that have drawn a ticket and not given it back.
Ticketed == {t \in Threads : pc[t] \in {"wait", "inside"}}

\* How many tickets come before ticket n, from the one that is served.
Ahead(n) == IF n >= l THEN n - l ELSE n - l + Tickets

\* No two threads are inside, although lock(), unlock() and try_lock() change
\* the two halves of the word independently (lines 94-112).
MutualExclusion == \A t, u \in Inside : t = u

\* The tickets drawn are the ones from l to h, each by one thread: none is lost
\* and none drawn twice, where the halves wrap as elsewhere.
TicketsInOrder ==
  /\ Ahead(h) = Cardinality(Ticketed)
  /\ \A t \in Ticketed : Ahead(ct[t]) < Ahead(h)
  /\ \A n \in Number : Ahead(n) < Ahead(h) => \E t \in Ticketed : ct[t] = n
  /\ \A t, u \in Ticketed : ct[t] = ct[u] => t = u
  /\ \A t \in Inside : ct[t] = l

\* A thread that has drawn a ticket gets in, whatever the others do.
EveryoneEnters == \A t \in Threads : pc[t] = "wait" ~> pc[t] = "inside"

\* First come, first served: the lock is FifoLock, its queue being the threads
\* in the order of their tickets.
Owner(n) == CHOOSE t \in Ticketed : ct[t] = n
Nth(i) == IF l + i - 1 < Tickets THEN l + i - 1 ELSE l + i - 1 - Tickets
Queue == [i \in 1 .. Ahead(h) |-> Owner(Nth(i))]

Fifo == INSTANCE FifoLock WITH queue <- Queue, inside <- Inside

ImplementsFifoLock == Fifo!Spec
=============================================================================
