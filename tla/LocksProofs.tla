---------------------------- MODULE LocksProofs ----------------------------
(***************************************************************************)
(* The locks of extend_mutex.h, for any number of threads that their words *)
(* allow: the ticket lock, the spin lock and the intention lock, and what  *)
(* SharedMutexProofs says of the shared lock, as MCLocks has them side by  *)
(* side.                                                                   *)
(***************************************************************************)
EXTENDS MCLocks, FiniteSetTheorems, SequenceTheorems, TLAPS

SP == INSTANCE SharedMutexProofs WITH l <- sl, pc <- spc
-----------------------------------------------------------------------------
(***************************************************************************)
(* The ticket lock is a fair mutex for every number of threads below the   *)
(* number of tickets.  The invariant is TicketsInOrder: the tickets drawn  *)
(* are those from l to h, one per thread.  A thread inside has the ticket  *)
(* l, so there is one; a new ticket h is nobody's, because the tickets     *)
(* from l to h are fewer than all.                                         *)
(***************************************************************************)
IInv == TypeOK /\ TicketsInOrder

-----------------------------------------------------------------------------
(* Tickets go round a circle. *)

LEMMA AheadFacts ==
  ASSUME TypeOK
  PROVE  /\ Tickets \in Nat
         /\ h \in Number /\ l \in Number /\ 0 \in Number
         /\ \A n \in Number : /\ Ahead(n) \in Nat
                              /\ Ahead(n) < Tickets
                              /\ Inc(n) \in Number
         /\ \A n \in Number : (Ahead(n) = 0) <=> (n = l)
         /\ \A n, m \in Number : Ahead(n) = Ahead(m) => n = m
         /\ \A n \in Number : Ahead(n) + 1 < Tickets => Ahead(Inc(n)) = Ahead(n) + 1
BY TicketAssumption DEF TypeOK, Number, Ahead, Inc

\* Serving the next ticket takes one off everybody's count.
LEMMA Served ==
  ASSUME TypeOK, l' = Inc(l), h' = h, NEW n \in Number, Ahead(n) > 0
  PROVE  Ahead(n)' = Ahead(n) - 1
BY TicketAssumption DEF TypeOK, Number, Ahead, Inc

LEMMA CountFacts ==
  ASSUME NEW U \in SUBSET Threads
  PROVE  /\ Cardinality(U) \in Nat
         /\ \A t \in Threads \ U : /\ Cardinality(U \cup {t}) = Cardinality(U) + 1
                                   /\ Cardinality(U) + 1 < Tickets
         /\ \A t \in U : /\ Cardinality(U \ {t}) = Cardinality(U) - 1
                         /\ Cardinality(U) > 0
<1>1. IsFiniteSet(U) /\ Cardinality(U) \in Nat /\ Cardinality(Threads) \in Nat
  BY FS_Subset, FS_CardinalityType, TicketAssumption
<1>2. ASSUME NEW t \in Threads \ U
      PROVE  Cardinality(U \cup {t}) = Cardinality(U) + 1 /\ Cardinality(U) + 1 < Tickets
  <2>1. Cardinality(U \cup {t}) = Cardinality(U) + 1
    BY <1>1, FS_AddElement
  <2>2. U \cup {t} \in SUBSET Threads
    OBVIOUS
  <2>3. Cardinality(U \cup {t}) <= Cardinality(Threads)
    BY <2>2, FS_Subset, TicketAssumption
  <2> QED BY <1>1, <2>1, <2>3, TicketAssumption
<1>3. ASSUME NEW t \in U
      PROVE  Cardinality(U \ {t}) = Cardinality(U) - 1 /\ Cardinality(U) > 0
  <2>1. Cardinality(U \ {t}) = Cardinality(U) - 1
    BY <1>1, FS_RemoveElement
  <2>2. Cardinality(U) # 0
    BY <1>1, FS_EmptySet
  <2> QED BY <1>1, <2>1, <2>2
<1> QED BY <1>1, <1>2, <1>3

-----------------------------------------------------------------------------
(* Drawing a ticket, by lock() or by a try that wins, and giving it back. *)

Draws(t, label) ==
  /\ pc[t] \in {"idle", "try"}
  /\ h' = Inc(h)
  /\ l' = l
  /\ ct' = [ct EXCEPT ![t] = h]
  /\ Goto(t, label)

LEMMA DrawKeeps ==
  ASSUME IInv, NEW t \in Threads, NEW label \in {"wait", "inside"}, Draws(t, label),
         label = "inside" => h = l
  PROVE  TicketsInOrder'
<1> USE DEF IInv
<1>1. t \notin Ticketed /\ Ticketed' = Ticketed \cup {t} /\ Ticketed \in SUBSET Threads
  BY DEF Draws, Ticketed, Goto, TypeOK
<1>2. ct'[t] = h /\ \A u \in Ticketed : ct'[u] = ct[u]
  BY <1>1 DEF Draws, TypeOK, Ticketed
<1>3. \A n : Ahead(n)' = IF n' >= l THEN n' - l ELSE n' - l + Tickets
  BY DEF Draws, Ahead
<1>4. h \in Number /\ (\A u \in Ticketed : ct[u] \in Number)
  BY DEF TypeOK, Ticketed
<1>5. Ahead(h) = Cardinality(Ticketed) /\ Ahead(h) + 1 < Tickets
  BY <1>1, CountFacts DEF TicketsInOrder
<1>6. Ahead(h)' = Ahead(Inc(h)) /\ Ahead(Inc(h)) = Ahead(h) + 1
  BY <1>4, <1>5, AheadFacts DEF Draws, Ahead
<1>7. Ahead(h)' = Cardinality(Ticketed')
  BY <1>1, <1>5, <1>6, CountFacts
<1>8. ASSUME NEW u \in Ticketed' PROVE (Ahead(ct[u]) < Ahead(h))'
  <2>1. CASE u = t
    <3>1. Ahead(ct[u])' = Ahead(h)
      BY <1>2, <2>1 DEF Draws, Ahead
    <3>2. Ahead(h) \in Nat
      BY <1>4, AheadFacts
    <3> QED BY <1>6, <3>1, <3>2
  <2>2. CASE u # t
    <3>1. u \in Ticketed
      BY <1>1, <1>8, <2>2
    <3>2. Ahead(ct[u])' = Ahead(ct[u])
      BY <1>2, <3>1 DEF Draws, Ahead
    <3>3. Ahead(ct[u]) < Ahead(h)
      BY <3>1 DEF TicketsInOrder
    <3>4. Ahead(ct[u]) \in Nat /\ Ahead(h) \in Nat
      BY <1>4, <3>1, AheadFacts
    <3> QED BY <1>6, <3>2, <3>3, <3>4
  <2> QED BY <2>1, <2>2
<1>9. ASSUME NEW n \in Number, (Ahead(n) < Ahead(h))'
      PROVE  \E u \in Ticketed' : ct'[u] = n
  <2>1. Ahead(n) < Ahead(h) + 1
    BY <1>6, <1>9 DEF Draws, Ahead
  <2>2. Ahead(n) \in Nat /\ Ahead(h) \in Nat
    BY <1>4, AheadFacts
  <2>3. CASE Ahead(n) = Ahead(h)
    <3>1. n = h
      BY <1>4, <2>3, AheadFacts
    <3> QED BY <1>1, <1>2, <3>1
  <2>4. CASE Ahead(n) < Ahead(h)
    BY <1>1, <1>2, <2>4 DEF TicketsInOrder
  <2> QED BY <2>1, <2>2, <2>3, <2>4
<1>10. ASSUME NEW u \in Ticketed PROVE ct[u] # h
  <2>1. Ahead(ct[u]) < Ahead(h) /\ Ahead(h) \in Nat
    BY <1>4, AheadFacts DEF TicketsInOrder
  <2> QED BY <2>1
<1>11. \A u, v \in Ticketed' : ct'[u] = ct'[v] => u = v
  BY <1>1, <1>2, <1>10 DEF TicketsInOrder
<1>12. ASSUME NEW u \in Inside' PROVE ct'[u] = l
  <2>1. u \in Threads
    BY <1>12 DEF Inside
  <2>2. CASE u = t
    BY <1>2, <1>12, <2>2 DEF Draws, Goto, Inside, TypeOK
  <2>3. CASE u # t
    <3>1. u \in Inside /\ u \in Ticketed
      BY <1>12, <2>1, <2>3 DEF Draws, Goto, Inside, Ticketed, TypeOK
    <3> QED BY <1>2, <3>1 DEF TicketsInOrder
  <2> QED BY <2>2, <2>3
<1> QED BY <1>7, <1>8, <1>9, <1>11, <1>12 DEF TicketsInOrder, Draws

LEMMA UnlockKeeps ==
  ASSUME IInv, NEW t \in Threads, unlock(t)
  PROVE  TicketsInOrder'
<1> USE DEF IInv
<1>1. /\ t \in Ticketed /\ t \in Inside /\ Ticketed' = Ticketed \ {t}
      /\ Ticketed \in SUBSET Threads /\ Inside' = Inside \ {t}
  BY DEF unlock, At, Ticketed, Inside, Goto, TypeOK
<1>2. ct[t] = l /\ \A u \in Ticketed \ {t} : ct'[u] = ct[u] /\ ct[u] # l
  BY <1>1 DEF unlock, TicketsInOrder, TypeOK, Ticketed
<1>3. Inside' = {}
  BY <1>1 DEF TicketsInOrder, Inside, Ticketed
<1>4. h \in Number /\ l' = Inc(l) /\ h' = h /\ (\A u \in Ticketed : ct[u] \in Number)
  BY DEF TypeOK, Ticketed, unlock
<1>5. \A n \in Number : Ahead(n) \in Nat /\ (Ahead(n) > 0 <=> n # l)
  BY AheadFacts
<1>6. Ahead(h) > 0 /\ Ahead(h) = Cardinality(Ticketed)
  BY <1>1, CountFacts DEF TicketsInOrder
<1>7. Ahead(h)' = Ahead(h) - 1
  BY <1>4, <1>6, Served
<1>8. Ahead(h)' = Cardinality(Ticketed')
  BY <1>1, <1>6, <1>7, CountFacts
<1>9. ASSUME NEW u \in Ticketed' PROVE (Ahead(ct[u]) < Ahead(h))'
  <2>1. u \in Ticketed \ {t}
    BY <1>1, <1>9
  <2> DEFINE n == ct[u]
  <2>2. n \in Number /\ ct'[u] = n /\ Ahead(n) > 0
    BY <1>2, <1>4, <1>5, <2>1
  <2>3. Ahead(n) < Ahead(h)
    BY <2>1 DEF TicketsInOrder
  <2> HIDE DEF n
  <2>4. PICK k \in Number : k = n
    BY <2>2
  <2>5. Ahead(k)' = Ahead(k) - 1
    BY <1>4, <2>2, <2>4, Served
  <2>6. (Ahead(ct[u]))' = Ahead(k) - 1
    BY <2>2, <2>4, <2>5 DEF Ahead
  <2> QED BY <1>4, <1>5, <1>7, <2>2, <2>3, <2>4, <2>6
<1>10. ASSUME NEW n \in Number, (Ahead(n) < Ahead(h))'
       PROVE  \E u \in Ticketed' : ct'[u] = n
  <2>1. Ahead(n)' < Ahead(h) - 1
    BY <1>7, <1>10
  <2>2. CASE n = l
    <3>1. Ahead(n)' = Tickets - 1
      BY <1>4, <2>2, TicketAssumption DEF Ahead, Inc, Number, TypeOK
    <3>2. Ahead(h) < Tickets /\ Tickets \in Nat /\ Ahead(h) \in Nat
      BY <1>4, AheadFacts
    <3> QED BY <2>1, <3>1, <3>2
  <2>3. CASE n # l
    <3>1. Ahead(n) > 0 /\ Ahead(n) \in Nat /\ Ahead(h) \in Nat
      BY <1>4, <1>5, <2>3
    <3>2. Ahead(n)' = Ahead(n) - 1
      BY <1>4, <3>1, Served
    <3>3. PICK u \in Ticketed : ct[u] = n
      BY <2>1, <3>1, <3>2 DEF TicketsInOrder
    <3>4. u # t
      BY <1>2, <2>3, <3>3
    <3> QED BY <1>1, <1>2, <3>3, <3>4
  <2> QED BY <2>2, <2>3
<1>11. \A u, v \in Ticketed' : ct'[u] = ct'[v] => u = v
  BY <1>1, <1>2 DEF TicketsInOrder
<1> QED BY <1>3, <1>8, <1>9, <1>10, <1>11 DEF TicketsInOrder


-----------------------------------------------------------------------------
(* The invariant is preserved. *)

LEMMA NextKeeps == IInv /\ [Next]_vars => IInv'
<1> SUFFICES ASSUME IInv, [Next]_vars PROVE IInv'
  OBVIOUS
<1>1. h \in Number /\ l \in Number /\ Inc(h) \in Number /\ Inc(l) \in Number /\ 0 \in Number
  BY AheadFacts DEF IInv, TypeOK
<1>2. TypeOK'
  <2> USE <1>1 DEF IInv, TypeOK
  <2>1. ASSUME NEW t \in Threads, lock(t) PROVE TypeOK'
    BY <2>1 DEF lock, Goto
  <2>2. ASSUME NEW t \in Threads, Enter(t) PROVE TypeOK'
    BY <2>2 DEF Enter, Goto
  <2>3. ASSUME NEW t \in Threads, unlock(t) PROVE TypeOK'
    BY <2>3 DEF unlock, Goto
  <2>4. ASSUME NEW t \in Threads, TryLoad(t) PROVE TypeOK'
    BY <2>4 DEF TryLoad, Goto
  <2>5. ASSUME NEW t \in Threads, TryWins(t) PROVE TypeOK'
    BY <2>5 DEF TryWins, Goto
  <2>6. ASSUME NEW t \in Threads, TryFails(t) PROVE TypeOK'
    BY <2>6 DEF TryFails, Goto
  <2>7. CASE UNCHANGED vars
    BY <2>7 DEF vars
  <2> QED BY <2>1, <2>2, <2>3, <2>4, <2>5, <2>6, <2>7 DEF Next
<1>3. TicketsInOrder'
  <2>1. ASSUME NEW t \in Threads, lock(t) PROVE TicketsInOrder'
    <3>1. Draws(t, "wait")
      BY <2>1 DEF lock, Draws, At
    <3> QED BY <3>1, DrawKeeps
  <2>2. ASSUME NEW t \in Threads, TryWins(t) PROVE TicketsInOrder'
    <3>1. Draws(t, "inside") /\ h = l
      BY <2>2 DEF TryWins, Draws, At
    <3> QED BY <3>1, DrawKeeps
  <2>3. ASSUME NEW t \in Threads, unlock(t) PROVE TicketsInOrder'
    BY <2>3, UnlockKeeps
  <2>4. ASSUME Ticketed' = Ticketed, UNCHANGED <<h, l, ct>>,
               \A u \in Inside' : ct[u] = l
        PROVE  TicketsInOrder'
    BY <2>4 DEF IInv, TicketsInOrder, Ahead
  <2>5. ASSUME NEW t \in Threads, Enter(t) PROVE TicketsInOrder'
    <3>1. Ticketed' = Ticketed
      BY <2>5 DEF IInv, TypeOK, Enter, At, Goto, Ticketed
    <3>2. \A u \in Inside' : ct[u] = l
      BY <2>5 DEF IInv, TypeOK, TicketsInOrder, Enter, At, Goto, Inside
    <3> QED BY <2>4, <2>5, <3>1, <3>2 DEF Enter
  <2>6. ASSUME NEW t \in Threads, TryLoad(t) \/ TryFails(t) PROVE TicketsInOrder'
    <3>1. Ticketed' = Ticketed /\ Inside' = Inside
      BY <2>6 DEF IInv, TypeOK, TryLoad, TryFails, At, Goto, Ticketed, Inside
    <3> QED BY <2>4, <2>6, <3>1 DEF IInv, TicketsInOrder, TryLoad, TryFails
  <2>7. CASE UNCHANGED vars
    <3>1. Ticketed' = Ticketed /\ Inside' = Inside
      BY <2>7 DEF vars, Ticketed, Inside
    <3> QED BY <2>4, <2>7, <3>1 DEF IInv, TicketsInOrder, vars
  <2> QED BY <2>1, <2>2, <2>3, <2>5, <2>6, <2>7 DEF Next
<1> QED BY <1>2, <1>3 DEF IInv

LEMMA InitHolds == Init => IInv
<1> SUFFICES ASSUME Init PROVE IInv
  OBVIOUS
<1>1. TypeOK
  <2>1. 0 \in Number
    BY TicketAssumption, FS_CardinalityType DEF Number
  <2> QED BY <2>1 DEF Init, TypeOK
<1>2. Ticketed = {} /\ Inside = {}
  BY DEF Init, Ticketed, Inside
<1>3. Ahead(h) = 0 /\ \A n \in Number : ~(Ahead(n) < Ahead(h))
  <2>1. h = l /\ h \in Number
    BY <1>1 DEF Init, TypeOK
  <2> QED BY <1>1, <2>1, AheadFacts
<1>4. TicketsInOrder
  BY <1>2, <1>3, FS_EmptySet DEF TicketsInOrder
<1> QED BY <1>1, <1>4 DEF IInv

LEMMA Invariance == Spec => []IInv
BY InitHolds, NextKeeps, PTL DEF Spec

-----------------------------------------------------------------------------
\* Every variable has its type: the halves of the word do not leave uint16_t.
THEOREM TypeCorrect == Spec => []TypeOK
BY Invariance, PTL DEF IInv

\* The tickets drawn and not given back are exactly those from l to h, each with
\* one thread, whatever lock(), unlock() and try_lock() do to the two halves.
THEOREM OrderedTickets == Spec => []TicketsInOrder
BY Invariance, PTL DEF IInv

\* No two threads are inside.
THEOREM Exclusive == Spec => []MutualExclusion
<1>1. ASSUME IInv, NEW t \in Inside, NEW u \in Inside PROVE t = u
  <2>1. t \in Ticketed /\ u \in Ticketed
    BY DEF Inside, Ticketed
  <2>2. ct[t] = l /\ ct[u] = l
    BY <1>1 DEF IInv, TicketsInOrder
  <2> QED BY <1>1, <2>1, <2>2 DEF IInv, TicketsInOrder
<1>2. IInv => MutualExclusion
  BY <1>1 DEF MutualExclusion
<1> QED BY <1>2, Invariance, PTL

-----------------------------------------------------------------------------
(* The ticket lock implements the fair lock. *)

LEMMA NthFacts ==
  ASSUME TypeOK, NEW i \in 1 .. Ahead(h)
  PROVE  Nth(i) \in Number /\ Ahead(Nth(i)) = i - 1
<1>1. i \in Nat \ {0} /\ i < Tickets
  BY AheadFacts DEF TypeOK
<1> QED BY <1>1, TicketAssumption DEF TypeOK, Number, Ahead, Nth

\* The queue of the abstract lock: its places and their owners are one to one.
QueueInv ==
  /\ Queue \in Seq(Threads)
  /\ Len(Queue) = Ahead(h)
  /\ \A i \in 1 .. Ahead(h) :
       Queue[i] \in Ticketed /\ ct[Queue[i]] = Nth(i)
  /\ \A t \in Ticketed : Ahead(ct[t]) + 1 \in 1 .. Ahead(h) /\ Queue[Ahead(ct[t]) + 1] = t

LEMMA QueueFacts == IInv => QueueInv
<1> SUFFICES ASSUME IInv PROVE QueueInv
  OBVIOUS
<1> USE DEF IInv
<1>1. h \in Number /\ Ahead(h) \in Nat /\ Ticketed \subseteq Threads /\ \A t \in Ticketed : ct[t] \in Number
  BY AheadFacts DEF TypeOK, Ticketed
<1>2. ASSUME NEW i \in 1 .. Ahead(h)
      PROVE  Owner(Nth(i)) \in Ticketed /\ ct[Owner(Nth(i))] = Nth(i)
  <2>1. Nth(i) \in Number /\ Ahead(Nth(i)) < Ahead(h)
    BY <1>1, NthFacts
  <2>2. \E t \in Ticketed : ct[t] = Nth(i)
    BY <2>1 DEF TicketsInOrder
  <2> QED BY <2>2 DEF Owner
<1>3. \A i \in 1 .. Ahead(h) : Queue[i] \in Ticketed /\ ct[Queue[i]] = Nth(i)
  BY <1>2 DEF Queue
<1>4. Queue \in Seq(Threads) /\ Len(Queue) = Ahead(h)
  <2>1. Queue \in [1 .. Ahead(h) -> Threads]
    BY <1>1, <1>2 DEF Queue
  <2> QED BY <1>1, <2>1, SeqDef
<1>5. ASSUME NEW t \in Ticketed
      PROVE  Ahead(ct[t]) + 1 \in 1 .. Ahead(h) /\ Queue[Ahead(ct[t]) + 1] = t
  <2>1. Ahead(ct[t]) \in Nat /\ Ahead(ct[t]) < Ahead(h)
    BY <1>1, AheadFacts DEF TicketsInOrder
  <2>2. PICK i \in 1 .. Ahead(h) : i = Ahead(ct[t]) + 1
    BY <1>1, <2>1
  <2>3. Nth(i) \in Number /\ Ahead(Nth(i)) = Ahead(ct[t])
    BY <2>1, <2>2, NthFacts
  <2>4. Nth(i) = ct[t]
    BY <1>1, <2>3, AheadFacts
  <2>5. Queue[i] = t
    BY <1>3, <2>4 DEF TicketsInOrder
  <2> QED BY <2>2, <2>5
<1> QED BY <1>3, <1>4, <1>5 DEF QueueInv

\* Two states have the same owner in a place if the same thread has the ticket.
LEMMA DrawAppends ==
  ASSUME IInv, IInv', NEW t \in Threads, NEW label \in {"wait", "inside"}, Draws(t, label)
  PROVE  Queue' = Append(Queue, t)
<1>1. QueueInv /\ QueueInv'
  <2>1. (IInv => QueueInv)'
    BY QueueFacts, PTL
  <2> QED BY <2>1, QueueFacts
<1>2. /\ t \notin Ticketed /\ Ticketed' = Ticketed \cup {t} /\ Ticketed \in SUBSET Threads
      /\ ct'[t] = h /\ \A u \in Ticketed : ct'[u] = ct[u]
  BY DEF Draws, Ticketed, Goto, IInv, TypeOK
<1>3. h \in Number /\ Ahead(h) \in Nat /\ Ahead(h) + 1 < Tickets
  <2>1. h \in Number /\ l \in Number
    BY DEF IInv, TypeOK
  <2>2. Ahead(h) \in Nat
    BY <2>1, AheadFacts DEF IInv
  <2>3. Ahead(h) = Cardinality(Ticketed)
    BY DEF IInv, TicketsInOrder
  <2>4. Cardinality(Ticketed) + 1 < Tickets
    BY <1>2, CountFacts
  <2> QED BY <2>1, <2>2, <2>3, <2>4
<1>4. Ahead(h)' = Ahead(h) + 1
  <2>1. h' = Inc(h) /\ l' = l
    BY DEF Draws
  <2>2. Ahead(h)' = Ahead(Inc(h))
    BY <2>1 DEF Ahead
  <2> QED BY <1>3, <2>2, AheadFacts DEF IInv
<1>5. ASSUME NEW i \in 1 .. Ahead(h) PROVE Queue'[i] = Queue[i]
  <2>1. PICK u \in Ticketed : u = Queue[i] /\ ct[u] = Nth(i)
    BY <1>1 DEF QueueInv
  <2>2. u \in Ticketed' /\ ct'[u] = Nth(i)
    BY <1>2, <2>1
  <2>3. Ahead(ct[u])' = i - 1
    <3>1. Ahead(Nth(i)) = i - 1
      BY NthFacts DEF IInv
    <3> QED BY <2>2, <3>1 DEF Draws, Ahead
  <2>4. Queue'[Ahead(ct[u])' + 1] = u
    BY <1>1, <2>2 DEF QueueInv
  <2>5. (i - 1) + 1 = i
    OBVIOUS
  <2> QED BY <2>1, <2>3, <2>4, <2>5
<1>6. Queue'[Ahead(h) + 1] = t
  <2>1. Ahead(ct[t])' = Ahead(h)
    BY <1>2 DEF Draws, Ahead
  <2> QED BY <1>1, <1>2, <2>1 DEF QueueInv
<1> DEFINE q == Append(Queue, t)
<1>7. /\ q \in Seq(Threads) /\ Len(q) = Ahead(h) + 1
      /\ \A i \in 1 .. Ahead(h) : q[i] = Queue[i]
      /\ q[Ahead(h) + 1] = t
  BY <1>1, AppendProperties DEF QueueInv
<1>8. Queue' \in Seq(Threads) /\ Len(Queue') = Ahead(h) + 1
  BY <1>1, <1>4 DEF QueueInv
<1> HIDE DEF q
<1>9. ASSUME NEW i \in 1 .. (Ahead(h) + 1) PROVE Queue'[i] = q[i]
  BY <1>3, <1>5, <1>6, <1>7
<1>10. Queue' = q
  BY <1>7, <1>8, <1>9, SeqEqual
<1> QED BY <1>10 DEF q

LEMMA UnlockDrops ==
  ASSUME IInv, IInv', NEW t \in Threads, unlock(t)
  PROVE  Queue # <<>> /\ Queue' = Tail(Queue)
<1>1. QueueInv /\ QueueInv'
  <2>1. (IInv => QueueInv)'
    BY QueueFacts, PTL
  <2> QED BY <2>1, QueueFacts
<1>2. /\ t \in Ticketed /\ t \in Inside /\ Ticketed' = Ticketed \ {t}
      /\ Ticketed \in SUBSET Threads /\ \A u \in Ticketed \ {t} : ct'[u] = ct[u]
  BY DEF unlock, At, Ticketed, Inside, Goto, IInv, TypeOK
<1>3. /\ h \in Number /\ Ahead(h) \in Nat /\ Ahead(h) > 0 /\ l' = Inc(l) /\ h' = h
      /\ ct[t] = l
  BY <1>2, AheadFacts, CountFacts DEF IInv, TypeOK, TicketsInOrder, unlock
<1>4. Ahead(h)' = Ahead(h) - 1
  BY <1>3, Served DEF IInv
<1>5. Queue # <<>> /\ Len(Queue) = Ahead(h) /\ Queue \in Seq(Threads)
  BY <1>1, <1>3, EmptySeq DEF QueueInv
<1> DEFINE q == Tail(Queue)
<1>6. /\ q \in Seq(Threads) /\ Len(q) = Ahead(h) - 1
      /\ \A i \in 1 .. Len(q) : q[i] = Queue[i + 1]
  BY <1>5, HeadTailProperties
<1> HIDE DEF q
<1>7. ASSUME NEW i \in 1 .. (Ahead(h) - 1) PROVE Queue'[i] = Queue[i + 1]
  <2>1. i + 1 \in 1 .. Ahead(h) /\ i \in Nat /\ (i + 1) - 1 = i
    BY <1>3
  <2>2. PICK u \in Ticketed : u = Queue[i + 1] /\ ct[u] = Nth(i + 1)
    BY <1>1, <2>1 DEF QueueInv
  <2>3. Nth(i + 1) \in Number /\ Ahead(Nth(i + 1)) = i
    BY <2>1, NthFacts DEF IInv
  <2>4. u # t
    <3>1. Nth(i + 1) # l
      BY <2>1, <2>3, AheadFacts DEF IInv
    <3> QED BY <1>3, <2>2, <3>1
  <2>5. u \in Ticketed' /\ ct'[u] = Nth(i + 1)
    BY <1>2, <2>2, <2>4
  <2>6. PICK k \in Number : k = Nth(i + 1)
    BY <2>3
  <2>7. Ahead(k)' = i - 1
    BY <1>3, <2>1, <2>3, <2>6, Served DEF IInv
  <2>8. Ahead(ct[u])' = i - 1
    BY <2>5, <2>6, <2>7 DEF Ahead
  <2>9. Queue'[Ahead(ct[u])' + 1] = u
    BY <1>1, <2>5 DEF QueueInv
  <2>10. (i - 1) + 1 = i
    BY <2>1
  <2> QED BY <2>2, <2>8, <2>9, <2>10
<1>8. Queue' \in Seq(Threads) /\ Len(Queue') = Ahead(h) - 1
  BY <1>1, <1>4 DEF QueueInv
<1>9. Queue' = q
  BY <1>6, <1>7, <1>8, SeqEqual
<1> QED BY <1>5, <1>9 DEF q

LEMMA StepSimulates == IInv /\ [Next]_vars => [Fifo!Next]_(Fifo!vars)
<1> SUFFICES ASSUME IInv, [Next]_vars PROVE [Fifo!Next]_(Fifo!vars)
  OBVIOUS
<1>1. IInv' /\ QueueInv
  BY NextKeeps, QueueFacts
<1>2. Inside \subseteq Ticketed /\ \A u \in Inside, v \in Ticketed : ct[v] = l => v = u
  BY DEF IInv, TicketsInOrder, Inside, Ticketed
<1>3. ASSUME NEW t \in Threads, lock(t) PROVE Fifo!Arrive(t)
  <2>1. Draws(t, "wait")
    BY <1>3 DEF lock, Draws, At
  <2>2. Inside' = Inside
    BY <1>3 DEF lock, At, Goto, Inside, IInv, TypeOK
  <2> QED BY <1>1, <2>1, <2>2, DrawAppends DEF Fifo!Arrive
<1>4. ASSUME NEW t \in Threads, Enter(t) PROVE Fifo!Enter(t)
  <2>1. t \in Ticketed /\ ct[t] = l /\ t \notin Inside /\ UNCHANGED <<h, l, ct>>
    BY <1>4 DEF Enter, At, Ticketed, Inside
  <2>2. Inside = {}
    BY <1>2, <2>1
  <2>3. Inside' = {t} /\ Ticketed' = Ticketed
    BY <1>4, <2>2 DEF Enter, At, Goto, Inside, Ticketed, IInv, TypeOK
  <2>4. Queue' = Queue
    BY <2>1, <2>3 DEF Queue, Owner, Nth, Ahead
  <2>5. Ahead(l) = 0 /\ l \in Number
    BY AheadFacts DEF IInv, TypeOK
  <2>6. 0 + 1 \in 1 .. Ahead(h) /\ Queue[0 + 1] = t
    BY <1>1, <2>1, <2>5 DEF QueueInv
  <2>7. Queue # <<>> /\ Head(Queue) = t
    <3>1. Queue \in Seq(Threads) /\ Len(Queue) = Ahead(h) /\ Queue[1] = t /\ 1 \in 1 .. Ahead(h)
      BY <1>1, <2>6 DEF QueueInv
    <3> QED BY <3>1
  <2> QED BY <2>3, <2>4, <2>7 DEF Fifo!Enter
<1>5. ASSUME NEW t \in Threads, TryWins(t) PROVE Fifo!TryEnter(t)
  <2>1. Draws(t, "inside") /\ h = l
    BY <1>5 DEF TryWins, Draws, At
  <2>2. Ahead(h) = 0
    BY <2>1, AheadFacts DEF IInv, TypeOK
  <2>3. Queue = <<>>
    BY <1>1, <2>2, EmptySeq DEF QueueInv
  <2>4. Ticketed = {}
    BY <1>1, <2>2 DEF QueueInv
  <2>5. Inside' = {t}
    BY <1>2, <2>1, <2>4 DEF Draws, Goto, Inside, IInv, TypeOK
  <2>6. Queue' = <<t>>
    <3>1. Queue' = Append(<<>>, t)
      BY <1>1, <2>1, <2>3, DrawAppends
    <3> QED BY <3>1
  <2> QED BY <2>3, <2>5, <2>6 DEF Fifo!TryEnter
<1>6. ASSUME NEW t \in Threads, unlock(t) PROVE Fifo!Leave(t)
  <2>1. t \in Inside /\ t \in Ticketed /\ ct[t] = l
    BY <1>6 DEF unlock, At, Inside, Ticketed, IInv, TicketsInOrder
  <2>2. Inside = {t}
    BY <1>2, <2>1
  <2>3. Inside' = {}
    BY <1>6, <2>2 DEF unlock, Goto, Inside, IInv, TypeOK
  <2> QED BY <1>1, <1>6, <2>2, <2>3, UnlockDrops DEF Fifo!Leave
<1>7. ASSUME UNCHANGED <<h, l, ct>>, Inside' = Inside, Ticketed' = Ticketed
      PROVE  Fifo!vars' = Fifo!vars
  BY <1>7 DEF Fifo!vars, Queue, Owner, Nth, Ahead
<1>8. ASSUME NEW t \in Threads, TryLoad(t) \/ TryFails(t) PROVE Fifo!vars' = Fifo!vars
  BY <1>7, <1>8 DEF TryLoad, TryFails, At, Goto, Inside, Ticketed, IInv, TypeOK
<1>9. CASE UNCHANGED vars
  BY <1>7, <1>9 DEF vars, Inside, Ticketed
<1> QED BY <1>3, <1>4, <1>5, <1>6, <1>8, <1>9 DEF Next, Fifo!Next

\* First come, first served: lock(), try_lock() and unlock() implement FifoLock.
THEOREM Refinement == Spec => ImplementsFifoLock
<1>1. Init => Fifo!Init
  <2> SUFFICES ASSUME Init PROVE Fifo!Init
    OBVIOUS
  <2>1. Inside = {}
    BY DEF Init, Inside
  <2>2. IInv /\ h = l
    BY InitHolds DEF Init
  <2>3. Ahead(h) = 0
    BY <2>2, AheadFacts DEF IInv, TypeOK
  <2>4. Queue = <<>>
    BY <2>2, <2>3, QueueFacts, EmptySeq DEF QueueInv
  <2> QED BY <2>1, <2>4 DEF Fifo!Init
<1>2. IInv /\ [Next]_vars => [Fifo!Next]_(Fifo!vars)
  BY StepSimulates
<1> QED BY <1>1, <1>2, Invariance, PTL DEF Spec, ImplementsFifoLock, Fifo!Spec
-----------------------------------------------------------------------------
(***************************************************************************)
(* The spin locks of one word exclude, each by itself, for any number of   *)
(* threads and bits.  Exclusion is not inductive: that the or of a thread  *)
(* finds a clear bit says that nobody has the lock only because the bits   *)
(* that are set are those of all the locks that are held.  And WordIsExact *)
(* is not inductive either: that unlock, an xor, takes one holder from a   *)
(* bit leaves it without holders only because there was one.  Together     *)
(* they are.                                                               *)
(***************************************************************************)
SpinInv == M!TypeOK /\ M!MutualExclusion /\ M!WordIsExact

-----------------------------------------------------------------------------
\* Who takes a clear bit is its only holder, and the word says so.
LEMMA TakesFree ==
  ASSUME SpinInv, NEW t \in Threads, mbit[t] \notin ml,
         ml' = ml \cup {mbit[t]}, M!Take(t)
  PROVE  /\ ml' \subseteq Bits /\ mheld' \in [Threads -> SUBSET Bits]
         /\ M!MutualExclusion' /\ M!WordIsExact'
<1> USE DEF SpinInv, M!TypeOK
<1>1. mheld' = [mheld EXCEPT ![t] = mheld[t] \cup {mbit[t]}] /\ mbit[t] \in Bits
  BY DEF M!Take
<1>2. \A u \in Threads : mbit[t] \notin mheld[u]
  BY DEF M!WordIsExact
<1>3. ml' \subseteq Bits /\ mheld' \in [Threads -> SUBSET Bits]
  BY <1>1
<1>4. \A u \in Threads : mheld'[u] = IF u = t THEN mheld[u] \cup {mbit[t]} ELSE mheld[u]
  BY <1>1
<1>5. M!MutualExclusion'
  <2> SUFFICES ASSUME NEW u \in Threads, NEW v \in Threads, u # v,
                      NEW i \in mheld'[u] \cap mheld'[v]
               PROVE  FALSE
    BY DEF M!MutualExclusion
  <2>1. i \in mheld[u] \/ (u = t /\ i = mbit[t])
    BY <1>4
  <2>2. i \in mheld[v] \/ (v = t /\ i = mbit[t])
    BY <1>4
  <2>3. ~(i \in mheld[u] /\ i \in mheld[v])
    BY DEF M!MutualExclusion
  <2> QED
    BY <2>1, <2>2, <2>3, <1>2
<1>6. M!WordIsExact'
  <2>1. \A i : i \in ml' <=> (i \in ml \/ i = mbit[t])
    OBVIOUS
  <2>2. \A i : (\E u \in Threads : i \in mheld'[u]) <=>
               ((\E u \in Threads : i \in mheld[u]) \/ i = mbit[t])
    BY <1>4
  <2>3. \A i : i \in ml <=> \E u \in Threads : i \in mheld[u]
    BY DEF M!WordIsExact
  <2>4. \A i : i \in ml' <=> \E u \in Threads : i \in mheld'[u]
    BY <2>1, <2>2, <2>3
  <2> QED
    BY <2>4 DEF M!WordIsExact
<1> QED
  BY <1>3, <1>5, <1>6

\* Who gives its lock back clears the bit of that lock, and no other.
LEMMA GivesBack ==
  ASSUME SpinInv, NEW t \in Threads, NEW i \in Bits, M!unlock(t, i)
  PROVE  SpinInv'
<1> USE DEF SpinInv, M!TypeOK
<1>1. /\ i \in mheld[t] /\ mpc' = mpc /\ mbit' = mbit
      /\ mheld' = [mheld EXCEPT ![t] = mheld[t] \ {i}]
  BY DEF M!unlock
<1>2. i \in ml
  BY <1>1 DEF M!WordIsExact
<1>3. ml' = ml \ {i}
  BY <1>2 DEF M!unlock
<1>4. \A u \in Threads : mheld'[u] = IF u = t THEN mheld[u] \ {i} ELSE mheld[u]
  BY <1>1
<1>5. M!TypeOK'
  BY <1>1, <1>3
<1>6. M!MutualExclusion'
  BY <1>4 DEF M!MutualExclusion
<1>7. M!WordIsExact'
  <2>1. \A u \in Threads : u # t => i \notin mheld[u]
    BY <1>1 DEF M!MutualExclusion
  <2>2. \A j : j \in ml <=> \E u \in Threads : j \in mheld[u]
    BY DEF M!WordIsExact
  <2>3. \A j : (\E u \in Threads : j \in mheld'[u]) <=>
               ((\E u \in Threads : j \in mheld[u]) /\ j # i)
    BY <2>1, <1>4
  <2>4. \A j : j \in ml' <=> \E u \in Threads : j \in mheld'[u]
    BY <1>3, <2>2, <2>3
  <2> QED
    BY <2>4 DEF M!WordIsExact
<1> QED
  BY <1>5, <1>6, <1>7

LEMMA InitSpinInv == M!Init => SpinInv
<1> SUFFICES ASSUME M!Init PROVE SpinInv
  OBVIOUS
<1> QED
  BY DEF M!Init, SpinInv, M!TypeOK, M!MutualExclusion, M!WordIsExact

LEMMA NextSpinInv == SpinInv /\ [M!Next]_(M!vars) => SpinInv'
<1> SUFFICES ASSUME SpinInv, [M!Next]_(M!vars) PROVE SpinInv'
  OBVIOUS
<1> USE DEF SpinInv
<1>1. ASSUME NEW t \in Threads, NEW i \in Bits, M!lock(t, i) \/ M!try_lock(t, i)
      PROVE  SpinInv'
  <2>1. /\ ml' = ml /\ mheld' = mheld /\ mbit' = [mbit EXCEPT ![t] = i]
        /\ mpc' = [mpc EXCEPT ![t] = "lock"] \/ mpc' = [mpc EXCEPT ![t] = "try_lock"]
    BY <1>1 DEF M!lock, M!try_lock, M!Call, M!Goto
  <2>2. M!TypeOK'
    BY <2>1 DEF M!TypeOK
  <2> QED
    BY <2>1, <2>2 DEF M!MutualExclusion, M!WordIsExact
<1>2. ASSUME NEW t \in Threads, M!Busy(t) \/ M!SeesClear(t) \/ M!OrLoses(t)
      PROVE  SpinInv'
  <2>1. /\ ml' = ml /\ mheld' = mheld /\ mbit' = mbit
        /\ \E x \in {"idle", "lock", "lock_or", "try_or"} : mpc' = [mpc EXCEPT ![t] = x]
    BY <1>2 DEF M!Busy, M!SeesClear, M!OrLoses, M!Goto
  <2>2. M!TypeOK'
    BY <2>1 DEF M!TypeOK
  <2> QED
    BY <2>1, <2>2 DEF M!MutualExclusion, M!WordIsExact
<1>3. ASSUME NEW t \in Threads, M!OrWins(t)
      PROVE  SpinInv'
  <2>1. mbit[t] \notin ml /\ ml' = ml \cup {mbit[t]} /\ M!Take(t) /\ mbit' = mbit
        /\ mpc' = [mpc EXCEPT ![t] = "idle"]
    BY <1>3 DEF M!OrWins, M!Goto
  <2>2. /\ ml' \subseteq Bits /\ mheld' \in [Threads -> SUBSET Bits]
        /\ M!MutualExclusion' /\ M!WordIsExact'
    BY <2>1, TakesFree
  <2>3. M!TypeOK'
    BY <2>1, <2>2 DEF M!TypeOK
  <2> QED
    BY <2>2, <2>3
<1>4. ASSUME NEW t \in Threads, NEW i \in Bits, M!unlock(t, i)
      PROVE  SpinInv'
  BY <1>4, GivesBack
<1>5. CASE UNCHANGED M!vars
  BY <1>5 DEF M!vars, M!TypeOK, M!MutualExclusion, M!WordIsExact
<1> QED
  BY <1>1, <1>2, <1>3, <1>4, <1>5 DEF M!Next

\* The variables keep their types.
THEOREM SpinTypes == M!Spec => []M!TypeOK
<1>1. SpinInv => M!TypeOK
  BY DEF SpinInv
<1> QED
  BY InitSpinInv, NextSpinInv, <1>1, PTL DEF M!Spec

\* No two threads hold the lock of one bit (lines 60-77).
THEOREM SpinExclusion == M!Spec => []M!MutualExclusion
<1>1. SpinInv => M!MutualExclusion
  BY DEF SpinInv
<1> QED
  BY InitSpinInv, NextSpinInv, <1>1, PTL DEF M!Spec

\* A bit is set while its lock is held, and only then: a try that fails leaves no
\* bit behind, and an unlock frees no other lock (lines 68-77).
THEOREM SpinWord == M!Spec => []M!WordIsExact
<1>1. SpinInv => M!WordIsExact
  BY DEF SpinInv
<1> QED
  BY InitSpinInv, NextSpinInv, <1>1, PTL DEF M!Spec
-----------------------------------------------------------------------------
(***************************************************************************)
(* The intention lock for every number of threads its word can count.  The *)
(* invariant is that the word is exact: bit 0 is set just when some thread *)
(* has won try_lock_prompt and not unlocked, and the rest counts those     *)
(* that still have a share.  It is what lets unlock() store 0.             *)
(***************************************************************************)
IntentExact == il = Cardinality(I!Prompters) + 2 * Cardinality(I!Sharers)

IntentInv == I!TypeOK /\ I!Exclusion /\ IntentExact

LEMMA ExactIsExact == IntentExact <=> I!WordIsExact
  BY DEF IntentExact, I!WordIsExact, I!Cardinality, Cardinality

-----------------------------------------------------------------------------
(* Counting. *)

LEMMA IntentCounts ==
  ASSUME NEW X \in SUBSET Threads
  PROVE  /\ IsFiniteSet(X)
         /\ Cardinality(X) \in Nat
         /\ Cardinality(X) < Half
         /\ Cardinality(X) = 0 <=> X = {}
         /\ \A t \in Threads \ X : /\ Cardinality(X \cup {t}) = Cardinality(X) + 1
                                   /\ Cardinality(X) + 1 < Half
         /\ \A t \in X : Cardinality(X \ {t}) = Cardinality(X) - 1
<1>1. IsFiniteSet(X) /\ Cardinality(X) <= Cardinality(Threads)
  BY FS_Subset, WordAssumption
<1>2. Cardinality(X) \in Nat /\ Cardinality(Threads) \in Nat
  BY <1>1, FS_CardinalityType, WordAssumption
<1>3. Cardinality(X) < Half
  BY <1>1, <1>2, WordAssumption
<1>4. Cardinality(X) = 0 <=> X = {}
  BY <1>1, FS_EmptySet
<1>5. ASSUME NEW t \in Threads \ X
      PROVE  Cardinality(X \cup {t}) = Cardinality(X) + 1 /\ Cardinality(X) + 1 < Half
  <2>1. Cardinality(X \cup {t}) = Cardinality(X) + 1
    BY <1>1, FS_AddElement
  <2>2. X \cup {t} \in SUBSET Threads
    OBVIOUS
  <2>3. Cardinality(X \cup {t}) <= Cardinality(Threads)
    BY <2>2, FS_Subset, WordAssumption
  <2> QED BY <2>1, <2>3, <1>2, WordAssumption
<1>6. ASSUME NEW t \in X
      PROVE  Cardinality(X \ {t}) = Cardinality(X) - 1
  BY <1>1, FS_RemoveElement
<1> QED BY <1>1, <1>2, <1>3, <1>4, <1>5, <1>6

LEMMA OnePrompter ==
  ASSUME I!Exclusion
  PROVE  /\ Cardinality(I!Prompters) \in {0, 1}
         /\ Cardinality(I!Prompters) = 0 <=> I!Prompters = {}
         /\ \A t \in I!Prompters : I!Prompters = {t}
<1>1. I!Prompters \in SUBSET Threads
  BY DEF I!Prompters
<1>2. CASE I!Prompters = {}
  BY <1>1, <1>2, IntentCounts
<1>3. CASE I!Prompters # {}
  <2>1. PICK t \in I!Prompters : TRUE
    BY <1>3
  <2>2. I!Prompters = {t}
    BY <2>1 DEF I!Exclusion
  <2>3. Cardinality(I!Prompters) = 1
    BY <2>2, FS_Singleton
  <2> QED BY <2>2, <2>3
<1> QED BY <1>2, <1>3

\* What the word tells a thread that reads it.
LEMMA IntentTells ==
  ASSUME IntentInv
  PROVE  /\ il \in Nat
         /\ I!Odd(il) <=> I!Prompters # {}
         /\ il \in {0, 1} => I!Sharers = {}
<1> DEFINE w == Cardinality(I!Prompters)
           n == Cardinality(I!Sharers)
<1>1. w \in {0, 1} /\ (w = 0 <=> I!Prompters = {})
  BY OnePrompter DEF IntentInv
<1>2. n \in Nat /\ (n = 0 <=> I!Sharers = {})
  BY IntentCounts DEF I!Sharers
<1>3. il = w + 2 * n
  BY DEF IntentInv, IntentExact
<1> HIDE DEF w, n
<1>4. w = 0 => (w + 2 * n) % 2 = 0
  BY <1>2
<1>5. w = 1 => (w + 2 * n) % 2 = 1
  BY <1>2
<1>6. I!Odd(il) <=> w = 1
  BY <1>1, <1>3, <1>4, <1>5 DEF I!Odd
<1>7. il \in Nat /\ (il \in {0, 1} => n = 0)
  BY <1>1, <1>2, <1>3
<1> QED BY <1>1, <1>2, <1>6, <1>7

-----------------------------------------------------------------------------
(* What a step does to the sets of threads. *)

LEMMA IntentMoves ==
  ASSUME I!TypeOK, NEW t \in Threads, NEW label \in I!Labels, I!Goto(t, label)
  PROVE  /\ ipc' \in [Threads -> I!Labels]
         /\ I!Prompters' = IF label \in {"prompt", "drain", "exclusive"}
                         THEN I!Prompters \cup {t} ELSE I!Prompters \ {t}
         /\ I!Sharers' = IF label \in {"shared", "prompt"}
                       THEN I!Sharers \cup {t} ELSE I!Sharers \ {t}
         /\ I!Exclusive' = IF label = "exclusive" THEN I!Exclusive \cup {t} ELSE I!Exclusive \ {t}
<1>1. ipc' \in [Threads -> I!Labels] /\ ipc'[t] = label
  BY DEF I!TypeOK, I!Goto
<1>2. \A u \in Threads : u # t => ipc'[u] = ipc[u]
  BY DEF I!TypeOK, I!Goto
<1>3. I!Prompters' = IF label \in {"prompt", "drain", "exclusive"}
                   THEN I!Prompters \cup {t} ELSE I!Prompters \ {t}
  BY <1>1, <1>2 DEF I!Prompters
<1>4. I!Sharers' = IF label \in {"shared", "prompt"} THEN I!Sharers \cup {t} ELSE I!Sharers \ {t}
  BY <1>1, <1>2 DEF I!Sharers
<1>5. I!Exclusive' = IF label = "exclusive" THEN I!Exclusive \cup {t} ELSE I!Exclusive \ {t}
  BY <1>1, <1>2 DEF I!Exclusive
<1> QED BY <1>1, <1>3, <1>4, <1>5

\* The arithmetic of the word, away from the sets.
LEMMA IntentArithmetic ==
  ASSUME NEW w \in {0, 1}, NEW n \in Nat, n < Half
  PROVE  /\ w + 2 * n \in 0 .. (I!Mod - 1)
         /\ n + 1 < Half => ((w + 2 * n) + 2) % I!Mod = w + 2 * (n + 1)
         /\ n > 0 => ((w + 2 * n) - 2) % I!Mod = w + 2 * (n - 1)
<1>1. Half \in Nat /\ I!Mod = 2 * Half /\ I!Mod \in Nat
  BY WordAssumption DEF I!Mod
<1>2. w + 2 * n \in 0 .. (I!Mod - 1)
  BY <1>1
<1>3. \A k \in 0 .. (I!Mod - 1) : k % I!Mod = k
  BY <1>1
<1>4. ASSUME n + 1 < Half PROVE ((w + 2 * n) + 2) % I!Mod = w + 2 * (n + 1)
  <2>1. (w + 2 * n) + 2 = w + 2 * (n + 1)
    OBVIOUS
  <2>2. w + 2 * (n + 1) \in 0 .. (I!Mod - 1)
    BY <1>1, <1>4
  <2> QED BY <2>1, <2>2, <1>3
<1>5. ASSUME n > 0 PROVE ((w + 2 * n) - 2) % I!Mod = w + 2 * (n - 1)
  <2>1. (w + 2 * n) - 2 = w + 2 * (n - 1)
    OBVIOUS
  <2>2. w + 2 * (n - 1) \in 0 .. (I!Mod - 1)
    BY <1>1, <1>5
  <2> QED BY <2>1, <2>2, <1>3
<1> QED BY <1>2, <1>4, <1>5


-----------------------------------------------------------------------------
(* The invariant is preserved. *)

LEMMA NextIntentInv == IntentInv /\ [I!Next]_(I!vars) => IntentInv'
<1> SUFFICES ASSUME IntentInv, [I!Next]_(I!vars) PROVE IntentInv'
  OBVIOUS
<1> USE DEF IntentInv
<1> DEFINE w == Cardinality(I!Prompters)
           n == Cardinality(I!Sharers)
<1>1. /\ w \in {0, 1} /\ (w = 0 <=> I!Prompters = {})
      /\ \A t \in I!Prompters : I!Prompters = {t}
  BY OnePrompter
<1>2. n \in Nat /\ n < Half
  BY IntentCounts DEF I!Sharers
<1>3. il = w + 2 * n
  BY DEF IntentExact
<1>4. /\ I!Odd(il) <=> I!Prompters # {}
      /\ il \in {0, 1} => I!Sharers = {}
      /\ il \in 0 .. (I!Mod - 1)
      /\ 0 \in 0 .. (I!Mod - 1)
  <2>1. I!Mod \in Nat
    BY WordAssumption DEF I!Mod
  <2> QED BY <2>1, IntentTells DEF I!TypeOK
<1>5. /\ n + 1 < Half => (il + 2) % I!Mod = w + 2 * (n + 1)
      /\ n > 0 => (il - 2) % I!Mod = w + 2 * (n - 1)
  BY <1>1, <1>2, <1>3, IntentArithmetic
<1>6. /\ I!Sharers \in SUBSET Threads /\ I!Exclusive \subseteq I!Prompters
      /\ \A t \in Threads \ I!Sharers : Cardinality(I!Sharers \cup {t}) = n + 1 /\ n + 1 < Half
      /\ \A t \in I!Sharers : Cardinality(I!Sharers \ {t}) = n - 1 /\ n > 0
  <2>1. I!Sharers \in SUBSET Threads /\ I!Exclusive \subseteq I!Prompters
    BY DEF I!Sharers, I!Exclusive, I!Prompters
  <2>2. \A t \in I!Sharers : n # 0
    BY <2>1, IntentCounts
  <2> QED BY <2>1, <2>2, <1>2, IntentCounts
<1> HIDE DEF w, n
<1>7. ASSUME NEW t \in Threads, I!lock_shared(t) \/ I!Reload(t) \/ I!ShareFails(t) PROVE IntentInv'
  <2>1. ipc[t] \in {"idle", "lock_shared"} /\ il' = il /\ iold' = [iold EXCEPT ![t] = il]
    BY <1>7 DEF I!lock_shared, I!Reload, I!ShareFails, I!At
  <2>2. ipc' = ipc \/ I!Goto(t, "lock_shared")
    BY <1>7 DEF I!lock_shared, I!Reload, I!ShareFails
  <2>3. CASE ipc' = ipc
    <3>1. I!Prompters' = I!Prompters /\ I!Sharers' = I!Sharers /\ I!Exclusive' = I!Exclusive
      BY <2>3 DEF I!Prompters, I!Sharers, I!Exclusive
    <3> QED BY <2>1, <2>3, <3>1, <1>4 DEF I!TypeOK, I!Exclusion, IntentExact
  <2>4. CASE I!Goto(t, "lock_shared")
    <3>1. /\ ipc' \in [Threads -> I!Labels] /\ I!Prompters' = I!Prompters \ {t}
          /\ I!Sharers' = I!Sharers \ {t} /\ I!Exclusive' = I!Exclusive \ {t}
      BY <2>4, IntentMoves DEF I!Labels
    <3>2. t \notin I!Prompters /\ t \notin I!Sharers
      BY <2>1 DEF I!Prompters, I!Sharers
    <3>3. I!Prompters' = I!Prompters /\ I!Sharers' = I!Sharers /\ I!Exclusive' = I!Exclusive
      BY <3>1, <3>2, <1>6
    <3> QED BY <2>1, <3>1, <3>3, <1>4 DEF I!TypeOK, I!Exclusion, IntentExact
  <2> QED BY <2>2, <2>3, <2>4
<1>8. ASSUME NEW t \in Threads, I!Share(t) PROVE IntentInv'
  <2>1. /\ I!Goto(t, "shared") /\ t \notin I!Sharers /\ t \notin I!Prompters
        /\ ~I!Odd(il) /\ il' = (il + 2) % I!Mod /\ iold' = [iold EXCEPT ![t] = 0]
    BY <1>8 DEF I!Share, I!At, I!Sharers, I!Prompters
  <2>2. /\ ipc' \in [Threads -> I!Labels] /\ I!Prompters' = I!Prompters \ {t}
        /\ I!Sharers' = I!Sharers \cup {t} /\ I!Exclusive' = I!Exclusive \ {t}
    BY <2>1, IntentMoves DEF I!Labels
  <2>3. I!Prompters' = I!Prompters /\ I!Exclusive' = {}
    BY <2>1, <2>2, <1>4, <1>6
  <2>4. Cardinality(I!Sharers') = n + 1 /\ n + 1 < Half
    BY <2>1, <2>2, <1>6
  <2>5. il' = w + 2 * (n + 1)
    BY <2>1, <2>4, <1>5
  <2>6. IntentExact'
    BY <2>3, <2>4, <2>5 DEF IntentExact, w
  <2>7. il' \in 0 .. (I!Mod - 1)
    BY <2>4, <2>5, <1>1, <1>2, IntentArithmetic
  <2>8. iold' \in [Threads -> 0 .. (I!Mod - 1)]
    BY <2>1, <1>4 DEF I!TypeOK
  <2> QED BY <2>2, <2>3, <2>6, <2>7, <2>8 DEF I!TypeOK, I!Exclusion
<1>9. ASSUME NEW t \in Threads, I!try_lock_prompt(t) PROVE IntentInv'
  <2>1. /\ I!Goto(t, "prompt") /\ t \in I!Sharers /\ I!Prompters = {}
        /\ il' = il + 1 /\ iold' = iold
    BY <1>4, <1>9 DEF I!try_lock_prompt, I!At, I!Sharers
  <2>2. /\ ipc' \in [Threads -> I!Labels] /\ I!Prompters' = I!Prompters \cup {t}
        /\ I!Sharers' = I!Sharers \cup {t} /\ I!Exclusive' = I!Exclusive \ {t}
    BY <2>1, IntentMoves DEF I!Labels
  <2>3. I!Prompters' = {t} /\ I!Sharers' = I!Sharers /\ I!Exclusive' = {}
    BY <2>1, <2>2, <1>6
  <2>4. w = 0 /\ Cardinality(I!Prompters') = 1
    BY <2>1, <2>3, <1>1, FS_Singleton
  <2>5. il' = 1 + 2 * n
    BY <2>1, <2>4, <1>2, <1>3
  <2>6. IntentExact'
    BY <2>3, <2>4, <2>5 DEF IntentExact, n
  <2>7. il' \in 0 .. (I!Mod - 1)
    BY <2>5, <1>2, IntentArithmetic
  <2> QED BY <2>1, <2>2, <2>3, <2>6, <2>7 DEF I!TypeOK, I!Exclusion
<1>10. ASSUME NEW t \in I!Sharers, il' = (il - 2) % I!Mod, iold' = iold,
              \/ I!Goto(t, "drain") /\ t \in I!Prompters
              \/ I!Goto(t, "idle") /\ t \notin I!Prompters
       PROVE  IntentInv'
  <2>1. t \in Threads
    BY DEF I!Sharers
  <2>2. /\ ipc' \in [Threads -> I!Labels] /\ I!Sharers' = I!Sharers \ {t}
        /\ I!Exclusive' = I!Exclusive \ {t} /\ I!Prompters' = I!Prompters
    <3>1. CASE I!Goto(t, "drain") /\ t \in I!Prompters
      BY <2>1, <3>1, IntentMoves DEF I!Labels
    <3>2. CASE I!Goto(t, "idle") /\ t \notin I!Prompters
      BY <2>1, <3>2, IntentMoves DEF I!Labels
    <3> QED BY <1>10, <3>1, <3>2
  <2>3. Cardinality(I!Sharers') = n - 1 /\ n > 0
    BY <2>2, <1>6
  <2>4. il' = w + 2 * (n - 1)
    BY <2>3, <1>5, <1>10
  <2>5. IntentExact'
    BY <2>2, <2>3, <2>4 DEF IntentExact, w
  <2>6. n - 1 \in Nat /\ n - 1 < Half
    BY <2>3, <1>2, WordAssumption
  <2>7. il' \in 0 .. (I!Mod - 1)
    BY <2>4, <2>6, <1>1, IntentArithmetic
  <2> QED BY <1>10, <2>2, <2>5, <2>7 DEF I!TypeOK, I!Exclusion
<1>11. ASSUME NEW t \in Threads, I!Drained(t) PROVE IntentInv'
  <2>1. I!Goto(t, "exclusive") /\ t \in I!Prompters /\ I!Sharers = {} /\ UNCHANGED <<il, iold>>
    BY <1>4, <1>11 DEF I!Drained, I!At, I!Prompters
  <2>2. /\ ipc' \in [Threads -> I!Labels] /\ I!Prompters' = I!Prompters \cup {t}
        /\ I!Sharers' = I!Sharers \ {t}
    BY <2>1, IntentMoves DEF I!Labels
  <2>3. I!Prompters' = I!Prompters /\ I!Sharers' = I!Sharers /\ I!Sharers' = {}
    BY <2>1, <2>2
  <2> QED BY <2>1, <2>2, <2>3 DEF I!TypeOK, I!Exclusion, IntentExact
<1>12. ASSUME NEW t \in Threads, I!unlock(t) PROVE IntentInv'
  <2>1. I!Goto(t, "idle") /\ t \in I!Prompters /\ I!Sharers = {} /\ il' = 0 /\ iold' = iold
    BY <1>12 DEF I!unlock, I!At, I!Prompters, I!Exclusive, I!Exclusion
  <2>2. /\ ipc' \in [Threads -> I!Labels] /\ I!Prompters' = I!Prompters \ {t}
        /\ I!Sharers' = I!Sharers \ {t}
    BY <2>1, IntentMoves DEF I!Labels
  <2>3. I!Prompters' = {} /\ I!Sharers' = {}
    BY <2>1, <2>2, <1>1
  <2>4. IntentExact'
    BY <2>1, <2>3, FS_EmptySet DEF IntentExact
  <2>5. il' \in 0 .. (I!Mod - 1)
    BY <2>1, <1>4
  <2> QED BY <2>1, <2>2, <2>3, <2>4, <2>5 DEF I!TypeOK, I!Exclusion
<1>13. CASE UNCHANGED I!vars
  <2>1. /\ I!Prompters' = I!Prompters /\ I!Sharers' = I!Sharers /\ I!Exclusive' = I!Exclusive
        /\ il' = il
    BY <1>13 DEF I!vars, I!Prompters, I!Sharers, I!Exclusive
  <2>2. I!TypeOK'
    BY <1>13 DEF I!vars, I!TypeOK
  <2> QED BY <2>1, <2>2 DEF I!Exclusion, IntentExact
<1> QED
  <2>1. ASSUME NEW t \in Threads, I!GiveUpShare(t) PROVE IntentInv'
    <3>1. t \in I!Sharers /\ t \in I!Prompters
      BY <2>1 DEF I!GiveUpShare, I!At, I!Sharers, I!Prompters
    <3>2. I!Goto(t, "drain") /\ il' = (il - 2) % I!Mod /\ iold' = iold
      BY <2>1 DEF I!GiveUpShare
    <3> QED BY <3>1, <3>2, <1>10
  <2>2. ASSUME NEW t \in Threads, I!unlock_shared(t) PROVE IntentInv'
    <3>1. t \in I!Sharers /\ t \notin I!Prompters
      BY <2>2 DEF I!unlock_shared, I!At, I!Sharers, I!Prompters
    <3>2. I!Goto(t, "idle") /\ il' = (il - 2) % I!Mod /\ iold' = iold
      BY <2>2 DEF I!unlock_shared
    <3> QED BY <3>1, <3>2, <1>10
  <2> QED BY <1>7, <1>8, <1>9, <1>11, <1>12, <1>13, <2>1, <2>2 DEF I!Next, I!Ends

LEMMA InitIntentInv == I!Init => IntentInv
<1> SUFFICES ASSUME I!Init PROVE IntentInv
  OBVIOUS
<1>1. I!TypeOK
  BY WordAssumption, FS_CardinalityType DEF I!Init, I!TypeOK, I!Labels, I!Mod
<1>2. I!Prompters = {} /\ I!Sharers = {} /\ I!Exclusive = {}
  BY DEF I!Init, I!Prompters, I!Sharers, I!Exclusive
<1>3. I!Exclusion /\ IntentExact
  BY <1>2, FS_EmptySet DEF I!Init, I!Exclusion, IntentExact
<1> QED BY <1>1, <1>3 DEF IntentInv

LEMMA IntentInvariant == I!Spec => []IntentInv
BY InitIntentInv, NextIntentInv, PTL DEF I!Spec

-----------------------------------------------------------------------------
\* Every variable has its type, in particular the word does not overflow.
THEOREM IntentTypes == I!Spec => []I!TypeOK
BY IntentInvariant, PTL DEF IntentInv

\* At most one holder turns its share into the exclusive lock at a time, and when
\* it has it nobody else has a share (lines 187-213).
THEOREM IntentExclusion == I!Spec => []I!Exclusion
BY IntentInvariant, PTL DEF IntentInv

\* The word always says who is there; in particular it is 1 where unlock() stores
\* 0 in it (line 211).
THEOREM IntentWord == I!Spec => []I!WordIsExact
BY IntentInvariant, ExactIsExact, PTL DEF IntentInv

-----------------------------------------------------------------------------
(* The intention lock implements a readers-writer lock. *)

LEMMA IntentSimulates == IntentInv /\ [I!Next]_(I!vars) => [I!RW!Next]_(I!RW!vars)
<1> SUFFICES ASSUME IntentInv, [I!Next]_(I!vars) PROVE [I!RW!Next]_(I!RW!vars)
  OBVIOUS
<1> USE DEF IntentInv
<1>1. /\ \A t \in I!Prompters : I!Prompters = {t}
      /\ I!Odd(il) <=> I!Prompters # {}
      /\ il \in {0, 1} => I!Sharers = {}
  BY OnePrompter, IntentTells
<1>2. I!Exclusive \subseteq I!Prompters
  BY DEF I!Exclusive, I!Prompters
<1>3. ASSUME I!Sharers' = I!Sharers, I!Exclusive' = I!Exclusive PROVE I!RW!vars' = I!RW!vars
  BY <1>3 DEF I!RW!vars
<1>4. ASSUME NEW t \in Threads, I!lock_shared(t) PROVE I!RW!vars' = I!RW!vars
  <2>1. t \notin I!Sharers /\ t \notin I!Exclusive /\ I!Goto(t, "lock_shared")
    BY <1>4 DEF I!lock_shared, I!At, I!Sharers, I!Exclusive
  <2>2. I!Sharers' = I!Sharers \ {t} /\ I!Exclusive' = I!Exclusive \ {t}
    BY <2>1, IntentMoves DEF I!Labels
  <2> QED BY <2>1, <2>2, <1>3
<1>5. ASSUME NEW t \in Threads, I!Reload(t) \/ I!ShareFails(t) PROVE I!RW!vars' = I!RW!vars
  <2>1. ipc' = ipc
    BY <1>5 DEF I!Reload, I!ShareFails
  <2> QED BY <2>1, <1>3 DEF I!Sharers, I!Exclusive
<1>6. ASSUME NEW t \in Threads, I!Share(t) PROVE I!RW!EnterShared(t)
  <2>1. t \notin I!Sharers /\ I!Goto(t, "shared") /\ I!Exclusive = {}
    BY <1>1, <1>2, <1>6 DEF I!Share, I!At, I!Sharers
  <2>2. I!Sharers' = I!Sharers \cup {t} /\ I!Exclusive' = I!Exclusive \ {t}
    BY <2>1, IntentMoves DEF I!Labels
  <2> QED BY <2>1, <2>2 DEF I!RW!EnterShared, I!RW!Outside
<1>7. ASSUME NEW t \in Threads, I!try_lock_prompt(t) PROVE I!RW!vars' = I!RW!vars
  <2>1. t \in I!Sharers /\ t \notin I!Exclusive /\ I!Goto(t, "prompt")
    BY <1>7 DEF I!try_lock_prompt, I!At, I!Sharers, I!Exclusive
  <2>2. I!Sharers' = I!Sharers \cup {t} /\ I!Exclusive' = I!Exclusive \ {t}
    BY <2>1, IntentMoves DEF I!Labels
  <2> QED BY <2>1, <2>2, <1>3
<1>8. ASSUME NEW t \in Threads, I!GiveUpShare(t) \/ I!unlock_shared(t) PROVE I!RW!LeaveShared(t)
  <2>1. /\ t \in I!Sharers /\ t \notin I!Exclusive
        /\ \E label \in {"drain", "idle"} : I!Goto(t, label)
    BY <1>8 DEF I!GiveUpShare, I!unlock_shared, I!At, I!Sharers, I!Exclusive
  <2>2. I!Sharers' = I!Sharers \ {t} /\ I!Exclusive' = I!Exclusive \ {t}
    BY <2>1, IntentMoves DEF I!Labels
  <2> QED BY <2>1, <2>2 DEF I!RW!LeaveShared
<1>9. ASSUME NEW t \in Threads, I!Drained(t) PROVE I!RW!EnterExclusive(t)
  <2>1. /\ t \in I!Prompters /\ t \notin I!Exclusive /\ I!Sharers = {} /\ I!Goto(t, "exclusive")
    BY <1>1, <1>9 DEF I!Drained, I!At, I!Prompters, I!Exclusive
  <2>2. I!Sharers' = I!Sharers \ {t} /\ I!Exclusive' = I!Exclusive \cup {t} /\ I!Exclusive = {}
    BY <2>1, <1>1, <1>2, IntentMoves DEF I!Labels
  <2> QED BY <2>1, <2>2 DEF I!RW!EnterExclusive
<1>10. ASSUME NEW t \in Threads, I!unlock(t) PROVE I!RW!LeaveExclusive(t)
  <2>1. t \notin I!Sharers /\ t \in I!Exclusive /\ I!Goto(t, "idle")
    BY <1>10 DEF I!unlock, I!At, I!Sharers, I!Exclusive
  <2>2. I!Sharers' = I!Sharers \ {t} /\ I!Exclusive' = I!Exclusive \ {t}
    BY <2>1, IntentMoves DEF I!Labels
  <2> QED BY <2>1, <2>2 DEF I!RW!LeaveExclusive
<1>11. CASE UNCHANGED I!vars
  BY <1>11, <1>3 DEF I!vars, I!Sharers, I!Exclusive
<1> QED BY <1>4, <1>5, <1>6, <1>7, <1>8, <1>9, <1>10, <1>11 DEF I!Next, I!Ends, I!RW!Next

\* The intention lock implements RWLock, a prompt being the end of a share and
\* the entry of an exclusive holder.
THEOREM IntentRefines == I!Spec => I!ImplementsRWLock
<1>1. I!Init => I!RW!Init
  BY DEF I!Init, I!RW!Init, I!Sharers, I!Exclusive
<1>2. IntentInv /\ [I!Next]_(I!vars) => [I!RW!Next]_(I!RW!vars)
  BY IntentSimulates
<1> QED BY <1>1, <1>2, IntentInvariant, PTL DEF I!Spec, I!ImplementsRWLock, I!RW!Spec
-----------------------------------------------------------------------------
(***************************************************************************)
(* The locks side by side.  A behaviour of MCLocks is one of each lock, if *)
(* the others stand still; so what was proved of each holds of it.         *)
(***************************************************************************)
LEMMA SharedIsShared ==
  /\ S!Init <=> SP!Init
  /\ [S!Next]_svars <=> [SP!Next]_(SP!vars)
  /\ SP!WordIsExact <=> S!WordIsExact
<1>1. S!Init <=> SP!Init
  BY DEF S!Init, SP!Init
<1>2. S!Next <=> SP!Next
  BY DEF S!Next, SP!Next, S!lock, SP!lock, S!try_lock, SP!try_lock, S!lock_shared, SP!lock_shared,
         S!try_lock_shared, SP!try_lock_shared, S!SpinShared, SP!SpinShared, S!BackOut, SP!BackOut,
         S!unlock, SP!unlock, S!unlock_shared, SP!unlock_shared, S!At, SP!At, S!Goto, SP!Goto,
         S!FetchAdd, SP!FetchAdd, S!FetchSub, SP!FetchSub, S!FetchXor1, SP!FetchXor1,
         S!Odd, SP!Odd, S!Mod, SP!Mod
<1>3. SP!WordIsExact <=> S!WordIsExact
  BY DEF S!WordIsExact, SP!WordIsExact, S!Writers, SP!Writers, S!Counted, SP!Counted,
         S!Cardinality, SP!Cardinality
<1> QED
  BY <1>1, <1>2, <1>3 DEF svars, SP!vars

\* One lock makes a step, and the others stand still.
LEMMA EachLockSteps ==
  [LocksNext]_LocksVars =>
    [S!Next]_svars /\ [I!Next]_ivars /\ [M!Next]_(M!vars)
<1> SUFFICES ASSUME [LocksNext]_LocksVars
             PROVE  [S!Next]_svars /\ [I!Next]_ivars /\ [M!Next]_(M!vars)
  OBVIOUS
<1>1. UNCHANGED mvars => UNCHANGED M!vars
  BY DEF mvars, M!vars
<1>2. \/ S!Next /\ UNCHANGED <<ivars, mvars>>
      \/ I!Next /\ UNCHANGED <<svars, mvars>>
      \/ M!Next /\ UNCHANGED <<svars, ivars>>
      \/ UNCHANGED <<svars, ivars, mvars>>
  BY DEF LocksNext, LocksVars
<1>3. [S!Next]_svars
  BY <1>2
<1>4. [I!Next]_ivars
  BY <1>2
<1>5. [M!Next]_(M!vars)
  BY <1>1, <1>2
<1> QED
  BY <1>3, <1>4, <1>5

LEMMA WordsAssumed == SP!WordAssumption
  BY WordAssumption DEF WordAssumption, SP!WordAssumption, SP!IsFiniteSet, IsFiniteSet,
     SP!Cardinality, Cardinality

LocksInv == SP!IInv /\ IntentInv /\ SpinInv

LEMMA LocksInvariant == LocksSpec => []LocksInv
<1>1. LocksInit => LocksInv
  BY SharedIsShared, WordsAssumed, SP!InitHolds, InitIntentInv, InitSpinInv
  DEF LocksInit, LocksInv
<1>2. LocksInv /\ [LocksNext]_LocksVars => LocksInv'
  BY EachLockSteps, SharedIsShared, WordsAssumed, SP!NextKeeps, NextIntentInv,
     NextSpinInv
  DEF LocksInv, ivars, I!vars
<1> QED
  BY <1>1, <1>2, PTL DEF LocksSpec

\* The words of the shared, the intention and the spin lock always say who is
\* there, for any number of threads below half the values of a word and any number
\* of bits, whatever adds, subtractions, xors, tries and stores of 0 are in flight
\* (extend_mutex.h:60-77, 143-173, 187-213).
THEOREM LockWords == LocksSpec => []WordsAreExact
<1>1. LocksInv => WordsAreExact
  BY SharedIsShared, ExactIsExact
  DEF LocksInv, WordsAreExact, SpinInv, SP!IInv, IntentInv
<1> QED
  BY <1>1, LocksInvariant, PTL

\* The promise of the shared lock, by either name.
LEMMA SharedPromise == [SP!RW!Next]_(SP!RW!vars) => [S!RW!Next]_(S!RW!vars)
  BY DEF SP!RW!Next, S!RW!Next, SP!RW!vars, S!RW!vars, SP!RW!EnterShared, S!RW!EnterShared,
         SP!RW!EnterExclusive, S!RW!EnterExclusive, SP!RW!LeaveShared, S!RW!LeaveShared,
         SP!RW!LeaveExclusive, S!RW!LeaveExclusive, SP!RW!Outside, S!RW!Outside,
         SP!Readers, S!Readers, SP!Writers, S!Writers

\* The shared lock and the intention lock are readers-writer locks: every step of
\* their words enters, leaves or changes nothing for who is inside.
THEOREM LocksRefine == LocksSpec => ImplementRWLocks
<1>1. LocksInit => S!RW!Init /\ I!RW!Init
  BY DEF LocksInit, S!Init, I!Init, S!RW!Init, I!RW!Init, S!Readers, S!Writers, I!Sharers, I!Exclusive
<1>2. LocksInv /\ [LocksNext]_LocksVars => [S!RW!Next]_(S!RW!vars) /\ [I!RW!Next]_(I!RW!vars)
  BY EachLockSteps, SharedIsShared, WordsAssumed, SP!StepSimulates,
     IntentSimulates, SharedPromise
  DEF LocksInv, ivars, I!vars
<1> QED
  BY <1>1, <1>2, LocksInvariant, PTL
  DEF LocksSpec, ImplementRWLocks, S!ImplementsRWLock, I!ImplementsRWLock, S!RW!Spec, I!RW!Spec
=============================================================================
