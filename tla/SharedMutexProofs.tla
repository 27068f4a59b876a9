-------------------------- MODULE SharedMutexProofs --------------------------
(***************************************************************************)
(* The shared lock keeps readers and writers apart for every number of     *)
(* threads its word can count.  The invariant is that the word is exact:   *)
(* bit 0 is set just when there is a writer and the rest counts the        *)
(* readers and those on their way in or out, so that a reader that finds   *)
(* the bit clear knows that nobody writes, and a writer that finds 0 knows *)
(* that nobody reads.                                                      *)
(***************************************************************************)
EXTENDS SharedMutex, FiniteSetTheorems, TLAPS

IInv == TypeOK /\ Exclusion /\ WordIsExact

-----------------------------------------------------------------------------
(* Counting. *)

LEMMA CountFacts ==
  ASSUME NEW S \in SUBSET Threads
  PROVE  /\ IsFiniteSet(S)
         /\ Cardinality(S) \in Nat
         /\ Cardinality(S) < Half
         /\ Cardinality(S) = 0 <=> S = {}
         /\ \A t \in Threads \ S : /\ Cardinality(S \cup {t}) = Cardinality(S) + 1
                                   /\ Cardinality(S) + 1 < Half
         /\ \A t \in S : Cardinality(S \ {t}) = Cardinality(S) - 1
<1>1. IsFiniteSet(S) /\ Cardinality(S) <= Cardinality(Threads)
  BY FS_Subset, WordAssumption
<1>2. Cardinality(S) \in Nat /\ Cardinality(Threads) \in Nat
  BY <1>1, FS_CardinalityType, WordAssumption
<1>3. Cardinality(S) < Half
  BY <1>1, <1>2, WordAssumption
<1>4. Cardinality(S) = 0 <=> S = {}
  BY <1>1, FS_EmptySet
<1>5. ASSUME NEW t \in Threads \ S
      PROVE  Cardinality(S \cup {t}) = Cardinality(S) + 1 /\ Cardinality(S) + 1 < Half
  <2>1. Cardinality(S \cup {t}) = Cardinality(S) + 1
    BY <1>1, FS_AddElement
  <2>2. S \cup {t} \in SUBSET Threads
    OBVIOUS
  <2>3. Cardinality(S \cup {t}) <= Cardinality(Threads)
    BY <2>2, FS_Subset, WordAssumption
  <2> QED BY <2>1, <2>3, <1>2, WordAssumption
<1>6. ASSUME NEW t \in S
      PROVE  Cardinality(S \ {t}) = Cardinality(S) - 1
  BY <1>1, FS_RemoveElement
<1> QED BY <1>1, <1>2, <1>3, <1>4, <1>5, <1>6

LEMMA OneWriter ==
  ASSUME Exclusion
  PROVE  /\ Cardinality(Writers) \in {0, 1}
         /\ Cardinality(Writers) = 0 <=> Writers = {}
         /\ \A t \in Writers : Writers = {t}
<1>1. Writers \in SUBSET Threads
  BY DEF Writers
<1>2. CASE Writers = {}
  BY <1>1, <1>2, CountFacts
<1>3. CASE Writers # {}
  <2>1. PICK t \in Writers : TRUE
    BY <1>3
  <2>2. Writers = {t}
    BY <2>1 DEF Exclusion
  <2>3. Cardinality(Writers) = 1
    BY <2>2, FS_Singleton
  <2> QED BY <2>2, <2>3
<1> QED BY <1>2, <1>3

\* What the word tells a thread that reads it.
LEMMA WordTells ==
  ASSUME IInv
  PROVE  /\ l \in Nat
         /\ Odd(l) <=> Writers # {}
         /\ l = 0 => Writers = {} /\ Counted = {}
<1> DEFINE w == Cardinality(Writers)
           n == Cardinality(Counted)
<1>1. w \in {0, 1} /\ (w = 0 <=> Writers = {})
  BY OneWriter DEF IInv
<1>2. n \in Nat /\ (n = 0 <=> Counted = {})
  BY CountFacts DEF Counted
<1>3. l = w + 2 * n
  BY DEF IInv, WordIsExact
<1> HIDE DEF w, n
<1>4. w = 0 => (w + 2 * n) % 2 = 0
  BY <1>2
<1>5. w = 1 => (w + 2 * n) % 2 = 1
  BY <1>2
<1>6. Odd(l) <=> w = 1
  BY <1>1, <1>3, <1>4, <1>5 DEF Odd
<1>7. l \in Nat /\ (l = 0 => w = 0 /\ n = 0)
  BY <1>1, <1>2, <1>3
<1> QED BY <1>1, <1>2, <1>6, <1>7

-----------------------------------------------------------------------------
(* What a step does to the sets of threads. *)

LEMMA Moves ==
  ASSUME TypeOK, NEW t \in Threads, NEW label \in Labels, Goto(t, label)
  PROVE  /\ pc' \in [Threads -> Labels]
         /\ Writers' = IF label = "exclusive" THEN Writers \cup {t} ELSE Writers \ {t}
         /\ Readers' = IF label = "shared" THEN Readers \cup {t} ELSE Readers \ {t}
         /\ Counted' = IF label \in {"lock_shared", "shared", "back_out"}
                       THEN Counted \cup {t} ELSE Counted \ {t}
<1>1. pc' \in [Threads -> Labels] /\ pc'[t] = label
  BY DEF TypeOK, Goto
<1>2. \A u \in Threads : u # t => pc'[u] = pc[u]
  BY DEF TypeOK, Goto
<1>3. Writers' = IF label = "exclusive" THEN Writers \cup {t} ELSE Writers \ {t}
  BY <1>1, <1>2 DEF Writers
<1>4. Readers' = IF label = "shared" THEN Readers \cup {t} ELSE Readers \ {t}
  BY <1>1, <1>2 DEF Readers
<1>5. Counted' = IF label \in {"lock_shared", "shared", "back_out"}
                 THEN Counted \cup {t} ELSE Counted \ {t}
  BY <1>1, <1>2 DEF Counted
<1> QED BY <1>1, <1>3, <1>4, <1>5

\* The arithmetic of the word, away from the sets.
LEMMA WordArithmetic ==
  ASSUME NEW w \in {0, 1}, NEW n \in Nat, n < Half
  PROVE  /\ w + 2 * n \in 0 .. (Mod - 1)
         /\ n + 1 < Half => ((w + 2 * n) + 2) % Mod = w + 2 * (n + 1)
         /\ n > 0 => ((w + 2 * n) - 2) % Mod = w + 2 * (n - 1)
<1>1. Half \in Nat /\ Mod = 2 * Half /\ Mod \in Nat
  BY WordAssumption DEF Mod
<1>2. w + 2 * n \in 0 .. (Mod - 1)
  BY <1>1
<1>3. \A k \in 0 .. (Mod - 1) : k % Mod = k
  BY <1>1
<1>4. ASSUME n + 1 < Half PROVE ((w + 2 * n) + 2) % Mod = w + 2 * (n + 1)
  <2>1. (w + 2 * n) + 2 = w + 2 * (n + 1)
    OBVIOUS
  <2>2. w + 2 * (n + 1) \in 0 .. (Mod - 1)
    BY <1>1, <1>4
  <2> QED BY <2>1, <2>2, <1>3
<1>5. ASSUME n > 0 PROVE ((w + 2 * n) - 2) % Mod = w + 2 * (n - 1)
  <2>1. (w + 2 * n) - 2 = w + 2 * (n - 1)
    OBVIOUS
  <2>2. w + 2 * (n - 1) \in 0 .. (Mod - 1)
    BY <1>1, <1>5
  <2> QED BY <2>1, <2>2, <1>3
<1> QED BY <1>2, <1>4, <1>5


-----------------------------------------------------------------------------
(* The invariant is preserved. *)

LEMMA NextKeeps == IInv /\ [Next]_vars => IInv'
<1> SUFFICES ASSUME IInv, [Next]_vars PROVE IInv'
  OBVIOUS
<1> USE DEF IInv
<1> DEFINE w == Cardinality(Writers)
           n == Cardinality(Counted)
<1>1. /\ w \in {0, 1} /\ (w = 0 <=> Writers = {})
      /\ \A t \in Writers : Writers = {t}
  BY OneWriter
<1>2. n \in Nat /\ n < Half
  BY CountFacts DEF Counted
<1>3. l = w + 2 * n
  BY DEF WordIsExact
<1>4. /\ Odd(l) <=> Writers # {}
      /\ l = 0 => Writers = {} /\ Counted = {}
      /\ l \in Nat
  BY WordTells
<1>5. /\ n + 1 < Half => (l + 2) % Mod = w + 2 * (n + 1)
      /\ n > 0 => (l - 2) % Mod = w + 2 * (n - 1)
  BY <1>1, <1>2, <1>3, WordArithmetic
<1>6. /\ Counted \in SUBSET Threads /\ Readers \subseteq Counted
      /\ \A t \in Threads \ Counted : Cardinality(Counted \cup {t}) = n + 1 /\ n + 1 < Half
      /\ \A t \in Counted : Cardinality(Counted \ {t}) = n - 1 /\ n > 0
  <2>1. Counted \in SUBSET Threads /\ Readers \subseteq Counted
    BY DEF Counted, Readers
  <2>2. \A t \in Counted : n # 0
    BY <2>1, CountFacts
  <2> QED BY <2>1, <2>2, <1>2, CountFacts
<1> HIDE DEF w, n
<1>7. ASSUME NEW t \in Threads, lock(t) PROVE IInv'
  <2>1. Goto(t, "lock") /\ l' = l /\ pc[t] = "idle"
    BY <1>7 DEF lock, At
  <2>2. /\ pc' \in [Threads -> Labels] /\ Writers' = Writers \ {t}
        /\ Readers' = Readers \ {t} /\ Counted' = Counted \ {t}
    BY <2>1, Moves DEF Labels
  <2>3. Writers' = Writers /\ Readers' = Readers /\ Counted' = Counted
    BY <2>1, <2>2 DEF Writers, Readers, Counted
  <2> QED BY <2>1, <2>2, <2>3 DEF TypeOK, Exclusion, WordIsExact
<1>8. ASSUME NEW t \in Threads, try_lock(t) PROVE IInv'
  <2>1. Goto(t, "exclusive") /\ l = 0 /\ l' = 1 /\ pc[t] \in {"idle", "lock"}
    BY <1>8 DEF try_lock
  <2>2. /\ pc' \in [Threads -> Labels] /\ Writers' = Writers \cup {t}
        /\ Readers' = Readers \ {t} /\ Counted' = Counted \ {t}
    BY <2>1, Moves DEF Labels
  <2>3. Writers' = {t} /\ Readers' = {} /\ Counted' = {}
    BY <2>1, <2>2, <1>4, <1>6
  <2>4. Cardinality(Writers') = 1 /\ Cardinality(Counted') = 0
    BY <2>3, FS_Singleton, FS_EmptySet
  <2>5. l' \in 0 .. (Mod - 1) /\ WordIsExact'
    BY <2>1, <2>4, <1>2, WordAssumption DEF Mod, WordIsExact
  <2> QED BY <2>2, <2>3, <2>5 DEF TypeOK, Exclusion
<1>9. ASSUME NEW t \in Threads, At(t, "idle"), FetchAdd(2),
             \/ Goto(t, "shared") /\ ~Odd(l)
             \/ \E label \in {"lock_shared", "back_out"} : Goto(t, label)
      PROVE  IInv'
  <2>1. t \notin Counted /\ t \notin Writers
    BY <1>9 DEF Counted, Writers, At
  <2>2. PICK label \in {"shared", "lock_shared", "back_out"} :
          Goto(t, label) /\ (label = "shared" => ~Odd(l))
    BY <1>9
  <2>3. /\ pc' \in [Threads -> Labels] /\ Writers' = Writers \ {t}
        /\ Readers' = IF label = "shared" THEN Readers \cup {t} ELSE Readers \ {t}
        /\ Counted' = Counted \cup {t}
    BY <2>2, Moves DEF Labels
  <2>4. Writers' = Writers /\ (Readers' # Readers \ {t} => Writers' = {})
    BY <2>1, <2>2, <2>3, <1>4
  <2>5. Cardinality(Counted') = n + 1 /\ n + 1 < Half
    BY <2>1, <2>3, <1>6
  <2>6. l' = w + 2 * (n + 1)
    BY <2>5, <1>5, <1>9 DEF FetchAdd
  <2>7. WordIsExact'
    BY <2>4, <2>5, <2>6 DEF WordIsExact, w
  <2>8. l' \in 0 .. (Mod - 1)
    BY <2>5, <2>6, <1>1, <1>2, WordArithmetic
  <2>9. Exclusion'
    BY <2>4 DEF Exclusion
  <2> QED BY <2>3, <2>7, <2>8, <2>9 DEF TypeOK
<1>10. ASSUME NEW t \in Threads, SpinShared(t) PROVE IInv'
  <2>1. Goto(t, "shared") /\ l' = l /\ ~Odd(l) /\ pc[t] = "lock_shared"
    BY <1>10 DEF SpinShared, At
  <2>2. /\ pc' \in [Threads -> Labels] /\ Writers' = Writers \ {t}
        /\ Counted' = Counted \cup {t}
    BY <2>1, Moves DEF Labels
  <2>3. Writers' = {} /\ Writers' = Writers /\ Counted' = Counted
    BY <2>1, <2>2, <1>4 DEF Counted
  <2> QED BY <2>1, <2>2, <2>3 DEF TypeOK, Exclusion, WordIsExact
<1>11. ASSUME NEW t \in Counted, Goto(t, "idle"), FetchSub(2) PROVE IInv'
  <2>1. t \in Threads /\ t \notin Writers
    BY <1>11 DEF Counted, Writers
  <2>2. /\ pc' \in [Threads -> Labels] /\ Writers' = Writers \ {t}
        /\ Readers' = Readers \ {t} /\ Counted' = Counted \ {t}
    BY <2>1, <1>11, Moves DEF Labels
  <2>3. Writers' = Writers
    BY <2>1, <2>2
  <2>4. Cardinality(Counted') = n - 1 /\ n > 0
    BY <2>2, <1>6, <1>11
  <2>5. l' = w + 2 * (n - 1)
    BY <2>4, <1>5, <1>11 DEF FetchSub
  <2>6. WordIsExact'
    BY <2>3, <2>4, <2>5 DEF WordIsExact, w
  <2>7. n - 1 \in Nat /\ n - 1 < Half
    BY <2>4, <1>2, WordAssumption
  <2>8. l' \in 0 .. (Mod - 1)
    BY <2>5, <2>7, <1>1, WordArithmetic
  <2> QED BY <2>2, <2>3, <2>6, <2>8 DEF TypeOK, Exclusion
<1>12. ASSUME NEW t \in Threads, unlock(t) PROVE IInv'
  <2>1. Goto(t, "idle") /\ t \in Writers /\ t \notin Counted /\ FetchXor1
    BY <1>12 DEF unlock, At, Writers, Counted
  <2>2. /\ pc' \in [Threads -> Labels] /\ Writers' = Writers \ {t}
        /\ Readers' = Readers \ {t} /\ Counted' = Counted \ {t}
    BY <2>1, Moves DEF Labels
  <2>3. Writers' = {} /\ Counted' = Counted
    BY <2>1, <2>2, <1>1
  <2>4. l' = l - 1 /\ w = 1
    BY <2>1, <1>1, <1>4 DEF FetchXor1
  <2>5. l' = 0 + 2 * n /\ Cardinality(Writers') = 0
    BY <2>3, <2>4, <1>2, <1>3, FS_EmptySet
  <2>6. WordIsExact'
    BY <2>3, <2>5 DEF WordIsExact, n
  <2>7. l' \in 0 .. (Mod - 1)
    BY <2>5, <1>2, WordArithmetic
  <2> QED BY <2>2, <2>3, <2>6, <2>7 DEF TypeOK, Exclusion
<1>13. CASE UNCHANGED vars
  BY <1>13 DEF vars, TypeOK, Exclusion, WordIsExact, Writers, Readers, Counted
<1> QED
  <2>1. ASSUME NEW t \in Threads, lock_shared(t) \/ try_lock_shared(t) PROVE IInv'
    BY <2>1, <1>9 DEF lock_shared, try_lock_shared
  <2>2. ASSUME NEW t \in Threads, BackOut(t) \/ unlock_shared(t) PROVE IInv'
    BY <2>2, <1>11 DEF BackOut, unlock_shared, At, Counted
  <2> QED BY <1>7, <1>8, <1>10, <1>12, <1>13, <2>1, <2>2 DEF Next

LEMMA InitHolds == Init => IInv
<1> SUFFICES ASSUME Init PROVE IInv
  OBVIOUS
<1>1. TypeOK
  BY WordAssumption, FS_CardinalityType DEF Init, TypeOK, Labels, Mod
<1>2. Writers = {} /\ Readers = {} /\ Counted = {}
  BY DEF Init, Writers, Readers, Counted
<1>3. Exclusion /\ WordIsExact
  BY <1>2, FS_EmptySet DEF Init, Exclusion, WordIsExact
<1> QED BY <1>1, <1>3 DEF IInv

LEMMA Invariance == Spec => []IInv
BY InitHolds, NextKeeps, PTL DEF Spec

-----------------------------------------------------------------------------
\* Every variable has its type, in particular the word does not overflow.
THEOREM TypeCorrect == Spec => []TypeOK
BY Invariance, PTL DEF IInv

\* Writers and readers are never inside together, nor two writers: lock(),
\* lock_shared() and the two tries exclude one another for any number of threads
\* below half the values of the word.
THEOREM MutualExclusion == Spec => []Exclusion
BY Invariance, PTL DEF IInv

\* The word always says who is there: no interleaving of the adds, subtractions
\* and xors of lines 143-173 loses an announcement or leaves one behind.
THEOREM ExactWord == Spec => []WordIsExact
BY Invariance, PTL DEF IInv


-----------------------------------------------------------------------------
(* The shared lock implements a readers-writer lock. *)

LEMMA StepSimulates == IInv /\ [Next]_vars => [RW!Next]_(RW!vars)
<1> SUFFICES ASSUME IInv, [Next]_vars PROVE [RW!Next]_(RW!vars)
  OBVIOUS
<1> USE DEF IInv
<1>1. /\ \A t \in Writers : Writers = {t}
      /\ Odd(l) <=> Writers # {}
      /\ l = 0 => Writers = {} /\ Counted = {}
  BY OneWriter, WordTells
<1>2. Readers \subseteq Counted
  BY DEF Readers, Counted
<1>3. ASSUME Readers' = Readers, Writers' = Writers PROVE RW!vars' = RW!vars
  BY <1>3 DEF RW!vars
<1>4. ASSUME NEW t \in Threads, lock(t) \/ BackOut(t) PROVE RW!vars' = RW!vars
  <2>1. /\ t \notin Readers /\ t \notin Writers
        /\ \E label \in {"lock", "idle"} : Goto(t, label)
    BY <1>4 DEF lock, BackOut, At, Readers, Writers
  <2>2. Readers' = Readers \ {t} /\ Writers' = Writers \ {t}
    BY <2>1, Moves DEF Labels
  <2> QED BY <2>1, <2>2, <1>3
<1>5. ASSUME NEW t \in Threads, try_lock(t) PROVE RW!EnterExclusive(t)
  <2>1. Goto(t, "exclusive") /\ Writers = {} /\ Readers = {}
    BY <1>5, <1>1, <1>2 DEF try_lock
  <2>2. Readers' = Readers \ {t} /\ Writers' = Writers \cup {t}
    BY <2>1, Moves DEF Labels
  <2> QED BY <2>1, <2>2 DEF RW!EnterExclusive
<1>6. ASSUME NEW t \in Threads, lock_shared(t) \/ try_lock_shared(t) \/ SpinShared(t)
      PROVE  RW!EnterShared(t) \/ RW!vars' = RW!vars
  <2>1. /\ t \notin Readers /\ t \notin Writers
        /\ \/ Goto(t, "shared") /\ ~Odd(l)
           \/ \E label \in {"lock_shared", "back_out"} : Goto(t, label)
    BY <1>6 DEF lock_shared, try_lock_shared, SpinShared, At, Readers, Writers
  <2>2. CASE Goto(t, "shared") /\ ~Odd(l)
    <3>1. Readers' = Readers \cup {t} /\ Writers' = Writers \ {t} /\ Writers = {}
      BY <2>2, <1>1, Moves DEF Labels
    <3> QED BY <3>1, <2>1 DEF RW!EnterShared, RW!Outside
  <2>3. CASE \E label \in {"lock_shared", "back_out"} : Goto(t, label)
    <3>1. Readers' = Readers \ {t} /\ Writers' = Writers \ {t}
      BY <2>3, Moves DEF Labels
    <3> QED BY <3>1, <2>1, <1>3
  <2> QED BY <2>1, <2>2, <2>3
<1>7. ASSUME NEW t \in Threads, unlock(t) PROVE RW!LeaveExclusive(t)
  <2>1. Goto(t, "idle") /\ t \in Writers /\ t \notin Readers
    BY <1>7 DEF unlock, At, Writers, Readers
  <2>2. Readers' = Readers \ {t} /\ Writers' = Writers \ {t}
    BY <2>1, Moves DEF Labels
  <2> QED BY <2>1, <2>2 DEF RW!LeaveExclusive
<1>8. ASSUME NEW t \in Threads, unlock_shared(t) PROVE RW!LeaveShared(t)
  <2>1. Goto(t, "idle") /\ t \notin Writers /\ t \in Readers
    BY <1>8 DEF unlock_shared, At, Writers, Readers
  <2>2. Readers' = Readers \ {t} /\ Writers' = Writers \ {t}
    BY <2>1, Moves DEF Labels
  <2> QED BY <2>1, <2>2 DEF RW!LeaveShared
<1>9. CASE UNCHANGED vars
  BY <1>9, <1>3 DEF vars, Readers, Writers
<1> QED BY <1>4, <1>5, <1>6, <1>7, <1>8, <1>9 DEF Next, RW!Next

\* The word of the shared lock implements RWLock: every step of it enters, leaves
\* or changes nothing for who is inside.
THEOREM Refinement == Spec => ImplementsRWLock
<1>1. Init => RW!Init
  BY DEF Init, RW!Init, Readers, Writers
<1>2. IInv /\ [Next]_vars => [RW!Next]_(RW!vars)
  BY StepSimulates
<1> QED BY <1>1, <1>2, Invariance, PTL DEF Spec, ImplementsRWLock, RW!Spec
=============================================================================
