----------------------------- MODULE PartsProofs -----------------------------
(***************************************************************************)
(* Theorems about the small components that MCParts puts side by side, for *)
(* any values of their constants: cached_bind, LRUCache, SegAllocator,     *)
(* run_test_task of mbench.h, and the free list and the producer table of  *)
(* moodycamel.h.                                                           *)
(***************************************************************************)
EXTENDS CachedBind, SegAllocator, LRUCache, MBench, FreeList, ProducerHash,
        SequenceTheorems, FiniteSetTheorems, WellFoundedInduction, TLAPS

(***************************************************************************)
(* cached_bind.  What the map holds for some arguments is the function's   *)
(* result; or it is the default value that an early evaluation of the left *)
(* operand left there, and then a call for these arguments is still under  *)
(* way or was left by throwing.                                            *)
(***************************************************************************)
BindTypes ==
  /\ left_first \in BOOLEAN
  /\ stack \in Seq(Args)
  /\ DOMAIN cache_map \subseteq Args
  /\ cache_map = [a \in DOMAIN cache_map |-> cache_map[a]]

KeptIsHonest ==
  \A a \in DOMAIN cache_map :
    \/ cache_map[a] = Result(a)
    \/ /\ left_first /\ cache_map[a] = Default
       /\ a \in threw \/ \E i \in 1 .. Len(stack) : stack[i] = a

BindInv == BindTypes /\ KeptIsHonest /\ AnswersAreResults
-----------------------------------------------------------------------------
\* Before the first call the map and the stack are empty.
LEMMA InitBindInv == BindInit => BindInv
  BY DEF BindInit, BindInv, BindTypes, KeptIsHonest, AnswersAreResults

\* Every call, return and throw preserves the invariant.
LEMMA NextBindInv == BindInv /\ [BindNext]_bindvars => BindInv'
<1> SUFFICES ASSUME BindInv, [BindNext]_bindvars PROVE BindInv'
  OBVIOUS
<1> USE DEF BindInv, BindTypes
<1>1. ASSUME NEW args \in Calls, Hit(args) PROVE BindInv'
  <2>1. BindTypes' /\ KeptIsHonest'
    BY <1>1 DEF Hit, KeptIsHonest
  <2>2. args \in Args /\ \A i \in 1 .. Len(stack) : stack[i] # args
    BY DEF Calls
  <2>3. AnswersAreResults'
    BY <1>1, <2>2 DEF Hit, KeptIsHonest, AnswersAreResults
  <2> QED
    BY <2>1, <2>3
<1>2. ASSUME NEW args \in Calls, Miss(args) PROVE BindInv'
  <2>1. args \in Args /\ Len(stack) \in Nat
    BY DEF Calls
  <2>2. BindTypes'
    BY <1>2, <2>1 DEF Miss, Store
  <2>3. \A i \in 1 .. Len(stack) : i \in 1 .. Len(stack') /\ stack'[i] = stack[i]
    BY <1>2, <2>1 DEF Miss
  <2>4. Len(stack') \in 1 .. Len(stack') /\ stack'[Len(stack')] = args
    BY <1>2, <2>1 DEF Miss
  <2>5. KeptIsHonest'
    BY <1>2, <2>3, <2>4 DEF Miss, Store, KeptIsHonest
  <2>6. AnswersAreResults'
    BY <1>2 DEF Miss, AnswersAreResults
  <2> QED
    BY <2>2, <2>5, <2>6
<1>3. CASE Finish
  <2>1. Len(stack) \in Nat \ {0} /\ Inner \in Args
    BY <1>3 DEF Finish, Inner
  <2>2. BindTypes'
    BY <1>3, <2>1 DEF Finish, Store, Pop1
  <2>3. \A i \in 1 .. Len(stack) : i # Len(stack) =>
          i \in 1 .. Len(stack') /\ stack'[i] = stack[i]
    BY <1>3, <2>1 DEF Finish, Pop1
  <2>4. KeptIsHonest'
    BY <1>3, <2>3 DEF Finish, Store, Inner, KeptIsHonest
  <2>5. AnswersAreResults'
    BY <1>3 DEF Finish, AnswersAreResults
  <2> QED
    BY <2>2, <2>4, <2>5
<1>4. CASE Throw
  <2>1. Len(stack) \in Nat \ {0} /\ Inner \in Args
    BY <1>4 DEF Throw, Inner
  <2>2. BindTypes'
    BY <1>4, <2>1 DEF Throw, Pop1
  <2>3. \A i \in 1 .. Len(stack) : i # Len(stack) =>
          i \in 1 .. Len(stack') /\ stack'[i] = stack[i]
    BY <1>4, <2>1 DEF Throw, Pop1
  <2>4. KeptIsHonest'
    BY <1>4, <2>3 DEF Throw, Inner, KeptIsHonest
  <2>5. AnswersAreResults'
    BY <1>4 DEF Throw, AnswersAreResults
  <2> QED
    BY <2>2, <2>4, <2>5
<1>5. CASE UNCHANGED bindvars
  BY <1>5 DEF bindvars, KeptIsHonest, AnswersAreResults
<1> QED
  BY <1>1, <1>2, <1>3, <1>4, <1>5 DEF BindNext

\* A cached function answers what the function itself would, however its calls
\* are nested and whichever of them throw; only a compiler that evaluates
\* cache_map[tu] first can make it answer with a default value, and only for
\* arguments whose call threw (cache.h lines 77-84).
THEOREM CachedIsResult == BindSpec => []AnswersAreResults
<1>1. BindInv => AnswersAreResults
  BY DEF BindInv
<1> QED
  BY <1>1, InitBindInv, NextBindInv, PTL DEF BindSpec
-----------------------------------------------------------------------------
(***************************************************************************)
(* LRUCache.  The list holds each node once and each node another key, and *)
(* the map leads from every key to the node that holds it.                 *)
(***************************************************************************)
LruTypes ==
  /\ elem \in Seq(Keys)
  /\ lru_list \in Seq(1 .. Len(elem))
  /\ cache \in [DOMAIN cache -> [node : 1 .. Len(elem), value : Values]]

EachNodeOnce ==
  /\ Len(lru_list) = Len(elem) /\ Len(elem) <= Capacity
  /\ \A i, j \in 1 .. Len(lru_list) : lru_list[i] = lru_list[j] => i = j
  /\ \A n \in 1 .. Len(elem) : \E i \in 1 .. Len(lru_list) : lru_list[i] = n

MapMatchesNodes ==
  /\ \A k \in DOMAIN cache : elem[cache[k].node] = k
  /\ \A n \in 1 .. Len(elem) : elem[n] \in DOMAIN cache /\ cache[elem[n]].node = n

LruInv == LruTypes /\ EachNodeOnce /\ MapMatchesNodes
-----------------------------------------------------------------------------
\* Removing position p closes the gap.
LEMMA RemoveAtProperties ==
  ASSUME NEW S, NEW q \in Seq(S), NEW p \in 1 .. Len(q)
  PROVE  /\ RemoveAt(q, p) \in Seq(S)
         /\ Len(RemoveAt(q, p)) = Len(q) - 1
         /\ \A i \in 1 .. Len(q) - 1 : RemoveAt(q, p)[i] = IF i < p THEN q[i] ELSE q[i + 1]
<1> DEFINE a == SubSeq(q, 1, p - 1)
           b == SubSeq(q, p + 1, Len(q))
<1>1. /\ a \in Seq(S) /\ Len(a) = p - 1
      /\ \A i \in 1 .. p - 1 : a[i] = q[i]
  OBVIOUS
<1>2. /\ b \in Seq(S) /\ Len(b) = Len(q) - p
      /\ \A i \in 1 .. Len(q) - p : b[i] = q[p + i]
  OBVIOUS
<1> HIDE DEF a, b
<1>3. RemoveAt(q, p) = a \o b
  BY DEF RemoveAt, a, b
<1>4. /\ a \o b \in Seq(S) /\ Len(a \o b) = Len(a) + Len(b)
      /\ \A i \in 1 .. Len(a) + Len(b) : (a \o b)[i] =
           IF i <= Len(a) THEN a[i] ELSE b[i - Len(a)]
  BY <1>1, <1>2, ConcatProperties
<1>5. Len(q) \in Nat /\ Len(a) + Len(b) = Len(q) - 1
  BY <1>1, <1>2
<1>6. ASSUME NEW i \in 1 .. Len(q) - 1
      PROVE  (a \o b)[i] = IF i < p THEN q[i] ELSE q[i + 1]
  <2>1. CASE i < p
    BY <1>1, <1>4, <1>5, <2>1
  <2>2. CASE i >= p
    <3> DEFINE j == i - Len(a)
    <3>1. j \in 1 .. Len(q) - p /\ p + j = i + 1
      BY <1>1, <1>5, <2>2
    <3>2. (a \o b)[i] = b[j]
      BY <1>1, <1>4, <1>5, <2>2
    <3> HIDE DEF j
    <3>3. b[j] = q[i + 1]
      BY <1>2, <3>1
    <3> QED
      BY <1>5, <2>2, <3>2, <3>3
  <2> QED
    BY <1>5, <2>1, <2>2
<1> QED
  BY <1>3, <1>4, <1>5, <1>6

\* q with e in front, in place of its element at p.  For two sequences: the first
\* m elements of f differ; they are all in g; g is f with that element moved.
Fronted(q, e, p) == <<e>> \o RemoveAt(q, p)
Covers(g, f, m) == \A i \in 1 .. m : \E j \in 1 .. m : g[j] = f[i]
OneToOne(f, m) == \A i, j \in 1 .. m : f[i] = f[j] => i = j
FrontOf(g, f, e, p, m) ==
  \A i \in 1 .. m : g[i] = IF i = 1 THEN e ELSE IF i <= p THEN f[i - 1] ELSE f[i]

\* Moving an element to the front shifts those that were before it.
LEMMA FrontProperties ==
  ASSUME NEW S, NEW q \in Seq(S), NEW e \in S, NEW p \in 1 .. Len(q)
  PROVE  /\ Fronted(q, e, p) \in Seq(S) /\ Len(Fronted(q, e, p)) = Len(q)
         /\ FrontOf(Fronted(q, e, p), q, e, p, Len(q))
<1> DEFINE r == RemoveAt(q, p)
<1>1. /\ r \in Seq(S) /\ Len(r) = Len(q) - 1
      /\ \A i \in 1 .. Len(q) - 1 : r[i] = IF i < p THEN q[i] ELSE q[i + 1]
  BY RemoveAtProperties
<1> HIDE DEF r
<1>2. <<e>> \in Seq(S) /\ Len(<<e>>) = 1 /\ <<e>>[1] = e
  OBVIOUS
<1>3. /\ <<e>> \o r \in Seq(S) /\ Len(<<e>> \o r) = 1 + Len(r)
      /\ \A i \in 1 .. 1 + Len(r) : (<<e>> \o r)[i] = IF i <= 1 THEN <<e>>[i] ELSE r[i - 1]
  BY <1>1, <1>2, ConcatProperties
<1> QED
  BY <1>1, <1>2, <1>3 DEF r, FrontOf, Fronted

\* The map has as many entries as there are nodes: cache.size() is their number.
LEMMA SizeIsNodes == LruInv => Cardinality(DOMAIN cache) = Len(elem)
<1> SUFFICES ASSUME LruInv PROVE Cardinality(DOMAIN cache) = Len(elem)
  OBVIOUS
<1> USE DEF LruInv, LruTypes
<1>1. elem \in [1 .. Len(elem) -> DOMAIN cache]
  BY DEF MapMatchesNodes
<1>2. \A m, n \in 1 .. Len(elem) : elem[m] = elem[n] => m = n
  BY DEF MapMatchesNodes
<1>3. \A k \in DOMAIN cache : \E n \in 1 .. Len(elem) : elem[n] = k
  BY DEF MapMatchesNodes
<1>4. elem \in Bijection(1 .. Len(elem), DOMAIN cache)
  BY <1>1, <1>2, <1>3 DEF Bijection, Injection, Surjection, IsInjective
<1> QED
  BY <1>4, FS_CountingElements DEF ExistsBijection

\* The place where the iterator of a key stands.
LEMMA PositionIsThere ==
  ASSUME LruInv, NEW n \in 1 .. Len(elem)
  PROVE  Position(n) \in 1 .. Len(lru_list) /\ lru_list[Position(n)] = n
<1>1. DOMAIN lru_list = 1 .. Len(lru_list) /\ Len(lru_list) = Len(elem)
  BY DEF LruInv, LruTypes, EachNodeOnce
<1>2. \E i \in DOMAIN lru_list : lru_list[i] = n
  BY <1>1 DEF LruInv, EachNodeOnce
<1> QED
  BY <1>1, <1>2 DEF Position

\* Moving one of m numbered things to the front keeps a numbering of them.
LEMMA FrontNumbers ==
  \A m \in Nat : \A f, g, e : \A p \in 1 .. m :
    OneToOne(f, m) /\ f[p] = e /\ FrontOf(g, f, e, p, m) =>
      OneToOne(g, m) /\ Covers(g, f, m)
<1> SUFFICES ASSUME NEW m \in Nat, NEW p \in 1 .. m, NEW f, NEW g, NEW e,
                    OneToOne(f, m), f[p] = e, FrontOf(g, f, e, p, m)
             PROVE  OneToOne(g, m) /\ Covers(g, f, m)
  OBVIOUS
<1> DEFINE from(i) == IF i = 1 THEN p ELSE IF i <= p THEN i - 1 ELSE i
<1>1. \A i \in 1 .. m : from(i) \in 1 .. m /\ g[i] = f[from(i)]
  BY DEF FrontOf
<1>2. \A i, j \in 1 .. m : from(i) = from(j) => i = j
  OBVIOUS
<1>3. \A i \in 1 .. m : \E j \in 1 .. m : from(j) = i
  <2> TAKE i \in 1 .. m
  <2>1. CASE i = p
    <3>1. 1 \in 1 .. m /\ from(1) = i
      BY <2>1
    <3> QED
      BY <3>1
  <2>2. CASE i < p
    <3>1. i + 1 \in 1 .. m /\ from(i + 1) = i
      BY <2>2
    <3> QED
      BY <3>1
  <2>3. CASE i > p
    <3>1. from(i) = i
      BY <2>3
    <3> QED
      BY <3>1
  <2> QED
    BY <2>1, <2>2, <2>3
<1> HIDE DEF from
<1>4. ASSUME NEW i \in 1 .. m, NEW j \in 1 .. m, g[i] = g[j] PROVE i = j
  <2>1. from(i) \in 1 .. m /\ from(j) \in 1 .. m /\ f[from(i)] = f[from(j)]
    BY <1>1, <1>4
  <2>2. from(i) = from(j)
    BY <2>1 DEF OneToOne
  <2> QED
    BY <1>2, <2>2
<1>5. ASSUME NEW i \in 1 .. m PROVE \E j \in 1 .. m : g[j] = f[i]
  <2>1. PICK j \in 1 .. m : from(j) = i
    BY <1>3
  <2> QED
    BY <1>1, <2>1
<1> QED
  BY <1>4, <1>5 DEF OneToOne, Covers

\* The list after a node was moved to the front: the same nodes, that one first.
LEMMA ToFrontProperties ==
  ASSUME LruInv, NEW n \in 1 .. Len(elem)
  PROVE  /\ ToFront(n) \in Seq(1 .. Len(elem)) /\ Len(ToFront(n)) = Len(elem)
         /\ FrontOf(ToFront(n), lru_list, n, Position(n), Len(elem))
         /\ OneToOne(ToFront(n), Len(elem))
         /\ \A m \in 1 .. Len(elem) : \E i \in 1 .. Len(elem) : ToFront(n)[i] = m
<1> DEFINE p == Position(n)
           m == Len(elem)
           g == ToFront(n)
           Ids == 1 .. m
<1>1. m \in Nat /\ Len(lru_list) = m /\ lru_list \in Seq(Ids)
  BY DEF LruInv, LruTypes, EachNodeOnce
<1>2. p \in 1 .. m /\ lru_list[p] = n /\ n \in Ids
  BY <1>1, PositionIsThere
<1>3. /\ OneToOne(lru_list, m)
      /\ \A x \in 1 .. m : \E i \in 1 .. m : lru_list[i] = x
  BY <1>1 DEF LruInv, EachNodeOnce, OneToOne
<1>4. g = Fronted(lru_list, n, p)
  BY DEF ToFront, Fronted
<1> HIDE DEF p, m, g, Ids
<1>5. g \in Seq(Ids) /\ Len(g) = m /\ FrontOf(g, lru_list, n, p, m)
  <2>1. p \in 1 .. Len(lru_list)
    BY <1>1, <1>2
  <2> QED
    BY <1>1, <1>2, <1>4, <2>1, FrontProperties
<1>6. OneToOne(g, m) /\ Covers(g, lru_list, m)
  <2>1. m \in Nat /\ p \in 1 .. m /\ lru_list[p] = n
    BY <1>1, <1>2
  <2>2. OneToOne(lru_list, m) /\ FrontOf(g, lru_list, n, p, m)
    BY <1>3, <1>5
  <2> QED
    BY <2>1, <2>2, FrontNumbers
<1>7. \A x \in 1 .. m : \E i \in 1 .. m : g[i] = x
  BY <1>3, <1>6 DEF Covers
<1> QED
  BY <1>5, <1>6, <1>7 DEF p, m, g, Ids

\* A step that moves a node to the front and makes none.
LEMMA MovedToFront ==
  ASSUME LruInv, NEW n \in 1 .. Len(elem),
         lru_list' = ToFront(n), Len(elem') = Len(elem)
  PROVE  EachNodeOnce' /\ lru_list' \in Seq(1 .. Len(elem'))
<1>1. Len(elem) <= Capacity
  BY DEF LruInv, EachNodeOnce
<1> DEFINE m == Len(elem)
           g == ToFront(n)
<1>2. /\ g \in Seq(1 .. m) /\ Len(g) = m
      /\ \A i, j \in 1 .. m : g[i] = g[j] => i = j
      /\ \A x \in 1 .. m : \E i \in 1 .. m : g[i] = x
  BY ToFrontProperties DEF OneToOne
<1>3. lru_list' = g /\ Len(elem') = m
  OBVIOUS
<1> HIDE DEF m, g
<1> QED
  BY <1>1, <1>2, <1>3 DEF EachNodeOnce, m
-----------------------------------------------------------------------------
\* An empty cache.
LEMMA InitLruInv == LruInit => LruInv
  BY CapacityAssumption
  DEF LruInit, LruInv, LruTypes, EachNodeOnce, MapMatchesNodes

\* Every put and get preserves the invariant, one step per case of them.
LEMMA NextLruInv == LruInv /\ [LruNext]_lruvars => LruInv'
<1> SUFFICES ASSUME LruInv, [LruNext]_lruvars PROVE LruInv'
  OBVIOUS
<1> USE DEF LruInv, LruTypes
<1>1. ASSUME NEW k \in Keys, NEW v \in Values, PutOld(k, v) PROVE LruInv'
  <2>1. cache[k].node \in 1 .. Len(elem) /\ UNCHANGED elem
    BY <1>1 DEF PutOld
  <2>2. lru_list' = ToFront(cache[k].node)
    BY <1>1 DEF PutOld
  <2>3. EachNodeOnce' /\ lru_list' \in Seq(1 .. Len(elem))
    BY <2>1, <2>2, MovedToFront
  <2>4. /\ DOMAIN cache' = DOMAIN cache
        /\ \A x \in DOMAIN cache : cache'[x].node = cache[x].node
        /\ cache' \in [DOMAIN cache -> [node : 1 .. Len(elem), value : Values]]
    BY <1>1 DEF PutOld
  <2> QED
    BY <2>1, <2>3, <2>4 DEF MapMatchesNodes
<1>2. ASSUME NEW k \in Keys, NEW v \in Values, PutEvicting(k, v) PROVE LruInv'
  <2> DEFINE n == Last(lru_list)
             gone == elem[n]
  <2>1. Len(elem) = Capacity /\ Len(elem) \in Nat \ {0}
    BY <1>2, SizeIsNodes, CapacityAssumption DEF PutEvicting
  <2>2. n \in 1 .. Len(elem)
    BY <2>1 DEF EachNodeOnce, Last
  <2> HIDE DEF n
  <2>3. lru_list' = ToFront(n) /\ elem' = [elem EXCEPT ![n] = k] /\ k \notin DOMAIN cache
    BY <1>2 DEF PutEvicting, n
  <2>4. elem' \in Seq(Keys) /\ Len(elem') = Len(elem)
    BY <2>2, <2>3
  <2>5. EachNodeOnce' /\ lru_list' \in Seq(1 .. Len(elem'))
    BY <2>2, <2>3, <2>4, MovedToFront
  <2>6. /\ DOMAIN cache' = (DOMAIN cache \ {gone}) \cup {k}
        /\ cache'[k] = [node |-> n, value |-> v]
        /\ \A x \in DOMAIN cache \ {gone} : cache'[x] = cache[x]
    BY <1>2, <2>3 DEF PutEvicting, Keep, n
  <2>7. cache' \in [DOMAIN cache' -> [node : 1 .. Len(elem'), value : Values]]
    <3>1. cache' = [x \in DOMAIN cache' |-> cache'[x]]
      BY <1>2 DEF PutEvicting, Keep
    <3>2. \A x \in DOMAIN cache' : cache'[x] \in [node : 1 .. Len(elem'), value : Values]
      BY <2>2, <2>4, <2>6
    <3> QED
      BY <3>1, <3>2
  <2>8. MapMatchesNodes'
    <3>1. \A x \in DOMAIN cache \ {gone} : cache[x].node # n
      BY DEF MapMatchesNodes
    <3>2. ASSUME NEW x \in DOMAIN cache' PROVE elem'[cache'[x].node] = x
      <4>1. CASE x = k
        BY <2>2, <2>3, <2>6, <4>1
      <4>2. CASE x # k
        <5>1. x \in DOMAIN cache \ {gone} /\ cache'[x] = cache[x]
          BY <2>6, <4>2
        <5>2. cache[x].node \in 1 .. Len(elem) /\ elem[cache[x].node] = x
          BY <5>1 DEF MapMatchesNodes
        <5> QED
          BY <2>3, <3>1, <5>1, <5>2
      <4> QED
        BY <4>1, <4>2
    <3>3. ASSUME NEW m \in 1 .. Len(elem')
          PROVE  elem'[m] \in DOMAIN cache' /\ cache'[elem'[m]].node = m
      <4>1. CASE m = n
        BY <2>2, <2>3, <2>6, <4>1
      <4>2. CASE m # n
        <5>1. elem'[m] = elem[m] /\ elem[m] \in DOMAIN cache /\ cache[elem[m]].node = m
          BY <2>3, <2>4, <4>2 DEF MapMatchesNodes
        <5>2. elem[m] # gone
          BY <2>2, <4>2, <5>1 DEF MapMatchesNodes
        <5> QED
          BY <2>6, <5>1, <5>2
      <4> QED
        BY <4>1, <4>2
    <3> QED
      BY <3>2, <3>3 DEF MapMatchesNodes
  <2> QED
    BY <2>4, <2>5, <2>7, <2>8
<1>3. ASSUME NEW k \in Keys, NEW v \in Values, PutNew(k, v) PROVE LruInv'
  <2> DEFINE n == Len(elem) + 1
  <2>1. Len(elem) < Capacity /\ k \notin DOMAIN cache
    BY <1>3, SizeIsNodes, CapacityAssumption DEF PutNew, EachNodeOnce
  <2>2. elem' = Append(elem, k) /\ lru_list' = <<n>> \o lru_list
    BY <1>3 DEF PutNew
  <2>3. /\ elem' \in Seq(Keys) /\ Len(elem') = n /\ elem'[n] = k
        /\ \A m \in 1 .. Len(elem) : elem'[m] = elem[m]
    BY <2>2
  <2>4. lru_list \in Seq(1 .. n) /\ <<n>> \in Seq(1 .. n)
    OBVIOUS
  <2>5. /\ lru_list' \in Seq(1 .. n) /\ Len(lru_list') = 1 + Len(lru_list)
        /\ \A i \in 1 .. 1 + Len(lru_list) :
             lru_list'[i] = IF i = 1 THEN n ELSE lru_list[i - 1]
    BY <2>2, <2>4, ConcatProperties
  <2>6. EachNodeOnce'
    <3>1. Len(lru_list') = Len(elem') /\ Len(elem') <= Capacity
      BY <2>1, <2>3, <2>5, CapacityAssumption DEF EachNodeOnce
    <3> DEFINE m == Len(elem)
               f == lru_list
               g == lru_list'
    <3>2. /\ m \in Nat /\ Len(f) = m
          /\ \A i \in 1 .. m : f[i] \in 1 .. m
          /\ \A i, j \in 1 .. m : f[i] = f[j] => i = j
          /\ \A x \in 1 .. m : \E i \in 1 .. m : f[i] = x
      <4>1. Len(elem) \in Nat /\ Len(lru_list) = Len(elem)
        BY DEF EachNodeOnce
      <4>2. \A i \in 1 .. Len(elem) : lru_list[i] \in 1 .. Len(elem)
        BY <4>1
      <4> QED
        BY <4>1, <4>2 DEF EachNodeOnce
    <3>3. \A i \in 1 .. m + 1 : g[i] = IF i = 1 THEN m + 1 ELSE f[i - 1]
      BY <2>5, <3>2
    <3>4. Len(g) = m + 1 /\ Len(elem') = m + 1
      BY <2>3, <2>5, <3>2
    <3> HIDE DEF m, f, g
    <3>5. ASSUME NEW i \in 1 .. m + 1, NEW j \in 1 .. m + 1, g[i] = g[j] PROVE i = j
      <4>1. CASE i = 1 \/ j = 1
        <5>1. \A y \in 1 .. m + 1 : y # 1 => y - 1 \in 1 .. m /\ g[y] \in 1 .. m
          BY <3>2, <3>3
        <5>2. g[1] = m + 1 /\ m + 1 \notin 1 .. m
          BY <3>2, <3>3
        <5> QED
          BY <3>5, <4>1, <5>1, <5>2
      <4>2. CASE i # 1 /\ j # 1
        <5>1. i - 1 \in 1 .. m /\ j - 1 \in 1 .. m /\ f[i - 1] = f[j - 1]
          BY <3>2, <3>3, <3>5, <4>2
        <5>2. i - 1 = j - 1
          BY <3>2, <5>1
        <5> QED
          BY <3>2, <5>2
      <4> QED
        BY <4>1, <4>2
    <3>6. ASSUME NEW x \in 1 .. m + 1
          PROVE  \E i \in 1 .. m + 1 : g[i] = x
      <4>1. CASE x = m + 1
        <5>1. 1 \in 1 .. m + 1 /\ g[1] = x
          BY <3>2, <3>3, <4>1
        <5> QED
          BY <5>1
      <4>2. CASE x \in 1 .. m
        <5>1. PICK i \in 1 .. m : f[i] = x
          BY <3>2, <4>2
        <5>2. i + 1 \in 1 .. m + 1 /\ i + 1 # 1 /\ (i + 1) - 1 = i
          BY <3>2
        <5>3. g[i + 1] = x
          BY <3>3, <5>1, <5>2
        <5> QED
          BY <5>2, <5>3
      <4> QED
        BY <3>2, <4>1, <4>2
    <3> QED
      BY <3>1, <3>4, <3>5, <3>6 DEF EachNodeOnce, g
  <2>7. /\ DOMAIN cache' = DOMAIN cache \cup {k}
        /\ cache'[k] = [node |-> n, value |-> v]
        /\ \A x \in DOMAIN cache : cache'[x] = cache[x]
        /\ cache' = [x \in DOMAIN cache' |-> cache'[x]]
    BY <1>3, <2>1 DEF PutNew, Keep
  <2>8. cache' \in [DOMAIN cache' -> [node : 1 .. Len(elem'), value : Values]]
    <3>1. Len(elem) \in Nat /\ 1 .. Len(elem) \subseteq 1 .. Len(elem')
      BY <2>3
    <3>2. \A x \in DOMAIN cache : cache[x] \in [node : 1 .. Len(elem'), value : Values]
      BY <3>1
    <3>3. [node |-> n, value |-> v] \in [node : 1 .. Len(elem'), value : Values]
      BY <2>3, <3>1
    <3> QED
      BY <2>7, <3>2, <3>3
  <2>9. MapMatchesNodes'
    <3>1. \A x \in DOMAIN cache : x \in DOMAIN cache' /\ x # k /\ cache'[x].node = cache[x].node
      BY <2>1, <2>7
    <3>2. \A x \in DOMAIN cache' : elem'[cache'[x].node] = x
      <4>1. ASSUME NEW x \in DOMAIN cache PROVE elem'[cache'[x].node] = x
        <5>1. cache[x].node \in 1 .. Len(elem) /\ elem[cache[x].node] = x
          BY DEF MapMatchesNodes
        <5> QED
          BY <2>3, <3>1, <5>1
      <4>2. elem'[cache'[k].node] = k
        BY <2>3, <2>7
      <4> QED
        BY <2>7, <4>1, <4>2
    <3>3. ASSUME NEW m \in 1 .. Len(elem')
          PROVE  elem'[m] \in DOMAIN cache' /\ cache'[elem'[m]].node = m
      <4>1. CASE m = n
        BY <2>3, <2>7, <4>1
      <4>2. CASE m \in 1 .. Len(elem)
        <5>1. elem'[m] = elem[m] /\ elem[m] \in DOMAIN cache /\ cache[elem[m]].node = m
          BY <2>3, <4>2 DEF MapMatchesNodes
        <5> QED
          BY <3>1, <5>1
      <4> QED
        BY <2>3, <4>1, <4>2
    <3> QED
      BY <3>2, <3>3 DEF MapMatchesNodes
  <2> QED
    BY <2>3, <2>5, <2>6, <2>8, <2>9
<1>4. ASSUME NEW k \in Keys, GetHit(k) PROVE LruInv'
  <2>1. cache[k].node \in 1 .. Len(elem) /\ UNCHANGED <<elem, cache>>
    BY <1>4 DEF GetHit
  <2>2. lru_list' = ToFront(cache[k].node)
    BY <1>4 DEF GetHit
  <2>3. EachNodeOnce' /\ lru_list' \in Seq(1 .. Len(elem))
    BY <2>1, <2>2, MovedToFront
  <2> QED
    BY <2>1, <2>3 DEF MapMatchesNodes
<1>5. ASSUME UNCHANGED <<cache, lru_list, elem>> PROVE LruInv'
  BY <1>5 DEF EachNodeOnce, MapMatchesNodes
<1> QED
  BY <1>1, <1>2, <1>3, <1>4, <1>5 DEF LruNext, lruvars, put, get, GetMiss

LEMMA LruInvariant == LruSpec => []LruInv
  BY InitLruInv, NextLruInv, PTL DEF LruSpec

\* The map and the list stay in step, for any capacity and any keys: each node is
\* in the list once and holds the key whose entry points to it, although a node
\* passes from one key to another (cache.h lines 14-29).
THEOREM MapAndListMatch == LruSpec => []NodesMatch
<1>1. ASSUME LruInv PROVE NodesMatch
  <2>1. Len(elem) \in Nat /\ DOMAIN elem = 1 .. Len(elem)
    BY <1>1 DEF LruInv, LruTypes
  <2>2. DOMAIN lru_list = 1 .. Len(elem) /\ Len(lru_list) = Len(elem)
    BY <1>1 DEF LruInv, LruTypes, EachNodeOnce
  <2>3. \A i \in 1 .. Len(elem) : lru_list[i] \in 1 .. Len(elem)
    <3> DEFINE Ids == 1 .. Len(elem)
    <3>1. lru_list \in Seq(Ids)
      BY <1>1 DEF LruInv, LruTypes
    <3> HIDE DEF Ids
    <3>2. \A i \in 1 .. Len(lru_list) : lru_list[i] \in Ids
      BY <3>1
    <3> QED
      BY <2>2, <3>2 DEF Ids
  <2>4. ToSet(lru_list) = DOMAIN elem
    <3>1. \A n \in 1 .. Len(elem) : \E i \in 1 .. Len(elem) : lru_list[i] = n
      BY <1>1, <2>2 DEF LruInv, EachNodeOnce
    <3>2. ToSet(lru_list) = {lru_list[i] : i \in 1 .. Len(elem)}
      BY <2>2 DEF ToSet
    <3> QED
      BY <2>1, <2>3, <3>1, <3>2
  <2>5. \A k \in DOMAIN cache : cache[k].node \in 1 .. Len(elem) /\ elem[cache[k].node] = k
    BY <1>1 DEF LruInv, LruTypes, MapMatchesNodes
  <2>6. DOMAIN cache = ToSet(elem)
    <3>1. ToSet(elem) = {elem[n] : n \in 1 .. Len(elem)}
      BY <2>1 DEF ToSet
    <3>2. \A n \in 1 .. Len(elem) : elem[n] \in DOMAIN cache
      BY <1>1 DEF LruInv, MapMatchesNodes
    <3> QED
      BY <2>5, <3>1, <3>2
  <2>7. Len(elem) <= Capacity
    BY <1>1 DEF LruInv, EachNodeOnce
  <2> QED
    BY <2>1, <2>2, <2>4, <2>5, <2>6, <2>7 DEF NodesMatch
<1> QED
  BY <1>1, LruInvariant, PTL
-----------------------------------------------------------------------------
(***************************************************************************)
(* LRUCache implements RecencyList: the entries in the order of the list.  *)
(***************************************************************************)
Pair(k, v) == [key |-> k, value |-> v]
Entries == [key : Keys, value : Values]

LEMMA PairHas == \A k, v : Pair(k, v).key = k /\ Pair(k, v).value = v
  BY DEF Pair

RecentIsAs ==
  /\ recent \in Seq(Entries) /\ Len(recent) = Len(elem) /\ Len(elem) \in Nat
  /\ \A i \in 1 .. Len(elem) :
       /\ lru_list[i] \in 1 .. Len(elem)
       /\ recent[i] = Pair(elem[lru_list[i]], cache[elem[lru_list[i]]].value)

\* The entry at a place is that of the key in the node there.
LEMMA RecentFacts == LruInv => RecentIsAs
<1> SUFFICES ASSUME LruInv PROVE RecentIsAs
  OBVIOUS
<1>1. Len(elem) \in Nat /\ DOMAIN lru_list = 1 .. Len(elem) /\ Len(lru_list) = Len(elem)
  BY DEF LruInv, LruTypes, EachNodeOnce
<1>2. \A i \in 1 .. Len(elem) : lru_list[i] \in 1 .. Len(elem)
  <2> DEFINE Ids == 1 .. Len(elem)
  <2>1. lru_list \in Seq(Ids)
    BY DEF LruInv, LruTypes
  <2> HIDE DEF Ids
  <2>2. \A i \in 1 .. Len(lru_list) : lru_list[i] \in Ids
    BY <2>1
  <2> QED
    BY <1>1, <2>2 DEF Ids
<1>3. \A n \in 1 .. Len(elem) : Pair(elem[n], cache[elem[n]].value) \in Entries
  <2> TAKE n \in 1 .. Len(elem)
  <2>1. elem[n] \in Keys
    BY DEF LruInv, LruTypes
  <2>2. elem[n] \in DOMAIN cache
    BY DEF LruInv, MapMatchesNodes
  <2>3. cache[elem[n]].value \in Values
    BY <2>2 DEF LruInv, LruTypes
  <2> QED
    BY <2>1, <2>3 DEF Pair, Entries
<1>4. recent = [i \in 1 .. Len(elem) |->
                  Pair(elem[lru_list[i]], cache[elem[lru_list[i]]].value)]
  BY <1>1 DEF recent, Pair
<1>5. \A i \in 1 .. Len(elem) : recent[i] \in Entries
  BY <1>2, <1>3, <1>4
<1>6. recent \in [1 .. Len(elem) -> Entries]
  BY <1>4, <1>5
<1>7. recent \in Seq(Entries) /\ Len(recent) = Len(elem)
  BY <1>1, <1>6
<1> QED
  BY <1>1, <1>2, <1>4, <1>7 DEF RecentIsAs

LEMMA RecentFactsNext == LruInv' => RecentIsAs'
  BY RecentFacts, PTL

\* A key of the map has one place in the list, where its iterator stands.
LEMMA PlaceOf ==
  ASSUME LruInv, NEW k \in DOMAIN cache
  PROVE  /\ cache[k].node \in 1 .. Len(elem)
         /\ Position(cache[k].node) \in 1 .. Len(elem)
         /\ recent[Position(cache[k].node)] = Pair(k, cache[k].value)
         /\ \A i \in 1 .. Len(elem) : recent[i].key = k <=> i = Position(cache[k].node)
<1> DEFINE n == cache[k].node
           p == Position(n)
<1>1. n \in 1 .. Len(elem) /\ elem[n] = k /\ Len(lru_list) = Len(elem)
  BY DEF LruInv, LruTypes, MapMatchesNodes, EachNodeOnce
<1> HIDE DEF n
<1>2. p \in 1 .. Len(elem) /\ lru_list[p] = n
  BY <1>1, PositionIsThere
<1> HIDE DEF p
<1>3. \A i \in 1 .. Len(elem) :
        /\ lru_list[i] \in 1 .. Len(elem)
        /\ recent[i] = Pair(elem[lru_list[i]], cache[elem[lru_list[i]]].value)
  BY RecentFacts DEF RecentIsAs
<1>4. ASSUME NEW i \in 1 .. Len(elem), recent[i].key = k PROVE i = p
  <2>1. elem[lru_list[i]] = k
    BY <1>3, <1>4, PairHas
  <2>2. lru_list[i] = n
    BY <1>3, <2>1 DEF n, LruInv, MapMatchesNodes
  <2> QED
    BY <1>1, <1>2, <2>2 DEF LruInv, EachNodeOnce
<1>5. recent[p] = Pair(k, cache[k].value) /\ recent[p].key = k
  BY <1>1, <1>2, <1>3 DEF Pair
<1> QED
  BY <1>1, <1>2, <1>4, <1>5 DEF n, p

\* Taking the entry of a key out of the list.
LEMMA OthersOfHeld ==
  ASSUME LruInv, NEW k \in DOMAIN cache
  PROVE  R!Others(k) = RemoveAt(recent, Position(cache[k].node))
<1> DEFINE p == Position(cache[k].node)
           places == {i \in DOMAIN recent : recent[i].key = k}
<1>1. p \in 1 .. Len(elem) /\ \A i \in 1 .. Len(elem) : recent[i].key = k <=> i = p
  BY PlaceOf
<1> HIDE DEF p
<1>2. DOMAIN recent = 1 .. Len(elem)
  BY RecentFacts DEF RecentIsAs
<1>3. places = {p}
  BY <1>1, <1>2
<1>4. R!Others(k) = IF places = {} THEN recent ELSE RemoveAt(recent, CHOOSE i \in places : TRUE)
  BY DEF R!Others, R!RemoveAt, RemoveAt
<1> HIDE DEF places
<1>5. places # {} /\ (CHOOSE i \in places : TRUE) = p
  BY <1>3
<1> QED
  BY <1>4, <1>5 DEF p

\* A key that is not in the map has no entry.
LEMMA OthersOfMissing ==
  ASSUME LruInv, NEW k, k \notin DOMAIN cache
  PROVE  R!Others(k) = recent /\ R!Held(k) = {}
<1>1. DOMAIN recent = 1 .. Len(elem)
  BY RecentFacts DEF RecentIsAs
<1>2. \A i \in 1 .. Len(elem) : recent[i].key # k
  <2> TAKE i \in 1 .. Len(elem)
  <2>1. lru_list[i] \in 1 .. Len(elem) /\ recent[i].key = elem[lru_list[i]]
    BY RecentFacts, PairHas DEF RecentIsAs
  <2>2. elem[lru_list[i]] \in DOMAIN cache
    BY <2>1 DEF LruInv, MapMatchesNodes
  <2> QED
    BY <2>1, <2>2
<1> QED
  BY <1>1, <1>2 DEF R!Others, R!Held

\* The list after a node was moved to the front, which may have a new key and a
\* new value.
LEMMA EntryMoved ==
  ASSUME LruInv, LruInv', NEW n \in 1 .. Len(elem), NEW k \in Keys, NEW v \in Values,
         lru_list' = ToFront(n), Len(elem') = Len(elem),
         elem'[n] = k, cache'[k].value = v,
         \A m \in 1 .. Len(elem) :
           m # n => elem'[m] = elem[m] /\ cache'[elem[m]].value = cache[elem[m]].value
  PROVE  recent' = Fronted(recent, Pair(k, v), Position(n))
<1> DEFINE m == Len(elem)
           p == Position(n)
           x == Pair(k, v)
           at == lru_list
           r == recent
           s1 == recent'
           Key(j) == elem[j]
           Val(j) == cache[elem[j]].value
           Key1(j) == elem'[j]
           Val1(j) == cache'[elem'[j]].value
<1>1. m \in Nat /\ r \in Seq(Entries) /\ Len(r) = m
  BY RecentFacts DEF RecentIsAs
<1>2. \A i \in 1 .. m : at[i] \in 1 .. m /\ r[i] = Pair(Key(at[i]), Val(at[i]))
  BY RecentFacts DEF RecentIsAs
<1>3. s1 \in Seq(Entries) /\ Len(s1) = m
  BY RecentFactsNext DEF RecentIsAs
<1>4. \A i \in 1 .. m : s1[i] = Pair(Key1(lru_list'[i]), Val1(lru_list'[i]))
  BY RecentFactsNext DEF RecentIsAs
<1>5. p \in 1 .. m /\ at[p] = n
  BY <1>1, PositionIsThere DEF LruInv, EachNodeOnce
<1>6. \A i \in 1 .. m : lru_list'[i] = IF i = 1 THEN n ELSE IF i <= p THEN at[i - 1] ELSE at[i]
  <2>1. FrontOf(ToFront(n), lru_list, n, Position(n), Len(elem))
    BY ToFrontProperties
  <2>2. lru_list' = ToFront(n)
    OBVIOUS
  <2> QED
    BY ONLY <2>1, <2>2 DEF FrontOf
<1>7. \A i, j \in 1 .. m : at[i] = at[j] => i = j
  BY DEF LruInv, EachNodeOnce
<1>8. Key1(n) = k /\ Val1(n) = v
  OBVIOUS
<1>9. \A j \in 1 .. m : j # n => Key1(j) = Key(j) /\ Val1(j) = Val(j)
  OBVIOUS
<1>10. x \in Entries
  BY DEF Pair, Entries
<1> HIDE DEF m, p, at, r, s1, Key, Val, Key1, Val1
<1>11. \A i \in 1 .. m : i # p => s1[IF i < p THEN i + 1 ELSE i] = r[i]
  <2> TAKE i \in 1 .. m
  <2> HAVE i # p
  <2>1. at[i] # n /\ at[i] \in 1 .. m
    BY <1>2, <1>5, <1>7
  <2>2. Key1(at[i]) = Key(at[i]) /\ Val1(at[i]) = Val(at[i])
    BY <1>9, <2>1
  <2>3. Pair(Key1(at[i]), Val1(at[i])) = r[i]
    BY <1>2, <2>2
  <2>4. CASE i < p
    <3>1. i + 1 \in 1 .. m /\ lru_list'[i + 1] = at[i]
      BY <1>1, <1>5, <1>6, <2>4
    <3> QED
      BY <1>4, <2>3, <2>4, <3>1
  <2>5. CASE i > p
    <3>1. lru_list'[i] = at[i]
      BY <1>1, <1>5, <1>6, <2>5
    <3> QED
      BY <1>1, <1>4, <1>5, <2>3, <2>5, <3>1
  <2> QED
    BY <1>1, <1>5, <2>4, <2>5
<1>12. s1[1] = x
  <2>1. 1 \in 1 .. m /\ lru_list'[1] = n
    BY <1>1, <1>5, <1>6
  <2> QED
    BY <1>4, <1>8, <2>1
<1> HIDE DEF x
<1>13. /\ Fronted(r, x, p) \in Seq(Entries) /\ Len(Fronted(r, x, p)) = m
       /\ FrontOf(Fronted(r, x, p), r, x, p, m)
  BY <1>1, <1>5, <1>10, FrontProperties
<1>14. \A i \in 1 .. m : s1[i] = Fronted(r, x, p)[i]
  <2> TAKE i \in 1 .. m
  <2>1. CASE i = 1
    BY <1>12, <1>13, <2>1 DEF FrontOf
  <2>2. CASE i # 1 /\ i <= p
    <3>1. i - 1 \in 1 .. m /\ i - 1 < p /\ (i - 1) + 1 = i
      BY <1>1, <1>5, <2>2
    <3>2. s1[i] = r[i - 1]
      BY <1>5, <1>11, <3>1
    <3> QED
      BY <1>13, <2>2, <3>2 DEF FrontOf
  <2>3. CASE i # 1 /\ i > p
    <3>1. s1[i] = r[i]
      BY <1>1, <1>5, <1>11, <2>3
    <3> QED
      BY <1>1, <1>5, <1>13, <2>3, <3>1 DEF FrontOf
  <2> QED
    BY <1>1, <1>5, <2>1, <2>2, <2>3
<1>15. s1 = Fronted(r, x, p)
  BY <1>3, <1>13, <1>14, SeqEqual
<1> QED
  BY <1>15 DEF s1, r, x, p

LEMMA WholeSequence ==
  ASSUME NEW S, NEW q \in Seq(S) PROVE SubSeq(q, 1, Len(q)) = q
<1>1. Len(q) \in Nat /\ \A i \in 1 .. Len(q) : q[i] \in S
  OBVIOUS
<1> DEFINE t == SubSeq(q, 1, Len(q))
<1>2. t \in Seq(S) /\ Len(t) = Len(q) /\ \A i \in 1 .. Len(q) : t[i] = q[i]
  OBVIOUS
<1> HIDE DEF t
<1>3. t = q
  BY <1>2, SeqEqual
<1> QED
  BY <1>3 DEF t

\* The new entry in front of the others, which are as many as there is room for.
LEMMA AllBeforePut ==
  ASSUME LruInv, NEW x \in Entries
  PROVE  /\ <<x>> \o recent \in Seq(Entries) /\ Len(<<x>> \o recent) = Len(elem) + 1
         /\ \A i \in 1 .. Len(elem) + 1 :
              (<<x>> \o recent)[i] = IF i = 1 THEN x ELSE recent[i - 1]
<1> DEFINE r == recent
           m == Len(elem)
<1>1. r \in Seq(Entries) /\ Len(r) = m /\ m \in Nat
  BY RecentFacts DEF RecentIsAs
<1> HIDE DEF r, m
<1>2. <<x>> \in Seq(Entries) /\ Len(<<x>>) = 1 /\ <<x>>[1] = x
  OBVIOUS
<1>3. /\ <<x>> \o r \in Seq(Entries) /\ Len(<<x>> \o r) = 1 + m
      /\ \A i \in 1 .. 1 + m : (<<x>> \o r)[i] = IF i <= 1 THEN <<x>>[i] ELSE r[i - 1]
  BY <1>1, <1>2, ConcatProperties
<1>4. \A i \in 1 .. m + 1 : (<<x>> \o r)[i] = IF i = 1 THEN x ELSE r[i - 1]
  BY <1>1, <1>2, <1>3
<1> QED
  BY <1>1, <1>3, <1>4 DEF r, m

\* An entry that is there goes to the front with its new value.
LEMMA PutOldSimulates ==
  ASSUME LruInv, LruInv', NEW k \in Keys, NEW v \in Values, PutOld(k, v), got' = got
  PROVE  R!Put(k, v)
<1> DEFINE n == cache[k].node
           p == Position(n)
           x == Pair(k, v)
           all == <<x>> \o R!Others(k)
<1>1. k \in DOMAIN cache /\ lru_list' = ToFront(n) /\ elem' = elem
  BY DEF PutOld
<1>2. n \in 1 .. Len(elem) /\ elem[n] = k
  BY <1>1, PlaceOf DEF LruInv, MapMatchesNodes
<1>3. cache'[k].value = v
  BY <1>1 DEF PutOld, LruInv, LruTypes
<1>4. \A m \in 1 .. Len(elem) : m # n => cache'[elem[m]].value = cache[elem[m]].value
  <2> TAKE m \in 1 .. Len(elem)
  <2> HAVE m # n
  <2>1. elem[m] \in DOMAIN cache /\ elem[m] # k
    BY DEF LruInv, MapMatchesNodes
  <2> QED
    BY <2>1 DEF PutOld
<1>5. recent' = Fronted(recent, x, p)
  BY <1>1, <1>2, <1>3, <1>4, EntryMoved
<1>6. all = Fronted(recent, x, p)
  BY <1>1, OthersOfHeld DEF Fronted
<1>7. x \in Entries /\ p \in 1 .. Len(elem)
  BY <1>1, PlaceOf DEF Pair, Entries
<1>8. recent \in Seq(Entries) /\ Len(recent) = Len(elem) /\ Len(elem) <= Capacity
  BY RecentFacts DEF RecentIsAs, LruInv, EachNodeOnce
<1> HIDE DEF n, p, x
<1>9. Fronted(recent, x, p) \in Seq(Entries) /\ Len(Fronted(recent, x, p)) = Len(elem)
  BY <1>7, <1>8, FrontProperties
<1> HIDE DEF all
<1>10. all \in Seq(Entries) /\ ~(Len(all) > Capacity)
  BY <1>6, <1>8, <1>9, CapacityAssumption
<1>11. recent' = SubSeq(all, 1, IF Len(all) > Capacity THEN Capacity ELSE Len(all))
  BY <1>5, <1>6, <1>10, WholeSequence
<1> QED
  BY <1>11 DEF R!Put, all, x, Pair

\* In a full cache the last entry goes.
LEMMA PutEvictingSimulates ==
  ASSUME LruInv, LruInv', NEW k \in Keys, NEW v \in Values, PutEvicting(k, v), got' = got
  PROVE  R!Put(k, v)
<1> DEFINE m == Len(elem)
           n == Last(lru_list)
           x == Pair(k, v)
           all == <<x>> \o R!Others(k)
<1>1. m = Capacity /\ m \in Nat \ {0} /\ Len(lru_list) = m
  BY SizeIsNodes, CapacityAssumption DEF PutEvicting, LruInv, EachNodeOnce
<1>2. n \in 1 .. m /\ n = lru_list[m]
  BY <1>1, RecentFacts DEF RecentIsAs, Last
<1>3. Position(n) = m
  <2> DEFINE p == Position(n)
  <2>1. p \in 1 .. m /\ lru_list[p] = n
    BY <1>1, <1>2, PositionIsThere
  <2>2. m \in 1 .. m /\ lru_list[m] = n
    BY <1>1, <1>2
  <2>3. \A i, j \in 1 .. m : lru_list[i] = lru_list[j] => i = j
    BY <1>1 DEF LruInv, EachNodeOnce
  <2> HIDE DEF p, n
  <2>4. p = m
    BY <2>1, <2>2, <2>3
  <2> QED
    BY <2>4 DEF p
<1>4. /\ k \notin DOMAIN cache /\ lru_list' = ToFront(n)
      /\ elem' = [elem EXCEPT ![n] = k]
      /\ cache' = Keep(elem[n], k, n, v)
  BY DEF PutEvicting
<1> HIDE DEF n
<1>5. DOMAIN elem = 1 .. m
  BY <1>1 DEF LruInv, LruTypes
<1>6. Len(elem') = m /\ elem'[n] = k /\ \A j \in 1 .. m : j # n => elem'[j] = elem[j]
  BY <1>1, <1>2, <1>4 DEF LruInv, LruTypes
<1>7. cache'[k].value = v
  BY <1>4 DEF Keep
<1>8. \A j \in 1 .. m : j # n => cache'[elem[j]].value = cache[elem[j]].value
  <2> TAKE j \in 1 .. m
  <2> HAVE j # n
  <2>1. elem[j] \in DOMAIN cache /\ elem[j] # elem[n]
    BY <1>2 DEF LruInv, MapMatchesNodes
  <2> QED
    BY <1>4, <2>1 DEF Keep
<1>9. recent' = Fronted(recent, x, m)
  BY <1>2, <1>3, <1>4, <1>6, <1>7, <1>8, EntryMoved
<1>10. all = <<x>> \o recent
  BY <1>4, OthersOfMissing
<1>11. x \in Entries
  BY DEF Pair, Entries
<1>12. recent \in Seq(Entries) /\ Len(recent) = m
  BY RecentFacts DEF RecentIsAs
<1> HIDE DEF m, x
<1>13. /\ all \in Seq(Entries) /\ Len(all) = m + 1
       /\ \A i \in 1 .. m + 1 : all[i] = IF i = 1 THEN x ELSE recent[i - 1]
  <2>1. /\ <<x>> \o recent \in Seq(Entries) /\ Len(<<x>> \o recent) = Len(elem) + 1
        /\ \A i \in 1 .. Len(elem) + 1 :
             (<<x>> \o recent)[i] = IF i = 1 THEN x ELSE recent[i - 1]
    BY <1>11, AllBeforePut, Zenon
  <2> HIDE DEF all
  <2> QED
    BY <1>10, <2>1 DEF m
<1>14. /\ Fronted(recent, x, m) \in Seq(Entries) /\ Len(Fronted(recent, x, m)) = m
       /\ FrontOf(Fronted(recent, x, m), recent, x, m, m)
  <2>1. m \in 1 .. Len(recent)
    BY <1>1, <1>12
  <2> QED
    BY <1>11, <1>12, <2>1, FrontProperties
<1> HIDE DEF all
<1>15. /\ SubSeq(all, 1, m) \in Seq(Entries) /\ Len(SubSeq(all, 1, m)) = m
       /\ \A i \in 1 .. m : SubSeq(all, 1, m)[i] = all[i]
  BY <1>1, <1>13
<1>16. \A i \in 1 .. m : SubSeq(all, 1, m)[i] = Fronted(recent, x, m)[i]
  BY <1>1, <1>13, <1>14, <1>15 DEF FrontOf
<1>17. SubSeq(all, 1, m) = Fronted(recent, x, m)
  BY <1>14, <1>15, <1>16, SeqEqual
<1>18. (IF Len(all) > Capacity THEN Capacity ELSE Len(all)) = m
  BY <1>1, <1>13
<1>19. recent' = SubSeq(all, 1, IF Len(all) > Capacity THEN Capacity ELSE Len(all))
  BY <1>9, <1>17, <1>18
<1> QED
  BY <1>19 DEF R!Put, all, x, Pair

\* While there is room nothing goes.
LEMMA PutNewSimulates ==
  ASSUME LruInv, LruInv', NEW k \in Keys, NEW v \in Values, PutNew(k, v), got' = got
  PROVE  R!Put(k, v)
<1> DEFINE m == Len(elem)
           x == Pair(k, v)
           all == <<x>> \o R!Others(k)
           s1 == recent'
<1>1. m \in Nat /\ m < Capacity
  BY SizeIsNodes, CapacityAssumption DEF PutNew, LruInv, LruTypes, EachNodeOnce
<1>2. /\ k \notin DOMAIN cache
      /\ cache' = Keep(k, k, m + 1, v)
      /\ lru_list' = <<m + 1>> \o lru_list /\ elem' = Append(elem, k)
  BY DEF PutNew
<1>3. Len(elem') = m + 1 /\ elem'[m + 1] = k /\ \A j \in 1 .. m : elem'[j] = elem[j]
  BY <1>2 DEF LruInv, LruTypes
<1>4. /\ cache'[k].value = v
      /\ \A j \in 1 .. m : cache'[elem[j]] = cache[elem[j]]
  <2>1. \A j \in 1 .. m : elem[j] \in DOMAIN cache
    BY DEF LruInv, MapMatchesNodes
  <2> QED
    BY <1>2, <2>1 DEF Keep
<1>5. all = <<x>> \o recent
  BY <1>2, OthersOfMissing
<1>6. x \in Entries
  BY DEF Pair, Entries
<1>7. /\ all \in Seq(Entries) /\ Len(all) = m + 1
      /\ \A i \in 1 .. m + 1 : all[i] = IF i = 1 THEN x ELSE recent[i - 1]
  <2>1. /\ <<x>> \o recent \in Seq(Entries) /\ Len(<<x>> \o recent) = Len(elem) + 1
        /\ \A i \in 1 .. Len(elem) + 1 :
             (<<x>> \o recent)[i] = IF i = 1 THEN x ELSE recent[i - 1]
    BY <1>6, AllBeforePut, Zenon
  <2> HIDE DEF all, m, x
  <2> QED
    BY <1>5, <2>1 DEF m
<1>8. \A i \in 1 .. m :
        /\ lru_list[i] \in 1 .. m
        /\ recent[i] = Pair(elem[lru_list[i]], cache[elem[lru_list[i]]].value)
  BY RecentFacts DEF RecentIsAs
<1>9. s1 \in Seq(Entries) /\ Len(s1) = m + 1
  BY <1>3, RecentFactsNext DEF RecentIsAs
<1>10. \A i \in 1 .. m + 1 :
         s1[i] = Pair(elem'[lru_list'[i]], cache'[elem'[lru_list'[i]]].value)
  BY <1>3, RecentFactsNext DEF RecentIsAs
<1>11. \A i \in 1 .. m + 1 : lru_list'[i] = IF i = 1 THEN m + 1 ELSE lru_list[i - 1]
  <2> DEFINE Ids == 1 .. m + 1
             q == lru_list
  <2>1. q \in Seq(1 .. m) /\ Len(q) = m
    BY DEF LruInv, LruTypes, EachNodeOnce
  <2>2. q \in Seq(Ids) /\ <<m + 1>> \in Seq(Ids)
    BY <1>1, <2>1
  <2> HIDE DEF q, m, Ids
  <2>3. /\ Len(<<m + 1>>) = 1 /\ <<m + 1>>[1] = m + 1
        /\ \A i \in 1 .. Len(<<m + 1>>) + Len(q) : (<<m + 1>> \o q)[i] =
             IF i <= Len(<<m + 1>>) THEN <<m + 1>>[i] ELSE q[i - Len(<<m + 1>>)]
    BY <2>2, ConcatProperties
  <2>4. \A i \in 1 .. m + 1 : (<<m + 1>> \o q)[i] = IF i = 1 THEN m + 1 ELSE q[i - 1]
    BY <1>1, <2>1, <2>3
  <2> QED
    BY <1>2, <2>4 DEF q, m
<1> HIDE DEF m, x, all, s1
<1>12. s1[1] = x
  <2>1. 1 \in 1 .. m + 1 /\ lru_list'[1] = m + 1
    BY <1>1, <1>11
  <2> QED
    BY <1>3, <1>4, <1>10, <2>1 DEF x
<1>13. \A i \in 1 .. m + 1 : s1[i] = all[i]
  <2> TAKE i \in 1 .. m + 1
  <2>1. CASE i = 1
    BY <1>7, <1>12, <2>1
  <2>2. CASE i # 1
    <3>1. i - 1 \in 1 .. m /\ lru_list'[i] = lru_list[i - 1] /\ lru_list[i - 1] \in 1 .. m
      BY <1>1, <1>8, <1>11, <2>2
    <3>2. elem'[lru_list'[i]] = elem[lru_list[i - 1]]
      BY <1>3, <3>1
    <3>3. cache'[elem'[lru_list'[i]]] = cache[elem[lru_list[i - 1]]]
      BY <1>4, <3>1, <3>2
    <3>4. s1[i] = recent[i - 1]
      BY <1>8, <1>10, <3>1, <3>2, <3>3
    <3> QED
      BY <1>7, <2>2, <3>4
  <2> QED
    BY <2>1, <2>2
<1>14. s1 = all
  BY <1>7, <1>9, <1>13, SeqEqual
<1>15. ~(Len(all) > Capacity)
  BY <1>1, <1>7, CapacityAssumption
<1>16. recent' = SubSeq(all, 1, IF Len(all) > Capacity THEN Capacity ELSE Len(all))
  BY <1>7, <1>14, <1>15, WholeSequence DEF s1
<1> QED
  BY <1>16 DEF R!Put, all, x, Pair

\* A key that is found goes to the front, and its last value is the answer.
LEMMA GetSimulates ==
  ASSUME LruInv, LruInv', NEW k \in Keys, get(k)
  PROVE  R!Get(k)
<1>1. CASE GetHit(k)
  <2> DEFINE n == cache[k].node
             p == Position(n)
             v == cache[k].value
  <2>1. /\ k \in DOMAIN cache /\ lru_list' = ToFront(n) /\ elem' = elem
        /\ cache' = cache /\ got' = v
    BY <1>1 DEF GetHit
  <2>2. n \in 1 .. Len(elem) /\ elem[n] = k /\ v \in Values
    BY <2>1, PlaceOf DEF LruInv, LruTypes, MapMatchesNodes
  <2>3. recent' = Fronted(recent, Pair(k, v), p)
    BY <2>1, <2>2, EntryMoved
  <2>4. p \in 1 .. Len(elem) /\ recent[p] = Pair(k, v)
    BY <2>1, PlaceOf
  <2>5. DOMAIN recent = 1 .. Len(elem)
    BY RecentFacts DEF RecentIsAs
  <2>6. recent' = <<recent[p]>> \o R!Others(k)
    BY <2>1, <2>3, <2>4, OthersOfHeld DEF Fronted
  <2> HIDE DEF p, v
  <2>7. recent[p].key = k /\ recent[p].value = v
    BY <2>4, PairHas
  <2>8. recent[p] \in R!Held(k)
    BY <2>4, <2>5, <2>7 DEF R!Held
  <2> QED
    BY <2>1, <2>6, <2>7, <2>8 DEF R!Get
<1>2. CASE GetMiss(k)
  <2>1. R!Held(k) = {}
    BY <1>2, OthersOfMissing DEF GetMiss
  <2>2. recent' = recent
    BY <1>2 DEF GetMiss, recent
  <2> QED
    BY <1>2, <2>1, <2>2 DEF GetMiss, R!Get
<1> QED
  BY <1>1, <1>2 DEF get

\* The cache holds exactly the Capacity keys used last, each with the value put
\* last, and get answers from these, for every capacity (cache.h lines 14-48).
THEOREM LruRefinement == LruSpec => ImplementsLru
<1>1. LruInit => R!Init
  BY DEF LruInit, R!Init, recent
<1>2. LruInv /\ LruInv' /\ [LruNext]_lruvars => [R!Next]_<<recent, got>>
  <2> SUFFICES ASSUME LruInv, LruInv', [LruNext]_lruvars
               PROVE  [R!Next]_<<recent, got>>
    OBVIOUS
  <2>1. ASSUME NEW k \in Keys, get(k) PROVE R!Next
    BY <2>1, GetSimulates DEF R!Next
  <2>2. ASSUME NEW k \in Keys, NEW v \in Values, put(k, v) PROVE R!Next
    <3>1. R!Put(k, v)
      BY <2>2, PutOldSimulates, PutEvictingSimulates, PutNewSimulates DEF put
    <3> QED
      BY <3>1 DEF R!Next
  <2>3. CASE UNCHANGED lruvars
    BY <2>3 DEF lruvars, recent
  <2> QED
    BY <2>1, <2>2, <2>3 DEF LruNext
<1> QED
  BY <1>1, <1>2, LruInvariant, PTL DEF LruSpec, ImplementsLru, R!Spec
-----------------------------------------------------------------------------
(***************************************************************************)
(* SegAllocator.  Until a harmful request: the segments lie in the arena   *)
(* and apart, the set has one entry for each, and a byte of the arena is   *)
(* the caller's when no segment holds it.                                  *)
(***************************************************************************)
Free(b) == \E x \in DOMAIN off : x <= b /\ b < x + off[x]

\* The address by which the caller knows a byte.
CallersByte(b) == IF reverse THEN 2 * Base + Size - 2 - b ELSE b

SegMap ==
  /\ DOMAIN off \subseteq Int
  /\ \A x \in DOMAIN off : off[x] \in Nat \ {0} /\ Base <= x /\ x + off[x] <= Base + Size

SegApart == \A x, y \in DOMAIN off : x < y => x + off[x] < y

SegEntries == siz = {Entry(off, x) : x \in DOMAIN off}

\* What the set holds are sizes and addresses, right or wrong.
SegPairs == siz \subseteq Nat \X {x \in Int : Base <= x}

SegUsed ==
  /\ used \subseteq Arena
  /\ \A b \in Bytes(Base, Size) : CallersByte(b) \in used <=> ~Free(b)

SegInv ==
  /\ reverse \in BOOLEAN /\ amiss \in BOOLEAN /\ harmed \in BOOLEAN
  /\ ~harmed => SegMap /\ SegApart /\ SegUsed /\ SegPairs /\ (~amiss => SegEntries)
-----------------------------------------------------------------------------
\* Integers that are bounded from below have a least one, from above a greatest.
LEMMA LeastOf ==
  ASSUME NEW T, T \subseteq Int, T # {}, NEW lo \in Int, \A x \in T : lo <= x
  PROVE  \E x \in T : \A y \in T : x <= y
<1> DEFINE N == {x - lo : x \in T}
           Less == OpToRel(<, Nat)
<1>1. N \subseteq Nat /\ N # {}
  <2>1. \A x \in T : x - lo \in Nat
    OBVIOUS
  <2>2. \A a \in N : \E x \in T : a = x - lo
    OBVIOUS
  <2>3. PICK x \in T : TRUE
    OBVIOUS
  <2>4. x - lo \in N
    OBVIOUS
  <2> HIDE DEF N
  <2> QED
    BY <2>1, <2>2, <2>4
<1> HIDE DEF N, Less
<1>2. \E a \in N : \A b \in N : ~(<<b, a>> \in Less)
  BY <1>1, NatLessThanWellFounded, WFMin DEF Less
<1>3. PICK a \in N : \A b \in N : ~(<<b, a>> \in Less)
  BY <1>2
<1>4. PICK x \in T : a = x - lo
  BY <1>3 DEF N
<1>5. ASSUME NEW y \in T PROVE x <= y
  <2>1. y - lo \in N
    BY DEF N
  <2>2. ~(<<y - lo, a>> \in Less) /\ y - lo \in Nat /\ a \in Nat
    BY <1>1, <1>3, <2>1
  <2>3. ~(y - lo < a)
    BY <2>2 DEF Less, OpToRel
  <2> QED
    BY <1>4, <2>3
<1> QED
  BY <1>5

LEMMA GreatestOf ==
  ASSUME NEW T, T \subseteq Int, T # {}, NEW hi \in Int, \A x \in T : x <= hi
  PROVE  \E x \in T : \A y \in T : y <= x
<1> DEFINE N == {0 - x : x \in T}
<1>1. N \subseteq Int /\ N # {} /\ \A a \in N : 0 - hi <= a
  <2>1. \A x \in T : 0 - x \in Int /\ 0 - hi <= 0 - x
    OBVIOUS
  <2>2. \A a \in N : \E x \in T : a = 0 - x
    OBVIOUS
  <2>3. PICK x \in T : TRUE
    OBVIOUS
  <2>4. 0 - x \in N
    OBVIOUS
  <2> HIDE DEF N
  <2> QED
    BY <2>1, <2>2, <2>4
<1> HIDE DEF N
<1>2. 0 - hi \in Int
  OBVIOUS
<1>3. PICK a \in N : \A b \in N : a <= b
  BY <1>1, <1>2, LeastOf
<1>4. PICK x \in T : a = 0 - x
  BY <1>3 DEF N
<1>5. ASSUME NEW y \in T PROVE y <= x
  <2>1. 0 - y \in N
    BY DEF N
  <2>2. a <= 0 - y
    BY <1>3, <2>1
  <2> QED
    BY <1>4, <2>2
<1> QED
  BY <1>5

\* The last segment that starts at p or before, and the first at p or after.
LEMMA LastStart ==
  ASSUME SegMap, NEW p \in Int, StartsUpTo(p) # {}
  PROVE  /\ Max(StartsUpTo(p)) \in DOMAIN off /\ Max(StartsUpTo(p)) <= p
         /\ \A x \in DOMAIN off : x <= p => x <= Max(StartsUpTo(p))
<1> DEFINE T == StartsUpTo(p)
<1>1. T \subseteq Int /\ \A x \in T : x <= p
  BY DEF StartsUpTo, SegMap
<1>2. \E x \in T : \A y \in T : y <= x
  BY <1>1, GreatestOf
<1>3. \E x \in T : \A y \in T : x >= y
  BY <1>1, <1>2
<1>4. Max(T) \in T /\ \A y \in T : Max(T) >= y
  BY <1>3 DEF Max
<1> QED
  BY <1>1, <1>4 DEF StartsUpTo

LEMMA FirstStart ==
  ASSUME SegMap, NEW p \in Int, StartsFrom(p) # {}
  PROVE  /\ Min(StartsFrom(p)) \in DOMAIN off /\ p <= Min(StartsFrom(p))
         /\ \A x \in DOMAIN off : p <= x => Min(StartsFrom(p)) <= x
<1> DEFINE T == StartsFrom(p)
<1>1. T \subseteq Int /\ \A x \in T : p <= x
  BY DEF StartsFrom, SegMap
<1>2. \E x \in T : \A y \in T : x <= y
  BY <1>1, LeastOf
<1>3. Min(T) \in T /\ \A y \in T : Min(T) <= y
  BY <1>2 DEF Min
<1> QED
  BY <1>1, <1>3 DEF StartsFrom
-----------------------------------------------------------------------------
\* A block's bytes are the same whichever side looks at them.
LEMMA BlockOfCaller ==
  ASSUME reverse \in BOOLEAN, NEW c \in Int, NEW n \in Int
  PROVE  /\ reverse_ptr(c, n) \in Int
         /\ reverse_ptr(reverse_ptr(c, n), n) = c
         /\ \A b \in Int : CallersByte(b) \in Bytes(c, n) <=>
              reverse_ptr(c, n) <= b /\ b < reverse_ptr(c, n) + n
         /\ \A b \in Int : CallersByte(b) \in Int /\ CallersByte(CallersByte(b)) = b
  BY ArenaAssumption DEF reverse_ptr, CallersByte, Bytes

LEMMA CallersArena ==
  ASSUME reverse \in BOOLEAN
  PROVE  /\ Arena \subseteq Int
         /\ \A b \in Int : b \in Bytes(Base, Size) <=> CallersByte(b) \in Arena
<1>1. CASE reverse
  <2>1. \A b \in Int : b \in Arena <=> b + 1 \in Bytes(Base, Size)
    BY <1>1, ArenaAssumption DEF Arena, Bytes
  <2>2. Arena \subseteq Int
    BY <1>1, ArenaAssumption DEF Arena, Bytes
  <2> QED
    BY <1>1, <2>1, <2>2, ArenaAssumption DEF CallersByte, Bytes
<1>2. CASE ~reverse
  <2>1. Arena = Bytes(Base, Size)
    BY <1>2, ArenaAssumption DEF Arena, Bytes
  <2> QED
    BY <1>2, <2>1, ArenaAssumption DEF CallersByte, Bytes
<1> QED
  BY <1>1, <1>2

\* The caller gets a block that was free.
LEMMA BlockTaken ==
  ASSUME reverse \in BOOLEAN, reverse' = reverse, SegUsed,
         NEW c \in Int, NEW n \in Nat, NEW p, p = reverse_ptr(c, n),
         Base <= p, p + n <= Base + Size,
         used' = used \cup Bytes(c, n),
         \A b \in Bytes(Base, Size) : Free(b)' <=> Free(b) /\ ~(p <= b /\ b < p + n)
  PROVE  SegUsed'
<1>1. Arena' = Arena /\ \A b : CallersByte(b)' = CallersByte(b)
  <2>1. Arena' = Arena
    BY DEF Arena
  <2>2. ASSUME NEW b PROVE CallersByte(b)' = CallersByte(b)
    BY DEF CallersByte
  <2> QED
    BY <2>1, <2>2
<1>2. \A b \in Int : CallersByte(b) \in Bytes(c, n) <=> p <= b /\ b < p + n
  <2>1. n \in Int
    OBVIOUS
  <2>2. \A b \in Int : CallersByte(b) \in Bytes(c, n) <=>
          reverse_ptr(c, n) <= b /\ b < reverse_ptr(c, n) + n
    BY <2>1, BlockOfCaller
  <2> QED
    BY <2>2
<1>3. \A b \in Bytes(Base, Size) : b \in Int
  BY ArenaAssumption DEF Bytes
<1>4. \A b \in Bytes(Base, Size) : CallersByte(b) \in used' <=> ~Free(b)'
  BY <1>2, <1>3 DEF SegUsed
<1>5. Bytes(c, n) \subseteq Arena
  <2> SUFFICES ASSUME NEW a \in Bytes(c, n) PROVE a \in Arena
    OBVIOUS
  <2>1. a \in Int
    BY BlockOfCaller DEF Bytes
  <2>2. CallersByte(a) \in Int /\ CallersByte(CallersByte(a)) = a
    BY <2>1, BlockOfCaller
  <2>3. p <= CallersByte(a) /\ CallersByte(a) < p + n
    BY <1>2, <2>2
  <2>4. CallersByte(a) \in Bytes(Base, Size)
    <3>1. p \in Int
      BY BlockOfCaller
    <3> QED
      BY <2>2, <2>3, <3>1, ArenaAssumption DEF Bytes
  <2> QED
    BY <2>2, <2>4, CallersArena
<1> QED
  BY <1>1, <1>4, <1>5 DEF SegUsed

\* The caller gives a block back.
LEMMA BlockGiven ==
  ASSUME reverse \in BOOLEAN, reverse' = reverse, SegUsed,
         NEW c \in Int, NEW n \in Nat, NEW p, p = reverse_ptr(c, n),
         used' = used \ Bytes(c, n),
         \A b \in Bytes(Base, Size) : Free(b)' <=> Free(b) \/ (p <= b /\ b < p + n)
  PROVE  SegUsed'
<1>1. Arena' = Arena /\ \A b : CallersByte(b)' = CallersByte(b)
  <2>1. Arena' = Arena
    BY DEF Arena
  <2>2. ASSUME NEW b PROVE CallersByte(b)' = CallersByte(b)
    BY DEF CallersByte
  <2> QED
    BY <2>1, <2>2
<1>2. \A b \in Int : CallersByte(b) \in Bytes(c, n) <=> p <= b /\ b < p + n
  <2>1. n \in Int
    OBVIOUS
  <2>2. \A b \in Int : CallersByte(b) \in Bytes(c, n) <=>
          reverse_ptr(c, n) <= b /\ b < reverse_ptr(c, n) + n
    BY <2>1, BlockOfCaller
  <2> QED
    BY <2>2
<1>3. \A b \in Bytes(Base, Size) : b \in Int
  BY ArenaAssumption DEF Bytes
<1>4. \A b \in Bytes(Base, Size) : CallersByte(b) \in used' <=> ~Free(b)'
  BY <1>2, <1>3 DEF SegUsed
<1> QED
  BY <1>1, <1>4 DEF SegUsed

\* Some entries go and some come, in the map and in the set.
LEMMA EntriesFollow ==
  ASSUME SegEntries, NEW gone, NEW came,
         gone \subseteq DOMAIN off,
         DOMAIN off' = (DOMAIN off \ gone) \cup came,
         \A x \in DOMAIN off \ gone : off'[x] = off[x],
         siz' = (siz \ {Entry(off, x) : x \in gone}) \cup {Entry(off', x) : x \in came}
  PROVE  SegEntries'
<1>1. \A x, y : Entry(off, x) = Entry(off, y) => x = y
  BY DEF Entry
<1>2. \A x \in DOMAIN off \ gone : Entry(off', x) = Entry(off, x)
  BY DEF Entry
<1>3. siz \ {Entry(off, x) : x \in gone} = {Entry(off, x) : x \in DOMAIN off \ gone}
  BY <1>1 DEF SegEntries
<1>4. siz \ {Entry(off, x) : x \in gone} = {Entry(off', x) : x \in DOMAIN off \ gone}
  BY <1>2, <1>3
<1>5. siz' = {Entry(off', x) : x \in (DOMAIN off \ gone) \cup came}
  BY <1>4
<1> QED
  BY <1>5 DEF SegEntries
-----------------------------------------------------------------------------
\* A block is cut out of the segment q: a piece may be left on either side of it.
CutsOut(q, c, n, p, came) ==
  /\ p = reverse_ptr(c, n) /\ q <= p /\ p + n <= q + off[q]
  /\ \A x : x \in came <=> (x = q /\ q < p) \/ (x = p + n /\ p + n < q + off[q])
  /\ DOMAIN off' = (DOMAIN off \ {q}) \cup came
  /\ \A x \in DOMAIN off \ {q} : off'[x] = off[x]
  /\ q < p => off'[q] = p - q
  /\ p + n < q + off[q] => off'[p + n] = q + off[q] - (p + n)
  /\ used' = used \cup Bytes(c, n)

LEMMA BlockCut ==
  ASSUME SegMap, SegApart, SegUsed, reverse \in BOOLEAN, reverse' = reverse,
         NEW q \in DOMAIN off, NEW c \in Int, NEW n \in Nat \ {0}, NEW p \in Int, NEW came,
         CutsOut(q, c, n, p, came)
  PROVE  SegMap' /\ SegApart' /\ SegUsed'
<1> USE DEF CutsOut
<1> DEFINE D == DOMAIN off
           D1 == DOMAIN off'
<1>1. /\ \A x \in D : /\ x \in Int /\ off[x] \in Nat \ {0}
                      /\ Base <= x /\ x + off[x] <= Base + Size
      /\ \A x, y \in D : x < y => x + off[x] < y
  BY DEF SegMap, SegApart
<1>2. Base \in Int /\ Size \in Int
  BY ArenaAssumption
<1>3. q \in D /\ D1 = (D \ {q}) \cup came /\ \A x \in D \ {q} : off'[x] = off[x]
  OBVIOUS
<1> HIDE DEF D, D1
<1>4. \A x \in came : /\ x \in Int /\ off'[x] \in Nat \ {0}
                      /\ q <= x /\ x + off'[x] <= q + off[q]
  BY <1>1, <1>3
<1>5. \A x \in D1 : /\ x \in Int /\ off'[x] \in Nat \ {0}
                    /\ Base <= x /\ x + off'[x] <= Base + Size
  <2> TAKE x \in D1
  <2>1. CASE x \in came
    BY <1>1, <1>2, <1>3, <1>4, <2>1
  <2>2. CASE x \in D \ {q}
    BY <1>1, <1>3, <2>2
  <2> QED
    BY <1>3, <2>1, <2>2
<1>6. ASSUME NEW x \in D1, NEW y \in D1, x < y PROVE x + off'[x] < y
  <2>1. CASE x \in came /\ y \in came
    <3>1. x = q /\ q < p /\ y = p + n
      BY <1>1, <1>3, <1>6, <2>1
    <3>2. off'[x] = p - q
      BY <3>1
    <3> QED
      BY <1>1, <1>3, <3>1, <3>2
  <2>2. CASE x \in came /\ y \in D \ {q}
    <3>1. q < y
      <4>1. q \in Int /\ y \in Int /\ y # q /\ x \in Int /\ q <= x
        BY <1>1, <1>3, <1>4, <2>2
      <4> QED
        BY <1>6, <4>1
    <3>2. q + off[q] < y /\ x + off'[x] <= q + off[q]
      BY <1>1, <1>3, <1>4, <2>2, <3>1
    <3> QED
      BY <1>1, <1>3, <1>4, <2>2, <3>2
  <2>3. CASE x \in D \ {q} /\ y \in came
    <3>1. off'[x] = off[x] /\ y < q + off[q] /\ q <= y
      BY <1>1, <1>3, <1>4, <2>3
    <3>2. CASE x < q
      BY <1>1, <1>3, <1>4, <2>3, <3>1, <3>2
    <3>3. CASE q < x
      BY <1>1, <1>3, <1>4, <1>6, <2>3, <3>1, <3>3
    <3> QED
      BY <1>1, <1>3, <2>3, <3>2, <3>3
  <2>4. CASE x \in D \ {q} /\ y \in D \ {q}
    BY <1>1, <1>3, <1>6, <2>4
  <2> QED
    BY <1>3, <2>1, <2>2, <2>3, <2>4
<1>8. ASSUME NEW b \in Int
      PROVE  Free(b)' <=> Free(b) /\ ~(p <= b /\ b < p + n)
  <2>1. Free(b)' <=> \E x \in D1 : x <= b /\ b < x + off'[x]
    BY DEF Free, D1
  <2>2. Free(b) <=> \E x \in D : x <= b /\ b < x + off[x]
    BY DEF Free, D
  <2>3. ASSUME NEW x \in D1, x <= b, b < x + off'[x]
        PROVE  Free(b) /\ ~(p <= b /\ b < p + n)
    <3>1. CASE x \in came
      <4>1. q <= b /\ b < q + off[q]
        BY <1>1, <1>3, <1>4, <2>3, <3>1
      <4>2. ~(p <= b /\ b < p + n)
        BY <1>1, <1>3, <2>3, <3>1
      <4> QED
        BY <1>3, <2>2, <4>1, <4>2
    <3>2. CASE x \in D \ {q}
      <4>1. x <= b /\ b < x + off[x]
        BY <1>3, <2>3, <3>2
      <4>2. x < q => b < q
        BY <1>1, <1>3, <3>2, <4>1
      <4>3. q < x => q + off[q] < b
        BY <1>1, <1>3, <3>2, <4>1
      <4>4. ~(p <= b /\ b < p + n)
        BY <1>1, <1>3, <3>2, <4>2, <4>3
      <4> QED
        BY <2>2, <3>2, <4>1, <4>4
    <3> QED
      BY <1>3, <3>1, <3>2
  <2>4. ASSUME NEW x \in D, x <= b, b < x + off[x], ~(p <= b /\ b < p + n)
        PROVE  Free(b)'
    <3>1. CASE x # q
      <4>1. x \in D1 /\ off'[x] = off[x]
        BY <1>3, <3>1
      <4> QED
        BY <2>1, <2>4, <4>1
    <3>2. CASE x = q /\ b < p
      <4>1. q < p
        <5>1. q \in Int /\ q <= b /\ b < p
          BY <1>1, <1>3, <2>4, <3>2
        <5> HIDE DEF CutsOut
        <5> QED
          BY <5>1
      <4>2. q \in D1 /\ off'[q] = p - q
        BY <1>3, <4>1
      <4>3. q <= b /\ b < q + off'[q]
        BY <1>1, <1>3, <2>4, <3>2, <4>2
      <4> QED
        BY <2>1, <4>2, <4>3
    <3>3. CASE x = q /\ p + n <= b
      <4>1. p + n < q + off[q]
        BY <1>1, <1>3, <2>4, <3>3
      <4>2. p + n \in D1 /\ off'[p + n] = q + off[q] - (p + n)
        BY <1>3, <4>1
      <4>3. b < (p + n) + off'[p + n]
        BY <1>1, <1>3, <2>4, <3>3, <4>2
      <4> QED
        BY <2>1, <3>3, <4>2, <4>3
    <3> QED
      BY <1>1, <2>4, <3>1, <3>2, <3>3
  <2> QED
    BY <2>1, <2>2, <2>3, <2>4
<1>9. SegUsed'
  <2>1. Base <= p /\ p + n <= Base + Size
    BY <1>1, <1>2, <1>3
  <2>2. \A b \in Bytes(Base, Size) : b \in Int
    BY <1>2 DEF Bytes
  <2> QED
    BY <1>8, <2>1, <2>2, BlockTaken
<1> QED
  BY <1>5, <1>6, <1>9 DEF SegMap, SegApart, D1

\* The set follows the map where one segment makes place for others.
LEMMA EntryFollows ==
  ASSUME SegEntries, NEW q \in DOMAIN off, NEW came,
         DOMAIN off' = (DOMAIN off \ {q}) \cup came,
         \A x \in DOMAIN off \ {q} : off'[x] = off[x],
         siz' = (siz \ {Entry(off, q)}) \cup {Entry(off', x) : x \in came}
  PROVE  SegEntries'
<1> DEFINE gone == {q}
<1>1. {Entry(off, x) : x \in gone} = {Entry(off, q)}
  OBVIOUS
<1>2. siz' = (siz \ {Entry(off, x) : x \in gone}) \cup {Entry(off', x) : x \in came}
  BY <1>1
<1>3. gone \subseteq DOMAIN off /\ DOMAIN off' = (DOMAIN off \ gone) \cup came
  OBVIOUS
<1>4. \A x \in DOMAIN off \ gone : off'[x] = off[x]
  OBVIOUS
<1> HIDE DEF gone
<1> QED
  BY <1>2, <1>3, <1>4, EntriesFollow
-----------------------------------------------------------------------------
\* When some entry is large enough, lower_bound finds one.
LEMMA BestFitFits ==
  ASSUME SegPairs, NEW n \in Nat, LargeEnough(n) # {}
  PROVE  BestFit(n) \in siz /\ BestFit(n)[1] >= n
<1> DEFINE F == LargeEnough(n)
           T == {t[1] : t \in F}
<1>1. \A t \in F : t \in siz /\ t[1] >= n /\ t[1] \in Nat /\ t[2] \in Int /\ Base <= t[2]
  BY DEF LargeEnough, SegPairs
<1>2. \E m \in T : \A k \in T : m <= k
  <2>1. \A m \in T : \E t \in F : m = t[1]
    OBVIOUS
  <2>2. PICK t \in F : TRUE
    OBVIOUS
  <2>3. t[1] \in T
    OBVIOUS
  <2> HIDE DEF F, T
  <2>4. T \subseteq Int
    BY <1>1, <2>1
  <2>5. \A m \in T : 0 <= m
    BY <1>1, <2>1
  <2>6. T # {} /\ 0 \in Int
    BY <2>3
  <2> QED
    BY <2>4, <2>5, <2>6, LeastOf
<1>3. PICK m \in T : \A k \in T : m <= k
  BY <1>2
<1> DEFINE A == {t[2] : t \in {t \in F : t[1] = m}}
<1>4. A \subseteq Int /\ A # {} /\ \A x \in A : Base <= x
  <2>1. \A x \in A : \E t \in F : t[1] = m /\ x = t[2]
    OBVIOUS
  <2>2. PICK t \in F : t[1] = m
    BY <1>3
  <2>3. t[2] \in A
    BY <2>2
  <2> HIDE DEF F, A
  <2> QED
    BY <1>1, <2>1, <2>3
<1>5. Base \in Int
  BY ArenaAssumption
<1>6. PICK a \in A : \A x \in A : a <= x
  <2> HIDE DEF A
  <2> QED
    BY <1>4, <1>5, LeastOf
<1>7. PICK seg \in F : seg[1] = m /\ seg[2] = a
  BY <1>6
<1>8. \A t \in F : seg[1] < t[1] \/ (seg[1] = t[1] /\ seg[2] <= t[2])
  <2> TAKE t \in F
  <2>1. t[1] \in T /\ (t[1] = m => t[2] \in A)
    OBVIOUS
  <2>2. m <= t[1] /\ (t[1] = m => a <= t[2])
    BY <1>3, <1>6, <2>1
  <2> HIDE DEF F, T, A
  <2>3. m \in Nat /\ t[1] \in Nat
    BY <1>1, <1>7
  <2> QED
    BY <1>7, <2>2, <2>3
<1>9. BestFit(n) \in F
  BY <1>7, <1>8 DEF BestFit
<1> HIDE DEF F
<1> QED
  BY <1>1, <1>9

\* allocate cuts off the first part of a segment, when what it finds is one.
LEMMA AllocateKeeps ==
  ASSUME SegInv, NEW n \in 0 .. Size, Allocate(n)
  PROVE  SegInv'
<1> DEFINE seg == BestFit(n)
<1>1. /\ reverse \in BOOLEAN /\ amiss \in BOOLEAN /\ reverse' = reverse /\ amiss' = amiss
      /\ harmed' = (n = 0 \/ seg \notin {Entry(off, x) : x \in DOMAIN off})
  BY DEF Allocate, SegInv
<1>2. CASE harmed'
  BY <1>1, <1>2 DEF SegInv
<1>3. CASE ~harmed'
  <2>1. SegMap /\ SegApart /\ SegUsed /\ SegPairs /\ (~amiss => SegEntries)
    BY DEF Allocate, SegInv
  <2>2. n \in Nat \ {0} /\ \E x \in DOMAIN off : seg = Entry(off, x)
    <3> HIDE DEF seg
    <3>1. ~(n = 0 \/ seg \notin {Entry(off, x) : x \in DOMAIN off})
      BY <1>1, <1>3, Zenon
    <3> QED
      BY <3>1, ArenaAssumption
  <2>3. PICK q \in DOMAIN off : seg = Entry(off, q)
    BY <2>2
  <2>4. seg[1] = off[q] /\ seg[2] = q
    BY <2>3 DEF Entry
  <2>5. q \in Int /\ off[q] \in Nat \ {0} /\ Base <= q /\ off[q] >= n
    <3>1. seg[1] >= n
      BY <2>1, <2>2, BestFitFits DEF Allocate
    <3> QED
      BY <2>1, <2>4, <3>1 DEF SegMap
  <2> DEFINE c == reverse_ptr(q, n)
             less == off[q] - n
             rest == IF less > 0 THEN {<<less, q + n>>} ELSE {}
             came == IF less > 0 THEN {q + n} ELSE {}
  <2>6. /\ siz' = (siz \cup rest) \ {Entry(off, q)}
        /\ off' = Erase(IF less > 0 THEN Insert(off, q + n, less) ELSE off, q)
        /\ used' = used \cup Bytes(c, n)
    BY <2>3, <2>4 DEF Allocate
  <2>7. c \in Int /\ reverse_ptr(c, n) = q
    BY <1>1, <2>2, <2>5, BlockOfCaller
  <2>8. \A x \in DOMAIN off \ {q} : x \notin came
    BY <2>1, <2>2, <2>5 DEF SegMap, SegApart
  <2>9. less > 0 => q + n \notin DOMAIN off /\ q + n # q
    BY <2>2, <2>5, <2>8
  <2>10. /\ DOMAIN off' = (DOMAIN off \ {q}) \cup came
         /\ \A x \in DOMAIN off \ {q} : off'[x] = off[x]
         /\ less > 0 => off'[q + n] = less
    BY <2>6, <2>9 DEF Erase, Insert
  <2>11. siz' = (siz \ {Entry(off, q)}) \cup {Entry(off', x) : x \in came}
    <3>1. rest = {Entry(off', x) : x \in came}
      BY <2>10 DEF Entry
    <3>2. Entry(off, q) \notin rest
      BY <2>2, <2>5 DEF Entry
    <3> QED
      BY <2>6, <3>1, <3>2
  <2>12. /\ \A x : x \in came <=> x = q + n /\ q + n < q + off[q]
         /\ q <= q /\ ~(q < q) /\ q + n <= q + off[q]
         /\ less = q + off[q] - (q + n) /\ (q + n < q + off[q] => less > 0)
    BY <2>2, <2>5
  <2>13. SegPairs'
    <3>1. rest \subseteq Nat \X {x \in Int : Base <= x}
      BY <2>2, <2>5, ArenaAssumption
    <3> QED
      BY <2>1, <2>6, <3>1 DEF SegPairs
  <2> HIDE DEF c, less, rest, came
  <2>14. CutsOut(q, c, n, q, came)
    BY <2>5, <2>6, <2>7, <2>10, <2>12 DEF CutsOut, came
  <2>15. SegMap' /\ SegApart' /\ SegUsed'
    BY <1>1, <2>1, <2>2, <2>5, <2>7, <2>14, BlockCut
  <2>16. ~amiss' => SegEntries'
    BY <1>1, <2>1, <2>10, <2>11, EntryFollows
  <2> QED
    BY <1>1, <1>3, <2>13, <2>15, <2>16 DEF SegInv
<1> QED
  BY <1>2, <1>3

\* The pieces that line 66, 67 and 68 file are sizes and addresses.
LEMMA PairsFollow ==
  ASSUME SegPairs, NEW gone, NEW came, came \subseteq Nat \X {x \in Int : Base <= x},
         siz' = (siz \ gone) \cup came
  PROVE  SegPairs'
BY DEF SegPairs

\* placement_allocate cuts the block out of the segment that holds it; where it
\* would harm the map the invariant ends.
LEMMA PlacementKeeps ==
  ASSUME SegInv, NEW cp \in (Base - 1) .. (Base + Size), NEW n \in 1 .. Size,
         PlacementAllocate(cp, n)
  PROVE  SegInv'
<1> DEFINE p == reverse_ptr(cp, n)
           q == Max(StartsUpTo(p))
<1>1. /\ SegMap /\ SegApart /\ SegUsed /\ SegPairs /\ (~amiss => SegEntries)
      /\ reverse \in BOOLEAN /\ amiss \in BOOLEAN /\ harmed = FALSE
  BY DEF PlacementAllocate, SegInv
<1>2. cp \in Int /\ n \in Nat \ {0}
  BY ArenaAssumption
<1>3. p \in Int
  BY <1>1, <1>2, BlockOfCaller
<1>4. /\ StartsUpTo(p) # {} /\ q + off[q] >= p + n
      /\ PlaceWhole(q, n) \/ PlaceFirst(q, p, n) \/ PlaceLast(q, p, n) \/ PlaceMiddle(q, p, n)
      /\ used' = used \cup Bytes(cp, n) /\ reverse' = reverse
  BY DEF PlacementAllocate
<1> HIDE DEF p
<1>5. q \in DOMAIN off /\ q <= p
  BY <1>1, <1>3, <1>4, LastStart
<1> HIDE DEF q
<1>6. q \in Int /\ off[q] \in Nat \ {0} /\ Base <= q /\ Base \in Int
  BY <1>1, <1>5, ArenaAssumption DEF SegMap
<1>7. CASE PlaceWhole(q, n)
  <2>1. /\ off[q] = n /\ off' = Erase(off, q) /\ amiss' = TRUE /\ harmed' \in BOOLEAN
        /\ siz' \subseteq siz
    BY <1>7 DEF PlaceWhole
  <2> DEFINE came == {}
  <2>2. q = p /\ ~(q < p) /\ p + n <= q + off[q] /\ ~(p + n < q + off[q])
    BY <1>2, <1>3, <1>4, <1>5, <1>6, <2>1
  <2>3. /\ DOMAIN off' = (DOMAIN off \ {q}) \cup came
        /\ \A x \in DOMAIN off \ {q} : off'[x] = off[x]
    BY <2>1 DEF Erase
  <2>4. CutsOut(q, cp, n, p, came)
    BY <1>4, <1>5, <2>2, <2>3 DEF CutsOut, p
  <2>5. SegMap' /\ SegApart' /\ SegUsed'
    <3> HIDE DEF came
    <3> QED
      BY <1>1, <1>2, <1>3, <1>4, <1>5, <2>4, BlockCut
  <2>6. SegPairs'
    BY <1>1, <2>1 DEF SegPairs
  <2> QED
    BY <1>1, <1>4, <2>1, <2>5, <2>6 DEF SegInv
<1>8. CASE PlaceFirst(q, p, n)
  BY <1>1, <1>4, <1>8 DEF PlaceFirst, SegInv
<1>9. CASE PlaceLast(q, p, n)
  <2>1. q < p /\ q + off[q] = p + n /\ off[q] - n = p - q
    BY <1>2, <1>3, <1>5, <1>6, <1>9 DEF PlaceLast
  <2>2. /\ off' = [off EXCEPT ![q] = p - q] /\ UNCHANGED <<amiss, harmed>>
        /\ siz' = (siz \ {Entry(off, q)}) \cup {<<p - q, q>>}
    BY <1>9, <2>1 DEF PlaceLast
  <2> DEFINE came == {q}
  <2>3. /\ DOMAIN off' = (DOMAIN off \ {q}) \cup came
        /\ \A x \in DOMAIN off \ {q} : off'[x] = off[x]
        /\ off'[q] = p - q
    BY <1>5, <2>2
  <2>4. siz' = (siz \ {Entry(off, q)}) \cup {Entry(off', x) : x \in came}
    BY <2>2, <2>3 DEF Entry
  <2>5. /\ \A x : x \in came <=> (x = q /\ q < p) \/ (x = p + n /\ p + n < q + off[q])
        /\ ~(p + n < q + off[q]) /\ p + n <= q + off[q]
    BY <1>2, <1>3, <1>6, <2>1
  <2>6. SegPairs'
    <3>1. {<<p - q, q>>} \subseteq Nat \X {x \in Int : Base <= x}
      BY <1>3, <1>6, <2>1
    <3> QED
      BY <1>1, <2>2, <3>1, PairsFollow
  <2> HIDE DEF came
  <2>7. CutsOut(q, cp, n, p, came)
    BY <1>4, <1>5, <2>3, <2>5 DEF CutsOut, p
  <2>8. SegMap' /\ SegApart' /\ SegUsed'
    BY <1>1, <1>2, <1>3, <1>4, <1>5, <2>7, BlockCut
  <2>9. ~amiss' => SegEntries'
    BY <1>1, <1>5, <2>2, <2>3, <2>4, EntryFollows
  <2> QED
    BY <1>1, <1>4, <2>2, <2>6, <2>8, <2>9 DEF SegInv
<1>10. CASE PlaceMiddle(q, p, n)
  <2> DEFINE r == p + n
             after == q + off[q] - r
             came == {q, r}
  <2>1. /\ q < p /\ r < q + off[q] /\ off[q] - n - (p - q) = after
        /\ r \in Int /\ r # q /\ q < r
    <3>1. q # p /\ q + off[q] # p + n
      BY <1>10 DEF PlaceMiddle
    <3> QED
      BY <1>2, <1>3, <1>4, <1>5, <1>6, <3>1
  <2>2. r \notin DOMAIN off
    BY <1>1, <1>5, <1>6, <2>1 DEF SegApart
  <2>3. /\ off' = Insert([off EXCEPT ![q] = p - q], r, after) /\ UNCHANGED harmed
        /\ siz' = (siz \ {Entry(off, q)}) \cup {<<p - q, q>>, <<p - q, r>>}
        /\ amiss' = (amiss \/ p - q # after)
    BY <1>10, <2>1 DEF PlaceMiddle
  <2>4. SegPairs'
    <3>1. {<<p - q, q>>, <<p - q, r>>} \subseteq Nat \X {x \in Int : Base <= x}
      BY <1>3, <1>6, <2>1
    <3> QED
      BY <1>1, <2>3, <3>1, PairsFollow
  <2> HIDE DEF r, after
  <2>5. /\ DOMAIN off' = (DOMAIN off \ {q}) \cup came
        /\ \A x \in DOMAIN off \ {q} : off'[x] = off[x]
        /\ off'[q] = p - q /\ off'[r] = after
    BY <1>5, <2>1, <2>2, <2>3 DEF Insert
  <2>6. ~amiss' => siz' = (siz \ {Entry(off, q)}) \cup {Entry(off', x) : x \in came}
    BY <1>1, <2>3, <2>5 DEF Entry
  <2>7. \A x : x \in came <=> (x = q /\ q < p) \/ (x = r /\ r < q + off[q])
    BY <2>1
  <2>8. r <= q + off[q]
    BY <1>6, <2>1
  <2> HIDE DEF came
  <2>9. CutsOut(q, cp, n, p, came)
    BY <1>4, <1>5, <2>5, <2>7, <2>8 DEF CutsOut, p, r, after
  <2>10. SegMap' /\ SegApart' /\ SegUsed'
    BY <1>1, <1>2, <1>3, <1>4, <1>5, <2>9, BlockCut
  <2>11. ~amiss' => SegEntries'
    BY <1>1, <1>5, <2>3, <2>5, <2>6, EntryFollows
  <2> QED
    BY <1>1, <1>4, <2>3, <2>4, <2>10, <2>11 DEF SegInv
<1> QED
  BY <1>4, <1>7, <1>8, <1>9, <1>10
-----------------------------------------------------------------------------
\* A block and the segments that end or start where it does become one segment.
Joins(gone, c, n, p, start, end) ==
  /\ p = reverse_ptr(c, n)
  /\ gone \subseteq DOMAIN off
  /\ \A x \in DOMAIN off : x \in gone <=> x + off[x] = p \/ x = p + n
  /\ \A x \in DOMAIN off : x + off[x] = p => start = x
  /\ (\A x \in DOMAIN off : x + off[x] # p) => start = p
  /\ p + n \in DOMAIN off => end = p + n + off[p + n]
  /\ p + n \notin DOMAIN off => end = p + n
  /\ DOMAIN off' = (DOMAIN off \ gone) \cup {start}
  /\ off'[start] = end - start
  /\ \A x \in DOMAIN off \ gone : off'[x] = off[x]
  /\ used' = used \ Bytes(c, n)

\* The bytes of a block that the caller has are in the arena, and none is free.
LEMMA CallersBlock ==
  ASSUME SegUsed, reverse \in BOOLEAN, NEW c \in Int, NEW n \in Nat \ {0},
         Bytes(c, n) \subseteq used, NEW p \in Int, p = reverse_ptr(c, n)
  PROVE  /\ Base <= p /\ p + n <= Base + Size
         /\ \A b \in Int : p <= b /\ b < p + n => ~Free(b)
<1>1. ASSUME NEW b \in Int, p <= b, b < p + n
      PROVE  b \in Bytes(Base, Size) /\ ~Free(b)
  <2>1. n \in Int
    OBVIOUS
  <2>2. CallersByte(b) \in Bytes(c, n)
    BY <1>1, <2>1, BlockOfCaller
  <2>3. CallersByte(b) \in used /\ CallersByte(b) \in Arena
    BY <2>2 DEF SegUsed
  <2>4. b \in Bytes(Base, Size)
    BY <2>3, CallersArena
  <2> QED
    BY <2>3, <2>4 DEF SegUsed
<1>2. p \in Bytes(Base, Size) /\ p + n - 1 \in Bytes(Base, Size)
  BY <1>1
<1> QED
  BY <1>1, <1>2, ArenaAssumption DEF Bytes

LEMMA BlockJoined ==
  ASSUME SegMap, SegApart, SegUsed, reverse \in BOOLEAN, reverse' = reverse,
         NEW c \in Int, NEW n \in Nat \ {0}, NEW p \in Int, NEW gone, NEW start, NEW end,
         Bytes(c, n) \subseteq used, Joins(gone, c, n, p, start, end)
  PROVE  SegMap' /\ SegApart' /\ SegUsed'
<1> DEFINE D == DOMAIN off
           D1 == DOMAIN off'
           r == p + n
<1>1. /\ \A x \in D : /\ x \in Int /\ off[x] \in Nat \ {0}
                      /\ Base <= x /\ x + off[x] <= Base + Size
      /\ \A x, y \in D : x < y => x + off[x] < y
  BY DEF SegMap, SegApart
<1>2. Base \in Int /\ Size \in Int /\ r \in Int /\ p < r
  BY ArenaAssumption
<1>3. /\ gone \subseteq D /\ \A x \in D : x \in gone <=> x + off[x] = p \/ x = r
      /\ \A x \in D : x + off[x] = p => start = x
      /\ (\A x \in D : x + off[x] # p) => start = p
      /\ r \in D => end = r + off[r]
      /\ r \notin D => end = r
  BY DEF Joins
<1>4. /\ D1 = (D \ gone) \cup {start} /\ off'[start] = end - start
      /\ \A x \in D \ gone : off'[x] = off[x]
  BY DEF Joins
<1>5. /\ Base <= p /\ r <= Base + Size
      /\ \A b \in Int : p <= b /\ b < r => ~(\E x \in D : x <= b /\ b < x + off[x])
  <2>1. p = reverse_ptr(c, n)
    BY DEF Joins
  <2>2. /\ Base <= p /\ p + n <= Base + Size
        /\ \A b \in Int : p <= b /\ b < p + n => ~Free(b)
    BY <2>1, CallersBlock
  <2> QED
    BY <2>2 DEF Free
<1> HIDE DEF D, D1, r
<1>6. \A x \in D : x + off[x] <= p \/ r <= x
  <2> TAKE x \in D
  <2>1. CASE x <= p
    BY <1>1, <1>2, <1>5, <2>1
  <2>2. CASE p < x
    <3>1. x <= x /\ x < x + off[x] /\ x \in Int
      BY <1>1
    <3> QED
      BY <1>2, <1>5, <2>2, <3>1
  <2> QED
    BY <1>1, <2>1, <2>2
<1>7. /\ start \in Int /\ Base <= start /\ start <= p
      /\ start < p => start \in D /\ start + off[start] = p
  <2>1. CASE \E x \in D : x + off[x] = p
    BY <1>1, <1>3, <2>1
  <2>2. CASE \A x \in D : x + off[x] # p
    BY <1>3, <1>5, <2>2
  <2> QED
    BY <2>1, <2>2
<1>8. /\ end \in Int /\ r <= end /\ end <= Base + Size
      /\ r < end => r \in D /\ end = r + off[r]
  BY <1>1, <1>2, <1>3, <1>5
<1>9. \A x \in D \ gone : x + off[x] < start \/ end < x
  <2> TAKE x \in D \ gone
  <2>1. /\ x \in Int /\ off[x] \in Nat \ {0}
        /\ x + off[x] # p /\ x # r /\ (x + off[x] <= p \/ r <= x)
    BY <1>1, <1>3, <1>6
  <2>2. CASE x + off[x] <= p
    <3>1. CASE start < p
      <4>1. start \in D /\ start + off[start] = p /\ off[start] \in Nat \ {0} /\ x # start
        BY <1>1, <1>7, <2>1, <3>1
      <4>2. ~(start < x)
        BY <1>1, <1>7, <2>1, <2>2, <4>1
      <4>3. x < start
        BY <1>7, <2>1, <4>1, <4>2
      <4> QED
        BY <1>1, <4>1, <4>3
    <3>2. CASE start = p
      BY <2>1, <2>2, <3>2
    <3> QED
      BY <1>7, <3>1, <3>2
  <2>3. CASE r <= x
    <3>1. r < x
      BY <1>2, <2>1, <2>3
    <3>2. r \in D => r + off[r] < x
      BY <1>1, <3>1
    <3> QED
      BY <1>3, <3>1, <3>2
  <2> QED
    BY <2>1, <2>2, <2>3
<1>10. \A x \in D1 : /\ x \in Int /\ off'[x] \in Nat \ {0}
                     /\ Base <= x /\ x + off'[x] <= Base + Size
  <2>1. off'[start] \in Nat \ {0} /\ start + off'[start] = end
    BY <1>2, <1>4, <1>7, <1>8
  <2> QED
    BY <1>1, <1>4, <1>7, <1>8, <2>1
<1>11. \A x, y \in D1 : x < y => x + off'[x] < y
  <2> TAKE x, y \in D1
  <2> HAVE x < y
  <2>1. start + off'[start] = end
    BY <1>2, <1>4, <1>7, <1>8
  <2>2. CASE x = start /\ y = start
    BY <1>7, <2>2
  <2>3. CASE x = start /\ y \in D \ gone
    <3>1. y \in Int /\ off[y] \in Nat /\ y <= y + off[y]
      BY <1>1, <2>3
    <3> QED
      BY <1>7, <1>9, <2>1, <2>3, <3>1
  <2>4. CASE x \in D \ gone /\ y = start
    <3>1. x \in Int /\ off[x] \in Nat /\ off'[x] = off[x]
      BY <1>1, <1>4, <2>4
    <3>2. ~(end < x)
      BY <1>2, <1>7, <1>8, <2>4, <3>1
    <3> QED
      BY <1>9, <2>4, <3>1, <3>2
  <2>5. CASE x \in D \ gone /\ y \in D \ gone
    BY <1>1, <1>4, <2>5
  <2> QED
    BY <1>4, <2>2, <2>3, <2>4, <2>5
<1>13. ASSUME NEW b \in Int
       PROVE  Free(b)' <=> Free(b) \/ (p <= b /\ b < p + n)
  <2>1. Free(b)' <=> \E x \in D1 : x <= b /\ b < x + off'[x]
    BY DEF Free, D1
  <2>2. Free(b) <=> \E x \in D : x <= b /\ b < x + off[x]
    BY DEF Free, D
  <2>3. start + off'[start] = end /\ start \in D1
    BY <1>2, <1>4, <1>7, <1>8
  <2>4. ASSUME NEW x \in D1, x <= b, b < x + off'[x]
        PROVE  Free(b) \/ (p <= b /\ b < r)
    <3>1. CASE x = start
      <4>1. CASE b < p
        <5>1. start \in D /\ b < start + off[start]
          BY <1>7, <2>4, <3>1, <4>1
        <5> QED
          BY <2>2, <2>4, <3>1, <5>1
      <4>2. CASE r <= b
        <5>1. r < end
          BY <1>2, <1>8, <2>3, <2>4, <3>1, <4>2
        <5>2. r \in D /\ b < r + off[r]
          BY <1>8, <2>3, <2>4, <3>1, <5>1
        <5> QED
          BY <2>2, <4>2, <5>2
      <4> QED
        BY <1>2, <4>1, <4>2
    <3>2. CASE x \in D \ gone
      BY <1>4, <2>2, <2>4, <3>2
    <3> QED
      BY <1>4, <3>1, <3>2
  <2>5. ASSUME NEW x \in D, x <= b, b < x + off[x] PROVE Free(b)'
    <3>1. CASE x \in gone /\ x + off[x] = p
      <4>1. x = start
        BY <1>3, <3>1
      <4>2. start <= b /\ b < end
        BY <1>2, <1>8, <2>5, <3>1, <4>1
      <4> QED
        BY <2>1, <2>3, <4>2
    <3>2. CASE x \in gone /\ x = r
      <4>1. end = x + off[x]
        BY <1>3, <3>2
      <4>2. start <= b /\ b < end
        BY <1>2, <1>7, <2>5, <3>2, <4>1
      <4> QED
        BY <2>1, <2>3, <4>2
    <3>3. CASE x \notin gone
      <4>1. x \in D1 /\ off'[x] = off[x]
        BY <1>4, <3>3
      <4> QED
        BY <2>1, <2>5, <4>1
    <3> QED
      BY <1>3, <3>1, <3>2, <3>3
  <2>6. p <= b /\ b < r => Free(b)'
    <3>1. p <= b /\ b < r => start <= b /\ b < end
      BY <1>2, <1>7, <1>8
    <3> QED
      BY <2>1, <2>3, <3>1
  <2> QED
    BY <2>2, <2>4, <2>5, <2>6, <2>1 DEF r
<1>14. SegUsed'
  <2>1. p = reverse_ptr(c, n) /\ used' = used \ Bytes(c, n)
    BY DEF Joins
  <2>2. \A b \in Bytes(Base, Size) : b \in Int
    BY <1>2 DEF Bytes
  <2> QED
    BY <1>13, <2>1, <2>2, BlockGiven
<1> QED
  BY <1>10, <1>11, <1>14 DEF SegMap, SegApart, D1

\* The segment that ends where the block starts is found, and is the only one.
LEMMA PrevIsFound ==
  ASSUME SegMap, SegApart, NEW p \in Int
  PROVE  /\ MergesPrev(p) => /\ Max(StartsUpTo(p - 1)) \in DOMAIN off
                             /\ Max(StartsUpTo(p - 1)) + off[Max(StartsUpTo(p - 1))] = p
         /\ \A x \in DOMAIN off :
              x + off[x] = p => MergesPrev(p) /\ x = Max(StartsUpTo(p - 1))
<1> DEFINE D == DOMAIN off
           T == StartsUpTo(p - 1)
           m == Max(T)
<1>1. /\ \A x \in D : x \in Int /\ off[x] \in Nat \ {0}
      /\ \A x, y \in D : x < y => x + off[x] < y
  BY DEF SegMap, SegApart
<1>2. p - 1 \in Int /\ \A x \in D : x <= p - 1 => x \in T
  BY DEF StartsUpTo
<1>3. T # {} => m \in D /\ m <= p - 1 /\ \A x \in D : x <= p - 1 => x <= m
  BY <1>2, LastStart
<1>4. MergesPrev(p) <=> T # {} /\ m + off[m] = p
  BY DEF MergesPrev
<1> HIDE DEF D, T, m
<1>5. ASSUME NEW x \in D, x + off[x] = p PROVE MergesPrev(p) /\ x = m
  <2>1. x \in Int /\ off[x] \in Nat \ {0} /\ x <= p - 1
    BY <1>1, <1>5
  <2>2. T # {} /\ m \in D /\ m <= p - 1 /\ x <= m /\ m \in Int
    BY <1>1, <1>2, <1>3, <2>1
  <2>3. ~(x < m)
    BY <1>1, <1>5, <2>1, <2>2
  <2>4. x = m
    BY <2>1, <2>2, <2>3
  <2> QED
    BY <1>4, <1>5, <2>2, <2>4
<1> QED
  BY <1>3, <1>4, <1>5 DEF D, T, m

\* The first segment after the block starts where the block ends, if one does.
LEMMA NextIsFound ==
  ASSUME SegMap, NEW p \in Int, NEW n \in Nat \ {0},
         \A b \in Int : p <= b /\ b < p + n => ~Free(b)
  PROVE  MergesNext(p, n) <=> p + n \in DOMAIN off
<1> DEFINE D == DOMAIN off
           T == StartsFrom(p)
           m == Min(T)
           r == p + n
<1>1. \A x \in D : x \in Int /\ off[x] \in Nat \ {0}
  BY DEF SegMap
<1>2. \A x \in D : ~(p <= x /\ x < r)
  <2> TAKE x \in D
  <2>1. x \in Int /\ off[x] \in Nat \ {0} /\ x <= x /\ x < x + off[x]
    BY <1>1
  <2>2. Free(x)
    BY <2>1 DEF Free
  <2> QED
    BY <2>1, <2>2
<1>3. T # {} => m \in D /\ p <= m /\ \A x \in D : p <= x => m <= x
  BY FirstStart
<1>4. \A x \in D : p <= x => x \in T
  BY DEF StartsFrom
<1>5. MergesNext(p, n) <=> T # {} /\ m = r
  BY DEF MergesNext
<1>6. r \in Int /\ p < r
  OBVIOUS
<1> HIDE DEF D, T, m, r
<1>7. ASSUME r \in D PROVE T # {} /\ m = r
  <2>1. r \in T
    BY <1>4, <1>6, <1>7
  <2>2. m \in D /\ p <= m /\ m <= r /\ m \in Int
    <3>1. p <= r
      BY <1>6
    <3>2. m \in D /\ p <= m /\ \A x \in D : p <= x => m <= x
      BY <1>3, <2>1
    <3> QED
      BY <1>1, <1>7, <3>1, <3>2
  <2>3. ~(m < r)
    BY <1>2, <2>2
  <2> QED
    BY <1>6, <2>1, <2>2, <2>3
<1> QED
  BY <1>3, <1>5, <1>7 DEF D, r

\* deallocate joins the block with the segments it touches.
LEMMA DeallocateKeeps ==
  ASSUME SegInv, NEW cp \in (Base - 1) .. (Base + Size), NEW n \in 1 .. Size,
         Deallocate(cp, n)
  PROVE  SegInv'
<1> DEFINE p == reverse_ptr(cp, n)
           m == Max(StartsUpTo(p - 1))
           next == IF MergesNext(p, n) THEN {p + n} ELSE {}
           prev == IF MergesPrev(p) THEN {m} ELSE {}
           before == IF MergesPrev(p) THEN off[m] ELSE 0
           after == IF MergesNext(p, n) THEN off[p + n] ELSE 0
           gone == prev \cup next
           start == p - before
           end == p + n + after
<1>1. /\ SegMap /\ SegApart /\ SegUsed /\ SegPairs /\ (~amiss => SegEntries)
      /\ reverse \in BOOLEAN /\ amiss \in BOOLEAN /\ harmed = FALSE
  BY DEF Deallocate, SegInv
<1>2. cp \in Int /\ n \in Nat \ {0}
  BY ArenaAssumption
<1>3. p \in Int
  BY <1>1, <1>2, BlockOfCaller
<1>4. /\ Bytes(cp, n) \subseteq used
      /\ siz' = (siz \ {Entry(off, x) : x \in gone}) \cup {<<before + n + after, start>>}
      /\ off' = Insert([x \in DOMAIN off \ gone |-> off[x]], start, before + n + after)
      /\ used' = used \ Bytes(cp, n)
      /\ UNCHANGED <<reverse, amiss, harmed>>
  BY DEF Deallocate
<1> HIDE DEF p
<1>5. \A b \in Int : p <= b /\ b < p + n => ~Free(b)
  BY <1>1, <1>2, <1>3, <1>4, CallersBlock DEF p
<1>6. MergesNext(p, n) <=> p + n \in DOMAIN off
  BY <1>1, <1>2, <1>3, <1>5, NextIsFound
<1>7. /\ MergesPrev(p) => m \in DOMAIN off /\ m + off[m] = p
      /\ \A x \in DOMAIN off : x + off[x] = p => MergesPrev(p) /\ x = m
  BY <1>1, <1>3, PrevIsFound
<1>8. \A x \in DOMAIN off : x \in Int /\ off[x] \in Nat \ {0}
  BY <1>1 DEF SegMap
<1> HIDE DEF m
<1>9. /\ gone \subseteq DOMAIN off
      /\ \A x \in DOMAIN off : x \in gone <=> x + off[x] = p \/ x = p + n
  <2>1. \A x : x \in gone <=> (MergesPrev(p) /\ x = m) \/ (MergesNext(p, n) /\ x = p + n)
    OBVIOUS
  <2> HIDE DEF gone
  <2> QED
    BY <1>6, <1>7, <2>1
<1>10. /\ \A x \in DOMAIN off : x + off[x] = p => start = x
       /\ (\A x \in DOMAIN off : x + off[x] # p) => start = p
       /\ start \in Int /\ before \in Int
  <2>1. CASE MergesPrev(p)
    <3>1. m \in DOMAIN off /\ m + off[m] = p /\ before = off[m] /\ off[m] \in Int /\ m \in Int
      BY <1>7, <1>8, <2>1
    <3>2. start = m
      BY <1>3, <3>1
    <3> HIDE DEF start, before
    <3> QED
      BY <1>7, <3>1, <3>2
  <2>2. CASE ~MergesPrev(p)
    <3>1. before = 0 /\ start = p
      BY <1>3, <2>2
    <3> HIDE DEF start, before
    <3> QED
      BY <1>3, <1>7, <2>2, <3>1
  <2> QED
    BY <2>1, <2>2
<1>11. /\ p + n \in DOMAIN off => end = p + n + off[p + n]
       /\ p + n \notin DOMAIN off => end = p + n
       /\ after \in Int
  <2>1. CASE MergesNext(p, n)
    BY <1>6, <1>8, <2>1
  <2>2. CASE ~MergesNext(p, n)
    BY <1>2, <1>3, <1>6, <2>2
  <2> QED
    BY <2>1, <2>2
<1>12. before + n + after = end - start
  BY <1>2, <1>3, <1>10, <1>11
<1> HIDE DEF gone, start, end, before, after
<1>13. start \notin DOMAIN off \ gone
  <2>1. ASSUME start \in DOMAIN off, start \notin gone PROVE FALSE
    <3>1. ~(\E x \in DOMAIN off : x + off[x] = p)
      BY <1>9, <1>10, <2>1
    <3>2. start = p /\ p \in DOMAIN off
      BY <1>10, <2>1, <3>1
    <3>3. p <= p /\ p < p + n /\ p < p + off[p]
      BY <1>2, <1>3, <1>8, <3>2
    <3>4. Free(p)
      BY <3>2, <3>3 DEF Free
    <3> QED
      BY <1>3, <1>5, <3>3, <3>4
  <2> QED
    BY <2>1
<1>14. /\ DOMAIN off' = (DOMAIN off \ gone) \cup {start}
       /\ off'[start] = end - start
       /\ \A x \in DOMAIN off \ gone : off'[x] = off[x]
  BY <1>4, <1>12, <1>13 DEF Insert
<1>15. Joins(gone, cp, n, p, start, end)
  BY <1>4, <1>9, <1>10, <1>11, <1>12, <1>14 DEF Joins, p
<1>16. SegMap' /\ SegApart' /\ SegUsed'
  BY <1>1, <1>2, <1>3, <1>4, <1>15, BlockJoined
<1>17. ~amiss' => SegEntries'
  <2> DEFINE came == {start}
  <2>1. {Entry(off', x) : x \in came} = {<<end - start, start>>}
    BY <1>14 DEF Entry
  <2>2. siz' = (siz \ {Entry(off, x) : x \in gone}) \cup {Entry(off', x) : x \in came}
    BY <1>4, <1>12, <2>1
  <2>3. DOMAIN off' = (DOMAIN off \ gone) \cup came
    BY <1>14
  <2> HIDE DEF came
  <2> QED
    BY <1>1, <1>4, <1>9, <1>14, <2>2, <2>3, EntriesFollow
<1>18. SegPairs'
  <2>1. start \in DOMAIN off'
    BY <1>14
  <2>2. Base <= start /\ start \in Int /\ end - start \in Nat
    BY <1>14, <1>16, <2>1 DEF SegMap
  <2>3. {<<end - start, start>>} \subseteq Nat \X {x \in Int : Base <= x}
    BY <2>2
  <2> QED
    BY <1>1, <1>4, <1>12, <2>3, PairsFollow
<1> QED
  BY <1>1, <1>4, <1>16, <1>17, <1>18 DEF SegInv
-----------------------------------------------------------------------------
\* At first the arena is one segment.
LEMMA InitSegInv == SegInit => SegInv
<1> SUFFICES ASSUME SegInit PROVE SegInv
  OBVIOUS
<1>1. /\ DOMAIN off = {Base} /\ off[Base] = Size
      /\ siz = {<<Size, Base>>} /\ used = {}
      /\ reverse \in BOOLEAN /\ amiss = FALSE /\ harmed = FALSE
  BY DEF SegInit
<1>2. Base \in Nat /\ Size \in Nat \ {0}
  BY ArenaAssumption
<1>3. SegMap /\ SegApart
  BY <1>1, <1>2 DEF SegMap, SegApart
<1>4. SegEntries /\ SegPairs
  BY <1>1, <1>2 DEF SegEntries, SegPairs, Entry
<1>5. \A b \in Bytes(Base, Size) : Free(b)
  BY <1>1, <1>2 DEF Free, Bytes
<1>6. SegUsed
  BY <1>1, <1>5 DEF SegUsed
<1> QED
  BY <1>1, <1>3, <1>4, <1>6 DEF SegInv

LEMMA NextSegInv == SegInv /\ [SegNext]_segvars => SegInv'
<1> SUFFICES ASSUME SegInv, [SegNext]_segvars PROVE SegInv'
  OBVIOUS
<1>1. CASE UNCHANGED segvars
  <2>1. /\ siz' = siz /\ off' = off /\ reverse' = reverse
        /\ used' = used /\ amiss' = amiss /\ harmed' = harmed
    BY <1>1 DEF segvars
  <2>2. /\ SegMap' = SegMap /\ SegApart' = SegApart
        /\ SegEntries' = SegEntries /\ SegPairs' = SegPairs
    BY <2>1 DEF SegMap, SegApart, SegEntries, SegPairs, Entry
  <2>3. SegUsed' = SegUsed
    BY <2>1 DEF SegUsed, Arena, CallersByte, Free
  <2> QED
    BY <2>1, <2>2, <2>3 DEF SegInv
<1> QED
  BY <1>1, AllocateKeeps, PlacementKeeps, DeallocateKeeps DEF SegNext

\* However blocks are taken, placed, split and given back, at any place and in any
\* arena, every byte is with the caller or in one free segment of the map, and free
\* neighbours are one segment, until a request harms the map: one for 0 bytes, for
\* a place at the start of a segment with nothing before it or with a rest, or one
\* to which allocate gives a segment that only the set has.  Until a block fills a
\* segment or leaves unlike pieces on its sides, set and map agree
\* (seg_allocator.h lines 12-118).
THEOREM EveryByteOnce == SegSpec => []FreeIsRest
<1>1. SegSpec => []SegInv
  BY InitSegInv, NextSegInv, PTL DEF SegSpec
<1>2. ASSUME SegInv PROVE FreeIsRest
  <2> SUFFICES ASSUME SegMap, SegApart, SegUsed, ~amiss => SegEntries, reverse \in BOOLEAN
               PROVE  /\ ~amiss => siz = {Entry(off, p) : p \in DOMAIN off}
                      /\ used \subseteq Arena
                      /\ UNION {Segment(p) : p \in DOMAIN off} = Arena \ used
                      /\ \A p, q \in DOMAIN off : p < q => p + off[p] < q
    BY <1>2 DEF SegInv, FreeIsRest
  <2>1. \A x \in DOMAIN off : x \in Int /\ off[x] \in Int
    BY DEF SegMap
  <2>2. ASSUME NEW c \in Int
        PROVE  c \in UNION {Segment(x) : x \in DOMAIN off} <=> Free(CallersByte(c))
    <3> DEFINE b == CallersByte(c)
    <3>1. b \in Int /\ CallersByte(b) = c
      BY BlockOfCaller
    <3> HIDE DEF b
    <3>2. ASSUME NEW x \in DOMAIN off
          PROVE  c \in Segment(x) <=> x <= b /\ b < x + off[x]
      <4> DEFINE n == off[x]
                 d == reverse_ptr(x, n)
      <4>1. d \in Int /\ reverse_ptr(d, n) = x
        BY <2>1, BlockOfCaller
      <4>2. CallersByte(b) \in Bytes(d, n) <=> reverse_ptr(d, n) <= b /\ b < reverse_ptr(d, n) + n
        <5> HIDE DEF d
        <5> QED
          BY <2>1, <3>1, <4>1, BlockOfCaller
      <4>3. Segment(x) = Bytes(d, n)
        BY DEF Segment
      <4> QED
        BY <3>1, <4>1, <4>2, <4>3
    <3> QED
      BY <3>2 DEF Free, b
  <2>3. \A x \in DOMAIN off : Segment(x) \subseteq Arena
    <3> SUFFICES ASSUME NEW x \in DOMAIN off, NEW c \in Segment(x) PROVE c \in Arena
      OBVIOUS
    <3>1. reverse_ptr(x, off[x]) \in Int
      BY <2>1, BlockOfCaller
    <3>2. c \in Int
      BY <2>1, <3>1 DEF Segment, Bytes
    <3>3. Free(CallersByte(c)) /\ CallersByte(c) \in Int /\ CallersByte(CallersByte(c)) = c
      BY <2>2, <3>2, BlockOfCaller
    <3>4. CallersByte(c) \in Bytes(Base, Size)
      BY <3>3, ArenaAssumption DEF Free, SegMap, Bytes
    <3> QED
      BY <3>3, <3>4, CallersArena
  <2>4. ASSUME NEW c \in Arena
        PROVE  c \in UNION {Segment(x) : x \in DOMAIN off} <=> c \notin used
    <3>1. c \in Int
      BY CallersArena
    <3>2. CallersByte(c) \in Int /\ CallersByte(CallersByte(c)) = c
      BY <3>1, BlockOfCaller
    <3>3. CallersByte(c) \in Bytes(Base, Size)
      BY <3>2, CallersArena
    <3>4. c \in used <=> ~Free(CallersByte(c))
      BY <3>2, <3>3 DEF SegUsed
    <3> QED
      BY <2>2, <3>1, <3>4
  <2>5. UNION {Segment(x) : x \in DOMAIN off} = Arena \ used
    BY <2>3, <2>4
  <2> QED
    BY <2>5 DEF SegEntries, SegUsed, SegApart
<1> QED
  BY <1>1, <1>2, PTL
-----------------------------------------------------------------------------
(***************************************************************************)
(* run_test_task.  The time it reports is never negative, for any number   *)
(* of threads, any share of the work and any clock that does not go back.  *)
(***************************************************************************)
Started(t) == at_[t] \in {"read", "lower", "op", "end", "over"}
Lowered(t) == at_[t] \in {"op", "end", "over"}
Ended(t) == at_[t] \in {"end", "over"}

\* The values of the variables the argument is about.
TimeTypes ==
  /\ now \in Nat /\ now <= LastTime
  /\ at_ \in [BThreads -> {"barrier", "clock", "read", "lower", "op", "end", "over"}]
  /\ start_us \in [BThreads -> Nat] /\ end_us \in [BThreads -> Nat]
  /\ low \in [BThreads -> Nat]
  /\ test_start_time \in Nat /\ test_end_time \in Nat

\* No time lies ahead of the clock.
NotAhead ==
  /\ \A t \in BThreads : Started(t) => start_us[t] <= now
  /\ test_start_time <= now \/ test_start_time = UMax

\* Once a thread has lowered the start it stays lowered, and so does what others
\* have read of it.
StaysLow ==
  /\ \A t \in BThreads : Lowered(t) => test_start_time <= now
  /\ \A t \in BThreads : at_[t] = "lower" =>
       (low[t] <= now /\ test_start_time <= now) \/ low[t] = UMax

\* What a thread is about to store as the start lies before every end.
BeforeEnds ==
  \A y \in BThreads : Ended(y) =>
    /\ test_start_time <= end_us[y]
    /\ \A x \in BThreads : at_[x] = "lower" =>
         low[x] <= end_us[y] \/ start_us[x] <= end_us[y]

\* The end that was stored is that of some thread.
EndIsOnes ==
  (\E y \in BThreads : at_[y] = "over") =>
    \E y \in BThreads : Ended(y) /\ test_end_time = end_us[y]

TimeInv == TimeTypes /\ NotAhead /\ StaysLow /\ BeforeEnds /\ EndIsOnes
-----------------------------------------------------------------------------
\* The threads have not started: nothing is lowered and nothing has ended.
LEMMA InitTimeInv == MBInit => TimeInv
<1> SUFFICES ASSUME MBInit PROVE TimeInv
  OBVIOUS
<1> USE MBAssumption DEF MBInit
<1>1. TimeTypes
  BY DEF TimeTypes
<1>2. \A t \in BThreads : at_[t] = "barrier"
  OBVIOUS
<1>3. NotAhead /\ StaysLow /\ BeforeEnds /\ EndIsOnes
  BY <1>2 DEF NotAhead, StaysLow, BeforeEnds, EndIsOnes, Started, Lowered, Ended
<1> QED
  BY <1>1, <1>3 DEF TimeInv

\* Every step of the benchmark preserves the invariant, one step per action.
LEMMA NextTimeInv == TimeInv /\ [MBNext]_mbvars => TimeInv'
<1> SUFFICES ASSUME TimeInv, [MBNext]_mbvars PROVE TimeInv'
  OBVIOUS
<1> USE MBAssumption
<1>1. CASE Tick
  <2>1. TimeTypes'
    BY <1>1 DEF TimeInv, TimeTypes, Tick, times
  <2>2. NotAhead' /\ StaysLow'
    BY <1>1 DEF TimeInv, TimeTypes, Tick, times, NotAhead, StaysLow, Started, Lowered
  <2>3. BeforeEnds' /\ EndIsOnes'
    BY <1>1 DEF TimeInv, Tick, times, BeforeEnds, EndIsOnes, Ended
  <2> QED
    BY <2>1, <2>2, <2>3 DEF TimeInv
<1>2. CASE Meet
  <2>1. TimeTypes'
    BY <1>2 DEF TimeInv, TimeTypes, Meet, times
  <2>2. \A t \in BThreads : at_'[t] = "clock"
    BY <1>2 DEF Meet
  <2>3. NotAhead'
    BY <1>2, <2>2 DEF TimeInv, NotAhead, Meet, times, Started
  <2>4. StaysLow' /\ BeforeEnds' /\ EndIsOnes'
    BY <2>2 DEF StaysLow, BeforeEnds, EndIsOnes, Lowered, Ended
  <2> QED
    BY <2>1, <2>3, <2>4 DEF TimeInv
<1>3. ASSUME NEW t \in BThreads, StartClock(t) PROVE TimeInv'
  <2> USE <1>3 DEF TimeInv, StartClock, BGo
  <2>1. TimeTypes'
    BY DEF TimeTypes
  <2>2. NotAhead' /\ StaysLow'
    BY DEF TimeTypes, NotAhead, StaysLow, Started, Lowered
  <2>3. BeforeEnds' /\ EndIsOnes'
    BY DEF TimeTypes, BeforeEnds, EndIsOnes, Ended
  <2> QED
    BY <2>1, <2>2, <2>3
<1>4. ASSUME NEW t \in BThreads, ReadStart(t) PROVE TimeInv'
  <2> USE <1>4 DEF TimeInv, ReadStart, BGo
  <2>1. TimeTypes'
    BY DEF TimeTypes
  <2>2. NotAhead' /\ StaysLow'
    BY DEF TimeTypes, NotAhead, StaysLow, Started, Lowered
  <2>3. BeforeEnds' /\ EndIsOnes'
    BY DEF TimeTypes, BeforeEnds, EndIsOnes, Ended
  <2> QED
    BY <2>1, <2>2, <2>3
<1>5. ASSUME NEW t \in BThreads, Lower(t) PROVE TimeInv'
  <2> USE <1>5 DEF TimeInv, Lower, BGo
  <2>1. TimeTypes'
    BY DEF TimeTypes
  <2>2. start_us[t] <= now /\ start_us[t] \in Nat /\ low[t] \in Nat /\ now < UMax
    BY DEF TimeTypes, NotAhead, Started
  <2>3. test_start_time' <= now
    BY <2>2 DEF TimeTypes, StaysLow
  <2>4. NotAhead' /\ StaysLow'
    BY <2>3 DEF TimeTypes, NotAhead, StaysLow, Started, Lowered
  <2>5. ASSUME NEW y \in BThreads, Ended(y)' PROVE test_start_time' <= end_us[y]
    <3>1. Ended(y)
      BY <2>5 DEF Ended, TimeTypes
    <3>2. test_start_time <= end_us[y]
      BY <3>1 DEF BeforeEnds
    <3>3. low[t] <= end_us[y] \/ start_us[t] <= end_us[y]
      BY <3>1 DEF BeforeEnds
    <3> QED
      BY <2>2, <3>2, <3>3 DEF TimeTypes
  <2>6. BeforeEnds'
    BY <2>5 DEF TimeTypes, BeforeEnds, Ended
  <2>7. EndIsOnes'
    BY DEF TimeTypes, EndIsOnes, Ended
  <2> QED
    BY <2>1, <2>4, <2>6, <2>7
<1>6. ASSUME NEW t \in BThreads, EnqueueOp(t) \/ DequeueOp(t) PROVE TimeInv'
  <2>1. UNCHANGED <<now, at_, times>>
    BY <1>6 DEF EnqueueOp, DequeueOp, OpDone
  <2> QED
    BY <2>1 DEF TimeInv, TimeTypes, NotAhead, StaysLow, BeforeEnds, EndIsOnes, times,
                Started, Lowered, Ended
<1>7. ASSUME NEW t \in BThreads, EndClock(t) PROVE TimeInv'
  <2> USE <1>7 DEF TimeInv, EndClock, BGo
  <2>1. TimeTypes'
    BY DEF TimeTypes
  <2>2. NotAhead' /\ StaysLow'
    BY DEF TimeTypes, NotAhead, StaysLow, Started, Lowered
  <2>3. test_start_time <= now
    BY DEF StaysLow, Lowered
  <2>4. \A x \in BThreads : at_[x] = "lower" => start_us[x] <= now
    BY DEF NotAhead, Started
  <2>5. BeforeEnds'
    BY <2>3, <2>4 DEF TimeTypes, BeforeEnds, Ended
  <2>6. EndIsOnes'
    BY DEF TimeTypes, EndIsOnes, Ended
  <2> QED
    BY <2>1, <2>2, <2>5, <2>6
<1>8. ASSUME NEW t \in BThreads, StoreEnd(t) PROVE TimeInv'
  <2> USE <1>8 DEF TimeInv, StoreEnd, BGo
  <2>1. TimeTypes'
    BY DEF TimeTypes
  <2>2. NotAhead' /\ StaysLow'
    BY DEF TimeTypes, NotAhead, StaysLow, Started, Lowered
  <2>3. BeforeEnds' /\ EndIsOnes'
    BY DEF TimeTypes, BeforeEnds, EndIsOnes, Ended
  <2> QED
    BY <2>1, <2>2, <2>3
<1>9. CASE UNCHANGED mbvars
  BY <1>9 DEF mbvars, TimeInv, TimeTypes, NotAhead, StaysLow, BeforeEnds, EndIsOnes,
              Started, Lowered, Ended
<1> QED
  BY <1>1, <1>2, <1>3, <1>4, <1>5, <1>6, <1>7, <1>8, <1>9 DEF MBNext, BStep

\* Once all are joined, the end is one thread's, and the start lies before it.
LEMMA TimeInvSuffices == TimeInv => TimeNotNegative
<1> SUFFICES ASSUME TimeInv, Joined PROVE test_start_time <= test_end_time
  BY DEF TimeNotNegative
<1>1. \E y \in BThreads : at_[y] = "over"
  BY MBAssumption DEF Joined, BThreads
<1>2. PICK y \in BThreads : Ended(y) /\ test_end_time = end_us[y]
  BY <1>1 DEF TimeInv, EndIsOnes
<1> QED
  BY <1>2 DEF TimeInv, BeforeEnds

\* The time that run_test_task reports is never negative (lines 48-66 and 76).
THEOREM ReportedTime == MBSpec => []TimeNotNegative
<1>1. MBInit => TimeInv
  BY InitTimeInv
<1>2. TimeInv /\ [MBNext]_mbvars => TimeInv'
  BY NextTimeInv
<1>3. TimeInv => TimeNotNegative
  BY TimeInvSuffices
<1> QED
  BY <1>1, <1>2, <1>3, PTL DEF MBSpec
-----------------------------------------------------------------------------
(***************************************************************************)
(* FreeList<N> of moodycamel.h.  Every node is in one mode: in use (out);  *)
(* being put on the list by one thread, with its counter at no references  *)
(* (zero) or already at that of the list (half); left to those who still   *)
(* hold it (left); on the list (list); taken by one thread (got).  The     *)
(* counter of a node tells its mode and how many threads hold it.  The     *)
(* list is a sequence C[1] .. C[K] whose last node is the head.            *)
(***************************************************************************)
Zeroing == {"addload", "addnext", "addrefs"}
Halving == {"addcas", "addagain"}
Holding == {"getnext", "getcas", "got"}
OrNull == Nodes \cup {nullptr}
Moving == {"zero", "half", "got"}
Modes == {"out", "zero", "half", "left", "list", "got"}

\* Thread t is the one that moves node n, in the mode x.
Owns(t, n, x) ==
  \/ x = "zero" /\ fpc[t] \in Zeroing /\ fnode[t] = n
  \/ x = "half" /\ fpc[t] \in Halving /\ fnode[t] = n
  \/ x = "got" /\ fpc[t] = "got" /\ fhead[t] = n

\* Thread t has counted itself in the counter of n.
Holds(t, n) ==
  \/ fpc[t] \in Holding /\ fhead[t] = n
  \/ fpc[t] = "unref" /\ fnode[t] = n
Holders(n) == {t \in FThreads : Holds(t, n)}
Held(n) == Cardinality(Holders(n))

FLTypes ==
  /\ freeListHead \in OrNull
  /\ freeListRefs \in [Nodes -> Nat]
  /\ freeListNext \in [Nodes -> OrNull]
  /\ out \subseteq Nodes
  /\ fpc \in [FThreads -> {"idle", "loop", "getload", "refcas", "unref"}
                            \cup Zeroing \cup Halving \cup Holding]
  /\ fhead \in [FThreads -> OrNull]
  /\ frefs \in [FThreads -> Nat]
  /\ fnext \in [FThreads -> OrNull]
  /\ fnode \in [FThreads -> OrNull]
  /\ freturn \in [FThreads -> {"idle", "loop"}]

LocalsOf(t) ==
  /\ fpc[t] \in Zeroing \cup Halving \cup {"unref"} => fnode[t] \in Nodes
  /\ fpc[t] \in Holding \cup {"refcas"} => fhead[t] \in Nodes
  /\ fpc[t] \notin Zeroing \cup Halving => freturn[t] = "idle"
  /\ fpc[t] \in {"addrefs", "addcas"} => freeListNext[fnode[t]] = fhead[t]
  /\ fpc[t] = "refcas" => Count(frefs[t]) # 0
  /\ fpc[t] = "getcas" => fnext[t] = freeListNext[fhead[t]]
FLLocals == \A t \in FThreads : LocalsOf(t)

\* mode and the owner agree with where the threads are.
FLOwners(mode, owner) ==
  /\ \A n \in Nodes : mode[n] \in Moving => owner[n] \in FThreads
  /\ \A t \in FThreads, n \in Nodes, x \in Modes :
       Owns(t, n, x) <=> mode[n] = x /\ x \in Moving /\ owner[n] = t

\* The counter of a node in the mode x that h threads hold.
RefsOf(x, h) ==
  CASE x = "out" -> h
    [] x = "zero" -> SHOULD
    [] x \in {"half", "list", "got"} -> 1 + h
    [] x = "left" -> SHOULD + h

FLRefs(mode) ==
  \A n \in Nodes :
    /\ freeListRefs[n] = RefsOf(mode[n], Held(n))
    /\ mode[n] = "zero" => Held(n) = 0
    /\ mode[n] = "left" => Held(n) >= 1
    /\ mode[n] = "out" <=> n \in out

FLChain(C, K, mode) ==
  /\ K = 0 => freeListHead = nullptr
  /\ K > 0 => freeListHead = C[K]
  /\ \A i \in 1 .. K :
       /\ C[i] \in Nodes /\ mode[C[i]] = "list"
       /\ freeListNext[C[i]] = IF i = 1 THEN nullptr ELSE C[i - 1]
       /\ \A j \in 1 .. K : C[i] = C[j] => i = j
  /\ \A n \in Nodes : mode[n] = "list" => \E i \in 1 .. K : n = C[i]

FLGood(mode, owner, C, K) ==
  /\ FLLocals /\ FLOwners(mode, owner) /\ FLRefs(mode) /\ FLChain(C, K, mode)

Owner == FThreads \cup {nullptr}
FLSome ==
  \E mode \in [Nodes -> Modes], owner \in [Nodes -> Owner],
     C \in [Nat -> OrNull], K \in Nat : FLGood(mode, owner, C, K)
FLInv == FLTypes /\ FLSome
-----------------------------------------------------------------------------
LEMMA RemainderIn ==
  ASSUME NEW a \in Int, NEW M \in Nat, M > 0
  PROVE  /\ a % M \in 0 .. (M - 1)
         /\ \E q \in Int : a = M * q + (a % M)
<1>1. a \div M \in Int /\ a = M * (a \div M) + (a % M) /\ a % M \in 0 .. (M - 1)
  OBVIOUS
<1> QED
  BY <1>1

\* What is below the modulus is its own remainder.
LEMMA RemainderIsSame ==
  ASSUME NEW M \in Nat, NEW a \in 0 .. (M - 1)
  PROVE  a % M = a
<1>1. PICK q \in Int : a = M * q + (a % M)
  BY RemainderIn
<1>2. a % M \in 0 .. (M - 1)
  BY RemainderIn
<1>3. a - (a % M) = M * q /\ a - (a % M) < M /\ a - (a % M) > -M
  BY <1>1, <1>2
<1>4. q = 0
  <2>1. CASE q >= 1
    BY <1>3, <2>1
  <2>2. CASE q <= -1
    BY <1>3, <2>2
  <2> QED
    BY <2>1, <2>2
<1> QED
  BY <1>1, <1>2, <1>4

\* The counter: no sum of the bit and of some references wraps, and no references
\* leave nothing of it.
CounterFacts ==
  /\ SHOULD \in Nat /\ SHOULD > 1
  /\ \A a \in 0 .. (2 * SHOULD - 1) : Bits32(a) = a
  /\ \A a \in Int : Bits32(a) \in Nat
  /\ Count(0) = 0 /\ Count(SHOULD) = 0

LEMMA CounterArithmetic == FreeListAssumption => CounterFacts
<1> SUFFICES ASSUME FreeListAssumption PROVE CounterFacts
  OBVIOUS
<1>1. SHOULD \in Nat /\ SHOULD > 1
  BY FS_CardinalityType DEF FreeListAssumption
<1>2. ASSUME NEW a \in 0 .. (2 * SHOULD - 1) PROVE Bits32(a) = a
  <2> DEFINE M == 2 * SHOULD
  <2>1. M \in Nat /\ a \in 0 .. (M - 1)
    BY <1>1
  <2> HIDE DEF M
  <2>2. a % M = a
    BY <2>1, RemainderIsSame
  <2> QED
    BY <2>2 DEF Bits32, M
<1>3. ASSUME NEW a \in Int PROVE Bits32(a) \in Nat
  <2> DEFINE M == 2 * SHOULD
  <2>1. M \in Nat /\ M > 0
    BY <1>1
  <2> HIDE DEF M
  <2>2. a % M \in 0 .. (M - 1)
    BY <2>1, RemainderIn
  <2> QED
    BY <2>1, <2>2 DEF Bits32, M
<1>4. Count(0) = 0
  BY <1>1, RemainderIsSame DEF Count
<1>5. Count(SHOULD) = 0
  <2>1. PICK q \in Int : SHOULD = SHOULD * q + (SHOULD % SHOULD)
    BY <1>1, RemainderIn
  <2>2. SHOULD % SHOULD \in 0 .. (SHOULD - 1)
    BY <1>1, RemainderIn
  <2>3. q = 1
    <3>1. CASE q >= 2
      <4>1. SHOULD * q >= 2 * SHOULD
        BY <1>1, <3>1
      <4> QED
        BY <1>1, <2>1, <2>2, <4>1
    <3>2. CASE q <= 0
      <4>1. SHOULD * q <= 0
        BY <1>1, <3>2
      <4> QED
        BY <1>1, <2>1, <2>2, <4>1
    <3> QED
      BY <3>1, <3>2
  <2> QED
    BY <1>1, <2>1, <2>2, <2>3 DEF Count
<1> QED
  BY <1>1, <1>2, <1>3, <1>4, <1>5 DEF CounterFacts
-----------------------------------------------------------------------------
\* A set of threads is too small to fill the counter.
HeldFacts(n) == Held(n) \in Nat /\ Held(n) + 1 < SHOULD

LEMMA HeldBounds == ASSUME FreeListAssumption, NEW n PROVE HeldFacts(n) /\ HeldFacts(n)'
<1>1. ASSUME NEW S, S \subseteq FThreads
      PROVE  Cardinality(S) \in Nat /\ Cardinality(S) + 1 < SHOULD
  BY <1>1, FS_Subset, FS_CardinalityType DEF FreeListAssumption
<1>2. Holders(n) \subseteq FThreads /\ Holders(n)' \subseteq FThreads
  BY DEF Holders
<1> QED
  BY <1>1, <1>2 DEF HeldFacts, Held

\* A step of thread t leaves the locals of the others alone.
OthersKeep(t) ==
  \A u \in FThreads \ {t} :
    /\ fpc'[u] = fpc[u] /\ fhead'[u] = fhead[u] /\ frefs'[u] = frefs[u]
    /\ fnext'[u] = fnext[u] /\ fnode'[u] = fnode[u] /\ freturn'[u] = freturn[u]

LEMMA HeldChange ==
  ASSUME FreeListAssumption, NEW t \in FThreads, OthersKeep(t), NEW n
  PROVE  /\ (Holds(t, n)' <=> Holds(t, n)) => Held(n)' = Held(n)
         /\ Holds(t, n)' /\ ~Holds(t, n) => Held(n)' = Held(n) + 1
         /\ ~Holds(t, n)' /\ Holds(t, n) => Held(n) = Held(n)' + 1
<1>1. \A u \in FThreads \ {t} : Holds(u, n)' <=> Holds(u, n)
  BY DEF OthersKeep, Holds
<1>2. ASSUME NEW S, S \subseteq FThreads, t \notin S
      PROVE  Cardinality(S \cup {t}) = Cardinality(S) + 1
  BY <1>2, FS_Subset, FS_AddElement DEF FreeListAssumption
<1>3. CASE Holds(t, n)' <=> Holds(t, n)
  <2>1. Holders(n)' = Holders(n)
    BY <1>1, <1>3 DEF Holders
  <2> QED
    BY <1>3, <2>1 DEF Held
<1>4. CASE Holds(t, n)' /\ ~Holds(t, n)
  <2>1. Holders(n)' = Holders(n) \cup {t} /\ t \notin Holders(n) /\ Holders(n) \subseteq FThreads
    BY <1>1, <1>4 DEF Holders
  <2> QED
    BY <1>2, <1>4, <2>1 DEF Held
<1>5. CASE ~Holds(t, n)' /\ Holds(t, n)
  <2>1. Holders(n) = Holders(n)' \cup {t} /\ t \notin Holders(n)' /\ Holders(n)' \subseteq FThreads
    BY <1>1, <1>5 DEF Holders
  <2> QED
    BY <1>2, <1>5, <2>1 DEF Held
<1> QED
  BY <1>3, <1>4, <1>5

\* Who holds a node keeps its counter from being that of nobody.
LEMMA HolderCounts ==
  ASSUME FreeListAssumption, NEW t \in FThreads, NEW n, Holds(t, n)
  PROVE  Held(n) >= 1
<1>1. t \in Holders(n) /\ Holders(n) \subseteq FThreads
  BY DEF Holders
<1>2. IsFiniteSet(Holders(n))
  BY <1>1, FS_Subset DEF FreeListAssumption
<1> QED
  BY <1>1, <1>2, FS_EmptySet, FS_CardinalityType DEF Held
-----------------------------------------------------------------------------
(* How the parts of the invariant follow a step of thread t. *)
Move(f, n, x) == [f EXCEPT ![n] = x]

\* t owns what it owned.
OwnsSame(t, n) == \A x \in Modes : Owns(t, n, x)' <=> Owns(t, n, x)

LEMMA OwnersStay ==
  ASSUME NEW t \in FThreads, OthersKeep(t), NEW mode, NEW owner,
         FLOwners(mode, owner), \A n \in Nodes : OwnsSame(t, n)
  PROVE  FLOwners(mode, owner)'
<1>1. \A u \in FThreads \ {t}, n \in Nodes, x \in Modes : Owns(u, n, x)' <=> Owns(u, n, x)
  BY DEF OthersKeep, Owns
<1>2. \A u \in FThreads, n \in Nodes, x \in Modes : Owns(u, n, x)' <=> Owns(u, n, x)
  BY <1>1 DEF OwnsSame
<1> QED
  BY <1>2 DEF FLOwners

\* t moves node m to the mode y; it was t's, or nobody's.
LEMMA OwnersMove ==
  ASSUME NEW t \in FThreads, OthersKeep(t),
         NEW mode \in [Nodes -> Modes], NEW owner \in [Nodes -> Owner],
         FLOwners(mode, owner), NEW m \in Nodes, NEW y \in Modes,
         mode[m] \in Moving => owner[m] = t,
         \A n \in Nodes \ {m} : OwnsSame(t, n),
         \A x \in Modes : Owns(t, m, x)' <=> x = y /\ y \in Moving
  PROVE  FLOwners(Move(mode, m, y), Move(owner, m, t))'
<1> DEFINE mode2 == Move(mode, m, y)
           owner2 == Move(owner, m, t)
<1>1. ASSUME NEW u \in FThreads, NEW n \in Nodes, NEW x \in Modes
      PROVE  Owns(u, n, x)' <=> mode2[n] = x /\ x \in Moving /\ owner2[n] = u
  <2>1. Owns(u, n, x) <=> mode[n] = x /\ x \in Moving /\ owner[n] = u
    BY DEF FLOwners
  <2>2. u # t => (Owns(u, n, x)' <=> Owns(u, n, x))
    BY DEF OthersKeep, Owns
  <2>3. CASE n = m
    <3>1. mode2[n] = y /\ owner2[n] = t
      BY <2>3 DEF Move
    <3>2. CASE u = t
      BY <2>3, <3>1, <3>2
    <3>3. CASE u # t
      BY <2>1, <2>2, <2>3, <3>1, <3>3
    <3> QED
      BY <3>2, <3>3
  <2>4. CASE n # m
    <3>1. mode2[n] = mode[n] /\ owner2[n] = owner[n]
      BY <2>4 DEF Move
    <3>2. Owns(u, n, x)' <=> Owns(u, n, x)
      BY <2>2, <2>4 DEF OwnsSame
    <3> QED
      BY <2>1, <3>1, <3>2
  <2> QED
    BY <2>3, <2>4
<1>2. \A n \in Nodes : mode2[n] \in Moving => owner2[n] \in FThreads
  BY DEF Move, FLOwners
<1> QED
  BY <1>1, <1>2 DEF FLOwners

\* The counters of the other nodes stay; that of m is what its mode y says.
RefsOfNode(mode, n) ==
  /\ freeListRefs[n] = RefsOf(mode[n], Held(n))
  /\ mode[n] = "zero" => Held(n) = 0
  /\ mode[n] = "left" => Held(n) >= 1
  /\ mode[n] = "out" <=> n \in out

LEMMA RefsMove ==
  ASSUME NEW mode \in [Nodes -> Modes], FLRefs(mode), NEW m \in Nodes, NEW y \in Modes,
         \A n \in Nodes \ {m} : /\ Held(n)' = Held(n) /\ freeListRefs'[n] = freeListRefs[n]
                                /\ n \in out' <=> n \in out,
         RefsOfNode(Move(mode, m, y), m)'
  PROVE  FLRefs(Move(mode, m, y))'
<1>1. ASSUME NEW n \in Nodes \ {m} PROVE RefsOfNode(Move(mode, m, y), n)'
  <2>1. Move(mode, m, y)[n] = mode[n]
    BY DEF Move
  <2> QED
    BY <2>1 DEF FLRefs, RefsOfNode
<1>2. \A n \in Nodes : RefsOfNode(Move(mode, m, y), n)'
  BY <1>1
<1> QED
  BY <1>2 DEF FLRefs, RefsOfNode

LEMMA RefsStay ==
  ASSUME NEW mode, FLRefs(mode), UNCHANGED <<freeListRefs, out>>,
         \A n \in Nodes : Held(n)' = Held(n)
  PROVE  FLRefs(mode)'
  BY DEF FLRefs

\* The list stays when no node enters or leaves it and none on it changes.
LEMMA ChainStay ==
  ASSUME NEW mode, NEW mode2, NEW C, NEW K \in Nat, FLChain(C, K, mode),
         freeListHead' = freeListHead,
         \A n \in Nodes : mode2[n] = "list" <=> mode[n] = "list",
         \A n \in Nodes : mode[n] = "list" => freeListNext'[n] = freeListNext[n]
  PROVE  FLChain(C, K, mode2)'
  BY DEF FLChain

LEMMA FLWitness ==
  ASSUME NEW mode \in [Nodes -> Modes], NEW owner \in [Nodes -> Owner],
         NEW C \in [Nat -> OrNull], NEW K \in Nat,
         FLLocals', FLOwners(mode, owner)', FLRefs(mode)', FLChain(C, K, mode)'
  PROVE  FLSome'
  BY DEF FLSome, FLGood

\* The locals of a thread that only others disturb.
LEMMA LocalsKeep ==
  ASSUME FLTypes, NEW t \in FThreads, OthersKeep(t), FLLocals, UNCHANGED freeListNext
  PROVE  \A u \in FThreads \ {t} : LocalsOf(u)'
  BY DEF FLLocals, LocalsOf, OthersKeep

FLState(mode, owner, C, K) ==
  /\ mode \in [Nodes -> Modes] /\ owner \in [Nodes -> Owner]
  /\ C \in [Nat -> OrNull] /\ K \in Nat
  /\ FLTypes /\ FLGood(mode, owner, C, K)

\* A step that moves no node and counts no thread in or out.
LEMMA QuietStep ==
  ASSUME FreeListAssumption, NEW mode, NEW owner, NEW C, NEW K, FLState(mode, owner, C, K),
         NEW t \in FThreads, OthersKeep(t), LocalsOf(t)',
         UNCHANGED <<freeListHead, freeListRefs, freeListNext, out>>,
         \A n \in Nodes : OwnsSame(t, n) /\ (Holds(t, n)' <=> Holds(t, n))
  PROVE  FLSome'
<1> USE DEF FLState, FLGood
<1>1. FLLocals'
  BY LocalsKeep DEF FLLocals
<1>2. FLOwners(mode, owner)'
  BY OwnersStay
<1>3. \A n \in Nodes : Held(n)' = Held(n)
  BY HeldChange
<1>4. FLRefs(mode)'
  BY <1>3, RefsStay
<1>5. FLChain(C, K, mode)'
  BY ChainStay
<1> QED
  BY <1>1, <1>2, <1>4, <1>5, FLWitness

\* A step of t that counts t in at m or moves m to the mode y, outside the list.
Moves(t, mode, owner, m, y) ==
  /\ OthersKeep(t) /\ LocalsOf(t)'
  /\ UNCHANGED <<freeListHead, freeListNext>>
  /\ \A n \in Nodes \ {m} : OwnsSame(t, n) /\ (Holds(t, n)' <=> Holds(t, n))
  /\ \A n \in Nodes \ {m} : freeListRefs'[n] = freeListRefs[n] /\ (n \in out' <=> n \in out)
  /\ mode[m] \in Moving => owner[m] = t
  /\ \A x \in Modes : Owns(t, m, x)' <=> x = y /\ y \in Moving
  /\ y = "list" <=> mode[m] = "list"
  /\ freeListRefs'[m] = RefsOf(y, Held(m)')
  /\ y = "zero" => Held(m)' = 0
  /\ y = "left" => Held(m)' >= 1
  /\ y = "out" <=> m \in out'

LEMMA MovingStep ==
  ASSUME FreeListAssumption, NEW mode, NEW owner, NEW C, NEW K, FLState(mode, owner, C, K),
         NEW t \in FThreads, NEW m \in Nodes, NEW y \in Modes, Moves(t, mode, owner, m, y)
  PROVE  FLSome'
<1> USE DEF FLState, FLGood
<1> DEFINE mode2 == Move(mode, m, y)
           owner2 == Move(owner, m, t)
<1>1. /\ mode2 \in [Nodes -> Modes] /\ mode2[m] = y
      /\ \A n \in Nodes \ {m} : mode2[n] = mode[n]
  BY DEF Move
<1>2. owner2 \in [Nodes -> Owner]
  BY DEF Move, Owner
<1>3. FLLocals'
  BY LocalsKeep DEF FLLocals, Moves
<1>4. FLOwners(mode2, owner2)'
  BY OwnersMove DEF Moves
<1>5. \A n \in Nodes \ {m} : Held(n)' = Held(n)
  BY HeldChange DEF Moves
<1>6. FLRefs(mode2)'
  <2>1. RefsOfNode(mode2, m)'
    BY <1>1 DEF RefsOfNode, Moves
  <2> QED
    BY <1>5, <2>1, RefsMove DEF Moves
<1>7. \A n \in Nodes : mode2[n] = "list" <=> mode[n] = "list"
  BY <1>1 DEF Moves
<1> HIDE DEF mode2, owner2
<1>8. FLChain(C, K, mode2)'
  BY <1>7, ChainStay DEF Moves
<1> QED
  BY <1>1, <1>2, <1>3, <1>4, <1>6, <1>8, FLWitness

\* A function changed at one place.
LEMMA UpdFacts ==
  ASSUME NEW S, NEW T, NEW f \in [S -> T], NEW n \in S, NEW x
  PROVE  /\ Upd(f, n, x)[n] = x /\ \A k \in S \ {n} : Upd(f, n, x)[k] = f[k]
         /\ x \in T => Upd(f, n, x) \in [S -> T]
  BY DEF Upd
-----------------------------------------------------------------------------
FLStep(t) ==
  \/ Add(t) \/ AddLoad(t) \/ AddNext(t) \/ AddStoreRefs(t)
  \/ AddCasWins(t) \/ AddCasLoses(t) \/ AddAgain(t)
  \/ TryGet(t) \/ GetNothing(t) \/ GetRefs(t) \/ GetZero(t) \/ RefCas(t)
  \/ GetNext(t) \/ GetCasWins(t) \/ GetCasLoses(t) \/ Got(t) \/ Unref(t)

FLPcs == Zeroing \cup Halving \cup Holding

\* A step of one thread changes the locals of that thread only.
LEMMA StepOfOne ==
  ASSUME NEW t \in FThreads, FLTypes, FLStep(t)
  PROVE  OthersKeep(t)
<1> USE DEF FLTypes, OthersKeep, FGo, Upd, FReturn, AddReturn
<1>1. CASE Add(t)
  BY <1>1 DEF Add
<1>2. CASE AddLoad(t)
  BY <1>2 DEF AddLoad
<1>3. CASE AddNext(t)
  BY <1>3 DEF AddNext
<1>4. CASE AddStoreRefs(t)
  BY <1>4 DEF AddStoreRefs
<1>5. CASE AddCasWins(t)
  BY <1>5 DEF AddCasWins
<1>6. CASE AddCasLoses(t)
  BY <1>6 DEF AddCasLoses
<1>7. CASE AddAgain(t)
  BY <1>7 DEF AddAgain
<1>8. CASE TryGet(t)
  BY <1>8 DEF TryGet
<1>9. CASE GetNothing(t)
  BY <1>9 DEF GetNothing
<1>10. CASE GetRefs(t)
  BY <1>10 DEF GetRefs
<1>11. CASE GetZero(t)
  BY <1>11 DEF GetZero
<1>12. CASE RefCas(t)
  BY <1>12 DEF RefCas
<1>13. CASE GetNext(t)
  BY <1>13 DEF GetNext
<1>14. CASE GetCasWins(t)
  BY <1>14 DEF GetCasWins
<1>15. CASE GetCasLoses(t)
  BY <1>15 DEF GetCasLoses
<1>16. CASE Got(t)
  BY <1>16 DEF Got
<1>17. CASE Unref(t)
  BY <1>17 DEF Unref
<1> QED
  BY <1>1, <1>2, <1>3, <1>4, <1>5, <1>6, <1>7, <1>8, <1>9, <1>10, <1>11, <1>12, <1>13,
     <1>14, <1>15, <1>16, <1>17 DEF FLStep

\* Types.  Only FLLocals says that the node a thread adds or gives back is one.
LEMMA TypesFollow ==
  ASSUME FreeListAssumption, FLTypes, FLLocals, NEW t \in FThreads, FLStep(t)
  PROVE  FLTypes'
<1>1. CounterFacts /\ LocalsOf(t)
  BY CounterArithmetic DEF FLLocals
<1>2. \A n \in Nodes, k \in Int : AddRefs(n, k) => freeListRefs' \in [Nodes -> Nat]
  BY <1>1 DEF AddRefs, CounterFacts, FLTypes, Upd
<1>2a. SHOULD \in Nat /\ SHOULD - 1 \in Int /\ -1 \in Int /\ -2 \in Int /\ 1 \in Int
  BY <1>1 DEF CounterFacts
<1> USE <1>2a DEF FLTypes, LocalsOf, FGo, Upd, FReturn, AddReturn, OrNull, Zeroing, Halving, Holding
<1>3. CASE Add(t)
  BY <1>2, <1>3 DEF Add
<1>4. CASE AddLoad(t) \/ AddNext(t) \/ AddStoreRefs(t)
  BY <1>1, <1>4 DEF AddLoad, AddNext, AddStoreRefs
<1>5. CASE AddCasWins(t)
  BY <1>1, <1>5 DEF AddCasWins
<1>6. CASE AddCasLoses(t)
  BY <1>1, <1>6 DEF AddCasLoses
<1>7. CASE AddAgain(t)
  BY <1>1, <1>2, <1>7 DEF AddAgain
<1>8. CASE TryGet(t) \/ GetNothing(t) \/ GetRefs(t) \/ GetZero(t)
  BY <1>1, <1>8 DEF TryGet, GetNothing, GetRefs, GetZero
<1>9. CASE RefCas(t)
  BY <1>1, <1>2, <1>9 DEF RefCas
<1>10. CASE GetNext(t) \/ GetCasWins(t) \/ GetCasLoses(t)
  BY <1>1, <1>10 DEF GetNext, GetCasWins, GetCasLoses
<1>11. CASE Got(t)
  BY <1>1, <1>2, <1>11 DEF Got
<1>12. CASE Unref(t)
  BY <1>1, <1>2, <1>12 DEF Unref
<1> QED
  BY <1>3, <1>4, <1>5, <1>6, <1>7, <1>8, <1>9, <1>10, <1>11, <1>12 DEF FLStep

\* The steps that only look: they move no node and count nobody.
LEMMA LookingKeeps ==
  ASSUME FreeListAssumption, NEW mode, NEW owner, NEW C, NEW K, FLState(mode, owner, C, K),
         NEW t \in FThreads,
         \/ AddLoad(t) \/ AddCasLoses(t)
         \/ TryGet(t) \/ GetNothing(t) \/ GetRefs(t) \/ GetZero(t)
         \/ GetNext(t) \/ GetCasLoses(t)
         \/ RefCas(t) /\ freeListRefs[fhead[t]] # frefs[t]
  PROVE  FLSome'
<1> USE DEF FLState, FLGood
<1>1. OthersKeep(t) /\ LocalsOf(t)
  BY StepOfOne DEF FLStep, FLLocals
<1> USE DEF FLTypes, LocalsOf, FGo, Upd, FReturn, OrNull, Zeroing, Halving, Holding,
            OwnsSame, Owns, Holds
<1>2. CASE AddLoad(t)
  <2>1. LocalsOf(t)'
    BY <1>1, <1>2 DEF AddLoad
  <2>2. \A n \in Nodes : OwnsSame(t, n) /\ (Holds(t, n)' <=> Holds(t, n))
    BY <1>1, <1>2 DEF AddLoad
  <2> QED
    BY <1>1, <1>2, <2>1, <2>2, QuietStep DEF AddLoad
<1>3. CASE AddCasLoses(t)
  <2>1. LocalsOf(t)'
    BY <1>1, <1>3 DEF AddCasLoses
  <2>2. \A n \in Nodes : OwnsSame(t, n) /\ (Holds(t, n)' <=> Holds(t, n))
    BY <1>1, <1>3 DEF AddCasLoses
  <2> QED
    BY <1>1, <1>3, <2>1, <2>2, QuietStep DEF AddCasLoses
<1>4. CASE TryGet(t)
  <2>1. LocalsOf(t)'
    BY <1>1, <1>4 DEF TryGet
  <2>2. \A n \in Nodes : OwnsSame(t, n) /\ (Holds(t, n)' <=> Holds(t, n))
    BY <1>1, <1>4 DEF TryGet
  <2> QED
    BY <1>1, <1>4, <2>1, <2>2, QuietStep DEF TryGet
<1>5. CASE GetNothing(t)
  <2>1. LocalsOf(t)'
    BY <1>1, <1>5 DEF GetNothing
  <2>2. \A n \in Nodes : OwnsSame(t, n) /\ (Holds(t, n)' <=> Holds(t, n))
    BY <1>1, <1>5 DEF GetNothing
  <2> QED
    BY <1>1, <1>5, <2>1, <2>2, QuietStep DEF GetNothing
<1>6. CASE GetRefs(t)
  <2>1. LocalsOf(t)'
    BY <1>1, <1>6 DEF GetRefs
  <2>2. \A n \in Nodes : OwnsSame(t, n) /\ (Holds(t, n)' <=> Holds(t, n))
    BY <1>1, <1>6 DEF GetRefs
  <2> QED
    BY <1>1, <1>6, <2>1, <2>2, QuietStep DEF GetRefs
<1>7. CASE GetZero(t)
  <2>1. LocalsOf(t)'
    BY <1>1, <1>7 DEF GetZero
  <2>2. \A n \in Nodes : OwnsSame(t, n) /\ (Holds(t, n)' <=> Holds(t, n))
    BY <1>1, <1>7 DEF GetZero
  <2> QED
    BY <1>1, <1>7, <2>1, <2>2, QuietStep DEF GetZero
<1>8. CASE GetNext(t)
  <2>1. LocalsOf(t)'
    BY <1>1, <1>8 DEF GetNext
  <2>2. \A n \in Nodes : OwnsSame(t, n) /\ (Holds(t, n)' <=> Holds(t, n))
    BY <1>1, <1>8 DEF GetNext
  <2> QED
    BY <1>1, <1>8, <2>1, <2>2, QuietStep DEF GetNext
<1>9. CASE GetCasLoses(t)
  <2>1. LocalsOf(t)'
    BY <1>1, <1>9 DEF GetCasLoses
  <2>2. \A n \in Nodes : OwnsSame(t, n) /\ (Holds(t, n)' <=> Holds(t, n))
    BY <1>1, <1>9 DEF GetCasLoses
  <2> QED
    BY <1>1, <1>9, <2>1, <2>2, QuietStep DEF GetCasLoses
<1>10. CASE RefCas(t) /\ freeListRefs[fhead[t]] # frefs[t]
  <2>1. LocalsOf(t)'
    BY <1>1, <1>10 DEF RefCas
  <2>2. \A n \in Nodes : OwnsSame(t, n) /\ (Holds(t, n)' <=> Holds(t, n))
    BY <1>1, <1>10 DEF RefCas
  <2> QED
    BY <1>1, <1>10, <2>1, <2>2, QuietStep DEF RefCas
<1> QED
  BY <1>2, <1>3, <1>4, <1>5, <1>6, <1>7, <1>8, <1>9, <1>10

\* What the counter of a node says, and what a step may add to it.
NodeFacts(mode, n) ==
  /\ mode[n] \in Modes /\ RefsOfNode(mode, n)
  /\ HeldFacts(n) /\ HeldFacts(n)' /\ CounterFacts
  /\ freeListRefs \in [Nodes -> Nat]

LEMMA NodeKnown ==
  ASSUME FreeListAssumption, NEW mode, NEW owner, NEW C, NEW K, FLState(mode, owner, C, K),
         NEW n \in Nodes
  PROVE  NodeFacts(mode, n)
  BY CounterArithmetic, HeldBounds
     DEF NodeFacts, FLState, FLGood, FLRefs, RefsOfNode, FLTypes

\* A step that adds d to the counter of m.
LEMMA CounterMoves ==
  ASSUME FreeListAssumption, NEW mode, NEW owner, NEW C, NEW K, FLState(mode, owner, C, K),
         NEW m \in Nodes, NEW d \in Int, AddRefs(m, d), 0 <= freeListRefs[m] + d,
         freeListRefs[m] + d <= 2 * SHOULD - 1
  PROVE  /\ freeListRefs'[m] = freeListRefs[m] + d
         /\ \A n \in Nodes \ {m} : freeListRefs'[n] = freeListRefs[n]
<1>1. freeListRefs \in [Nodes -> Nat] /\ CounterFacts
  BY CounterArithmetic DEF FLState, FLTypes
<1>2. Bits32(freeListRefs[m] + d) = freeListRefs[m] + d
  BY <1>1 DEF CounterFacts
<1> QED
  BY <1>1, <1>2 DEF AddRefs, Upd

\* The mode and the owner of the node that t moves.
LEMMA OwnedByT ==
  ASSUME NEW mode, NEW owner, NEW C, NEW K, FLState(mode, owner, C, K),
         NEW t \in FThreads, NEW n \in Nodes, NEW x \in Modes, Owns(t, n, x)
  PROVE  mode[n] = x /\ owner[n] = t
  BY DEF FLState, FLGood, FLOwners

\* add: the node is t's to put on the list, or left to who holds it.
LEMMA AddKeeps ==
  ASSUME FreeListAssumption, NEW mode, NEW owner, NEW C, NEW K, FLState(mode, owner, C, K),
         NEW t \in FThreads, Add(t)
  PROVE  FLSome'
<1>1. OthersKeep(t) /\ LocalsOf(t)
  BY StepOfOne DEF FLStep, FLLocals, FLState, FLGood
<1>2. PICK m \in out :
        /\ out' = out \ {m} /\ AddRefs(m, SHOULD) /\ fpc[t] = "idle"
        /\ IF freeListRefs[m] = 0
             THEN FGo(t, "addload") /\ fnode' = Upd(fnode, t, m)
             ELSE UNCHANGED <<fpc, fnode>>
        /\ UNCHANGED <<freeListHead, freeListNext, fhead, frefs, fnext, freturn>>
  BY DEF Add
<1>3. m \in Nodes /\ FLTypes
  BY DEF FLState, FLTypes
<1>4. NodeFacts(mode, m)
  BY <1>3, NodeKnown
<1>5. mode[m] = "out" /\ freeListRefs[m] = Held(m) /\ Held(m) \in Nat /\ Held(m) + 1 < SHOULD
      /\ SHOULD \in Nat
  BY <1>3, <1>4 DEF NodeFacts, RefsOfNode, RefsOf, HeldFacts, CounterFacts
<1>6. /\ freeListRefs'[m] = Held(m) + SHOULD
      /\ \A n \in Nodes \ {m} : freeListRefs'[n] = freeListRefs[n]
  BY <1>2, <1>3, <1>5, CounterMoves
<1>7. LocalsOf(t)'
  BY <1>1, <1>2, <1>3 DEF LocalsOf, FGo, Upd, FLTypes, OrNull, Zeroing, Halving, Holding
<1>8. \A n \in Nodes : Holds(t, n)' <=> Holds(t, n)
  BY <1>2, <1>3 DEF Holds, FGo, Upd, FLTypes, Holding
<1>9. \A n \in Nodes : Held(n)' = Held(n)
  BY <1>1, <1>8, HeldChange
<1>10. \A n \in Nodes \ {m} : OwnsSame(t, n)
  BY <1>2, <1>3 DEF OwnsSame, Owns, FGo, Upd, FLTypes, Zeroing, Halving, Holding
<1>12. /\ Held(m)' = Held(m) /\ m \notin out' /\ \A n \in Nodes \ {m} : n \in out' <=> n \in out
       /\ UNCHANGED <<freeListHead, freeListNext>>
  BY <1>2, <1>3, <1>9
<1>13. CASE freeListRefs[m] = 0
  <2>1. \A x \in Modes : Owns(t, m, x)' <=> x = "zero" /\ "zero" \in Moving
    BY <1>2, <1>3, <1>13 DEF Owns, FGo, Upd, FLTypes, Zeroing, Halving, Holding, Moving, Modes
  <2>2. freeListRefs'[m] = RefsOf("zero", Held(m)') /\ Held(m)' = 0
    BY <1>5, <1>6, <1>12, <1>13 DEF RefsOf
  <2>3. Moves(t, mode, owner, m, "zero")
    BY <1>1, <1>5, <1>6, <1>7, <1>8, <1>10, <1>12, <2>1, <2>2 DEF Moves, Moving
  <2> QED
    BY <1>3, <2>3, MovingStep DEF Modes
<1>14. CASE freeListRefs[m] # 0
  <2>1. \A x \in Modes : Owns(t, m, x)' <=> x = "left" /\ "left" \in Moving
    BY <1>2, <1>3, <1>14 DEF Owns, FGo, Upd, FLTypes, Zeroing, Halving, Holding, Moving, Modes
  <2>2. freeListRefs'[m] = RefsOf("left", Held(m)') /\ Held(m)' >= 1
    BY <1>5, <1>6, <1>12, <1>14 DEF RefsOf
  <2>3. Moves(t, mode, owner, m, "left")
    BY <1>1, <1>5, <1>6, <1>7, <1>8, <1>10, <1>12, <2>1, <2>2 DEF Moves, Moving
  <2> QED
    BY <1>3, <2>3, MovingStep DEF Modes
<1> QED
  BY <1>13, <1>14

\* The counter of the list: m is now halfway on it.
LEMMA StoreKeeps ==
  ASSUME FreeListAssumption, NEW mode, NEW owner, NEW C, NEW K, FLState(mode, owner, C, K),
         NEW t \in FThreads, AddStoreRefs(t)
  PROVE  FLSome'
<1>1. OthersKeep(t) /\ LocalsOf(t) /\ FLTypes
  BY StepOfOne DEF FLStep, FLLocals, FLState, FLGood
<1>0. PICK m \in Nodes : m = fnode[t]
  BY <1>1 DEF AddStoreRefs, LocalsOf, Zeroing
<1>2. Owns(t, m, "zero") /\ "zero" \in Modes
  BY <1>0 DEF AddStoreRefs, Owns, Zeroing, Modes
<1>3. mode[m] = "zero" /\ owner[m] = t
  BY <1>2, OwnedByT
<1>4. Held(m) = 0
  BY <1>2, <1>3, NodeKnown DEF NodeFacts, RefsOfNode
<1>5. /\ freeListRefs'[m] = 1 /\ \A n \in Nodes \ {m} : freeListRefs'[n] = freeListRefs[n]
      /\ UNCHANGED <<freeListHead, freeListNext, out>>
  BY <1>1, <1>0 DEF AddStoreRefs, Upd, FLTypes
<1> USE DEF FGo, Upd, FLTypes, OrNull, Zeroing, Halving, Holding
<1>6. LocalsOf(t)'
  BY <1>1 DEF LocalsOf, AddStoreRefs
<1>7. \A n \in Nodes : Holds(t, n)' <=> Holds(t, n)
  BY <1>1 DEF AddStoreRefs, Holds
<1>8. \A n \in Nodes \ {m} : OwnsSame(t, n)
  BY <1>1, <1>0 DEF AddStoreRefs, OwnsSame, Owns
<1>9. \A x \in Modes : Owns(t, m, x)' <=> x = "half" /\ "half" \in Moving
  BY <1>1, <1>0 DEF AddStoreRefs, Owns, Moving, Modes
<1>10. m \notin out
  BY <1>2, <1>3, NodeKnown DEF NodeFacts, RefsOfNode
<1>11. Held(m)' = Held(m)
  BY <1>1, <1>2, <1>7, HeldChange
<1>12. freeListRefs'[m] = RefsOf("half", Held(m)')
  BY <1>4, <1>5, <1>11 DEF RefsOf
<1>13. Moves(t, mode, owner, m, "half")
  BY <1>1, <1>3, <1>5, <1>6, <1>7, <1>8, <1>9, <1>10, <1>12 DEF Moves
<1> QED
  BY <1>2, <1>13, MovingStep DEF Modes

\* Both ways back to the caller end the addition.
LEMMA ReturnFacts ==
  ASSUME NEW t \in FThreads, FLTypes, LocalsOf(t), fpc[t] \in Halving, AddReturn(t)
  PROVE  fpc'[t] \in {"idle", "loop"} /\ freturn'[t] = "idle"
  BY DEF FLTypes, LocalsOf, AddReturn, FReturn, FGo, Upd, Zeroing, Halving, Holding

LEMMA RestingFacts ==
  ASSUME NEW t \in FThreads, fpc'[t] \in {"idle", "loop"}, freturn'[t] = "idle"
  PROVE  /\ LocalsOf(t)'
         /\ \A n, x : ~Owns(t, n, x)' /\ ~Holds(t, n)'
  BY DEF LocalsOf, Owns, Holds, Zeroing, Halving, Holding

\* The head has changed: the addition starts again, or is left to who holds m.
LEMMA AgainKeeps ==
  ASSUME FreeListAssumption, NEW mode, NEW owner, NEW C, NEW K, FLState(mode, owner, C, K),
         NEW t \in FThreads, AddAgain(t)
  PROVE  FLSome'
<1>1. OthersKeep(t) /\ LocalsOf(t) /\ FLTypes
  BY StepOfOne DEF FLStep, FLLocals, FLState, FLGood
<1>0. PICK m \in Nodes : m = fnode[t]
  BY <1>1 DEF AddAgain, LocalsOf, Halving
<1>2. Owns(t, m, "half") /\ "half" \in Modes /\ fpc[t] = "addagain"
  BY <1>0 DEF AddAgain, Owns, Halving, Modes
<1>3. mode[m] = "half" /\ owner[m] = t
  BY <1>2, OwnedByT
<1>4. /\ freeListRefs[m] = 1 + Held(m) /\ Held(m) \in Nat /\ Held(m) + 1 < SHOULD
      /\ SHOULD \in Nat /\ m \notin out
  BY <1>2, <1>3, NodeKnown DEF NodeFacts, RefsOfNode, RefsOf, HeldFacts, CounterFacts
<1>5. /\ freeListRefs'[m] = SHOULD + Held(m)
      /\ \A n \in Nodes \ {m} : freeListRefs'[n] = freeListRefs[n]
  <2>1. AddRefs(m, SHOULD - 1)
    BY <1>0 DEF AddAgain
  <2> QED
    BY <1>2, <1>4, <2>1, CounterMoves
<1>6. UNCHANGED <<freeListHead, freeListNext, out>>
  BY DEF AddAgain
<1>7. \A n : ~Holds(t, n)
  BY <1>2 DEF Holds, Holding
<1>8. \A n \in Nodes \ {m}, x \in Modes : ~Owns(t, n, x)
  BY <1>2, <1>0 DEF Owns, Zeroing, Halving
<1>9. CASE freeListRefs[m] = 1
  <2> USE <1>2, <1>0, <1>9 DEF FGo, Upd, FLTypes, OrNull, Zeroing, Halving, Holding
  <2>1. LocalsOf(t)'
    BY <1>1 DEF LocalsOf, AddAgain
  <2>2. \A n : ~Holds(t, n)'
    BY <1>1 DEF AddAgain, Holds
  <2>3. \A n \in Nodes \ {m}, x \in Modes : ~Owns(t, n, x)'
    BY <1>1 DEF AddAgain, Owns
  <2>4. \A x \in Modes : Owns(t, m, x)' <=> x = "zero" /\ "zero" \in Moving
    BY <1>1 DEF AddAgain, Owns, Moving, Modes
  <2>5. Held(m)' = Held(m)
    BY <1>1, <1>7, <2>2, HeldChange
  <2>6. freeListRefs'[m] = RefsOf("zero", Held(m)') /\ Held(m)' = 0
    BY <1>4, <1>5, <2>5 DEF RefsOf
  <2>7. Moves(t, mode, owner, m, "zero")
    BY <1>1, <1>3, <1>4, <1>5, <1>6, <1>7, <1>8, <2>1, <2>2, <2>3, <2>4, <2>6
       DEF Moves, OwnsSame
  <2> QED
    BY <1>2, <2>7, MovingStep DEF Modes
<1>10. CASE freeListRefs[m] # 1
  <2>1. AddReturn(t)
    BY <1>0, <1>10 DEF AddAgain
  <2>2. LocalsOf(t)' /\ \A n, x : ~Owns(t, n, x)' /\ ~Holds(t, n)'
    BY <1>1, <1>2, <2>1, ReturnFacts, RestingFacts DEF Halving
  <2>3. Held(m)' = Held(m)
    BY <1>1, <1>7, <2>2, HeldChange
  <2>4. freeListRefs'[m] = RefsOf("left", Held(m)') /\ Held(m)' >= 1
    BY <1>4, <1>5, <1>10, <2>3 DEF RefsOf
  <2>5. "left" \in Modes /\ "left" \notin Moving
    BY DEF Modes, Moving
  <2>6. Moves(t, mode, owner, m, "left")
    BY <1>1, <1>3, <1>4, <1>5, <1>6, <1>7, <1>8, <2>2, <2>4, <2>5 DEF Moves, OwnsSame
  <2> QED
    BY <1>2, <2>5, <2>6, MovingStep
<1> QED
  BY <1>9, <1>10

\* A step that counts t in or out at m and moves no node.
Counts(t, mode, m) ==
  /\ OthersKeep(t) /\ LocalsOf(t)'
  /\ UNCHANGED <<freeListHead, freeListNext, out>>
  /\ \A n \in Nodes : OwnsSame(t, n)
  /\ \A n \in Nodes \ {m} : /\ Holds(t, n)' <=> Holds(t, n)
                            /\ freeListRefs'[n] = freeListRefs[n]
  /\ mode[m] # "zero"
  /\ freeListRefs'[m] = RefsOf(mode[m], Held(m)')
  /\ mode[m] = "left" => Held(m)' >= 1

LEMMA CountingStep ==
  ASSUME FreeListAssumption, NEW mode, NEW owner, NEW C, NEW K, FLState(mode, owner, C, K),
         NEW t \in FThreads, NEW m \in Nodes, Counts(t, mode, m)
  PROVE  FLSome'
<1> USE DEF FLState, FLGood
<1>1. FLLocals'
  BY LocalsKeep DEF FLLocals, Counts
<1>2. FLOwners(mode, owner)'
  BY OwnersStay DEF Counts
<1>3. \A n \in Nodes \ {m} : Held(n)' = Held(n)
  BY HeldChange DEF Counts
<1>4. FLRefs(mode)'
  BY <1>3 DEF Counts, FLRefs
<1>5. FLChain(C, K, mode)'
  BY ChainStay DEF Counts
<1> QED
  BY <1>1, <1>2, <1>4, <1>5, FLWitness

\* The counter had references: with one more it still tells the mode.
LEMMA RefKeeps ==
  ASSUME FreeListAssumption, NEW mode, NEW owner, NEW C, NEW K, FLState(mode, owner, C, K),
         NEW t \in FThreads, RefCas(t), freeListRefs[fhead[t]] = frefs[t]
  PROVE  FLSome'
<1>1. OthersKeep(t) /\ LocalsOf(t) /\ FLTypes
  BY StepOfOne DEF FLStep, FLLocals, FLState, FLGood
<1>2. PICK m \in Nodes : m = fhead[t]
  BY <1>1 DEF RefCas, LocalsOf
<1>3. /\ AddRefs(m, 1) /\ FGo(t, "getnext") /\ fpc[t] = "refcas" /\ Count(freeListRefs[m]) # 0
      /\ UNCHANGED <<freeListHead, freeListNext, out, fhead, fnext, fnode, freturn>>
  BY <1>1, <1>2 DEF RefCas, LocalsOf
<1>4. NodeFacts(mode, m)
  BY NodeKnown
<1>5. /\ mode[m] \in Modes \ {"zero"} /\ Held(m) \in Nat /\ Held(m)' \in Nat
      /\ Held(m)' + 1 < SHOULD /\ SHOULD \in Nat
      /\ freeListRefs[m] = RefsOf(mode[m], Held(m))
  BY <1>3, <1>4 DEF NodeFacts, RefsOfNode, RefsOf, HeldFacts, CounterFacts
<1> USE DEF FGo, FLTypes, Zeroing, Halving, Holding
<1>6. LocalsOf(t)'
  BY <1>1, <1>2, <1>3 DEF LocalsOf
<1>7. \A n \in Nodes : OwnsSame(t, n)
  BY <1>1, <1>3 DEF OwnsSame, Owns
<1>8. /\ \A n \in Nodes \ {m} : Holds(t, n)' <=> Holds(t, n)
      /\ Holds(t, m)' /\ ~Holds(t, m)
  BY <1>1, <1>2, <1>3 DEF Holds
<1>9. Held(m)' = Held(m) + 1
  BY <1>1, <1>8, HeldChange
<1>10. freeListRefs[m] + 1 = RefsOf(mode[m], Held(m)') /\ freeListRefs[m] + 1 \in 0 .. (2 * SHOULD - 1)
  BY <1>5, <1>9 DEF RefsOf, Modes
<1>11. /\ freeListRefs'[m] = freeListRefs[m] + 1
       /\ \A n \in Nodes \ {m} : freeListRefs'[n] = freeListRefs[n]
  BY <1>1, <1>3, <1>10, CounterMoves
<1>12. Counts(t, mode, m)
  BY <1>1, <1>3, <1>5, <1>6, <1>7, <1>8, <1>9, <1>10, <1>11 DEF Counts
<1> QED
  BY <1>12, CountingStep

\* try_get returns m: the reference of the list and that of t are gone.
LEMMA GotKeeps ==
  ASSUME FreeListAssumption, NEW mode, NEW owner, NEW C, NEW K, FLState(mode, owner, C, K),
         NEW t \in FThreads, Got(t)
  PROVE  FLSome'
<1>1. OthersKeep(t) /\ LocalsOf(t) /\ FLTypes
  BY StepOfOne DEF FLStep, FLLocals, FLState, FLGood
<1>2. PICK m \in Nodes : m = fhead[t]
  BY <1>1 DEF Got, LocalsOf, Holding
<1>3. /\ AddRefs(m, -2) /\ fpc[t] = "got" /\ out' = out \cup {m}
      /\ fpc'[t] = "idle" /\ freturn'[t] = "idle" /\ UNCHANGED <<freeListHead, freeListNext>>
  BY <1>1, <1>2 DEF Got, FReturn, FGo, Upd, FLTypes
<1>4. Owns(t, m, "got") /\ Holds(t, m) /\ "got" \in Modes
  BY <1>2, <1>3 DEF Owns, Holds, Holding, Modes
<1>5. mode[m] = "got" /\ owner[m] = t
  BY <1>4, OwnedByT
<1>6. /\ freeListRefs[m] = 1 + Held(m) /\ Held(m) \in Nat /\ Held(m) + 1 < SHOULD
      /\ SHOULD \in Nat
  BY <1>5, NodeKnown DEF NodeFacts, RefsOfNode, RefsOf, HeldFacts, CounterFacts
<1>7. LocalsOf(t)' /\ \A n, x : ~Owns(t, n, x)' /\ ~Holds(t, n)'
  BY <1>3, RestingFacts
<1>8. Held(m) = Held(m)' + 1 /\ Held(m)' \in Nat
  BY <1>1, <1>4, <1>7, HeldChange, HeldBounds DEF HeldFacts
<1>9. /\ freeListRefs'[m] = Held(m)'
      /\ \A n \in Nodes \ {m} : freeListRefs'[n] = freeListRefs[n]
  <2>1. -2 \in Int /\ 0 <= freeListRefs[m] + (-2) /\ freeListRefs[m] + (-2) <= 2 * SHOULD - 1
    BY <1>6, <1>8
  <2>2. /\ freeListRefs'[m] = freeListRefs[m] + (-2)
        /\ \A n \in Nodes \ {m} : freeListRefs'[n] = freeListRefs[n]
    BY <1>3, <2>1, CounterMoves
  <2> QED
    BY <1>6, <1>8, <2>2
<1>10. freeListRefs'[m] = RefsOf("out", Held(m)') /\ "out" \in Modes /\ "out" \notin Moving
  BY <1>9 DEF RefsOf, Modes, Moving
<1>11. \A n \in Nodes \ {m} : ~Holds(t, n) /\ \A x \in Modes : ~Owns(t, n, x)
  BY <1>2, <1>3 DEF Holds, Owns, Zeroing, Halving, Holding
<1>12. Moves(t, mode, owner, m, "out")
  BY <1>1, <1>3, <1>5, <1>7, <1>9, <1>10, <1>11 DEF Moves, OwnsSame
<1> QED
  BY <1>10, <1>12, MovingStep

\* t lost m: it gives up its reference, and puts m on the list if that was left to it.
LEMMA UnrefKeeps ==
  ASSUME FreeListAssumption, NEW mode, NEW owner, NEW C, NEW K, FLState(mode, owner, C, K),
         NEW t \in FThreads, Unref(t)
  PROVE  FLSome'
<1>1. OthersKeep(t) /\ LocalsOf(t) /\ FLTypes
  BY StepOfOne DEF FLStep, FLLocals, FLState, FLGood
<1>2. PICK m \in Nodes : m = fnode[t]
  BY <1>1 DEF Unref, LocalsOf
<1>3. /\ AddRefs(m, -1) /\ fpc[t] = "unref" /\ UNCHANGED <<freeListHead, freeListNext, out>>
      /\ freturn[t] = "idle"
  BY <1>1, <1>2 DEF Unref, LocalsOf, Zeroing, Halving
<1>4. Holds(t, m)
  BY <1>2, <1>3 DEF Holds
<1>5. Held(m) >= 1
  BY <1>4, HolderCounts
<1>6. NodeFacts(mode, m)
  BY NodeKnown
<1>7. /\ mode[m] \in Modes \ {"zero"} /\ Held(m) \in Nat /\ Held(m)' \in Nat
      /\ Held(m) + 1 < SHOULD /\ SHOULD \in Nat /\ (mode[m] = "out" <=> m \in out)
      /\ freeListRefs[m] = RefsOf(mode[m], Held(m))
  BY <1>5, <1>6 DEF NodeFacts, RefsOfNode, HeldFacts, CounterFacts
<1>8. /\ freeListRefs[m] = SHOULD + 1 <=> mode[m] = "left" /\ Held(m) = 1
      /\ freeListRefs[m] + (-1) \in 0 .. (2 * SHOULD - 1)
      /\ \A h \in Nat : Held(m) = h + 1 => freeListRefs[m] + (-1) = RefsOf(mode[m], h)
  BY <1>5, <1>7 DEF RefsOf, Modes
<1>9. /\ freeListRefs'[m] = freeListRefs[m] + (-1)
      /\ \A n \in Nodes \ {m} : freeListRefs'[n] = freeListRefs[n]
  <2>1. -1 \in Int
    OBVIOUS
  <2> QED
    BY <1>3, <1>8, <2>1, CounterMoves
<1>10. \A n \in Nodes \ {m} : ~Holds(t, n) /\ \A x \in Modes : ~Owns(t, n, x)
  BY <1>2, <1>3 DEF Holds, Owns, Zeroing, Halving, Holding
<1>11. \A x \in Modes : ~Owns(t, m, x)
  BY <1>3 DEF Owns, Zeroing, Halving
<1>12. CASE freeListRefs[m] = SHOULD + 1
  <2>1. fpc'[t] = "addload" /\ fnode'[t] = m
    BY <1>1, <1>2, <1>7, <1>12 DEF Unref, FGo, Upd, FLTypes
  <2>2. LocalsOf(t)'
    BY <2>1 DEF LocalsOf, Zeroing, Halving, Holding
  <2>3. \A n : ~Holds(t, n)'
    BY <2>1 DEF Holds, Holding
  <2>4. /\ \A n \in Nodes \ {m}, x \in Modes : ~Owns(t, n, x)'
        /\ \A x \in Modes : Owns(t, m, x)' <=> x = "zero" /\ "zero" \in Moving
    BY <2>1 DEF Owns, Zeroing, Halving, Moving
  <2>5. Held(m) = Held(m)' + 1
    BY <1>1, <1>4, <2>3, HeldChange
  <2>6. freeListRefs'[m] = RefsOf("zero", Held(m)') /\ Held(m)' = 0 /\ mode[m] = "left"
    <3>1. mode[m] = "left" /\ Held(m) = 1
      BY <1>8, <1>12
    <3>2. Held(m)' = 0 /\ freeListRefs'[m] = SHOULD
      BY <1>7, <1>9, <1>12, <2>5, <3>1
    <3> QED
      BY <3>1, <3>2 DEF RefsOf
  <2>7. Moves(t, mode, owner, m, "zero")
    BY <1>1, <1>3, <1>7, <1>9, <1>10, <2>2, <2>3, <2>4, <2>6 DEF Moves, OwnsSame, Moving
  <2> QED
    BY <2>7, MovingStep DEF Modes
<1>13. CASE freeListRefs[m] # SHOULD + 1
  <2>1. fpc'[t] = "loop" /\ freturn'[t] = "idle"
    BY <1>1, <1>2, <1>3, <1>7, <1>13 DEF Unref, FGo, Upd, FLTypes
  <2>2. LocalsOf(t)' /\ \A n, x : ~Owns(t, n, x)' /\ ~Holds(t, n)'
    BY <2>1, RestingFacts
  <2>3. Held(m) = Held(m)' + 1
    BY <1>1, <1>4, <2>2, HeldChange
  <2>4. freeListRefs'[m] = RefsOf(mode[m], Held(m)') /\ (mode[m] = "left" => Held(m)' >= 1)
    BY <1>7, <1>8, <1>9, <1>13, <2>3
  <2>5. Counts(t, mode, m)
    BY <1>1, <1>3, <1>7, <1>9, <1>10, <1>11, <2>2, <2>4 DEF Counts, OwnsSame
  <2> QED
    BY <2>5, CountingStep
<1> QED
  BY <1>12, <1>13

\* The link of m: only t, which owns m while nobody holds it, reads it before it is
\* stored.
LEMMA LinkKeeps ==
  ASSUME FreeListAssumption, NEW mode, NEW owner, NEW C, NEW K, FLState(mode, owner, C, K),
         NEW t \in FThreads, AddNext(t)
  PROVE  FLSome'
<1>1. OthersKeep(t) /\ LocalsOf(t) /\ FLTypes
  BY StepOfOne DEF FLStep, FLLocals, FLState, FLGood
<1>2. PICK m \in Nodes : m = fnode[t]
  BY <1>1 DEF AddNext, LocalsOf, Zeroing
<1>3. /\ fpc[t] = "addnext" /\ fpc'[t] = "addrefs" /\ freeListNext'[m] = fhead[t]
      /\ \A n \in Nodes \ {m} : freeListNext'[n] = freeListNext[n]
      /\ UNCHANGED <<freeListHead, freeListRefs, out, fhead, frefs, fnext, fnode, freturn>>
  BY <1>1, <1>2 DEF AddNext, FGo, Upd, FLTypes
<1>4. Owns(t, m, "zero") /\ "zero" \in Modes
  BY <1>2, <1>3 DEF Owns, Zeroing, Modes
<1>5. mode[m] = "zero" /\ owner[m] = t /\ Held(m) = 0
  BY <1>4, OwnedByT, NodeKnown DEF NodeFacts, RefsOfNode
<1>6. ASSUME NEW u \in FThreads \ {t} PROVE LocalsOf(u)'
  <2>1. LocalsOf(u)
    BY DEF FLState, FLGood, FLLocals
  <2>2. fpc[u] \in {"addrefs", "addcas"} => fnode[u] # m
    <3>1. SUFFICES ASSUME fpc[u] \in {"addrefs", "addcas"}, fnode[u] = m PROVE FALSE
      OBVIOUS
    <3>2. \E x \in Modes : Owns(u, m, x)
      BY <3>1 DEF Owns, Zeroing, Halving, Modes
    <3> QED
      BY <1>5, <3>2, OwnedByT
  <2>3. fpc[u] = "getcas" => fhead[u] # m
    BY <1>5, HolderCounts DEF Holds, Holding
  <2>4. /\ fpc[u] \in {"addrefs", "addcas"} => fnode[u] \in Nodes \ {m}
        /\ fpc[u] = "getcas" => fhead[u] \in Nodes \ {m}
    BY <2>1, <2>2, <2>3 DEF LocalsOf, Zeroing, Halving, Holding
  <2> QED
    BY <1>1, <1>3, <2>1, <2>4 DEF LocalsOf, OthersKeep
<1>7. LocalsOf(t)'
  BY <1>1, <1>2, <1>3 DEF LocalsOf, Zeroing, Halving, Holding
<1>8. FLLocals'
  BY <1>6, <1>7 DEF FLLocals
<1>9. \A n \in Nodes : OwnsSame(t, n) /\ (Holds(t, n)' <=> Holds(t, n))
  BY <1>1, <1>3 DEF OwnsSame, Owns, Holds, Zeroing, Halving, Holding
<1> USE DEF FLState, FLGood
<1>10. FLOwners(mode, owner)'
  BY <1>1, <1>9, OwnersStay
<1>11. \A n \in Nodes : Held(n)' = Held(n)
  BY <1>1, <1>9, HeldChange
<1>12. FLRefs(mode)'
  BY <1>3, <1>11, RefsStay
<1>13. FLChain(C, K, mode)'
  <2>1. \A n \in Nodes : mode[n] = "list" => freeListNext'[n] = freeListNext[n]
    BY <1>3, <1>5
  <2> QED
    BY <1>3, <2>1, ChainStay
<1> QED
  BY <1>8, <1>10, <1>12, <1>13, FLWitness

\* A step that moves m on or off the list: its counter keeps its value.
LEMMA ListStep ==
  ASSUME FreeListAssumption, NEW mode, NEW owner, NEW C, NEW K, FLState(mode, owner, C, K),
         NEW t \in FThreads, OthersKeep(t), LocalsOf(t)',
         UNCHANGED <<freeListRefs, freeListNext, out>>,
         NEW m \in Nodes, mode[m] \in {"half", "list"}, mode[m] = "half" => owner[m] = t,
         NEW y \in {"list", "got"},
         \A n \in Nodes \ {m} : OwnsSame(t, n), \A n \in Nodes : Holds(t, n)' <=> Holds(t, n),
         \A x \in Modes : Owns(t, m, x)' <=> x = y /\ y = "got"
  PROVE  /\ FLLocals' /\ FLOwners(Move(mode, m, y), Move(owner, m, t))'
         /\ FLRefs(Move(mode, m, y))'
         /\ Move(mode, m, y) \in [Nodes -> Modes] /\ Move(owner, m, t) \in [Nodes -> Owner]
<1> USE DEF FLState, FLGood
<1>1. y \in Modes /\ (y \in Moving <=> y = "got") /\ Move(mode, m, y)[m] = y
  BY DEF Modes, Moving, Move
<1>2. FLLocals'
  BY LocalsKeep DEF FLLocals
<1>3. mode[m] \in Moving => owner[m] = t
  BY DEF Moving
<1>4. FLOwners(Move(mode, m, y), Move(owner, m, t))'
  BY <1>1, <1>3, OwnersMove
<1>5. \A n \in Nodes : Held(n)' = Held(n)
  BY HeldChange
<1>6. RefsOfNode(mode, m)
  BY DEF FLRefs, RefsOfNode
<1>7. RefsOfNode(Move(mode, m, y), m)'
  BY <1>1, <1>5, <1>6 DEF RefsOfNode, RefsOf
<1>8. FLRefs(Move(mode, m, y))'
  BY <1>1, <1>5, <1>7, RefsMove
<1>9. Move(mode, m, y) \in [Nodes -> Modes] /\ Move(owner, m, t) \in [Nodes -> Owner]
  BY <1>1 DEF Move, Owner
<1> QED
  BY <1>2, <1>4, <1>8, <1>9

\* The CAS of add: m is the head.
LEMMA PushKeeps ==
  ASSUME FreeListAssumption, NEW mode, NEW owner, NEW C, NEW K, FLState(mode, owner, C, K),
         NEW t \in FThreads, AddCasWins(t)
  PROVE  FLSome'
<1>1. OthersKeep(t) /\ LocalsOf(t) /\ FLTypes
  BY StepOfOne DEF FLStep, FLLocals, FLState, FLGood
<1>2. PICK m \in Nodes : m = fnode[t]
  BY <1>1 DEF AddCasWins, LocalsOf, Halving
<1>3. /\ fpc[t] = "addcas" /\ freeListHead' = m /\ freeListNext[m] = freeListHead
      /\ AddReturn(t) /\ UNCHANGED <<freeListRefs, freeListNext, out>>
  BY <1>1, <1>2 DEF AddCasWins, LocalsOf
<1>4. Owns(t, m, "half") /\ "half" \in Modes
  BY <1>2, <1>3 DEF Owns, Halving, Modes
<1>5. mode[m] = "half" /\ owner[m] = t
  BY <1>4, OwnedByT
<1>6. LocalsOf(t)' /\ \A n, x : ~Owns(t, n, x)' /\ ~Holds(t, n)'
  BY <1>1, <1>3, ReturnFacts, RestingFacts DEF Halving
<1>7. /\ \A n \in Nodes : ~Holds(t, n)
      /\ \A n \in Nodes \ {m}, x \in Modes : ~Owns(t, n, x)
  BY <1>2, <1>3 DEF Holds, Owns, Zeroing, Halving, Holding
<1> DEFINE mode2 == Move(mode, m, "list")
           owner2 == Move(owner, m, t)
           C2 == [C EXCEPT ![K + 1] = m]
<1>8. /\ FLLocals' /\ FLOwners(mode2, owner2)' /\ FLRefs(mode2)'
      /\ mode2 \in [Nodes -> Modes] /\ owner2 \in [Nodes -> Owner]
  BY <1>1, <1>3, <1>5, <1>6, <1>7, ListStep DEF OwnsSame
<1>9. /\ mode2[m] = "list" /\ \A n \in Nodes \ {m} : mode2[n] = mode[n]
  BY DEF Move, FLState
<1>10. /\ K \in Nat /\ C2 \in [Nat -> OrNull] /\ C2[K + 1] = m /\ \A i \in 1 .. K : C2[i] = C[i]
  BY DEF FLState, OrNull
<1>11. FLChain(C, K, mode)
  BY DEF FLState, FLGood
<1> HIDE DEF mode2, owner2, C2
<1>12. \A i \in 1 .. K : C[i] # m
  BY <1>5, <1>11 DEF FLChain
<1>13. FLChain(C2, K + 1, mode2)'
  <2>1. freeListHead' = C2[K + 1] /\ K + 1 > 0 /\ K + 1 \in Nat
    BY <1>3, <1>10
  <2>2. ASSUME NEW i \in 1 .. (K + 1)
        PROVE  /\ C2[i] \in Nodes /\ mode2[C2[i]] = "list"
               /\ freeListNext'[C2[i]] = IF i = 1 THEN nullptr ELSE C2[i - 1]
               /\ \A j \in 1 .. (K + 1) : C2[i] = C2[j] => i = j
    <3>1. CASE i = K + 1
      <4>1. C2[i] = m
        BY <1>10, <3>1
      <4>2. freeListNext'[m] = IF i = 1 THEN nullptr ELSE C2[i - 1]
        <5>1. CASE K = 0
          BY <1>3, <1>11, <3>1, <5>1 DEF FLChain
        <5>2. CASE K # 0
          <6>1. K > 0 /\ i - 1 = K /\ i # 1 /\ K \in 1 .. K
            BY <1>10, <3>1, <5>2
          <6>2. freeListHead = C[K] /\ C2[i - 1] = C[K]
            BY <1>10, <1>11, <6>1 DEF FLChain
          <6> QED
            BY <1>3, <6>1, <6>2
        <5> QED
          BY <5>1, <5>2
      <4>3. \A j \in 1 .. (K + 1) : j # i => j \in 1 .. K
        BY <1>10, <3>1
      <4>4. \A j \in 1 .. (K + 1) : C2[i] = C2[j] => i = j
        BY <1>10, <1>12, <4>1, <4>3
      <4> QED
        BY <1>9, <4>1, <4>2, <4>4
    <3>2. CASE i # K + 1
      <4>1. i \in 1 .. K /\ C2[i] = C[i] /\ (i # 1 => i - 1 \in 1 .. K)
        BY <1>10, <3>2
      <4>2. C[i] \in Nodes \ {m} /\ mode[C[i]] = "list"
        BY <1>11, <1>12, <4>1 DEF FLChain
      <4>3. freeListNext'[C2[i]] = IF i = 1 THEN nullptr ELSE C2[i - 1]
        BY <1>3, <1>10, <1>11, <4>1 DEF FLChain
      <4>4. ASSUME NEW j \in 1 .. (K + 1), C2[i] = C2[j] PROVE i = j
        <5>1. j # K + 1
          BY <1>10, <1>12, <4>1, <4>4
        <5>2. j \in 1 .. K /\ C2[j] = C[j]
          BY <1>10, <5>1
        <5>3. C[i] = C[j]
          BY <4>1, <4>4, <5>2
        <5> QED
          BY <1>11, <4>1, <5>2, <5>3 DEF FLChain
      <4> QED
        BY <1>9, <4>1, <4>2, <4>3, <4>4
    <3> QED
      BY <3>1, <3>2
  <2>3. ASSUME NEW n \in Nodes, mode2[n] = "list" PROVE \E i \in 1 .. (K + 1) : n = C2[i]
    <3>1. CASE n = m
      <4>1. K + 1 \in 1 .. (K + 1) /\ n = C2[K + 1]
        BY <1>10, <3>1
      <4> QED
        BY <4>1
    <3>2. CASE n # m
      <4>1. PICK i \in 1 .. K : n = C[i]
        BY <1>9, <1>11, <2>3, <3>2 DEF FLChain
      <4>2. i \in 1 .. (K + 1) /\ n = C2[i]
        BY <1>10, <4>1
      <4> QED
        BY <4>2
    <3> QED
      BY <3>1, <3>2
  <2> QED
    BY <2>1, <2>2, <2>3 DEF FLChain
<1>14. K + 1 \in Nat
  BY <1>10
<1> QED
  BY <1>8, <1>10, <1>13, <1>14, FLWitness

\* The CAS of try_get: the next node, which the reference kept, is the head.
LEMMA PopKeeps ==
  ASSUME FreeListAssumption, NEW mode, NEW owner, NEW C, NEW K, FLState(mode, owner, C, K),
         NEW t \in FThreads, GetCasWins(t)
  PROVE  FLSome'
<1>1. OthersKeep(t) /\ LocalsOf(t) /\ FLTypes
  BY StepOfOne DEF FLStep, FLLocals, FLState, FLGood
<1>2. PICK m \in Nodes : m = fhead[t]
  BY <1>1 DEF GetCasWins, LocalsOf, Holding
<1>3. /\ fpc[t] = "getcas" /\ fpc'[t] = "got" /\ freeListHead = m
      /\ freeListHead' = freeListNext[m]
      /\ UNCHANGED <<freeListRefs, freeListNext, out, fhead, frefs, fnext, fnode, freturn>>
  BY <1>1, <1>2 DEF GetCasWins, LocalsOf, FGo, FLTypes
<1>4. FLChain(C, K, mode) /\ K \in Nat /\ nullptr \notin Nodes
  BY DEF FLState, FLGood, FreeListAssumption
<1>5. K > 0
  BY <1>3, <1>4 DEF FLChain
<1>6. C[K] = m /\ mode[m] = "list" /\ K \in 1 .. K /\ K - 1 \in Nat
      /\ freeListHead' = IF K = 1 THEN nullptr ELSE C[K - 1]
  BY <1>3, <1>4, <1>5 DEF FLChain
<1>7. LocalsOf(t)'
  BY <1>1, <1>2, <1>3 DEF LocalsOf, Zeroing, Halving, Holding
<1>8. /\ \A n \in Nodes : Holds(t, n)' <=> Holds(t, n)
      /\ \A n \in Nodes \ {m} : OwnsSame(t, n)
      /\ \A x \in Modes : Owns(t, m, x)' <=> x = "got" /\ "got" = "got"
  BY <1>2, <1>3 DEF Holds, OwnsSame, Owns, Zeroing, Halving, Holding
<1> DEFINE mode2 == Move(mode, m, "got")
           owner2 == Move(owner, m, t)
<1>9. /\ FLLocals' /\ FLOwners(mode2, owner2)' /\ FLRefs(mode2)'
      /\ mode2 \in [Nodes -> Modes] /\ owner2 \in [Nodes -> Owner]
  BY <1>1, <1>3, <1>6, <1>7, <1>8, ListStep
<1>10. /\ mode2[m] = "got" /\ \A n \in Nodes \ {m} : mode2[n] = mode[n]
  BY DEF Move, FLState
<1> HIDE DEF mode2, owner2
<1>11. ASSUME NEW i \in 1 .. (K - 1)
       PROVE  /\ C[i] \in Nodes /\ mode2[C[i]] = "list"
              /\ freeListNext'[C[i]] = IF i = 1 THEN nullptr ELSE C[i - 1]
              /\ \A j \in 1 .. (K - 1) : C[i] = C[j] => i = j
  <2>1. i \in 1 .. K /\ i # K /\ \A j \in 1 .. (K - 1) : j \in 1 .. K
    BY <1>4
  <2>2. C[i] \in Nodes /\ C[i] # m
    BY <1>4, <1>6, <2>1 DEF FLChain
  <2> QED
    BY <1>3, <1>4, <1>10, <2>1, <2>2 DEF FLChain
<1>12. ASSUME NEW n \in Nodes, mode2[n] = "list" PROVE \E i \in 1 .. (K - 1) : n = C[i]
  <2>1. n # m
    BY <1>10, <1>12
  <2>2. PICK i \in 1 .. K : n = C[i]
    BY <1>4, <1>10, <1>12, <2>1 DEF FLChain
  <2>3. i \in 1 .. (K - 1)
    BY <1>4, <1>6, <2>1, <2>2
  <2> QED
    BY <2>2, <2>3
<1>13. FLChain(C, K - 1, mode2)'
  <2>1. /\ K - 1 = 0 => freeListHead' = nullptr
        /\ K - 1 > 0 => freeListHead' = C[K - 1]
    BY <1>4, <1>6
  <2> QED
    BY <1>11, <1>12, <2>1 DEF FLChain
<1>14. C \in [Nat -> OrNull]
  BY DEF FLState
<1> QED
  BY <1>6, <1>9, <1>13, <1>14, FLWitness
-----------------------------------------------------------------------------
\* Every step of one thread.
LEMMA StepKeeps ==
  ASSUME FreeListAssumption, NEW mode, NEW owner, NEW C, NEW K, FLState(mode, owner, C, K),
         NEW t \in FThreads, FLStep(t)
  PROVE  FLSome'
<1>1. CASE RefCas(t)
  <2>1. CASE freeListRefs[fhead[t]] = frefs[t]
    BY <1>1, <2>1, RefKeeps
  <2>2. CASE freeListRefs[fhead[t]] # frefs[t]
    BY <1>1, <2>2, LookingKeeps
  <2> QED
    BY <2>1, <2>2
<1>2. CASE \/ AddLoad(t) \/ AddCasLoses(t)
           \/ TryGet(t) \/ GetNothing(t) \/ GetRefs(t) \/ GetZero(t)
           \/ GetNext(t) \/ GetCasLoses(t)
  BY <1>2, LookingKeeps
<1>3. CASE Add(t)
  BY <1>3, AddKeeps
<1>4. CASE AddNext(t)
  BY <1>4, LinkKeeps
<1>5. CASE AddStoreRefs(t)
  BY <1>5, StoreKeeps
<1>6. CASE AddCasWins(t)
  BY <1>6, PushKeeps
<1>7. CASE AddAgain(t)
  BY <1>7, AgainKeeps
<1>8. CASE GetCasWins(t)
  BY <1>8, PopKeeps
<1>9. CASE Got(t)
  BY <1>9, GotKeeps
<1>10. CASE Unref(t)
  BY <1>10, UnrefKeeps
<1> QED
  BY <1>1, <1>2, <1>3, <1>4, <1>5, <1>6, <1>7, <1>8, <1>9, <1>10 DEF FLStep

\* At first every node is in use and the list is empty.
LEMMA InitFLInv == FreeListAssumption /\ FInit => FLInv
<1> SUFFICES ASSUME FreeListAssumption, FInit PROVE FLInv
  OBVIOUS
<1> DEFINE mode == [n \in Nodes |-> "out"]
           owner == [n \in Nodes |-> nullptr]
           C == [i \in Nat |-> nullptr]
<1>1. FLTypes
  BY DEF FInit, FLTypes, OrNull
<1>2. FLLocals
  BY DEF FInit, FLLocals, LocalsOf, Zeroing, Halving, Holding
<1>3. FLOwners(mode, owner)
  BY DEF FInit, FLOwners, Owns, Zeroing, Halving, Moving
<1>4. ASSUME NEW n \in Nodes PROVE RefsOfNode(mode, n)
  <2>1. Holders(n) = {}
    BY DEF FInit, Holders, Holds, Holding
  <2>2. Held(n) = 0
    BY <2>1, FS_EmptySet DEF Held
  <2>3. mode[n] = "out" /\ n \in out /\ freeListRefs[n] = 0
    BY DEF FInit
  <2> QED
    BY <2>2, <2>3 DEF RefsOfNode, RefsOf
<1>5. FLRefs(mode)
  BY <1>4 DEF FLRefs, RefsOfNode
<1>6. FLChain(C, 0, mode)
  BY DEF FInit, FLChain
<1>7. /\ mode \in [Nodes -> Modes] /\ owner \in [Nodes -> Owner]
      /\ C \in [Nat -> OrNull] /\ 0 \in Nat
  BY DEF Modes, Owner, OrNull
<1> HIDE DEF mode, owner, C
<1> QED
  BY <1>1, <1>2, <1>3, <1>5, <1>6, <1>7 DEF FLInv, FLSome, FLGood

\* Every step preserves the invariant.
LEMMA NextFLInv == FreeListAssumption /\ FLInv /\ [FNext]_fvars => FLInv'
<1> SUFFICES ASSUME FreeListAssumption, FLInv, [FNext]_fvars PROVE FLInv'
  OBVIOUS
<1>1. PICK mode \in [Nodes -> Modes], owner \in [Nodes -> Owner],
           C \in [Nat -> OrNull], K \in Nat : FLGood(mode, owner, C, K)
  BY DEF FLInv, FLSome
<1>2. FLState(mode, owner, C, K) /\ FLTypes /\ FLLocals
  BY <1>1 DEF FLState, FLInv, FLGood
<1>3. CASE UNCHANGED fvars
  <2>1. FLTypes'
    BY <1>2, <1>3 DEF FLTypes, fvars
  <2>2. FLLocals' /\ FLOwners(mode, owner)' /\ FLRefs(mode)' /\ FLChain(C, K, mode)'
    BY <1>1, <1>3
       DEF FLGood, FLLocals, LocalsOf, FLOwners, Owns, FLRefs, Held, Holders, Holds, FLChain, fvars
  <2> QED
    BY <2>1, <2>2, FLWitness DEF FLInv
<1>4. CASE FNext
  <2>1. PICK t \in FThreads : FLStep(t)
    BY <1>4 DEF FNext, FLStep
  <2> QED
    BY <1>2, <2>1, TypesFollow, StepKeeps DEF FLInv
<1> QED
  BY <1>3, <1>4

LEMMA FLInvariant == FreeListAssumption /\ FSpec => []FLInv
<1>1. FreeListAssumption => FreeListAssumption'
  BY DEF FreeListAssumption
<1> QED
  BY <1>1, InitFLInv, NextFLInv, PTL DEF FSpec
-----------------------------------------------------------------------------
\* What the links lead to from the head is what the modes say.
LEMMA ListedNodes ==
  ASSUME FreeListAssumption, NEW mode \in [Nodes -> Modes], NEW C, NEW K \in Nat,
         FLChain(C, K, mode)
  PROVE  OnList = {n \in Nodes : mode[n] = "list"}
<1> DEFINE T == {n \in Nodes : mode[n] = "list"}
<1>1. \A i \in 1 .. K : C[i] \in T
  BY DEF FLChain
<1>2. HasChain(T)
  <2>1. freeListHead \in T \cup {nullptr}
    BY <1>1 DEF FLChain
  <2>2. ASSUME NEW n \in T PROVE freeListNext[n] \in T \cup {nullptr}
    <3>1. PICK i \in 1 .. K : n = C[i]
      BY DEF FLChain
    <3>2. i # 1 => i - 1 \in 1 .. K
      OBVIOUS
    <3> QED
      BY <1>1, <3>1, <3>2 DEF FLChain
  <2> QED
    BY <2>1, <2>2 DEF HasChain
<1>3. ASSUME NEW S \in SUBSET Nodes, HasChain(S), NEW n \in T PROVE n \in S
  <2> DEFINE Absent == {i \in 1 .. K : C[i] \notin S}
  <2>1. SUFFICES ASSUME Absent # {} PROVE FALSE
    BY DEF FLChain
  <2>2. PICK i \in Absent : \A j \in Absent : j <= i
    <3>1. Absent \subseteq Int /\ K \in Int /\ \A j \in Absent : j <= K
      OBVIOUS
    <3> HIDE DEF Absent
    <3> QED
      BY <2>1, <3>1, GreatestOf
  <2>3. i \in 1 .. K /\ C[i] \in Nodes /\ C[i] # nullptr /\ C[i] \notin S
    BY DEF FLChain, FreeListAssumption
  <2>4. CASE i = K
    BY <1>3, <2>3, <2>4 DEF HasChain, FLChain
  <2>5. CASE i # K
    <3>1. i + 1 \in 1 .. K /\ ~(i + 1 <= i) /\ i + 1 # 1 /\ (i + 1) - 1 = i
      BY <2>3, <2>5
    <3>2. C[i + 1] \in S
      BY <2>2, <3>1
    <3>3. freeListNext[C[i + 1]] = C[i]
      BY <3>1 DEF FLChain
    <3> QED
      BY <1>3, <2>3, <3>2, <3>3 DEF HasChain
  <2> QED
    BY <2>4, <2>5
<1> QED
  BY <1>2, <1>3 DEF OnList

\* NodesAreKept follows from the invariant.
LEMMA FLInvSuffices == FreeListAssumption /\ FLInv => NodesAreKept
<1> SUFFICES ASSUME FreeListAssumption, FLInv PROVE NodesAreKept
  OBVIOUS
<1>1. PICK mode \in [Nodes -> Modes], owner \in [Nodes -> Owner],
           C \in [Nat -> OrNull], K \in Nat : FLGood(mode, owner, C, K)
  BY DEF FLInv, FLSome
<1>2. /\ FLState(mode, owner, C, K) /\ OnList = {n \in Nodes : mode[n] = "list"}
      /\ \A n \in Nodes : NodeFacts(mode, n)
  BY <1>1, ListedNodes, NodeKnown DEF FLState, FLInv, FLGood
<1>3. ASSUME NEW t \in FThreads, fpc[t] = "got"
      PROVE  /\ fhead[t] \notin out \cup OnList /\ freeListRefs[fhead[t]] < SHOULD
             /\ \A u \in FThreads \ {t} : fpc[u] = "got" => fhead[u] # fhead[t]
  <2>1. PICK m \in Nodes : m = fhead[t]
    BY <1>1, <1>3 DEF FLGood, FLLocals, LocalsOf, Holding
  <2>2. "got" \in Modes /\ Owns(t, m, "got") /\ \A u \in FThreads : fpc[u] = "got" /\ fhead[u] = m => Owns(u, m, "got")
    BY <1>3, <2>1 DEF Owns, Modes
  <2>3. mode[m] = "got" /\ owner[m] = t /\ \A u \in FThreads : Owns(u, m, "got") => u = t
    BY <1>2, <2>2, OwnedByT
  <2>4. freeListRefs[m] < SHOULD /\ m \notin out
    BY <1>2, <2>3 DEF NodeFacts, RefsOfNode, RefsOf, HeldFacts, CounterFacts
  <2> QED
    BY <1>2, <2>1, <2>2, <2>3, <2>4
<1>4. OnList \cap out = {}
  BY <1>2 DEF NodeFacts, RefsOfNode
<1>5. ASSUME \A t \in FThreads : fpc[t] = "idle", NEW n \in Nodes PROVE n \in OnList \cup out
  <2>1. mode[n] \notin Moving
    <3>1. SUFFICES ASSUME mode[n] \in Moving PROVE FALSE
      OBVIOUS
    <3>2. owner[n] \in FThreads /\ mode[n] \in Modes
      BY <1>1, <3>1 DEF FLGood, FLOwners
    <3>3. Owns(owner[n], n, mode[n])
      BY <1>1, <3>1, <3>2 DEF FLGood, FLOwners
    <3> QED
      BY <1>5, <3>2, <3>3 DEF Owns, Zeroing, Halving
  <2>2. mode[n] # "left"
    <3>1. Holders(n) = {}
      BY <1>5 DEF Holders, Holds, Holding
    <3>2. Held(n) = 0
      BY <3>1, FS_EmptySet DEF Held
    <3> QED
      BY <1>2, <3>2 DEF NodeFacts, RefsOfNode
  <2> QED
    BY <1>2, <2>1, <2>2 DEF NodeFacts, RefsOfNode, Modes, Moving
<1>6. OnList \cup out \subseteq Nodes
  BY <1>2 DEF FLState, FLTypes
<1> QED
  BY <1>3, <1>4, <1>5, <1>6 DEF NodesAreKept, GivenOnce, NoneLost

\* The free list is correct for any threads and nodes, as the comment at line 1350
\* says: try_get gives a node to one thread at a time, none is lost, and the assertion
\* of line 1396 holds.
THEOREM FreeListKeepsNodes == FSpec => []NodesAreKept
<1>1. FreeListAssumption /\ FSpec => []NodesAreKept
  <2>1. FreeListAssumption => FreeListAssumption'
    BY DEF FreeListAssumption
  <2> QED
    BY <2>1, FLInvariant, FLInvSuffices, PTL
<1> QED
  BY <1>1, FreeListAssumption
-----------------------------------------------------------------------------
(***************************************************************************)
(* The table from threads to producers.  A thread that is in a table is    *)
(* found there, since the slots from its hash to its own are never freed;  *)
(* so a thread that has searched all tables in vain has no producer.       *)
(* Tables cannot be full because of what the threads were counted: of any  *)
(* c, no more than c threads have a count up to c, and who enters a table, *)
(* now or later, has a count below three quarters of it.                   *)
(***************************************************************************)
Table == UNION {[0 .. (c - 1) -> HThreads \cup {Nobody}] : c \in Nat \ {0}}
Beside == UNION {[0 .. (c - 1) -> Nat] : c \in Nat \ {0}}
Late == {"count", "insert", "resize", "unlock", "unlockfail", "room"}
Counted == {"insert", "resize", "unlock", "room"}
Flagged == {"resize", "unlock", "unlockfail"}
HLocals == [main : Nat, hash : Nat, index : Nat, count : Nat, value : Nat, size : Nat]

\* The key that index e leads to, and the threads below three quarters.
Key(k, e) == tables[k][e % Cap(k)]
RoomOf(k) == Half(k) + Cap(k) \div 4
InTable(t, k) == \E i \in DOMAIN tables[k] : tables[k][i] = t
Made(t) == \E i \in 1 .. Len(producers) : producers[i] = t

PHTypes ==
  /\ tables \in Seq(Table) /\ values \in Seq(Beside) /\ Len(tables) > 0
  /\ Len(values) = Len(tables)
  /\ producers \in Seq(HThreads)
  /\ hashCount \in Int /\ resizing \in BOOLEAN
  /\ hpc \in [HThreads -> {"idle", "probe", "place"} \cup Late]
  /\ hloc \in [HThreads -> HLocals]

Tables ==
  /\ \A k \in 1 .. Len(tables) : DOMAIN values[k] = DOMAIN tables[k]
  /\ \A k, o \in 1 .. Len(tables) : k <= o => Cap(k) <= Cap(o)

\* A thread has one slot, and none before it is free.
Seated(k, i) ==
  \E e \in Nat : /\ Hash[tables[k][i]] <= e /\ e % Cap(k) = i
                 /\ \A d \in Hash[tables[k][i]] .. (e - 1) : Key(k, d) # Nobody
Seats ==
  \A k \in 1 .. Len(tables) : \A i \in DOMAIN tables[k] :
    tables[k][i] # Nobody =>
      /\ Seated(k, i)
      /\ \A j \in DOMAIN tables[k] : tables[k][j] = tables[k][i] => i = j

\* What the tables lead to.
HashEntries ==
  \A k \in 1 .. Len(tables) : \A i \in DOMAIN tables[k] :
    tables[k][i] # Nobody => /\ values[k][i] \in 1 .. Len(producers)
                             /\ producers[values[k][i]] = tables[k][i]

Producers1 ==
  /\ \A i, j \in 1 .. Len(producers) : producers[i] = producers[j] => i = j
  /\ \A t \in HThreads : Made(t) =>
       hpc[t] = "place" \/ \E k \in 1 .. Len(tables) : InTable(t, k)

Resizer ==
  \A t \in HThreads : hpc[t] \in Flagged =>
    resizing /\ \A u \in HThreads : hpc[u] \in Flagged => u = t

Probing(t) ==
  LET o == hloc[t] IN
  /\ o.main \in 1 .. Len(tables) /\ o.hash \in 1 .. o.main /\ Hash[t] <= o.index
  /\ \A e \in Hash[t] .. (o.index - 1) : Key(o.hash, e) \notin {t, Nobody}
  /\ \A k \in (o.hash + 1) .. Len(tables) : ~InTable(t, k)
Placing(t, cnt) ==
  LET o == hloc[t] IN
  /\ o.main \in 1 .. Len(tables) /\ Hash[t] <= o.index
  /\ \A e \in Hash[t] .. (o.index - 1) : Key(o.main, e) # Nobody
  /\ ~InTable(t, o.main) /\ cnt[t] < RoomOf(o.main)
  /\ o.value \in 1 .. Len(producers) /\ producers[o.value] = t
HashLocals(t, cnt) ==
  /\ hpc[t] = "probe" => Probing(t)
  /\ hpc[t] = "place" => Placing(t, cnt)
  /\ hpc[t] \in Late => hloc[t].main \in 1 .. Len(tables) /\ ~Made(t)
  /\ hpc[t] \in Counted => cnt[t] = hloc[t].count
  /\ hpc[t] = "resize" => hloc[t].main = Len(tables) /\ Cap(Len(tables)) <= hloc[t].size

\* The threads that are counted, and those with a count up to c.
InCount == {t \in HThreads : Made(t) \/ hpc[t] \in Counted}
UpTo(cnt, c) == {t \in InCount : cnt[t] <= c}
HashCounts(cnt) ==
  /\ hashCount = Cardinality(InCount)
  /\ \A c \in Nat : Cardinality(UpTo(cnt, c)) <= c
  /\ \A k \in 1 .. Len(tables) : \A i \in DOMAIN tables[k] :
       tables[k][i] # Nobody => cnt[tables[k][i]] < RoomOf(k)

PHGood(cnt) ==
  /\ PHTypes /\ Tables /\ Seats /\ HashEntries /\ Producers1 /\ Resizer
  /\ \A t \in HThreads : HashLocals(t, cnt)
  /\ HashCounts(cnt)

PHInv == \E cnt \in [HThreads -> Nat] : PHGood(cnt)
-----------------------------------------------------------------------------
\* A table: an index leads to one of its slots, and three quarters of it are not all.
TableFacts(k) ==
  /\ Cap(k) \in Nat \ {0} /\ DOMAIN tables[k] = 0 .. (Cap(k) - 1)
  /\ \A i \in DOMAIN tables[k] : tables[k][i] \in HThreads \cup {Nobody}
  /\ \A e \in Nat : e % Cap(k) \in DOMAIN tables[k]
  /\ RoomOf(k) \in Nat /\ RoomOf(k) <= Cap(k)
  /\ \A i \in DOMAIN values[k] : values[k][i] \in Nat

TablesFit == \A k \in 1 .. Len(tables) : TableFacts(k)

LEMMA TableKnown == PHTypes => TablesFit
<1> SUFFICES ASSUME PHTypes, NEW k \in 1 .. Len(tables) PROVE TableFacts(k)
  BY DEF TablesFit
<1>0. tables[k] \in Table /\ values[k] \in Beside
  BY DEF PHTypes
<1>1. PICK c \in Nat \ {0} : tables[k] \in [0 .. (c - 1) -> HThreads \cup {Nobody}]
  BY <1>0 DEF Table
<1>2. PICK b \in Nat \ {0} : values[k] \in [0 .. (b - 1) -> Nat]
  BY <1>0 DEF Beside
<1>3. Cap(k) = c
  <2>1. Cardinality(0 .. (c - 1)) = (c - 1) - 0 + 1
    BY <1>1, FS_Interval
  <2> QED
    BY <1>1, <2>1 DEF Cap
<1>4. \A e \in Nat : e % c \in 0 .. (c - 1)
  BY <1>1, RemainderIn
<1>5. RoomOf(k) \in Nat /\ RoomOf(k) <= c
  BY <1>1, <1>3 DEF RoomOf, Half
<1> QED
  BY <1>1, <1>2, <1>3, <1>4, <1>5 DEF TableFacts

\* The same of the tables after a step.
LEMMA TableKnownNext == PHTypes' => TablesFit'
  BY TableKnown, PTL

LEMMA RoomGrows ==
  ASSUME PHTypes, Tables, NEW k \in 1 .. Len(tables), NEW o \in 1 .. Len(tables), k <= o
  PROVE  RoomOf(k) <= RoomOf(o)
<1>1. Cap(k) \in Nat /\ Cap(o) \in Nat /\ Cap(k) <= Cap(o)
  BY TableKnown DEF TablesFit, TableFacts, Tables
<1> QED
  BY <1>1 DEF RoomOf, Half

\* Who is in a table has a producer.
LEMMA ListedIsMade ==
  ASSUME HashAssumption, HashEntries, NEW t \in HThreads, NEW k \in 1 .. Len(tables), InTable(t, k)
  PROVE  Made(t)
  BY DEF HashAssumption, HashEntries, InTable, Made

\* A search that comes to a free slot has shown that the thread is not in the table.
LEMMA SearchedAll ==
  ASSUME HashAssumption, PHTypes, Seats, NEW t \in HThreads, hpc[t] = "probe", Probing(t),
         ProbedKey(t) = Nobody
  PROVE  ~InTable(t, hloc[t].hash)
<1> DEFINE h == hloc[t].hash
           x == hloc[t].index
<1>1. h \in 1 .. Len(tables) /\ x \in Nat /\ Hash[t] \in Nat /\ Hash[t] <= x /\ Key(h, x) = Nobody
  BY DEF Probing, PHTypes, HLocals, HashAssumption, ProbedKey, Slot, Key
<1>2. SUFFICES ASSUME NEW i \in DOMAIN tables[h], tables[h][i] = t PROVE FALSE
  BY DEF InTable
<1>3. PICK e \in Nat : /\ Hash[t] <= e /\ e % Cap(h) = i
                       /\ \A d \in Hash[t] .. (e - 1) : Key(h, d) # Nobody
  BY <1>1, <1>2 DEF Seats, Seated, HashAssumption
<1>4. Key(h, e) = t
  BY <1>2, <1>3 DEF Key
<1>5. \A d \in Hash[t] .. (x - 1) : Key(h, d) # t
  BY DEF Probing
<1> HIDE DEF h, x
<1>6. ~(e \in Hash[t] .. (x - 1))
  BY <1>4, <1>5
<1>7. ~(x \in Hash[t] .. (e - 1))
  BY <1>1, <1>3
<1>8. x # e
  BY <1>1, <1>2, <1>4 DEF HashAssumption
<1> QED
  BY <1>1, <1>3, <1>6, <1>7, <1>8
-----------------------------------------------------------------------------
HStep(t) ==
  \/ GetOrAdd(t) \/ Found(t) \/ Taken(t) \/ NotHere(t) \/ CountIn(t)
  \/ TakeResize(t) \/ Double(t) \/ Resize(t) \/ ResizeDone(t) \/ ResizeFails(t)
  \/ Unlock(t) \/ NoResize(t) \/ NewProducer(t) \/ ProducerFails(t) \/ WaitTable(t)
  \/ Place(t)

\* A step of one thread changes the locals of that thread only.
OthersStay(t) == \A u \in HThreads \ {t} : hpc'[u] = hpc[u] /\ hloc'[u] = hloc[u]

LEMMA HStepOfOne ==
  ASSUME NEW t \in HThreads, PHTypes, HStep(t)
  PROVE  OthersStay(t)
<1> USE DEF PHTypes, OthersStay, HGo, HReturn
<1>1. CASE GetOrAdd(t) \/ Found(t) \/ Taken(t) \/ NotHere(t) \/ CountIn(t)
  BY <1>1 DEF GetOrAdd, Found, Taken, NotHere, CountIn
<1>2. CASE TakeResize(t) \/ Double(t) \/ Resize(t) \/ ResizeDone(t) \/ ResizeFails(t)
  BY <1>2 DEF TakeResize, Double, Resize, ResizeDone, ResizeFails
<1>3. CASE Unlock(t) \/ NoResize(t) \/ NewProducer(t) \/ ProducerFails(t) \/ WaitTable(t)
  BY <1>3 DEF Unlock, NoResize, NewProducer, ProducerFails, WaitTable
<1>4. CASE Place(t)
  BY <1>4 DEF Place
<1> QED
  BY <1>1, <1>2, <1>3, <1>4 DEF HStep

LEMMA CountKnown ==
  ASSUME HashAssumption, NEW cnt, HashCounts(cnt)
  PROVE  hashCount \in Nat /\ IsFiniteSet(InCount)
<1>1. InCount \subseteq HThreads
  BY DEF InCount
<1>2. IsFiniteSet(InCount)
  BY <1>1, FS_Subset DEF HashAssumption
<1> QED
  BY <1>2, FS_CardinalityType DEF HashCounts

\* The locals with some of them changed.
LEMMA LocalsSet ==
  ASSUME NEW o \in HLocals, NEW x \in Nat, NEW y \in Nat
  PROVE  /\ [o EXCEPT !.main = x] \in HLocals
         /\ [o EXCEPT !.main = x, !.size = y] \in HLocals
         /\ [o EXCEPT !.index = x] \in HLocals
         /\ [o EXCEPT !.hash = x, !.index = y] \in HLocals
         /\ [o EXCEPT !.value = x, !.index = y] \in HLocals
         /\ [o EXCEPT !.size = x] \in HLocals
         /\ [HNoCall EXCEPT !.main = x, !.hash = x, !.index = y] \in HLocals
         /\ [HNoCall EXCEPT !.main = x, !.count = y] \in HLocals
  BY DEF HLocals, HNoCall

\* Types.
LEMMA HTypesFollow ==
  ASSUME HashAssumption, NEW cnt \in [HThreads -> Nat], PHGood(cnt), NEW t \in HThreads,
         HStep(t)
  PROVE  PHTypes'
<1>1. PHTypes /\ HashLocals(t, cnt) /\ TablesFit /\ Tables
  BY TableKnown DEF PHGood
<1>2. /\ hloc[t] \in HLocals /\ Hash[t] \in Nat /\ Len(tables) \in Nat /\ Len(tables) \in 1 .. Len(tables)
      /\ Cap(Len(tables)) \in Nat \ {0} /\ HNoCall \in HLocals
  BY <1>1 DEF PHTypes, HashAssumption, TablesFit, TableFacts, HNoCall, HLocals
<1>2a. /\ hloc[t].main \in Nat /\ hloc[t].index + 1 \in Nat /\ 2 * hloc[t].size \in Nat
       /\ hloc[t].hash > 1 => hloc[t].hash - 1 \in Nat
       /\ 2 * Cap(Len(tables)) \in Nat /\ Len(tables) + 1 \in Nat /\ 0 \in Nat
       /\ hashCount + 1 \in Nat /\ Len(producers) + 1 \in Nat
  <2>1. /\ hloc[t].main \in Nat /\ hloc[t].index \in Nat /\ hloc[t].size \in Nat
        /\ hloc[t].hash \in Nat
    BY <1>2 DEF HLocals
  <2>2. hashCount \in Nat
    BY CountKnown DEF PHGood
  <2>3. Len(producers) \in Nat
    BY <1>1 DEF PHTypes
  <2> QED
    <3>1. \A x \in Nat : x + 1 \in Nat /\ 2 * x \in Nat /\ (x > 1 => x - 1 \in Nat)
      OBVIOUS
    <3>2. Cap(Len(tables)) \in Nat /\ Len(tables) \in Nat /\ 0 \in Nat
      BY <1>2
    <3> QED
      BY ONLY <2>1, <2>2, <2>3, <3>1, <3>2
<1>3. ASSUME NEW o \in HLocals, hloc' = [hloc EXCEPT ![t] = o]
      PROVE  hloc' \in [HThreads -> HLocals]
  BY <1>1, <1>3 DEF PHTypes
<1>4. ASSUME NEW lab \in {"idle", "probe", "place"} \cup Late, HGo(t, lab)
      PROVE  hpc' \in [HThreads -> {"idle", "probe", "place"} \cup Late]
  BY <1>1, <1>4 DEF PHTypes, HGo
<1>5. HReturn(t) => /\ hpc' \in [HThreads -> {"idle", "probe", "place"} \cup Late]
                    /\ hloc' \in [HThreads -> HLocals]
  BY <1>2, <1>3, <1>4 DEF HReturn
<1>6. CASE GetOrAdd(t)
  <2>1. [HNoCall EXCEPT !.main = Len(tables), !.hash = Len(tables), !.index = Hash[t]] \in HLocals
    BY <1>2, <1>2a, LocalsSet
  <2> QED
    BY <1>1, <1>3, <1>4, <1>6, <2>1 DEF GetOrAdd, PHTypes
<1>7. CASE Found(t)
  <2>1. CASE hloc[t].hash = hloc[t].main
    BY <1>1, <1>5, <1>7, <2>1 DEF Found, PHTypes
  <2>2. CASE hloc[t].hash # hloc[t].main
    <3> DEFINE h == hloc[t].hash
               v == values[h][Slot(t, h)]
    <3>1. h \in 1 .. Len(tables) /\ hloc[t].index \in Nat
      <4>1. hpc[t] = "probe"
        BY <1>7 DEF Found
      <4>2. Probing(t)
        BY <1>1, <4>1 DEF HashLocals
      <4>3. h \in 1 .. Len(tables)
        BY <4>2 DEF Probing
      <4> QED
        BY <1>2, <4>3 DEF HLocals
    <3>2. v \in Nat
      BY <1>1, <3>1 DEF TablesFit, TableFacts, Tables, Slot
    <3>3. [hloc[t] EXCEPT !.value = v, !.index = Hash[t]] \in HLocals
      BY <1>2, <3>2, LocalsSet
    <3>4. hloc' = [hloc EXCEPT ![t] = [hloc[t] EXCEPT !.value = v, !.index = Hash[t]]]
      BY <1>1, <1>7, <2>2 DEF Found, PHTypes
    <3> QED
      BY <1>1, <1>3, <1>4, <1>7, <2>2, <3>3, <3>4 DEF Found, PHTypes
  <2> QED
    BY <2>1, <2>2
<1>8. CASE Taken(t)
  <2>1. [hloc[t] EXCEPT !.index = @ + 1] \in HLocals
    BY <1>2, <1>2a, LocalsSet
  <2>2. hloc' = [hloc EXCEPT ![t] = [hloc[t] EXCEPT !.index = @ + 1]]
    BY <1>1, <1>8 DEF Taken, PHTypes
  <2> QED
    BY <1>1, <1>3, <1>8, <2>1, <2>2 DEF Taken, PHTypes
<1>9. CASE NotHere(t)
  <2>1. CASE hloc[t].hash > 1
    <3>1. [hloc[t] EXCEPT !.hash = @ - 1, !.index = Hash[t]] \in HLocals
      BY <1>2, <1>2a, <2>1, LocalsSet
    <3>2. hloc' = [hloc EXCEPT ![t] = [hloc[t] EXCEPT !.hash = @ - 1, !.index = Hash[t]]]
      BY <1>1, <1>9, <2>1 DEF NotHere, PHTypes
    <3> QED
      BY <1>1, <1>3, <1>9, <2>1, <3>1, <3>2 DEF NotHere, PHTypes
  <2>2. CASE ~(hloc[t].hash > 1)
    BY <1>1, <1>4, <1>9, <2>2 DEF NotHere, PHTypes, Late
  <2> QED
    BY <2>1, <2>2
<1>10. CASE CountIn(t)
  <2>0. hashCount + 1 \in Nat
    BY <1>2a
  <2>1. [HNoCall EXCEPT !.main = hloc[t].main, !.count = hashCount + 1] \in HLocals
    BY <1>2, <1>2a, LocalsSet
  <2> QED
    BY <1>1, <1>3, <1>4, <1>10, <2>0, <2>1 DEF CountIn, PHTypes, Late
<1>11. CASE TakeResize(t)
  <2>1. [hloc[t] EXCEPT !.main = Len(tables), !.size = 2 * Cap(Len(tables))] \in HLocals
    BY <1>2, <1>2a, LocalsSet
  <2>2. hloc' = [hloc EXCEPT ![t] = [hloc[t] EXCEPT !.main = Len(tables),
                                                    !.size = 2 * Cap(Len(tables))]]
    BY <1>1, <1>11 DEF TakeResize, PHTypes
  <2> QED
    BY <1>1, <1>3, <1>4, <1>11, <2>1, <2>2 DEF TakeResize, PHTypes, Late
<1>12. CASE Double(t)
  <2>1. [hloc[t] EXCEPT !.size = 2 * @] \in HLocals
    BY <1>2, <1>2a, LocalsSet
  <2>2. hloc' = [hloc EXCEPT ![t] = [hloc[t] EXCEPT !.size = 2 * @]]
    BY <1>1, <1>12 DEF Double, PHTypes
  <2> QED
    BY <1>1, <1>3, <1>12, <2>1, <2>2 DEF Double, PHTypes
<1>13. CASE Resize(t)
  <2>1. [hloc[t] EXCEPT !.main = Len(tables) + 1, !.size = 0] \in HLocals
    BY <1>2, <1>2a, LocalsSet
  <2>2. hloc' = [hloc EXCEPT ![t] = [hloc[t] EXCEPT !.main = Len(tables) + 1, !.size = 0]]
    BY <1>1, <1>13 DEF Resize, PHTypes
  <2>3. hloc[t].size \in Nat \ {0}
    <3>1. Cap(Len(tables)) <= hloc[t].size
      BY <1>1, <1>13 DEF Resize, HashLocals
    <3>2. Cap(Len(tables)) \in Nat \ {0} /\ hloc[t].size \in Nat
      BY <1>2 DEF HLocals
    <3> QED
      BY <3>1, <3>2
  <2>4. PICK sz \in Nat \ {0} : sz = hloc[t].size
    BY <2>3
  <2>5. [i \in 0 .. (sz - 1) |-> Nobody] \in Table /\ [i \in 0 .. (sz - 1) |-> 0] \in Beside
    <3>1. /\ [i \in 0 .. (sz - 1) |-> Nobody] \in [0 .. (sz - 1) -> HThreads \cup {Nobody}]
          /\ [i \in 0 .. (sz - 1) |-> 0] \in [0 .. (sz - 1) -> Nat]
      OBVIOUS
    <3> QED
      BY <3>1 DEF Table, Beside
  <2>6. tables' \in Seq(Table) /\ values' \in Seq(Beside) /\ Len(tables') = Len(tables) + 1
        /\ Len(values') = Len(values) + 1
    BY <1>1, <1>13, <2>4, <2>5 DEF Resize, PHTypes
  <2>7. hpc' \in [HThreads -> {"idle", "probe", "place"} \cup Late]
    BY <1>4, <1>13 DEF Resize, Late
  <2>8. hloc' \in [HThreads -> HLocals]
    BY <1>3, <2>1, <2>2
  <2> QED
    BY <1>1, <1>13, <2>6, <2>7, <2>8 DEF Resize, PHTypes
<1>14. CASE ResizeDone(t)
  <2>1. [hloc[t] EXCEPT !.size = 0] \in HLocals
    BY <1>2, <1>2a, LocalsSet
  <2>2. hloc' = [hloc EXCEPT ![t] = [hloc[t] EXCEPT !.size = 0]]
    BY <1>1, <1>14 DEF ResizeDone, PHTypes
  <2> QED
    BY <1>1, <1>3, <1>4, <1>14, <2>1, <2>2 DEF ResizeDone, PHTypes, Late
<1>15. CASE ResizeFails(t)
  BY <1>1, <1>4, <1>15 DEF ResizeFails, PHTypes, Late
<1>16. CASE Unlock(t)
  BY <1>1, <1>4, <1>5, <1>16 DEF Unlock, PHTypes, Late
<1>17. CASE NoResize(t)
  BY <1>1, <1>4, <1>17 DEF NoResize, PHTypes, Late
<1>18. CASE NewProducer(t)
  <2>1. [hloc[t] EXCEPT !.value = Len(producers) + 1, !.index = Hash[t]] \in HLocals
    BY <1>2, <1>2a, LocalsSet
  <2>2. hloc' = [hloc EXCEPT ![t] = [hloc[t] EXCEPT !.value = Len(producers) + 1, !.index = Hash[t]]]
    BY <1>1, <1>18 DEF NewProducer, PHTypes
  <2> QED
    BY <1>1, <1>3, <1>4, <1>18, <2>1, <2>2 DEF NewProducer, PHTypes
<1>19. CASE ProducerFails(t)
  BY <1>1, <1>5, <1>19 DEF ProducerFails, PHTypes
<1>20. CASE WaitTable(t)
  <2>1. [hloc[t] EXCEPT !.main = Len(tables)] \in HLocals
    BY <1>2, <1>2a, LocalsSet
  <2>2. hloc' = [hloc EXCEPT ![t] = [hloc[t] EXCEPT !.main = Len(tables)]]
    BY <1>1, <1>20 DEF WaitTable, PHTypes
  <2> QED
    BY <1>1, <1>3, <1>4, <1>20, <2>1, <2>2 DEF WaitTable, PHTypes, Late
<1>21. CASE Place(t)
  <2> DEFINE m == hloc[t].main
             i == Slot(t, m)
  <2>1. m \in 1 .. Len(tables) /\ hloc[t].index \in Nat /\ hloc[t].value \in Nat
    BY <1>1, <1>2, <1>21 DEF Place, HashLocals, Placing, HLocals
  <2>2. CASE tables[m][i] # Nobody
    <3>1. [hloc[t] EXCEPT !.index = @ + 1] \in HLocals
      BY <1>2, <1>2a, LocalsSet
    <3>2. hloc' = [hloc EXCEPT ![t] = [hloc[t] EXCEPT !.index = @ + 1]]
      BY <1>1, <1>21, <2>2 DEF Place, PHTypes
    <3>3. UNCHANGED <<tables, values, hpc, hashCount, resizing, producers>>
      BY <1>21, <2>2 DEF Place
    <3> QED
      BY <1>1, <1>3, <3>1, <3>2, <3>3 DEF PHTypes
  <2>3. CASE tables[m][i] = Nobody
    <3>0. /\ tables' = [tables EXCEPT ![m][i] = t] /\ values' = [values EXCEPT ![m][i] = hloc[t].value]
          /\ HReturn(t) /\ UNCHANGED <<hashCount, resizing, producers>>
      BY <1>21, <2>3 DEF Place
    <3>1. tables[m] \in Table /\ values[m] \in Beside
      BY <1>1, <2>1 DEF PHTypes
    <3>2. [tables[m] EXCEPT ![i] = t] \in Table
      <4>1. PICK c \in Nat \ {0} : tables[m] \in [0 .. (c - 1) -> HThreads \cup {Nobody}]
        BY <3>1 DEF Table
      <4>2. [tables[m] EXCEPT ![i] = t] \in [0 .. (c - 1) -> HThreads \cup {Nobody}]
        BY <4>1
      <4> QED
        BY <4>2 DEF Table
    <3>3. [values[m] EXCEPT ![i] = hloc[t].value] \in Beside
      <4>1. PICK c \in Nat \ {0} : values[m] \in [0 .. (c - 1) -> Nat]
        BY <3>1 DEF Beside
      <4>2. [values[m] EXCEPT ![i] = hloc[t].value] \in [0 .. (c - 1) -> Nat]
        BY <2>1, <4>1
      <4> QED
        BY <4>2 DEF Beside
    <3> HIDE DEF i, m
    <3>4. tables' = [tables EXCEPT ![m] = [tables[m] EXCEPT ![i] = t]]
      BY <1>1, <3>0, <2>1 DEF PHTypes
    <3>5. values' = [values EXCEPT ![m] = [values[m] EXCEPT ![i] = hloc[t].value]]
      BY <1>1, <3>0, <2>1 DEF PHTypes
    <3>6. tables' \in Seq(Table) /\ Len(tables') = Len(tables)
      BY <1>1, <2>1, <3>2, <3>4, ExceptSeq DEF PHTypes
    <3>7. values' \in Seq(Beside) /\ Len(values') = Len(values)
      BY <1>1, <2>1, <3>3, <3>5, ExceptSeq DEF PHTypes
    <3> QED
      BY <1>1, <1>5, <3>0, <3>6, <3>7 DEF PHTypes
  <2> QED
    BY <2>2, <2>3
<1> QED
  BY <1>6, <1>7, <1>8, <1>9, <1>10, <1>11, <1>12, <1>13, <1>14, <1>15, <1>16, <1>17,
     <1>18, <1>19, <1>20, <1>21 DEF HStep
-----------------------------------------------------------------------------
(* The flag: one thread at a time makes a table. *)
LEMMA FlagKept ==
  ASSUME Resizer, NEW t \in HThreads, OthersStay(t),
         \/ resizing' = resizing /\ (hpc'[t] \in Flagged => hpc[t] \in Flagged)
         \/ ~resizing /\ resizing'
         \/ hpc[t] \in Flagged /\ hpc'[t] \notin Flagged
  PROVE  Resizer'
  BY DEF Resizer, OthersStay

\* A step that leaves tables, producers and counts as they are.
LEMMA HQuiet ==
  ASSUME HashAssumption, NEW cnt, PHGood(cnt), NEW t \in HThreads,
         OthersStay(t), PHTypes', Resizer', HashLocals(t, cnt)',
         UNCHANGED <<tables, values, producers, hashCount>>,
         hpc'[t] \in Counted <=> hpc[t] \in Counted,
         hpc[t] = "place" => hpc'[t] = "place" \/ \E k \in 1 .. Len(tables) : InTable(t, k)
  PROVE  PHGood(cnt)'
<1> USE DEF PHGood
<1>1. /\ \A k : Cap(k)' = Cap(k) /\ RoomOf(k)' = RoomOf(k)
      /\ \A u, k : InTable(u, k)' <=> InTable(u, k)
      /\ \A u : Made(u)' <=> Made(u)
      /\ \A k, e : Key(k, e)' = Key(k, e)
  BY DEF Cap, RoomOf, Half, InTable, Made, Key
<1>2. Tables' /\ HashEntries'
  BY <1>1 DEF Tables, HashEntries
<1>3. Seats'
  BY <1>1 DEF Seats, Seated
<1>4. Producers1'
  BY <1>1 DEF Producers1, OthersStay
<1>5. ASSUME NEW u \in HThreads \ {t} PROVE HashLocals(u, cnt)'
  <2>1. hpc'[u] = hpc[u] /\ hloc'[u] = hloc[u] /\ HashLocals(u, cnt)
    BY DEF OthersStay
  <2>2. Probing(u) => Probing(u)'
    BY <1>1, <2>1 DEF Probing
  <2>3. Placing(u, cnt) => Placing(u, cnt)'
    BY <1>1, <2>1 DEF Placing
  <2> QED
    BY <1>1, <2>1, <2>2, <2>3 DEF HashLocals
<1>6. InCount' = InCount
  BY <1>1 DEF InCount, OthersStay
<1>7. HashCounts(cnt)'
  BY <1>1, <1>6 DEF HashCounts, UpTo
<1> QED
  BY <1>2, <1>3, <1>4, <1>5, <1>7

\* What every step has to go on.
StepFacts(t, cnt) ==
  /\ OthersStay(t) /\ PHTypes' /\ PHTypes /\ HashLocals(t, cnt) /\ Hash[t] \in Nat
  /\ hloc[t] \in HLocals /\ Len(tables) \in 1 .. Len(tables)

LEMMA HStepFacts ==
  ASSUME HashAssumption, NEW cnt \in [HThreads -> Nat], PHGood(cnt), NEW t \in HThreads,
         HStep(t)
  PROVE  StepFacts(t, cnt)
<1>1. PHTypes /\ HashLocals(t, cnt)
  BY DEF PHGood
<1>2. OthersStay(t) /\ PHTypes'
  BY <1>1, HStepOfOne, HTypesFollow
<1>3. Hash[t] \in Nat /\ hloc[t] \in HLocals /\ Len(tables) \in 1 .. Len(tables)
  BY <1>1 DEF HashAssumption, PHTypes
<1> QED
  BY <1>1, <1>2, <1>3 DEF StepFacts

\* The search, and the ways through the insertion that change no table.
LEMMA HSearchKeeps ==
  ASSUME HashAssumption, NEW cnt \in [HThreads -> Nat], PHGood(cnt), NEW t \in HThreads,
         GetOrAdd(t) \/ Found(t) \/ Taken(t) \/ NotHere(t)
  PROVE  PHGood(cnt)'
<1>1. OthersStay(t) /\ PHTypes' /\ PHTypes /\ HashLocals(t, cnt) /\ Hash[t] \in Nat
      /\ hloc[t] \in HLocals /\ Len(tables) \in 1 .. Len(tables)
  <2>1. HStep(t)
    BY DEF HStep
  <2> QED
    BY <2>1, HStepFacts DEF StepFacts
<1>2. \/ hpc[t] = "idle" \/ hpc[t] = "probe"
  BY DEF GetOrAdd, Found, Taken, NotHere
<1>3. UNCHANGED <<tables, values, hashCount, resizing, producers>>
  BY DEF GetOrAdd, Found, Taken, NotHere
<1>5. CASE GetOrAdd(t)
  <2>1. /\ hpc'[t] = "probe" /\ hloc'[t].main = Len(tables) /\ hloc'[t].hash = Len(tables)
        /\ hloc'[t].index = Hash[t]
    BY <1>1, <1>5 DEF GetOrAdd, HGo, PHTypes, HNoCall
  <2>2. Probing(t)'
    BY <1>1, <1>3, <2>1 DEF Probing
  <2>3. HashLocals(t, cnt)'
    BY <2>1, <2>2 DEF HashLocals, Late, Counted
  <2>4. Resizer'
    BY <1>1, <1>3, <2>1, FlagKept DEF PHGood, Flagged
  <2> QED
    BY <1>1, <1>2, <1>3, <2>1, <2>3, <2>4, HQuiet DEF Counted
<1>6. CASE Found(t)
  <2>1. hpc[t] = "probe" /\ Probing(t) /\ ProbedKey(t) = t
    BY <1>1, <1>6 DEF Found, HashLocals
  <2>2. CASE hloc[t].hash = hloc[t].main
    <3>1. hpc'[t] = "idle"
      BY <1>1, <1>6, <2>2 DEF Found, HReturn, HGo, PHTypes
    <3>2. HashLocals(t, cnt)'
      BY <3>1 DEF HashLocals, Late, Counted
    <3>3. Resizer'
      BY <1>1, <1>3, <3>1, FlagKept DEF PHGood, Flagged
    <3> QED
      BY <1>1, <1>3, <2>1, <3>1, <3>2, <3>3, HQuiet DEF Counted
  <2>3. CASE hloc[t].hash # hloc[t].main
    <3>1. PICK h \in Nat, m \in Nat, i \in Nat :
            /\ h = hloc[t].hash /\ m = hloc[t].main /\ i = Slot(t, h)
            /\ h \in 1 .. Len(tables) /\ m \in 1 .. Len(tables) /\ h < m
            /\ i \in DOMAIN tables[h] /\ tables[h][i] = t
      <4>1. /\ hloc[t].hash \in Nat /\ hloc[t].main \in Nat /\ hloc[t].index \in Nat
            /\ hloc[t].hash \in 1 .. Len(tables) /\ hloc[t].main \in 1 .. Len(tables)
            /\ hloc[t].hash < hloc[t].main
        BY <1>1, <2>1, <2>3 DEF Probing, HLocals
      <4>2. TableFacts(hloc[t].hash)
        BY <1>1, <4>1, TableKnown DEF TablesFit
      <4>3. Slot(t, hloc[t].hash) \in DOMAIN tables[hloc[t].hash] /\ Slot(t, hloc[t].hash) \in Nat
        <5>1. PICK h \in Nat, x \in Nat, c \in Nat \ {0} :
                h = hloc[t].hash /\ x = hloc[t].index /\ c = Cap(h)
          BY <4>1, <4>2 DEF TableFacts
        <5>2. x % c \in DOMAIN tables[h]
          BY <4>2, <5>1 DEF TableFacts
        <5>3. x % c \in Nat
          BY <5>1, RemainderIn
        <5>4. Slot(t, h) = x % c
          BY <5>1 DEF Slot
        <5> QED
          BY <5>1, <5>2, <5>3, <5>4
      <4> QED
        BY <2>1, <4>1, <4>3 DEF ProbedKey
    <3>2. /\ hpc'[t] = "place" /\ hloc'[t].main = m /\ hloc'[t].index = Hash[t]
          /\ hloc'[t].value = values[h][i]
      BY <1>1, <1>6, <2>3, <3>1 DEF Found, HGo, PHTypes, HLocals
    <3>3. t # Nobody
      BY DEF HashAssumption
    <3>4. values[h][i] \in 1 .. Len(producers) /\ producers[values[h][i]] = t
      BY <3>1, <3>3 DEF PHGood, HashEntries
    <3>5. cnt[t] < RoomOf(m)
      <4>1. cnt[t] < RoomOf(h) /\ RoomOf(h) <= RoomOf(m)
        BY <1>1, <3>1, <3>3, RoomGrows DEF PHGood, HashCounts
      <4>2. RoomOf(h) \in Nat /\ RoomOf(m) \in Nat
        BY <1>1, <3>1, TableKnown DEF TablesFit, TableFacts
      <4> QED
        BY <4>1, <4>2
    <3>6. ~InTable(t, m)
      BY <2>1, <3>1 DEF Probing
    <3>7. Placing(t, cnt)'
      <4>1. RoomOf(m)' = RoomOf(m) /\ (InTable(t, m)' <=> InTable(t, m))
        BY <1>3 DEF RoomOf, Half, Cap, InTable
      <4> QED
        BY <1>1, <1>3, <3>1, <3>2, <3>4, <3>5, <3>6, <4>1 DEF Placing
    <3>8. HashLocals(t, cnt)'
      BY <3>2, <3>7 DEF HashLocals, Late, Counted
    <3>9. Resizer'
      BY <1>1, <1>3, <3>2, FlagKept DEF PHGood, Flagged
    <3> QED
      BY <1>1, <1>3, <2>1, <3>2, <3>8, <3>9, HQuiet DEF Counted
  <2> QED
    BY <2>2, <2>3
<1>7. CASE Taken(t)
  <2>1. /\ hpc[t] = "probe" /\ Probing(t) /\ ProbedKey(t) \notin {t, Nobody}
        /\ hpc' = hpc /\ hloc'[t].main = hloc[t].main /\ hloc'[t].hash = hloc[t].hash
        /\ hloc'[t].index = hloc[t].index + 1
    BY <1>1, <1>7 DEF Taken, HashLocals, PHTypes, HLocals
  <2>2. Probing(t)'
    <3>1. PICK h \in Nat, x \in Nat : h = hloc[t].hash /\ x = hloc[t].index
      BY <1>1 DEF HLocals
    <3>2. /\ Key(h, x) \notin {t, Nobody} /\ Hash[t] <= x
          /\ \A e \in Hash[t] .. (x - 1) : Key(h, e) \notin {t, Nobody}
          /\ \A k \in (h + 1) .. Len(tables) : ~InTable(t, k)
      BY <2>1, <3>1 DEF Probing, ProbedKey, Slot, Key
    <3>3. \A e \in Hash[t] .. ((x + 1) - 1) : Key(h, e) \notin {t, Nobody}
      <4>1. \A e \in Hash[t] .. ((x + 1) - 1) : e = x \/ e \in Hash[t] .. (x - 1)
        BY <1>1, <3>1
      <4> QED
        BY <3>2, <4>1
    <3>4. /\ \A e : Key(h, e)' = Key(h, e)
          /\ \A k : InTable(t, k)' <=> InTable(t, k)
      BY <1>3 DEF Key, Cap, InTable
    <3>5. Hash[t] <= x + 1
      BY <1>1, <3>2
    <3> QED
      BY <1>3, <2>1, <3>1, <3>2, <3>3, <3>4, <3>5 DEF Probing
  <2>3. HashLocals(t, cnt)'
    BY <2>1, <2>2 DEF HashLocals, Late, Counted
  <2>4. Resizer'
    BY <1>1, <1>3, <2>1, FlagKept DEF PHGood, Flagged
  <2> QED
    BY <1>1, <1>3, <2>1, <2>3, <2>4, HQuiet DEF Counted
<1>8. CASE NotHere(t)
  <2>1. hpc[t] = "probe" /\ Probing(t) /\ ProbedKey(t) = Nobody
    BY <1>1, <1>8 DEF NotHere, HashLocals
  <2>2. PICK h \in Nat : h = hloc[t].hash /\ h \in 1 .. Len(tables) /\ h \in 1 .. hloc[t].main
                         /\ hloc[t].main \in 1 .. Len(tables)
    BY <1>1, <2>1 DEF Probing, HLocals
  <2>3. \A k \in h .. Len(tables) : ~InTable(t, k)
    <3>1. ~InTable(t, h)
      BY <1>1, <2>1, <2>2, SearchedAll DEF PHGood
    <3>2. \A k \in h .. Len(tables) : k = h \/ k \in (h + 1) .. Len(tables)
      BY <2>2
    <3> QED
      BY <2>1, <2>2, <3>1, <3>2 DEF Probing
  <2>4. \A k : InTable(t, k)' <=> InTable(t, k)
    BY <1>3 DEF InTable
  <2>5. CASE h > 1
    <3>1. /\ hpc' = hpc /\ hloc'[t].main = hloc[t].main /\ hloc'[t].hash = h - 1
          /\ hloc'[t].index = Hash[t]
      BY <1>1, <1>8, <2>2, <2>5 DEF NotHere, PHTypes, HLocals
    <3>2. Probing(t)'
      <4>1. h - 1 \in 1 .. hloc[t].main /\ (h - 1) + 1 = h
        BY <2>2, <2>5
      <4> QED
        BY <1>1, <1>3, <2>2, <2>3, <2>4, <3>1, <4>1 DEF Probing
    <3>3. HashLocals(t, cnt)'
      BY <2>1, <3>1, <3>2 DEF HashLocals, Late, Counted
    <3>4. Resizer'
      BY <1>1, <1>3, <3>1, FlagKept DEF PHGood, Flagged
    <3> QED
      BY <1>1, <1>3, <2>1, <3>1, <3>3, <3>4, HQuiet DEF Counted
  <2>6. CASE ~(h > 1)
    <3>1. hpc'[t] = "count" /\ hloc' = hloc
      BY <1>1, <1>8, <2>2, <2>6 DEF NotHere, PHTypes, HGo
    <3>2. ~Made(t)
      BY <2>1, <2>2, <2>3, <2>6 DEF PHGood, Producers1
    <3>3. HashLocals(t, cnt)'
      BY <1>3, <2>2, <3>1, <3>2 DEF HashLocals, Late, Counted, Made
    <3>4. Resizer'
      BY <1>1, <1>3, <3>1, FlagKept DEF PHGood, Flagged
    <3> QED
      BY <1>1, <1>3, <2>1, <3>1, <3>3, <3>4, HQuiet DEF Counted
  <2> QED
    BY <2>5, <2>6
<1> QED
  BY <1>5, <1>6, <1>7, <1>8

LEMMA HInsertKeeps ==
  ASSUME HashAssumption, NEW cnt \in [HThreads -> Nat], PHGood(cnt), NEW t \in HThreads,
         \/ TakeResize(t) \/ Double(t) \/ ResizeDone(t) \/ Unlock(t) \/ NoResize(t)
         \/ WaitTable(t)
  PROVE  PHGood(cnt)'
<1>1. StepFacts(t, cnt)
  BY HStepFacts DEF HStep
<1>2. OthersStay(t) /\ PHTypes' /\ PHTypes /\ HashLocals(t, cnt) /\ Resizer
  BY <1>1 DEF StepFacts, PHGood
<1>3. UNCHANGED <<tables, values, hashCount, producers>>
  BY DEF TakeResize, Double, ResizeDone, Unlock, NoResize, WaitTable
<1>4. (Made(t)' <=> Made(t)) /\ Cap(Len(tables))' = Cap(Len(tables))
  BY <1>3 DEF Made, Cap
<1>5. hpc[t] \in {"insert", "resize", "unlock", "unlockfail", "room"} /\ hloc[t] \in HLocals
      /\ Len(tables) \in 1 .. Len(tables)
  BY <1>1 DEF TakeResize, Double, ResizeDone, Unlock, NoResize, WaitTable, StepFacts
<1>6. hpc[t] # "place" /\ hloc[t].main \in 1 .. Len(tables) /\ ~Made(t)
  BY <1>2, <1>5 DEF HashLocals, Late
<1>7. CASE TakeResize(t)
  <2>1. /\ hpc[t] = "insert" /\ hpc'[t] = "resize" /\ hloc'[t].main = Len(tables)
        /\ hloc'[t].size = 2 * Cap(Len(tables)) /\ hloc'[t].count = hloc[t].count
    <3>1. hpc[t] = "insert" /\ hpc'[t] = "resize"
          /\ hloc'[t] = [hloc[t] EXCEPT !.main = Len(tables), !.size = 2 * Cap(Len(tables))]
      BY <1>2, <1>7 DEF TakeResize, HGo, PHTypes
    <3>2. PICK o \in HLocals, x \in Nat, y \in Nat :
            o = hloc[t] /\ x = Len(tables) /\ y = 2 * Cap(Len(tables))
      <4>1. TableFacts(Len(tables)) /\ Len(tables) \in Nat
        BY <1>2, <1>5, TableKnown DEF TablesFit
      <4>2. Cap(Len(tables)) \in Nat
        BY <4>1 DEF TableFacts
      <4>3. 2 * Cap(Len(tables)) \in Nat
        BY <4>2
      <4> QED
        BY <1>5, <4>1, <4>3
    <3>3. hloc'[t] = [o EXCEPT !.main = x, !.size = y]
      BY <3>1, <3>2
    <3>4. hloc'[t].main = x /\ hloc'[t].size = y /\ hloc'[t].count = o.count
      BY <3>3 DEF HLocals
    <3>5. hpc[t] = "insert" /\ hpc'[t] = "resize"
      BY <3>1
    <3> QED
      BY <3>2, <3>4, <3>5
  <2>2. Cap(Len(tables)) <= 2 * Cap(Len(tables))
    <3>1. TableFacts(Len(tables))
      BY <1>2, <1>5, TableKnown DEF TablesFit
    <3>2. Cap(Len(tables)) \in Nat
      BY <3>1 DEF TableFacts
    <3> QED
      BY <3>2
  <2>3. HashLocals(t, cnt)'
    BY <1>2, <1>3, <1>4, <1>5, <1>6, <2>1, <2>2 DEF HashLocals, Late, Counted
  <2>4. Resizer'
    BY <1>2, <1>7, FlagKept DEF TakeResize
  <2> QED
    BY <1>2, <1>3, <1>6, <2>1, <2>3, <2>4, HQuiet DEF Counted
<1>8. CASE Double(t)
  <2>1. /\ hpc[t] = "resize" /\ hpc'[t] = "resize" /\ hloc'[t].main = hloc[t].main
        /\ hloc'[t].size = 2 * hloc[t].size /\ hloc'[t].count = hloc[t].count
        /\ resizing' = resizing
    BY <1>2, <1>8 DEF Double, PHTypes, HLocals
  <2>2. Cap(Len(tables)) <= 2 * hloc[t].size
    <3>1. /\ Cap(Len(tables)) \in Nat /\ hloc[t].size \in Nat
          /\ Cap(Len(tables)) <= hloc[t].size
      BY <1>2, <1>5, <2>1, TableKnown DEF TablesFit, TableFacts, HLocals, HashLocals
    <3> QED
      BY <3>1
  <2>3. HashLocals(t, cnt)'
    BY <1>2, <1>3, <1>4, <1>5, <1>6, <2>1, <2>2 DEF HashLocals, Late, Counted
  <2>4. Resizer'
    BY <1>2, <2>1, FlagKept
  <2> QED
    BY <1>2, <1>3, <1>6, <2>1, <2>3, <2>4, HQuiet DEF Counted
<1>9. CASE ResizeDone(t)
  <2>1. /\ hpc[t] = "resize" /\ hpc'[t] = "unlock" /\ hloc'[t].main = hloc[t].main
        /\ hloc'[t].count = hloc[t].count /\ resizing' = resizing
    BY <1>2, <1>9 DEF ResizeDone, HGo, PHTypes, HLocals
  <2>3. HashLocals(t, cnt)'
    BY <1>2, <1>3, <1>4, <1>6, <2>1 DEF HashLocals, Late, Counted
  <2>4. Resizer'
    BY <1>2, <2>1, FlagKept DEF Flagged
  <2> QED
    BY <1>2, <1>3, <1>6, <2>1, <2>3, <2>4, HQuiet DEF Counted
<1>10. CASE Unlock(t)
  <2>1. \/ hpc[t] = "unlock" /\ hpc'[t] = "room" /\ hloc' = hloc
        \/ hpc[t] = "unlockfail" /\ hpc'[t] = "idle"
    BY <1>2, <1>10 DEF Unlock, HGo, HReturn, PHTypes
  <2>3. HashLocals(t, cnt)'
    BY <1>2, <1>3, <1>4, <1>6, <2>1 DEF HashLocals, Late, Counted
  <2>4. Resizer'
    BY <1>2, <2>1, FlagKept DEF Flagged
  <2> QED
    BY <1>2, <1>3, <1>6, <2>1, <2>3, <2>4, HQuiet DEF Counted
<1>11. CASE NoResize(t)
  <2>1. hpc[t] = "insert" /\ hpc'[t] = "room" /\ hloc' = hloc /\ resizing' = resizing
    BY <1>2, <1>11 DEF NoResize, HGo, PHTypes
  <2>3. HashLocals(t, cnt)'
    BY <1>2, <1>3, <1>4, <1>6, <2>1 DEF HashLocals, Late, Counted
  <2>4. Resizer'
    BY <1>2, <2>1, FlagKept DEF Flagged
  <2> QED
    BY <1>2, <1>3, <1>6, <2>1, <2>3, <2>4, HQuiet DEF Counted
<1>12. CASE WaitTable(t)
  <2>1. /\ hpc[t] = "room" /\ hpc'[t] = "insert" /\ hloc'[t].main = Len(tables)
        /\ hloc'[t].count = hloc[t].count /\ resizing' = resizing
    BY <1>2, <1>12 DEF WaitTable, HGo, PHTypes, HLocals
  <2>3. HashLocals(t, cnt)'
    BY <1>2, <1>3, <1>4, <1>5, <1>6, <2>1 DEF HashLocals, Late, Counted
  <2>4. Resizer'
    BY <1>2, <2>1, FlagKept DEF Flagged
  <2> QED
    BY <1>2, <1>3, <1>6, <2>1, <2>3, <2>4, HQuiet DEF Counted
<1> QED
  BY <1>7, <1>8, <1>9, <1>10, <1>11, <1>12

\* A slot that was taken before the CAS: the next one.
LEMMA HNextSlotKeeps ==
  ASSUME HashAssumption, NEW cnt \in [HThreads -> Nat], PHGood(cnt), NEW t \in HThreads,
         Place(t), tables[hloc[t].main][Slot(t, hloc[t].main)] # Nobody
  PROVE  PHGood(cnt)'
<1>1. StepFacts(t, cnt)
  BY HStepFacts DEF HStep
<1>2. OthersStay(t) /\ PHTypes' /\ PHTypes /\ HashLocals(t, cnt) /\ Resizer /\ Hash[t] \in Nat
  BY <1>1 DEF StepFacts, PHGood
<1>3. /\ UNCHANGED <<tables, values, hashCount, producers, resizing, hpc>>
      /\ hloc'[t].main = hloc[t].main /\ hloc'[t].value = hloc[t].value
      /\ hloc'[t].index = hloc[t].index + 1 /\ hpc[t] = "place"
  <2>1. /\ hpc[t] = "place" /\ hloc' = [hloc EXCEPT ![t] = [hloc[t] EXCEPT !.index = @ + 1]]
        /\ UNCHANGED <<tables, values, hashCount, producers, resizing, hpc>>
    BY <1>2 DEF Place, PHTypes
  <2>2. hloc[t] \in HLocals /\ hloc'[t] = [hloc[t] EXCEPT !.index = @ + 1]
    BY <1>1, <1>2, <2>1 DEF StepFacts, PHTypes
  <2> QED
    BY <2>1, <2>2 DEF HLocals
<1>4. Placing(t, cnt)
  BY <1>2, <1>3 DEF HashLocals
<1>5. Placing(t, cnt)'
  <2>1. PICK m \in Nat, x \in Nat : m = hloc[t].main /\ x = hloc[t].index
    BY <1>1 DEF StepFacts, HLocals
  <2>2. /\ Key(m, x) # Nobody /\ Hash[t] <= x
        /\ \A e \in Hash[t] .. (x - 1) : Key(m, e) # Nobody
    BY <1>4, <2>1 DEF Placing, Slot, Key
  <2>3. \A e \in Hash[t] .. ((x + 1) - 1) : Key(m, e) # Nobody
    <3>1. \A e \in Hash[t] .. ((x + 1) - 1) : e = x \/ e \in Hash[t] .. (x - 1)
      BY <1>2, <2>1
    <3> QED
      BY <2>2, <3>1
  <2>4. /\ \A e : Key(m, e)' = Key(m, e)
        /\ InTable(t, m)' <=> InTable(t, m)
        /\ RoomOf(m)' = RoomOf(m)
    BY <1>3 DEF Key, Cap, InTable, RoomOf, Half
  <2>5. Hash[t] <= x + 1
    BY <1>2, <2>2
  <2> QED
    BY <1>3, <1>4, <2>1, <2>3, <2>4, <2>5 DEF Placing
<1>6. HashLocals(t, cnt)'
  BY <1>3, <1>5 DEF HashLocals, Late, Counted
<1>7. Resizer'
  BY <1>2, <1>3, FlagKept
<1> QED
  BY <1>2, <1>3, <1>6, <1>7, HQuiet
-----------------------------------------------------------------------------
(* Counting. *)
LEMMA InCountChange ==
  ASSUME HashAssumption, NEW cnt, HashCounts(cnt), NEW t \in HThreads
  PROVE  /\ t \notin InCount /\ InCount' = InCount \cup {t} =>
              Cardinality(InCount') = hashCount + 1
         /\ t \in InCount /\ InCount' = InCount \ {t} =>
              Cardinality(InCount') = hashCount - 1
<1>1. hashCount \in Nat /\ IsFiniteSet(InCount) /\ hashCount = Cardinality(InCount)
  BY CountKnown DEF HashCounts
<1>2. t \notin InCount => Cardinality(InCount \cup {t}) = hashCount + 1
  BY <1>1, FS_AddElement
<1>3. t \in InCount => Cardinality(InCount \ {t}) = hashCount - 1
  BY <1>1, FS_RemoveElement
<1> QED
  BY <1>2, <1>3

\* What stays when the tables do.
LEMMA TablesStay ==
  ASSUME NEW cnt, PHGood(cnt), NEW t \in HThreads, OthersStay(t),
         UNCHANGED <<tables, values, producers>>,
         hpc[t] # "place"
  PROVE  /\ Tables' /\ HashEntries' /\ Seats' /\ Producers1'
         /\ \A u \in HThreads \ {t} : HashLocals(u, cnt)'
         /\ \A k : RoomOf(k)' = RoomOf(k)
         /\ \A u : Made(u)' <=> Made(u)
<1> USE DEF PHGood
<1>1. /\ \A k : Cap(k)' = Cap(k) /\ RoomOf(k)' = RoomOf(k)
      /\ \A u, k : InTable(u, k)' <=> InTable(u, k)
      /\ \A u : Made(u)' <=> Made(u)
      /\ \A k, e : Key(k, e)' = Key(k, e)
  BY DEF Cap, RoomOf, Half, InTable, Made, Key
<1>2. Tables' /\ HashEntries'
  BY <1>1 DEF Tables, HashEntries
<1>3. Seats'
  BY <1>1 DEF Seats, Seated
<1>4. Producers1'
  BY <1>1 DEF Producers1, OthersStay
<1>5. ASSUME NEW u \in HThreads \ {t} PROVE HashLocals(u, cnt)'
  <2>1. hpc'[u] = hpc[u] /\ hloc'[u] = hloc[u] /\ HashLocals(u, cnt)
    BY DEF OthersStay
  <2>2. Probing(u) => Probing(u)'
    BY <1>1, <2>1 DEF Probing
  <2>3. Placing(u, cnt) => Placing(u, cnt)'
    BY <1>1, <2>1 DEF Placing
  <2> QED
    BY <1>1, <2>1, <2>2, <2>3 DEF HashLocals
<1> QED
  BY <1>1, <1>2, <1>3, <1>4, <1>5

\* t is counted: it has the number of all that are.
LEMMA HCountKeeps ==
  ASSUME HashAssumption, NEW cnt \in [HThreads -> Nat], PHGood(cnt), NEW t \in HThreads,
         CountIn(t)
  PROVE  \E cnt2 \in [HThreads -> Nat] : PHGood(cnt2)'
<1>1. StepFacts(t, cnt)
  BY HStepFacts DEF HStep
<1>2. /\ OthersStay(t) /\ PHTypes' /\ PHTypes /\ HashLocals(t, cnt) /\ Resizer
      /\ HashCounts(cnt) /\ hloc[t] \in HLocals
  BY <1>1 DEF StepFacts, PHGood
<1>3. /\ hpc[t] = "count" /\ hpc'[t] = "insert" /\ hashCount' = hashCount + 1
      /\ hloc'[t].main = hloc[t].main /\ hloc'[t].count = hashCount + 1
      /\ UNCHANGED <<tables, values, resizing, producers>>
  BY <1>2 DEF CountIn, HGo, PHTypes, HNoCall
<1>4. hashCount \in Nat /\ IsFiniteSet(InCount)
  BY <1>2, CountKnown
<1> DEFINE c2 == [cnt EXCEPT ![t] = hashCount + 1]
<1>5. PICK cnt2 \in [HThreads -> Nat] : cnt2[t] = hashCount + 1 /\ \A u \in HThreads \ {t} : cnt2[u] = cnt[u]
  <2>1. c2 \in [HThreads -> Nat] /\ c2[t] = hashCount + 1 /\ \A u \in HThreads \ {t} : c2[u] = cnt[u]
    BY <1>4
  <2> QED
    BY <2>1
<1> HIDE DEF c2
<1>6. /\ Tables' /\ HashEntries' /\ Seats' /\ Producers1'
      /\ \A u \in HThreads \ {t} : HashLocals(u, cnt)'
      /\ \A k : RoomOf(k)' = RoomOf(k)
      /\ \A u : Made(u)' <=> Made(u)
  BY <1>2, <1>3, TablesStay
<1>7. ~Made(t) /\ hloc[t].main \in 1 .. Len(tables)
  BY <1>2, <1>3 DEF HashLocals, Late
<1>8. \A u \in HThreads : HashLocals(u, cnt2)'
  <2>1. ASSUME NEW u \in HThreads \ {t} PROVE HashLocals(u, cnt2)'
    BY <1>5, <1>6 DEF HashLocals, Placing
  <2>2. HashLocals(t, cnt2)'
    BY <1>3, <1>5, <1>6, <1>7 DEF HashLocals, Late, Counted
  <2> QED
    BY <2>1, <2>2
<1>9. Resizer'
  BY <1>2, <1>3, FlagKept DEF Flagged
<1>10. t \notin InCount /\ InCount' = InCount \cup {t}
  BY <1>2, <1>3, <1>6, <1>7 DEF InCount, OthersStay, Counted
<1>11. hashCount' = Cardinality(InCount')
  BY <1>2, <1>3, <1>10, InCountChange
<1>12. ASSUME NEW c \in Nat PROVE Cardinality(UpTo(cnt2, c)') <= c
  <2>1. CASE hashCount + 1 <= c
    <3>1. UpTo(cnt2, c)' \subseteq InCount' /\ IsFiniteSet(InCount')
      BY <1>4, <1>10, FS_AddElement DEF UpTo
    <3>2. Cardinality(UpTo(cnt2, c)') <= Cardinality(InCount')
      BY <3>1, FS_Subset
    <3>3. Cardinality(UpTo(cnt2, c)') \in Nat
      BY <3>1, FS_Subset, FS_CardinalityType
    <3> QED
      BY <1>3, <1>4, <1>11, <2>1, <3>2, <3>3
  <2>2. CASE ~(hashCount + 1 <= c)
    <3>1. UpTo(cnt2, c)' = UpTo(cnt, c)
      <4>1. InCount \subseteq HThreads
        BY DEF InCount
      <4> QED
        BY <1>5, <1>10, <2>2, <4>1 DEF UpTo
    <3> QED
      BY <1>2, <3>1 DEF HashCounts
  <2> QED
    BY <2>1, <2>2
<1>13. ASSUME NEW k \in 1 .. Len(tables), NEW i \in DOMAIN tables[k], tables[k][i] # Nobody
       PROVE  cnt2[tables[k][i]] < RoomOf(k)
  <2>1. tables[k][i] \in HThreads
    BY <1>2, <1>13, TableKnown DEF TablesFit, TableFacts
  <2>2. InTable(tables[k][i], k)
    BY DEF InTable
  <2>3. tables[k][i] # t
    BY <1>7, <2>1, <2>2, ListedIsMade DEF PHGood
  <2> QED
    BY <1>2, <1>5, <1>13, <2>1, <2>3 DEF HashCounts
<1>14. HashCounts(cnt2)'
  BY <1>3, <1>6, <1>11, <1>12, <1>13 DEF HashCounts
<1> QED
  BY <1>2, <1>6, <1>8, <1>9, <1>14 DEF PHGood
\* A thread that gives up is no longer counted.
LEMMA HGiveUpKeeps ==
  ASSUME HashAssumption, NEW cnt \in [HThreads -> Nat], PHGood(cnt), NEW t \in HThreads,
         ResizeFails(t) \/ ProducerFails(t)
  PROVE  PHGood(cnt)'
<1>1. StepFacts(t, cnt)
  BY HStepFacts DEF HStep
<1>2. /\ OthersStay(t) /\ PHTypes' /\ PHTypes /\ HashLocals(t, cnt) /\ Resizer
      /\ HashCounts(cnt)
  BY <1>1 DEF StepFacts, PHGood
<1>3. /\ \/ hpc[t] = "resize" /\ hpc'[t] = "unlockfail" /\ hloc' = hloc
         \/ hpc[t] = "room" /\ hpc'[t] = "idle"
      /\ hashCount' = hashCount - 1
      /\ UNCHANGED <<tables, values, resizing, producers>>
  BY <1>2 DEF ResizeFails, ProducerFails, HGo, HReturn, PHTypes
<1>4. hashCount \in Nat /\ IsFiniteSet(InCount)
  BY <1>2, CountKnown
<1>5. ~Made(t) /\ hloc[t].main \in 1 .. Len(tables)
  BY <1>2, <1>3 DEF HashLocals, Late
<1>6. /\ Tables' /\ HashEntries' /\ Seats' /\ Producers1'
      /\ \A u \in HThreads \ {t} : HashLocals(u, cnt)'
      /\ \A k : RoomOf(k)' = RoomOf(k)
      /\ \A u : Made(u)' <=> Made(u)
  BY <1>2, <1>3, TablesStay
<1>7. HashLocals(t, cnt)'
  BY <1>3, <1>5, <1>6 DEF HashLocals, Late, Counted
<1>8. Resizer'
  BY <1>2, <1>3, FlagKept DEF Flagged
<1>9. t \in InCount /\ InCount' = InCount \ {t}
  BY <1>2, <1>3, <1>5, <1>6 DEF InCount, OthersStay, Counted
<1>10. hashCount' = Cardinality(InCount')
  BY <1>2, <1>3, <1>9, InCountChange
<1>11. ASSUME NEW c \in Nat PROVE Cardinality(UpTo(cnt, c)') <= c
  <2>1. UpTo(cnt, c)' \subseteq UpTo(cnt, c)
    BY <1>9 DEF UpTo
  <2>2. IsFiniteSet(UpTo(cnt, c))
    <3>1. UpTo(cnt, c) \subseteq InCount
      BY DEF UpTo
    <3> QED
      BY <1>4, <3>1, FS_Subset
  <2>3. /\ Cardinality(UpTo(cnt, c)') <= Cardinality(UpTo(cnt, c))
        /\ IsFiniteSet(UpTo(cnt, c)')
    BY <2>1, <2>2, FS_Subset
  <2>4. Cardinality(UpTo(cnt, c)') \in Nat /\ Cardinality(UpTo(cnt, c)) \in Nat
    BY <2>2, <2>3, FS_CardinalityType
  <2>5. Cardinality(UpTo(cnt, c)) <= c
    BY <1>2 DEF HashCounts
  <2> QED
    BY <2>3, <2>4, <2>5
<1>12. HashCounts(cnt)'
  BY <1>2, <1>3, <1>6, <1>10, <1>11 DEF HashCounts
<1> QED
  BY <1>2, <1>6, <1>7, <1>8, <1>12 DEF PHGood
-----------------------------------------------------------------------------
\* A producer is made.
LEMMA HNewProducerKeeps ==
  ASSUME HashAssumption, NEW cnt \in [HThreads -> Nat], PHGood(cnt), NEW t \in HThreads,
         NewProducer(t)
  PROVE  PHGood(cnt)'
<1>1. StepFacts(t, cnt)
  BY HStepFacts DEF HStep
<1>2. /\ OthersStay(t) /\ PHTypes' /\ PHTypes /\ HashLocals(t, cnt) /\ Resizer
      /\ HashCounts(cnt) /\ Hash[t] \in Nat /\ hloc[t] \in HLocals
  BY <1>1 DEF StepFacts, PHGood
<1>3. PICK p \in Seq(HThreads), n \in Nat : p = producers /\ n = Len(producers)
  BY <1>2 DEF PHTypes
<1>4. /\ hpc[t] = "room" /\ hpc'[t] = "place" /\ HasRoom(t)
      /\ producers' = Append(p, t)
      /\ hloc'[t] = [hloc[t] EXCEPT !.value = n + 1, !.index = Hash[t]]
      /\ UNCHANGED <<tables, values, hashCount, resizing>>
  BY <1>2, <1>3 DEF NewProducer, HGo, PHTypes
<1>5. hloc'[t].main = hloc[t].main /\ hloc'[t].value = n + 1 /\ hloc'[t].index = Hash[t]
  BY <1>2, <1>4 DEF HLocals
<1>6. /\ Len(producers') = n + 1 /\ producers'[n + 1] = t
      /\ \A i \in 1 .. n : producers'[i] = producers[i]
  BY <1>3, <1>4
<1>7. ~Made(t) /\ hloc[t].main \in 1 .. Len(tables) /\ cnt[t] = hloc[t].count
  BY <1>2, <1>4 DEF HashLocals, Late, Counted
<1>8. \A i \in 1 .. n : producers[i] # t
  BY <1>3, <1>7 DEF Made
<1>9. Made(t)' /\ \A u \in HThreads \ {t} : Made(u)' <=> Made(u)
  <2>1. Made(t)'
    BY <1>3, <1>6 DEF Made
  <2>2. ASSUME NEW u \in HThreads \ {t} PROVE Made(u)' <=> Made(u)
    BY <1>3, <1>6 DEF Made
  <2> QED
    BY <2>1, <2>2
<1>10. /\ \A k : Cap(k)' = Cap(k) /\ RoomOf(k)' = RoomOf(k)
       /\ \A u, k : InTable(u, k)' <=> InTable(u, k)
       /\ \A k, e : Key(k, e)' = Key(k, e)
  BY <1>4 DEF Cap, RoomOf, Half, InTable, Key
<1>11. Tables' /\ Seats'
  BY <1>4, <1>10 DEF PHGood, Tables, Seats, Seated
<1>12. HashEntries'
  BY <1>3, <1>4, <1>6 DEF PHGood, HashEntries
<1>13. Producers1'
  <2>1. \A i, j \in 1 .. (n + 1) : producers'[i] = producers'[j] => i = j
    BY <1>3, <1>6, <1>8 DEF PHGood, Producers1
  <2>2. ASSUME NEW u \in HThreads, Made(u)'
        PROVE  hpc'[u] = "place" \/ \E k \in 1 .. Len(tables) : InTable(u, k)
    BY <1>2, <1>4, <1>9, <2>2 DEF PHGood, Producers1, OthersStay
  <2> QED
    BY <1>4, <1>6, <1>10, <2>1, <2>2 DEF Producers1
<1>14. ASSUME NEW u \in HThreads \ {t} PROVE HashLocals(u, cnt)'
  <2>1. hpc'[u] = hpc[u] /\ hloc'[u] = hloc[u] /\ HashLocals(u, cnt)
    BY <1>2 DEF OthersStay, PHGood
  <2>2. Probing(u) => Probing(u)'
    BY <1>4, <1>10, <2>1 DEF Probing
  <2>3. Placing(u, cnt) => Placing(u, cnt)'
    BY <1>3, <1>4, <1>6, <1>10, <2>1 DEF Placing
  <2> QED
    BY <1>4, <1>9, <1>10, <2>1, <2>2, <2>3 DEF HashLocals
<1>15. HashLocals(t, cnt)'
  <2>1. \A k \in 1 .. Len(tables) : ~InTable(t, k)
    BY <1>7, ListedIsMade DEF PHGood
  <2>2. cnt[t] < RoomOf(hloc[t].main)
    BY <1>4, <1>7 DEF HasRoom, RoomOf
  <2>3. Placing(t, cnt)'
    <3>1. Hash[t] .. (Hash[t] - 1) = {}
      BY <1>2
    <3> QED
      BY <1>2, <1>3, <1>4, <1>5, <1>6, <1>7, <1>10, <2>1, <2>2, <3>1 DEF Placing
  <2> QED
    BY <1>4, <2>3 DEF HashLocals, Late, Counted
<1>16. Resizer'
  BY <1>2, <1>4, FlagKept DEF Flagged
<1>17. InCount' = InCount
  BY <1>2, <1>4, <1>9 DEF InCount, OthersStay, Counted
<1>18. HashCounts(cnt)'
  BY <1>4, <1>10, <1>17 DEF HashCounts, UpTo, PHGood
<1> QED
  BY <1>2, <1>11, <1>12, <1>13, <1>14, <1>15, <1>16, <1>18 DEF PHGood
-----------------------------------------------------------------------------
LEMMA AppendAt ==
  ASSUME NEW S, NEW q \in Seq(S), NEW e
  PROVE  /\ Len(Append(q, e)) = Len(q) + 1 /\ Append(q, e)[Len(q) + 1] = e
         /\ \A k \in 1 .. Len(q) : Append(q, e)[k] = q[k]
<1>1. q \in Seq(S \cup {e})
  OBVIOUS
<1> QED
  BY <1>1, AppendProperties

\* A larger table, with nobody in it.
LEMMA HResizeKeeps ==
  ASSUME HashAssumption, NEW cnt \in [HThreads -> Nat], PHGood(cnt), NEW t \in HThreads,
         Resize(t)
  PROVE  PHGood(cnt)'
<1>1. StepFacts(t, cnt)
  BY HStepFacts DEF HStep
<1>2. /\ OthersStay(t) /\ PHTypes' /\ PHTypes /\ HashLocals(t, cnt) /\ Resizer
      /\ HashCounts(cnt) /\ hloc[t] \in HLocals /\ Tables
  BY <1>1 DEF StepFacts, PHGood
<1>3. PICK tb \in Seq(Table), vs \in Seq(Beside), n \in Nat \ {0}, sz \in Nat :
        /\ tb = tables /\ vs = values /\ n = Len(tables) /\ n = Len(values) /\ sz = hloc[t].size
  <2>1. tables \in Seq(Table) /\ values \in Seq(Beside) /\ Len(tables) \in Nat \ {0}
        /\ Len(tables) = Len(values)
    BY <1>2 DEF PHTypes
  <2>2. hloc[t].size \in Nat
    BY <1>2 DEF HLocals
  <2> QED
    BY ONLY <2>1, <2>2
<1>4. /\ hpc[t] = "resize" /\ hpc'[t] = "unlock"
      /\ tables' = Append(tb, [i \in 0 .. (sz - 1) |-> Nobody])
      /\ values' = Append(vs, [i \in 0 .. (sz - 1) |-> 0])
      /\ hloc'[t] = [hloc[t] EXCEPT !.main = n + 1, !.size = 0]
      /\ UNCHANGED <<hashCount, resizing, producers>>
  BY <1>2, <1>3 DEF Resize, HGo, PHTypes
<1>5. hloc'[t].main = n + 1 /\ hloc'[t].count = hloc[t].count
  BY <1>2, <1>4 DEF HLocals
<1>6. /\ Len(tables') = n + 1
      /\ \A k \in 1 .. n : tables'[k] = tables[k] /\ values'[k] = values[k]
      /\ tables'[n + 1] = [i \in 0 .. (sz - 1) |-> Nobody]
      /\ values'[n + 1] = [i \in 0 .. (sz - 1) |-> 0]
  <2>1. PICK nt, nv : /\ nt = [i \in 0 .. (sz - 1) |-> Nobody]
                      /\ nv = [i \in 0 .. (sz - 1) |-> 0]
    OBVIOUS
  <2>2. tables' = Append(tb, nt) /\ values' = Append(vs, nv)
    BY <1>4, <2>1
  <2>3. /\ Len(tables') = n + 1 /\ tables'[n + 1] = nt /\ values'[n + 1] = nv
        /\ \A k \in 1 .. n : tables'[k] = tables[k] /\ values'[k] = values[k]
    <3>1. Len(tb) = n /\ Len(vs) = n /\ tb = tables /\ vs = values
      BY <1>3
    <3>2. /\ Len(Append(tb, nt)) = n + 1 /\ Append(tb, nt)[n + 1] = nt
          /\ \A k \in 1 .. n : Append(tb, nt)[k] = tb[k]
      BY <3>1, AppendAt
    <3>3. /\ Append(vs, nv)[n + 1] = nv
          /\ \A k \in 1 .. n : Append(vs, nv)[k] = vs[k]
      BY <3>1, AppendAt
    <3> QED
      BY <2>2, <3>1, <3>2, <3>3, Zenon
  <2> QED
    BY <2>1, <2>3
<1>7. /\ \A k \in 1 .. n : Cap(k)' = Cap(k) /\ RoomOf(k)' = RoomOf(k)
      /\ \A u, k : k \in 1 .. n => (InTable(u, k)' <=> InTable(u, k))
      /\ \A k \in 1 .. n : \A e : Key(k, e)' = Key(k, e)
      /\ \A u : Made(u)' <=> Made(u)
  <2>1. \A k \in 1 .. n : Cap(k)' = Cap(k)
    BY <1>6 DEF Cap
  <2>2. \A k \in 1 .. n : RoomOf(k)' = RoomOf(k)
    BY <2>1 DEF RoomOf, Half
  <2>3. \A u, k : k \in 1 .. n => (InTable(u, k)' <=> InTable(u, k))
    BY <1>6 DEF InTable
  <2>4. \A k \in 1 .. n : \A e : Key(k, e)' = Key(k, e)
    BY <1>6, <2>1 DEF Key
  <2>5. \A u : Made(u)' <=> Made(u)
    BY <1>4 DEF Made
  <2> QED
    BY <2>1, <2>2, <2>3, <2>4, <2>5
<1>8. /\ \A i \in DOMAIN tables'[n + 1] : tables'[n + 1][i] = Nobody
      /\ \A u \in HThreads : ~InTable(u, n + 1)'
  <2>1. \A i \in DOMAIN tables'[n + 1] : tables'[n + 1][i] = Nobody
    BY <1>6
  <2> QED
    BY <2>1 DEF InTable, HashAssumption
<1>9. Cap(n) <= sz /\ Cap(n) \in Nat \ {0} /\ hloc[t].main = n
  <2>1. hloc[t].main = Len(tables) /\ Cap(Len(tables)) <= hloc[t].size
    BY <1>2, <1>4 DEF HashLocals
  <2>2. TableFacts(n)
    <3>1. n \in 1 .. Len(tables)
      BY <1>3
    <3> QED
      BY <1>2, <3>1, TableKnown DEF TablesFit
  <2>3. Cap(n) \in Nat \ {0}
    BY <2>2 DEF TableFacts
  <2> QED
    BY <1>3, <2>1, <2>3
<1>10. Cap(n + 1)' = sz
  <2>1. 0 .. (sz - 1) = DOMAIN tables'[n + 1]
    BY <1>6
  <2>2. Cardinality(0 .. (sz - 1)) = sz
    <3>1. sz \in Nat \ {0}
      BY <1>3, <1>9
    <3>2. Cardinality(0 .. (sz - 1)) = (sz - 1) - 0 + 1
      BY <3>1, FS_Interval
    <3> QED
      BY <3>1, <3>2
  <2> QED
    BY <2>1, <2>2 DEF Cap
<1>11. \A k \in 1 .. (n + 1) : k \in 1 .. n \/ k = n + 1
  BY <1>3
<1>12. Tables'
  <2>1. ASSUME NEW k \in 1 .. (n + 1) PROVE DOMAIN values'[k] = DOMAIN tables'[k]
    BY <1>2, <1>3, <1>6, <1>11 DEF Tables
  <2>2. ASSUME NEW k \in 1 .. (n + 1), NEW o \in 1 .. (n + 1), k <= o PROVE Cap(k)' <= Cap(o)'
    <3>1. CASE o \in 1 .. n
      BY <1>2, <1>3, <1>7, <2>2, <3>1 DEF Tables
    <3>2. CASE o = n + 1 /\ k \in 1 .. n
      <4>1. Cap(k) <= Cap(n) /\ Cap(k) \in Nat
        BY <1>2, <1>3, <3>2, TableKnown DEF Tables, TablesFit, TableFacts
      <4> QED
        BY <1>3, <1>7, <1>9, <1>10, <3>2, <4>1
    <3>3. CASE o = n + 1 /\ k = n + 1
      BY <1>3, <1>10, <3>3
    <3> QED
      BY <1>11, <3>1, <3>2, <3>3
  <2> QED
    BY <1>6, <2>1, <2>2 DEF Tables
<1>13. Seats'
  <2>1. ASSUME NEW k \in 1 .. n, NEW i \in DOMAIN tables[k], tables[k][i] # Nobody
        PROVE  Seated(k, i)' /\ \A j \in DOMAIN tables[k] : tables[k][j] = tables[k][i] => i = j
    <3>1. Seated(k, i) /\ \A j \in DOMAIN tables[k] : tables[k][j] = tables[k][i] => i = j
      BY <1>3, <2>1 DEF PHGood, Seats
    <3>2. Seated(k, i)'
      BY <1>6, <1>7, <3>1 DEF Seated
    <3> QED
      BY <3>1, <3>2
  <2> QED
    BY <1>6, <1>8, <1>11, <2>1 DEF Seats
<1>14. HashEntries'
  BY <1>3, <1>4, <1>6, <1>8, <1>11 DEF PHGood, HashEntries
<1>15. Producers1'
  <2>1. ASSUME NEW u \in HThreads, Made(u)', hpc'[u] # "place"
        PROVE  \E k \in 1 .. (n + 1) : InTable(u, k)'
    <3>1. Made(u) /\ hpc[u] # "place"
      BY <1>2, <1>4, <1>7, <2>1 DEF OthersStay
    <3>2. PICK k \in 1 .. n : InTable(u, k)
      BY <1>3, <3>1 DEF PHGood, Producers1
    <3> QED
      BY <1>3, <1>7, <3>2
  <2> QED
    BY <1>4, <1>6, <2>1 DEF PHGood, Producers1
<1>16. ASSUME NEW u \in HThreads \ {t} PROVE HashLocals(u, cnt)'
  <2>1. hpc'[u] = hpc[u] /\ hloc'[u] = hloc[u] /\ HashLocals(u, cnt)
    BY <1>2 DEF OthersStay, PHGood
  <2>2. hpc[u] # "resize"
    BY <1>2, <1>4 DEF Resizer, Flagged
  <2>3. Probing(u) => Probing(u)'
    <3>1. SUFFICES ASSUME Probing(u) PROVE Probing(u)'
      OBVIOUS
    <3>2. PICK h \in 1 .. n : h = hloc[u].hash
      BY <1>3, <3>1 DEF Probing
    <3>3. \A k \in (h + 1) .. (n + 1) : ~InTable(u, k)'
      <4>1. ASSUME NEW k \in (h + 1) .. (n + 1) PROVE ~InTable(u, k)'
        <5>1. CASE k = n + 1
          BY <1>8, <5>1
        <5>2. CASE k # n + 1
          <6>1. k \in 1 .. n /\ k \in (h + 1) .. n
            BY <1>3, <5>2
          <6>2. ~InTable(u, k)
            BY <1>3, <3>1, <3>2, <6>1 DEF Probing
          <6> QED
            BY <1>7, <6>1, <6>2
        <5> QED
          BY <5>1, <5>2
      <4> QED
        BY <4>1
    <3> QED
      BY <1>3, <1>6, <1>7, <2>1, <3>1, <3>2, <3>3 DEF Probing
  <2>4. Placing(u, cnt) => Placing(u, cnt)'
    BY <1>3, <1>4, <1>6, <1>7, <2>1 DEF Placing
  <2> QED
    BY <1>3, <1>6, <1>7, <2>1, <2>2, <2>3, <2>4 DEF HashLocals
<1>17. HashLocals(t, cnt)'
  <2>1. ~Made(t) /\ cnt[t] = hloc[t].count
    BY <1>2, <1>4 DEF HashLocals, Late, Counted
  <2> QED
    BY <1>3, <1>4, <1>5, <1>6, <1>7, <2>1 DEF HashLocals, Late, Counted
<1>18. Resizer'
  BY <1>2, <1>4, FlagKept DEF Flagged
<1>19. InCount' = InCount
  BY <1>2, <1>4, <1>7 DEF InCount, OthersStay, Counted
<1>20. HashCounts(cnt)'
  <2>1. ASSUME NEW k \in 1 .. (n + 1), NEW i \in DOMAIN tables'[k], tables'[k][i] # Nobody
        PROVE  cnt[tables'[k][i]] < RoomOf(k)'
    <3>1. k # n + 1
      BY <1>8, <2>1
    <3>1a. k \in 1 .. n
      BY <1>11, <3>1
    <3>2. tables'[k] = tables[k] /\ RoomOf(k)' = RoomOf(k)
      BY <1>6, <1>7, <3>1a
    <3>3. cnt[tables[k][i]] < RoomOf(k)
      BY <1>2, <1>3, <2>1, <3>1a, <3>2 DEF HashCounts
    <3> QED
      BY <3>2, <3>3
  <2>2. \A c : UpTo(cnt, c)' = UpTo(cnt, c)
    BY <1>19 DEF UpTo
  <2> QED
    BY <1>2, <1>4, <1>6, <1>19, <2>1, <2>2 DEF HashCounts
<1> QED
  BY <1>2, <1>12, <1>13, <1>14, <1>15, <1>16, <1>17, <1>18, <1>20 DEF PHGood
-----------------------------------------------------------------------------
\* A free slot is taken: what the tables are then.
Placed(t, m, i, v) ==
  /\ \A k \in 1 .. Len(tables) :
       DOMAIN tables'[k] = DOMAIN tables[k] /\ DOMAIN values'[k] = DOMAIN values[k]
  /\ Len(tables') = Len(tables)
  /\ tables'[m][i] = t /\ values'[m][i] = v
  /\ \A k \in 1 .. Len(tables) : \A j \in DOMAIN tables[k] : k # m \/ j # i =>
       tables'[k][j] = tables[k][j] /\ values'[k][j] = values[k][j]

LEMMA PlacedTables ==
  ASSUME PHTypes, Tables, NEW t \in HThreads, NEW m \in 1 .. Len(tables),
         NEW i \in DOMAIN tables[m], NEW v,
         tables' = [tables EXCEPT ![m][i] = t], values' = [values EXCEPT ![m][i] = v]
  PROVE  Placed(t, m, i, v)
<1>1. m \in DOMAIN tables /\ m \in DOMAIN values /\ i \in DOMAIN values[m]
  BY DEF PHTypes, Tables
<1>1a. DOMAIN values[m] = DOMAIN tables[m]
  BY DEF Tables
<1>2. PICK f, g : f = [tables[m] EXCEPT ![i] = t] /\ g = [values[m] EXCEPT ![i] = v]
  OBVIOUS
<1>3. tables' = [tables EXCEPT ![m] = f] /\ values' = [values EXCEPT ![m] = g]
  BY <1>2
<1>4. /\ DOMAIN tables' = DOMAIN tables /\ tables'[m] = f /\ values'[m] = g
      /\ \A k \in 1 .. Len(tables) : k # m => tables'[k] = tables[k] /\ values'[k] = values[k]
  BY <1>1, <1>3 DEF PHTypes
<1>5. /\ DOMAIN f = DOMAIN tables[m] /\ f[i] = t /\ DOMAIN g = DOMAIN values[m] /\ g[i] = v
      /\ \A j \in DOMAIN tables[m] : j # i => f[j] = tables[m][j] /\ g[j] = values[m][j]
  BY <1>1, <1>1a, <1>2
<1>6. Len(tables') = Len(tables)
  BY <1>3, ExceptSeq DEF PHTypes
<1> QED
  BY <1>4, <1>5, <1>6 DEF Placed

LEMMA HPlaceKeeps ==
  ASSUME HashAssumption, NEW cnt \in [HThreads -> Nat], PHGood(cnt), NEW t \in HThreads,
         Place(t), tables[hloc[t].main][Slot(t, hloc[t].main)] = Nobody
  PROVE  PHGood(cnt)'
<1>1. StepFacts(t, cnt)
  BY HStepFacts DEF HStep
<1>2. /\ OthersStay(t) /\ PHTypes' /\ PHTypes /\ HashLocals(t, cnt) /\ Resizer
      /\ HashCounts(cnt) /\ Hash[t] \in Nat /\ hloc[t] \in HLocals /\ Tables /\ TablesFit
  BY <1>1, TableKnown DEF StepFacts, PHGood
<1>3. hpc[t] = "place" /\ Placing(t, cnt)
  <2>1. hpc[t] = "place"
    BY DEF Place
  <2> QED
    BY <1>2, <2>1 DEF HashLocals
<1>4. PICK m \in 1 .. Len(tables), x \in Nat, v \in 1 .. Len(producers), n \in Nat :
        m = hloc[t].main /\ x = hloc[t].index /\ v = hloc[t].value /\ n = Len(tables)
  <2>1. hloc[t].main \in 1 .. Len(tables) /\ hloc[t].value \in 1 .. Len(producers)
    BY <1>3 DEF Placing
  <2>2. hloc[t].index \in Nat
    BY <1>2 DEF HLocals
  <2>3. Len(tables) \in Nat
    BY <1>2 DEF PHTypes
  <2> QED
    BY ONLY <2>1, <2>2, <2>3
<1>5. PICK i \in DOMAIN tables[m] : i = x % Cap(m)
  BY <1>2, <1>4 DEF TablesFit, TableFacts
<1>6. /\ tables[m][i] = Nobody /\ tables' = [tables EXCEPT ![m][i] = t]
      /\ values' = [values EXCEPT ![m][i] = v] /\ hpc'[t] = "idle"
      /\ UNCHANGED <<hashCount, resizing, producers>>
  <2>1. Slot(t, m) = i
    BY <1>4, <1>5 DEF Slot
  <2> QED
    BY <1>2, <1>4, <2>1 DEF Place, HReturn, HGo, PHTypes
<1>7. Placed(t, m, i, v)
  BY <1>2, <1>6, PlacedTables
<1>8. /\ ~InTable(t, m) /\ cnt[t] < RoomOf(m) /\ producers[v] = t /\ Hash[t] <= x
      /\ \A d \in Hash[t] .. (x - 1) : Key(m, d) # Nobody
  BY <1>3, <1>4 DEF Placing
<1>9. t # Nobody /\ Nobody \notin HThreads
  BY DEF HashAssumption
<1>10. /\ \A k \in 1 .. n : Cap(k)' = Cap(k) /\ RoomOf(k)' = RoomOf(k)
       /\ \A u : Made(u)' <=> Made(u)
       /\ Len(tables') = n
  <2>1. \A k \in 1 .. n : Cap(k)' = Cap(k)
    BY <1>4, <1>7 DEF Placed, Cap
  <2> QED
    BY <1>4, <1>6, <1>7, <2>1 DEF Placed, RoomOf, Half, Made
<1>11. /\ \A u \in HThreads \ {t} : \A k \in 1 .. n : InTable(u, k)' <=> InTable(u, k)
       /\ \A k \in 1 .. n : InTable(t, k) => InTable(t, k)'
       /\ InTable(t, m)'
  <2>1. ASSUME NEW u \in HThreads \ {t}, NEW k \in 1 .. n PROVE InTable(u, k)' <=> InTable(u, k)
    BY <1>4, <1>6, <1>7, <1>9 DEF Placed, InTable
  <2>2. ASSUME NEW k \in 1 .. n, InTable(t, k) PROVE InTable(t, k)'
    BY <1>4, <1>6, <1>7, <1>9, <2>2 DEF Placed, InTable
  <2>3. InTable(t, m)'
    BY <1>4, <1>7 DEF Placed, InTable
  <2> QED
    BY <2>1, <2>2, <2>3
<1>12. ASSUME NEW k \in 1 .. n, NEW e \in Nat
       PROVE  Key(k, e)' = Key(k, e) \/ (Key(k, e) = Nobody /\ Key(k, e)' = t)
  <2>1. e % Cap(k) \in DOMAIN tables[k] /\ Cap(k)' = Cap(k)
    BY <1>2, <1>4, <1>10 DEF TablesFit, TableFacts
  <2>2. CASE k = m /\ e % Cap(k) = i
    BY <1>6, <1>7, <2>1, <2>2 DEF Key, Placed
  <2>3. CASE ~(k = m /\ e % Cap(k) = i)
    <3>1. PICK r \in DOMAIN tables[k] : r = e % Cap(k)
      BY <2>1
    <3>2. tables'[k][r] = tables[k][r]
      BY <1>4, <1>7, <2>3, <3>1 DEF Placed
    <3>3. Key(k, e) = tables[k][r]
      BY <3>1 DEF Key
    <3>4. e % Cap(k)' = r
      BY <2>1, <3>1
    <3>5. Key(k, e)' = tables'[k][r]
      BY <3>4 DEF Key
    <3> QED
      BY <3>2, <3>3, <3>5
  <2> QED
    BY <2>2, <2>3
<1>13. Tables'
  BY <1>2, <1>4, <1>7, <1>10 DEF Tables, Placed
<1>14. Seats'
  <2>1. ASSUME NEW k \in 1 .. n, NEW j \in DOMAIN tables[k], tables'[k][j] # Nobody
        PROVE  /\ Seated(k, j)'
               /\ \A o \in DOMAIN tables[k] : tables'[k][o] = tables'[k][j] => j = o
    <3>1. CASE k = m /\ j = i
      <4>1. tables'[k][j] = t /\ Cap(k)' = Cap(k)
        BY <1>7, <1>10, <3>1 DEF Placed
      <4>2. \A d \in Hash[t] .. (x - 1) : Key(k, d)' # Nobody
        <5>1. \A d \in Hash[t] .. (x - 1) : d \in Nat
          BY <1>2, <1>4
        <5> QED
          BY <1>4, <1>8, <1>9, <1>12, <3>1, <5>1
      <4>3. Seated(k, j)'
        BY <1>4, <1>5, <1>8, <3>1, <4>1, <4>2 DEF Seated
      <4>4. ASSUME NEW o \in DOMAIN tables[k], tables'[k][o] = t, o # j PROVE FALSE
        <5>1. tables[m][o] = t
          BY <1>4, <1>7, <3>1, <4>4 DEF Placed
        <5> QED
          BY <1>8, <3>1, <5>1 DEF InTable
      <4> QED
        BY <4>1, <4>3, <4>4
    <3>2. CASE ~(k = m /\ j = i)
      <4>1. tables'[k][j] = tables[k][j] /\ Cap(k)' = Cap(k)
        BY <1>4, <1>7, <1>10, <3>2 DEF Placed
      <4>2. Seated(k, j) /\ \A o \in DOMAIN tables[k] : tables[k][o] = tables[k][j] => j = o
        BY <1>4, <2>1, <4>1 DEF PHGood, Seats
      <4>3. Seated(k, j)'
        <5>1. PICK e \in Nat : /\ Hash[tables[k][j]] <= e /\ e % Cap(k) = j
                               /\ \A d \in Hash[tables[k][j]] .. (e - 1) : Key(k, d) # Nobody
          BY <4>2 DEF Seated
        <5>2. Hash[tables[k][j]] \in Nat
          <6>1. tables[k][j] \in HThreads
            BY <1>2, <1>4, <2>1, <4>1 DEF TablesFit, TableFacts
          <6> QED
            BY <6>1 DEF HashAssumption
        <5>3. \A d \in Hash[tables[k][j]] .. (e - 1) : d \in Nat
          BY <5>2
        <5>4. \A d \in Hash[tables[k][j]] .. (e - 1) : Key(k, d)' # Nobody
          BY <1>9, <1>12, <5>1, <5>3
        <5> QED
          BY <4>1, <5>1, <5>4 DEF Seated
      <4>4. ASSUME NEW o \in DOMAIN tables[k], tables'[k][o] = tables'[k][j] PROVE j = o
        <5>1. CASE k = m /\ o = i
          <6>1. tables[m][j] = t
            BY <1>7, <3>2, <4>1, <4>4, <5>1 DEF Placed
          <6> QED
            BY <1>8, <5>1, <6>1 DEF InTable
        <5>2. CASE ~(k = m /\ o = i)
          BY <1>4, <1>7, <4>1, <4>2, <4>4, <5>2 DEF Placed
        <5> QED
          BY <5>1, <5>2
      <4> QED
        BY <4>3, <4>4
    <3> QED
      BY <3>1, <3>2
  <2> QED
    BY <1>4, <1>7, <2>1 DEF Seats, Placed
<1>15. HashEntries'
  <2>1. ASSUME NEW k \in 1 .. n, NEW j \in DOMAIN tables[k], tables'[k][j] # Nobody
        PROVE  values'[k][j] \in 1 .. Len(producers) /\ producers[values'[k][j]] = tables'[k][j]
    <3>1. CASE k = m /\ j = i
      BY <1>4, <1>7, <1>8, <3>1 DEF Placed
    <3>2. CASE ~(k = m /\ j = i)
      BY <1>4, <1>7, <2>1, <3>2 DEF Placed, PHGood, HashEntries
    <3> QED
      BY <3>1, <3>2
  <2> QED
    BY <1>4, <1>6, <1>7, <2>1 DEF HashEntries, Placed
<1>16. Producers1'
  <2>1. ASSUME NEW u \in HThreads, Made(u)', hpc'[u] # "place"
        PROVE  \E k \in 1 .. n : InTable(u, k)'
    <3>1. CASE u = t
      BY <1>4, <1>11, <3>1
    <3>2. CASE u # t
      <4>1. Made(u) /\ hpc[u] # "place"
        BY <1>2, <1>10, <2>1, <3>2 DEF OthersStay
      <4> QED
        BY <1>4, <1>11, <3>2, <4>1 DEF PHGood, Producers1
    <3> QED
      BY <3>1, <3>2
  <2> QED
    BY <1>6, <1>10, <2>1 DEF PHGood, Producers1
<1>17. ASSUME NEW u \in HThreads \ {t} PROVE HashLocals(u, cnt)'
  <2>1. hpc'[u] = hpc[u] /\ hloc'[u] = hloc[u] /\ HashLocals(u, cnt) /\ Hash[u] \in Nat
        /\ u # Nobody
    BY <1>2, <1>9 DEF OthersStay, PHGood, HashAssumption
  <2>2. Probing(u) => Probing(u)'
    <3>1. SUFFICES ASSUME Probing(u) PROVE Probing(u)'
      OBVIOUS
    <3>1a. PICK w \in 1 .. n : w = hloc[u].main
      BY <1>4, <3>1 DEF Probing
    <3>1b. PICK h \in 1 .. w : h = hloc[u].hash
      BY <3>1, <3>1a DEF Probing
    <3>2. h \in 1 .. n /\ w \in 1 .. n /\ h = hloc[u].hash /\ w = hloc[u].main /\ h \in 1 .. w
      BY <1>4, <3>1a, <3>1b
    <3>3. \A e \in Hash[u] .. (hloc[u].index - 1) : Key(h, e)' \notin {u, Nobody}
      <4>1. \A e \in Hash[u] .. (hloc[u].index - 1) : e \in Nat
        BY <2>1
      <4> QED
        BY <1>9, <1>12, <3>1, <3>2, <4>1 DEF Probing
    <3>4. \A k \in (h + 1) .. n : ~InTable(u, k)'
      <4>1. \A k \in (h + 1) .. n : k \in 1 .. n
        BY <3>2
      <4> QED
        BY <1>4, <1>11, <3>1, <3>2, <4>1 DEF Probing
    <3> QED
      BY <1>10, <2>1, <3>1, <3>2, <3>3, <3>4 DEF Probing
  <2>3. Placing(u, cnt) => Placing(u, cnt)'
    <3>1. SUFFICES ASSUME Placing(u, cnt) PROVE Placing(u, cnt)'
      OBVIOUS
    <3>2. PICK w \in 1 .. n : w = hloc[u].main
      BY <1>4, <3>1 DEF Placing
    <3>3. \A e \in Hash[u] .. (hloc[u].index - 1) : Key(w, e)' # Nobody
      <4>1. \A e \in Hash[u] .. (hloc[u].index - 1) : e \in Nat
        BY <2>1
      <4> QED
        BY <1>9, <1>12, <3>1, <3>2, <4>1 DEF Placing
    <3> QED
      BY <1>6, <1>10, <1>11, <2>1, <3>1, <3>2, <3>3 DEF Placing
  <2>4. Len(tables') = Len(tables) /\ (Cap(Len(tables)) = Cap(Len(tables))')
    <3>1. n \in 1 .. n
      BY <1>4
    <3> QED
      BY <1>4, <1>10, <3>1
  <2> QED
    BY <1>10, <2>1, <2>2, <2>3, <2>4 DEF HashLocals
<1>18. HashLocals(t, cnt)'
  BY <1>6 DEF HashLocals, Late, Counted
<1>19. Resizer'
  BY <1>2, <1>6, FlagKept DEF Flagged
<1>20. InCount' = InCount
  BY <1>2, <1>3, <1>6, <1>10 DEF InCount, OthersStay, Counted
<1>21. HashCounts(cnt)'
  <2>1. ASSUME NEW k \in 1 .. n, NEW j \in DOMAIN tables[k], tables'[k][j] # Nobody
        PROVE  cnt[tables'[k][j]] < RoomOf(k)'
    <3>1. CASE k = m /\ j = i
      BY <1>7, <1>8, <1>10, <3>1 DEF Placed
    <3>2. CASE ~(k = m /\ j = i)
      BY <1>2, <1>4, <1>7, <1>10, <2>1, <3>2 DEF Placed, HashCounts
    <3> QED
      BY <3>1, <3>2
  <2>2. \A c : UpTo(cnt, c)' = UpTo(cnt, c)
    BY <1>20 DEF UpTo
  <2> QED
    BY <1>2, <1>4, <1>6, <1>7, <1>20, <2>1, <2>2 DEF HashCounts, Placed
<1> QED
  BY <1>2, <1>13, <1>14, <1>15, <1>16, <1>17, <1>18, <1>19, <1>21 DEF PHGood
-----------------------------------------------------------------------------
LEMMA HStepKeeps ==
  ASSUME HashAssumption, NEW cnt \in [HThreads -> Nat], PHGood(cnt), NEW t \in HThreads,
         HStep(t)
  PROVE  PHInv'
<1>1. PHGood(cnt)' => PHInv'
  BY DEF PHInv
<1>2. CASE GetOrAdd(t) \/ Found(t) \/ Taken(t) \/ NotHere(t)
  BY <1>1, <1>2, HSearchKeeps
<1>3. CASE CountIn(t)
  BY <1>3, HCountKeeps DEF PHInv
<1>4. CASE \/ TakeResize(t) \/ Double(t) \/ ResizeDone(t) \/ Unlock(t) \/ NoResize(t)
           \/ WaitTable(t)
  BY <1>1, <1>4, HInsertKeeps
<1>5. CASE Resize(t)
  BY <1>1, <1>5, HResizeKeeps
<1>6. CASE ResizeFails(t) \/ ProducerFails(t)
  BY <1>1, <1>6, HGiveUpKeeps
<1>7. CASE NewProducer(t)
  BY <1>1, <1>7, HNewProducerKeeps
<1>8. CASE Place(t)
  BY <1>1, <1>8, HPlaceKeeps, HNextSlotKeeps
<1> QED
  BY <1>2, <1>3, <1>4, <1>5, <1>6, <1>7, <1>8 DEF HStep

LEMMA NextPHInv == HashAssumption /\ PHInv /\ [HNext]_hvars => PHInv'
<1> SUFFICES ASSUME HashAssumption, PHInv, [HNext]_hvars PROVE PHInv'
  OBVIOUS
<1>1. PICK cnt \in [HThreads -> Nat] : PHGood(cnt)
  BY DEF PHInv
<1>2. CASE HNext
  <2>1. PICK t \in HThreads : HStep(t)
    BY <1>2 DEF HNext, HStep
  <2> QED
    BY <1>1, <2>1, HStepKeeps
<1>3. CASE UNCHANGED hvars
  <2>1. UNCHANGED <<tables, values, hashCount, resizing, producers, hpc, hloc>>
    BY <1>3 DEF hvars
  <2>2. /\ PHTypes' = PHTypes /\ Tables' = Tables /\ HashEntries' = HashEntries
        /\ Producers1' = Producers1 /\ Resizer' = Resizer
    BY <2>1 DEF PHTypes, Tables, HashEntries, Producers1, Resizer, Cap, Made, InTable
  <2>3. Seats' = Seats
    BY <2>1 DEF Seats, Seated, Key, Cap
  <2>4. \A t : HashLocals(t, cnt)' = HashLocals(t, cnt)
    BY <2>1 DEF HashLocals, Probing, Placing, Key, InTable, RoomOf, Half, Cap, Made
  <2>5. HashCounts(cnt)' = HashCounts(cnt)
    BY <2>1 DEF HashCounts, UpTo, InCount, Made, RoomOf, Half, Cap
  <2> QED
    BY <1>1, <2>2, <2>3, <2>4, <2>5 DEF PHInv, PHGood
<1> QED
  BY <1>2, <1>3

LEMMA InitPHInv == HashAssumption /\ HInit => PHInv
<1> SUFFICES ASSUME HashAssumption, HInit PROVE PHInv
  OBVIOUS
<1>1. PICK cnt \in [HThreads -> Nat] : \A t \in HThreads : cnt[t] = 0
  <2>1. [t \in HThreads |-> 0] \in [HThreads -> Nat]
    OBVIOUS
  <2> QED
    BY <2>1
<1>2. PICK f, g : /\ f = [i \in 0 .. (TableSize - 1) |-> Nobody]
                  /\ g = [i \in 0 .. (TableSize - 1) |-> 0]
  OBVIOUS
<1>3. f \in Table /\ g \in Beside
  <2>1. /\ f \in [0 .. (TableSize - 1) -> HThreads \cup {Nobody}]
        /\ g \in [0 .. (TableSize - 1) -> Nat]
    BY <1>2
  <2> QED
    BY <2>1 DEF HashAssumption, Table, Beside
<1>4. tables = <<f>> /\ values = <<g>> /\ Len(tables) = 1 /\ Len(values) = 1
      /\ producers = <<>> /\ Len(producers) = 0
  BY <1>2 DEF HInit
<1>5. tables[1] = f /\ values[1] = g /\ \A k \in 1 .. Len(tables) : k = 1
  BY <1>4
<1>6. PHTypes
  <2>1. HNoCall \in HLocals
    BY DEF HNoCall, HLocals
  <2>2. tables \in Seq(Table) /\ values \in Seq(Beside) /\ producers \in Seq(HThreads)
    BY <1>3, <1>4
  <2>3. hpc \in [HThreads -> {"idle", "probe", "place"} \cup Late] /\ hloc \in [HThreads -> HLocals]
    BY <2>1 DEF HInit
  <2>4. hashCount \in Int
    BY DEF HInit
  <2>5. resizing \in BOOLEAN
    BY Zenon DEF HInit
  <2> QED
    BY <1>4, <2>2, <2>3, <2>4, <2>5 DEF PHTypes
<1>7. \A k \in 1 .. Len(tables) : \A i \in DOMAIN tables[k] : tables[k][i] = Nobody
  BY <1>2, <1>5
<1>8. \A t \in HThreads : ~Made(t) /\ hpc[t] = "idle"
  BY <1>4 DEF Made, HInit
<1>9. Tables
  <2>1. TableFacts(1)
    BY <1>4, <1>6, TableKnown DEF TablesFit
  <2>2. DOMAIN values[1] = DOMAIN tables[1] /\ Cap(1) \in Nat
    BY <1>2, <1>5, <2>1 DEF TableFacts
  <2> QED
    BY <1>5, <2>2 DEF Tables
<1>10. Seats /\ HashEntries
  BY <1>7 DEF Seats, HashEntries
<1>11. Producers1
  BY <1>4, <1>8 DEF Producers1
<1>12. Resizer /\ \A t \in HThreads : HashLocals(t, cnt)
  BY <1>8 DEF Resizer, Flagged, HashLocals, Late, Counted
<1>13. HashCounts(cnt)
  <2>1. InCount = {} /\ \A c : UpTo(cnt, c) = {}
    BY <1>8 DEF InCount, UpTo, Counted
  <2>2. hashCount = 0
    BY DEF HInit
  <2>3. Cardinality(InCount) = 0 /\ \A c \in Nat : Cardinality(UpTo(cnt, c)) = 0
    BY <2>1, FS_EmptySet
  <2> QED
    BY <1>7, <2>2, <2>3 DEF HashCounts
<1> QED
  BY <1>6, <1>9, <1>10, <1>11, <1>12, <1>13 DEF PHGood, PHInv

LEMMA PHInvariant == HSpec => []PHInv
<1>1. HashAssumption => HashAssumption'
  BY DEF HashAssumption
<1> QED
  BY <1>1, HashAssumption, InitPHInv, NextPHInv, PTL DEF HSpec

LEMMA PHInvSuffices == HashAssumption /\ PHInv => OneProducerEach
<1> SUFFICES ASSUME HashAssumption, PHInv PROVE OneProducerEach
  OBVIOUS
<1>1. PICK cnt \in [HThreads -> Nat] : PHGood(cnt)
  BY DEF PHInv
<1>2. PHTypes /\ HashEntries /\ Seats /\ Producers1 /\ HashCounts(cnt) /\ TablesFit
  BY <1>1, TableKnown DEF PHGood
<1>3. DOMAIN producers = 1 .. Len(producers) /\ DOMAIN tables = 1 .. Len(tables)
  BY <1>2 DEF PHTypes
<1>4. OwnProducer
  BY <1>2, <1>3 DEF OwnProducer, Producers1, HashEntries
<1>5. ASSUME NEW k \in 1 .. Len(tables), \A i \in DOMAIN tables[k] : tables[k][i] # Nobody
      PROVE  FALSE
  <2>1. PICK Room \in Nat, C \in Nat \ {0} :
          /\ Room = RoomOf(k) /\ C = Cap(k) /\ Room <= C /\ DOMAIN tables[k] = 0 .. (C - 1)
    BY <1>2 DEF TablesFit, TableFacts
  <2>2. \A i \in 0 .. (C - 1) : /\ tables[k][i] \in HThreads
                               /\ cnt[tables[k][i]] < Room /\ Made(tables[k][i])
    <3>1. ASSUME NEW i \in 0 .. (C - 1)
          PROVE  /\ tables[k][i] \in HThreads /\ cnt[tables[k][i]] < Room /\ Made(tables[k][i])
      <4>1. tables[k][i] \in HThreads /\ cnt[tables[k][i]] < Room
        BY <1>2, <1>5, <2>1 DEF TablesFit, TableFacts, HashCounts
      <4>2. InTable(tables[k][i], k)
        BY <2>1 DEF InTable
      <4> QED
        BY <1>2, <4>1, <4>2, ListedIsMade
    <3> QED
      BY <3>1
  <2>3. Room - 1 \in Nat
    <3>1. 0 \in 0 .. (C - 1)
      BY <2>1
    <3>2. PICK c \in Nat : c < Room
      BY <2>2, <3>1
    <3> QED
      BY <3>2
  <2>4. PICK U : U = UpTo(cnt, Room - 1)
    OBVIOUS
  <2>5. \A i \in 0 .. (C - 1) : tables[k][i] \in U
    BY <2>2, <2>4 DEF UpTo, InCount
  <2>6. IsFiniteSet(U) /\ Cardinality(U) \in Nat /\ Cardinality(U) <= Room - 1
    <3>1. U \subseteq InCount /\ IsFiniteSet(InCount)
      BY <1>2, <2>4, CountKnown DEF UpTo
    <3> QED
      BY <1>2, <2>3, <2>4, <3>1, FS_Subset, FS_CardinalityType DEF HashCounts
  <2>7. IsFiniteSet(0 .. (C - 1)) /\ Cardinality(0 .. (C - 1)) = C
    <3>1. C - 1 \in Nat
      BY <2>1
    <3>2. /\ IsFiniteSet(0 .. (C - 1)) /\ Cardinality(0 .. (C - 1)) = (C - 1) - 0 + 1
      BY <3>1, FS_Interval
    <3> QED
      BY <2>1, <3>2
  <2>8. PICK f \in [0 .. (C - 1) -> U] : f = tables[k]
    <3>1. tables[k] \in [0 .. (C - 1) -> HThreads \cup {Nobody}]
      <4>1. PICK c \in Nat \ {0} : tables[k] \in [0 .. (c - 1) -> HThreads \cup {Nobody}]
        BY <1>2 DEF PHTypes, Table
      <4> QED
        BY <2>1, <4>1
    <3> QED
      BY <2>5, <3>1
  <2>9. PICK i \in 0 .. (C - 1), j \in 0 .. (C - 1) : i # j /\ f[i] = f[j]
    <3>1. Cardinality(U) < Cardinality(0 .. (C - 1))
      BY <2>1, <2>3, <2>6, <2>7
    <3> QED
      BY <2>6, <2>7, <3>1, FS_PigeonHole
  <2> QED
    BY <1>2, <1>5, <2>1, <2>8, <2>9 DEF Seats
<1>6. EveryTableHasRoom
  BY <1>3, <1>5 DEF EveryTableHasRoom
<1> QED
  BY <1>4, <1>6 DEF OneProducerEach

\* Every thread has one implicit producer and finds that one, whichever table it
\* finds itself in, and no table is ever full: for any threads and any hash,
\* though tables are replaced and entries copied between them while others
\* insert, and whichever allocations fail (queue-bench/moodycamel.h:3280-3428).
THEOREM EachThreadItsProducer == HSpec => []OneProducerEach
<1>1. HashAssumption => HashAssumption'
  BY DEF HashAssumption
<1> QED
  BY <1>1, HashAssumption, PHInvariant, PHInvSuffices, PTL
=============================================================================
