------------------------------ MODULE LRUCache ------------------------------
(***************************************************************************)
(* LRUCache of cache.h: a hash map from keys to a node of a list and a     *)
(* value, and the list, whose nodes hold the keys in the order of their    *)
(* last use.  Nodes are moved and used again, never erased, so that the    *)
(* iterators in the map stay good; they are numbered as they are made.     *)
(***************************************************************************)
EXTENDS Naturals, SequencesExt

CONSTANTS Keys, Values, Capacity,
          Missing   \* what get returns for a key that is not there

(* With no capacity, put evicts from an empty list. *)
ASSUME CapacityAssumption == Capacity \in Nat \ {0} /\ Missing \notin Values

VARIABLES
  cache,     \* from keys to their node and value
  lru_list,  \* the nodes, the one used last first
  elem,      \* the key in each node
  got        \* what the last call of get returned

lruvars == <<cache, lru_list, elem, got>>

LruInit ==
  /\ cache = [k \in {} |-> Missing]
  /\ lru_list = <<>>
  /\ elem = <<>>
  /\ got = Missing

(* splice to the beginning, from where the iterator stands *)
Position(node) == CHOOSE i \in DOMAIN lru_list : lru_list[i] = node
ToFront(node) == <<node>> \o RemoveAt(lru_list, Position(node))

(* The map with an entry for k, less the entry for gone. *)
Keep(gone, k, node, v) ==
  [x \in (DOMAIN cache \ {gone}) \cup {k} |->
     IF x = k THEN [node |-> node, value |-> v] ELSE cache[x]]

\* Fault: the entry is not moved to the front.
PutOldInPlace(k, v) ==
  /\ k \in DOMAIN cache
  /\ cache' = [cache EXCEPT ![k].value = v]
  /\ UNCHANGED <<lru_list, elem>>

(* put: the key is there. *)
PutOld(k, v) ==
  /\ k \in DOMAIN cache
  /\ cache' = [cache EXCEPT ![k].value = v]
  /\ lru_list' = ToFront(cache[k].node)
  /\ UNCHANGED elem

\* Fault: the node keeps the evicted key.
PutEvictingStale(k, v) ==
  /\ k \notin DOMAIN cache /\ Cardinality(DOMAIN cache) = Capacity
  /\ cache' = Keep(elem[Last(lru_list)], k, Last(lru_list), v)
  /\ lru_list' = ToFront(Last(lru_list))
  /\ UNCHANGED elem

(* The cache is full: the last key goes, its node is used for the new one. *)
PutEvicting(k, v) ==
  /\ k \notin DOMAIN cache /\ Cardinality(DOMAIN cache) = Capacity
  /\ cache' = Keep(elem[Last(lru_list)], k, Last(lru_list), v)
  /\ lru_list' = ToFront(Last(lru_list))
  /\ elem' = [elem EXCEPT ![Last(lru_list)] = k]

(* There is room: a new node. *)
PutNew(k, v) ==
  /\ k \notin DOMAIN cache /\ Cardinality(DOMAIN cache) # Capacity
  /\ cache' = Keep(k, k, Len(elem) + 1, v)
  /\ lru_list' = <<Len(elem) + 1>> \o lru_list
  /\ elem' = Append(elem, k)

put(k, v) ==
  /\ PutOld(k, v) \/ PutEvicting(k, v) \/ PutNew(k, v)
  /\ UNCHANGED got

GetHit(k) ==
  /\ k \in DOMAIN cache
  /\ lru_list' = ToFront(cache[k].node)
  /\ got' = cache[k].value
  /\ UNCHANGED <<cache, elem>>

GetMiss(k) ==
  /\ k \notin DOMAIN cache
  /\ got' = Missing
  /\ UNCHANGED <<cache, lru_list, elem>>

get(k) == GetHit(k) \/ GetMiss(k)

LruNext == \E k \in Keys : get(k) \/ \E v \in Values : put(k, v)

LruSpec == LruInit /\ [][LruNext]_lruvars
-----------------------------------------------------------------------------
\* The map and the list stay in step: every node of the list holds a key of the
\* map whose iterator is that node, and there are no others, although a node is
\* taken from one key and given to another while entries point to it.
NodesMatch ==
  /\ Len(lru_list) = Len(elem) /\ Len(elem) <= Capacity
  /\ ToSet(lru_list) = DOMAIN elem
  /\ DOMAIN cache = ToSet(elem)
  /\ \A k \in DOMAIN cache : cache[k].node \in DOMAIN elem /\ elem[cache[k].node] = k

(* The cache as its callers see it. *)
recent ==
  [i \in DOMAIN lru_list |->
     [key |-> elem[lru_list[i]], value |-> cache[elem[lru_list[i]]].value]]

\* put and get keep the Capacity keys used last, each with its last value, and
\* get finds exactly these.
R == INSTANCE RecencyList
ImplementsLru == R!Spec
=============================================================================
