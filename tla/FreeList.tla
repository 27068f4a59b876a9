------------------------------- MODULE FreeList -------------------------------
(***************************************************************************)
(* FreeList<N> of queue-bench/moodycamel.h: a stack of nodes that guards   *)
(* its nodes against coming back (ABA) with a counter of references in     *)
(* each, whose top bit says that the node should be on the list.  A node   *)
(* whose counter is not zero cannot be put on the list; whoever brings the *)
(* counter of such a node to zero does it.                                 *)
(*                                                                         *)
(* The queue takes blocks from the list in one thread and gives them back  *)
(* in another: out is the set of nodes that the queue is using.  One step  *)
(* is one access to shared memory.                                         *)
(***************************************************************************)
EXTENDS Integers, FiniteSets

CONSTANTS
  FThreads, Nodes,
  nullptr,
  SHOULD     \* SHOULD_BE_ON_FREELIST: the top bit of the counter

\* In the code SHOULD is 2^31: no program has as many threads.
ASSUME FreeListAssumption ==
  /\ IsFiniteSet(FThreads) /\ nullptr \notin Nodes
  /\ SHOULD \in Nat /\ Cardinality(FThreads) + 1 < SHOULD

VARIABLES
  freeListHead, freeListRefs, freeListNext,
  out,       \* the nodes in use
  fpc,       \* where each thread is
  fhead, frefs, fnext,   \* its locals head, refs and next
  fnode,     \* the node it adds, or prevHead
  freturn    \* where add_knowing_refcount_is_zero returns to

fvars == <<freeListHead, freeListRefs, freeListNext, out, fpc, fhead, frefs,
           fnext, fnode, freturn>>

FInit ==
  /\ freeListHead = nullptr
  /\ freeListRefs = [n \in Nodes |-> 0]
  /\ freeListNext = [n \in Nodes |-> nullptr]
  /\ out = Nodes
  /\ fpc = [t \in FThreads |-> "idle"]
  /\ fhead = [t \in FThreads |-> nullptr]
  /\ frefs = [t \in FThreads |-> 0]
  /\ fnext = [t \in FThreads |-> nullptr]
  /\ fnode = [t \in FThreads |-> nullptr]
  /\ freturn = [t \in FThreads |-> "idle"]

FGo(t, label) == fpc' = [fpc EXCEPT ![t] = label]
Upd(f, t, x) == [f EXCEPT ![t] = x]
\* REFS_MASK, and the 32 bits of the counter.
Count(r) == r % SHOULD
Bits32(r) == r % (2 * SHOULD)
AddRefs(n, k) == freeListRefs' = Upd(freeListRefs, n, Bits32(freeListRefs[n] + k))

\* The call is over: its locals are gone.
FReturn(t) ==
  /\ FGo(t, "idle")
  /\ fhead' = Upd(fhead, t, nullptr) /\ frefs' = Upd(frefs, t, 0)
  /\ fnext' = Upd(fnext, t, nullptr) /\ fnode' = Upd(fnode, t, nullptr)
  /\ freturn' = Upd(freturn, t, "idle")
-----------------------------------------------------------------------------
(* add: the bit is set; with no references left the node goes on the list. *)
Add(t) ==
  /\ fpc[t] = "idle"
  /\ \E n \in out :
       /\ out' = out \ {n}
       /\ AddRefs(n, SHOULD)
       /\ IF freeListRefs[n] = 0
            THEN FGo(t, "addload") /\ fnode' = Upd(fnode, t, n)
            ELSE UNCHANGED <<fpc, fnode>>
  /\ UNCHANGED <<freeListHead, freeListNext, fhead, frefs, fnext, freturn>>

(* add_knowing_refcount_is_zero *)
AddLoad(t) ==
  /\ fpc[t] = "addload"
  /\ fhead' = Upd(fhead, t, freeListHead)
  /\ FGo(t, "addnext")
  /\ UNCHANGED <<freeListHead, freeListRefs, freeListNext, out, frefs, fnext, fnode, freturn>>

AddNext(t) ==
  /\ fpc[t] = "addnext"
  /\ freeListNext' = Upd(freeListNext, fnode[t], fhead[t])
  /\ FGo(t, "addrefs")
  /\ UNCHANGED <<freeListHead, freeListRefs, out, fhead, frefs, fnext, fnode, freturn>>

AddStoreRefs(t) ==
  /\ fpc[t] = "addrefs"
  /\ freeListRefs' = Upd(freeListRefs, fnode[t], 1)
  /\ FGo(t, "addcas")
  /\ UNCHANGED <<freeListHead, freeListNext, out, fhead, frefs, fnext, fnode, freturn>>

\* Back to the caller: add, or the loop of try_get with the head it last saw.
AddReturn(t) ==
  IF freturn[t] = "idle" THEN FReturn(t)
  ELSE /\ FGo(t, "loop")
       /\ fhead' = Upd(fhead, t, fnext[t])
       /\ fnext' = Upd(fnext, t, nullptr) /\ fnode' = Upd(fnode, t, nullptr)
       /\ freturn' = Upd(freturn, t, "idle")
       /\ UNCHANGED frefs

AddCasWins(t) ==
  /\ fpc[t] = "addcas" /\ freeListHead = fhead[t]
  /\ freeListHead' = fnode[t]
  /\ AddReturn(t)
  /\ UNCHANGED <<freeListRefs, freeListNext, out>>

AddCasLoses(t) ==
  /\ fpc[t] = "addcas" /\ freeListHead # fhead[t]
  /\ fhead' = Upd(fhead, t, freeListHead)
  /\ FGo(t, "addagain")
  /\ UNCHANGED <<freeListHead, freeListRefs, freeListNext, out, frefs, fnext, fnode, freturn>>

\* The reference of the list is given up, the bit is set again; if somebody else
\* holds a reference the addition is left to them.
AddAgain(t) ==
  /\ fpc[t] = "addagain"
  /\ AddRefs(fnode[t], SHOULD - 1)
  /\ IF freeListRefs[fnode[t]] = 1
       THEN FGo(t, "addnext") /\ UNCHANGED <<fhead, frefs, fnext, fnode, freturn>>
       ELSE AddReturn(t)
  /\ UNCHANGED <<freeListHead, freeListNext, out>>
-----------------------------------------------------------------------------
(* try_get *)
TryGet(t) ==
  /\ fpc[t] \in {"idle", "getload"}
  /\ fhead' = Upd(fhead, t, freeListHead)
  /\ FGo(t, "loop")
  /\ UNCHANGED <<freeListHead, freeListRefs, freeListNext, out, frefs, fnext, fnode, freturn>>

GetNothing(t) ==
  /\ fpc[t] = "loop" /\ fhead[t] = nullptr
  /\ FReturn(t)
  /\ UNCHANGED <<freeListHead, freeListRefs, freeListNext, out>>

\* Fault: a counter of zero is not looked for.
GetRefsAny(t) ==
  /\ fpc[t] = "loop" /\ fhead[t] # nullptr
  /\ frefs' = Upd(frefs, t, freeListRefs[fhead[t]])
  /\ FGo(t, "refcas")
  /\ UNCHANGED <<freeListHead, freeListRefs, freeListNext, out, fhead, fnext, fnode, freturn>>

GetRefs(t) ==
  /\ fpc[t] = "loop" /\ fhead[t] # nullptr
  /\ Count(freeListRefs[fhead[t]]) # 0
  /\ frefs' = Upd(frefs, t, freeListRefs[fhead[t]])
  /\ FGo(t, "refcas")
  /\ UNCHANGED <<freeListHead, freeListRefs, freeListNext, out, fhead, fnext, fnode, freturn>>

\* The node has no references: the head is loaded again.
GetZero(t) ==
  /\ fpc[t] = "loop" /\ fhead[t] # nullptr
  /\ Count(freeListRefs[fhead[t]]) = 0
  /\ fhead' = Upd(fhead, t, nullptr)
  /\ FGo(t, "getload")
  /\ UNCHANGED <<freeListHead, freeListRefs, freeListNext, out, frefs, fnext, fnode, freturn>>

RefCas(t) ==
  /\ fpc[t] = "refcas"
  /\ frefs' = Upd(frefs, t, 0)
  /\ \/ /\ freeListRefs[fhead[t]] = frefs[t]
        /\ AddRefs(fhead[t], 1)
        /\ FGo(t, "getnext")
        /\ fhead' = fhead
     \/ /\ freeListRefs[fhead[t]] # frefs[t]
        /\ FGo(t, "getload")
        /\ fhead' = Upd(fhead, t, nullptr)
        /\ UNCHANGED freeListRefs
  /\ UNCHANGED <<freeListHead, freeListNext, out, fnext, fnode, freturn>>

GetNext(t) ==
  /\ fpc[t] = "getnext"
  /\ fnext' = Upd(fnext, t, freeListNext[fhead[t]])
  /\ FGo(t, "getcas")
  /\ UNCHANGED <<freeListHead, freeListRefs, freeListNext, out, fhead, frefs, fnode, freturn>>

GetCasWins(t) ==
  /\ fpc[t] = "getcas" /\ freeListHead = fhead[t]
  /\ freeListHead' = fnext[t]
  /\ FGo(t, "got")
  /\ UNCHANGED <<freeListRefs, freeListNext, out, fhead, frefs, fnext, fnode, freturn>>

\* The CAS leaves the head it found in head; fnext keeps it over an addition.
GetCasLoses(t) ==
  /\ fpc[t] = "getcas" /\ freeListHead # fhead[t]
  /\ fnode' = Upd(fnode, t, fhead[t])
  /\ fnext' = Upd(fnext, t, freeListHead)
  /\ fhead' = Upd(fhead, t, nullptr)
  /\ FGo(t, "unref")
  /\ UNCHANGED <<freeListHead, freeListRefs, freeListNext, out, frefs, freturn>>

\* Our reference and that of the list are given up, the node is the caller's.
Got(t) ==
  /\ fpc[t] = "got"
  /\ AddRefs(fhead[t], -2)
  /\ out' = out \cup {fhead[t]}
  /\ FReturn(t)
  /\ UNCHANGED <<freeListHead, freeListNext>>

\* Fault: the one that gives up the last reference does not add the node.
UnrefOnly(t) ==
  /\ fpc[t] = "unref"
  /\ AddRefs(fnode[t], -1)
  /\ FGo(t, "loop")
  /\ fhead' = Upd(fhead, t, fnext[t])
  /\ fnext' = Upd(fnext, t, nullptr) /\ fnode' = Upd(fnode, t, nullptr)
  /\ UNCHANGED <<freeListHead, freeListNext, out, frefs, freturn>>

Unref(t) ==
  /\ fpc[t] = "unref"
  /\ AddRefs(fnode[t], -1)
  /\ \/ /\ freeListRefs[fnode[t]] = SHOULD + 1
        /\ FGo(t, "addload")
        /\ freturn' = Upd(freturn, t, "loop")
        /\ UNCHANGED <<fhead, fnext, fnode>>
     \/ /\ freeListRefs[fnode[t]] # SHOULD + 1
        /\ FGo(t, "loop")
        /\ fhead' = Upd(fhead, t, fnext[t])
        /\ fnext' = Upd(fnext, t, nullptr) /\ fnode' = Upd(fnode, t, nullptr)
        /\ UNCHANGED freturn
  /\ UNCHANGED <<freeListHead, freeListNext, out, frefs>>

FNext == \E t \in FThreads :
  \/ Add(t) \/ AddLoad(t) \/ AddNext(t) \/ AddStoreRefs(t)
  \/ AddCasWins(t) \/ AddCasLoses(t) \/ AddAgain(t)
  \/ TryGet(t) \/ GetNothing(t) \/ GetRefs(t) \/ GetZero(t) \/ RefCas(t)
  \/ GetNext(t) \/ GetCasWins(t) \/ GetCasLoses(t) \/ Got(t) \/ Unref(t)

FSpec == FInit /\ [][FNext]_fvars
-----------------------------------------------------------------------------
\* The nodes on the list: those that every set has which has the head and, with a
\* node, the next one.
HasChain(S) ==
  /\ freeListHead \in S \cup {nullptr}
  /\ \A n \in S : freeListNext[n] \in S \cup {nullptr}
OnList == {n \in Nodes : \A S \in SUBSET Nodes : HasChain(S) => n \in S}

\* A node that try_get returns is nobody else's, and not on the list: no thread
\* holds it, no other is about to take it, and the assertion of line 1396 holds.
GivenOnce ==
  \A t \in FThreads : fpc[t] = "got" =>
    /\ fhead[t] \notin out \cup OnList
    /\ freeListRefs[fhead[t]] < SHOULD
    /\ \A u \in FThreads \ {t} : fpc[u] = "got" => fhead[u] # fhead[t]

\* A node is used or free, never both, and when no call is under way every node
\* is one of them: additions that were left to others have been made.
NoneLost ==
  /\ OnList \cap out = {}
  /\ (\A t \in FThreads : fpc[t] = "idle") => OnList \cup out = Nodes

\* The list is correct, as the comment at line 1350 says: a node is given to one
\* thread at a time, and none is lost.
NodesAreKept == GivenOnce /\ NoneLost
=============================================================================
