------------------------------- MODULE MCRings -------------------------------
(***************************************************************************)
(* The queues that the benchmark compares with, and the thread pool, for   *)
(* TLC.  A behaviour picks the lock-free ring of rte_ring.h, the queues of *)
(* atomic_queue.h or the pool, and uses only that.                         *)
(***************************************************************************)
EXTENDS AtomicQueue, RteRing, ThreadPool

VARIABLE part    \* the component used

ASSUME RingAssumption == RteAssumption

RingsInit ==
  /\ part \in {"rte_ring", "atomic_queue", "thread_pool"}
  /\ AqInit /\ (part # "atomic_queue" => kind = "any")
  /\ RteInit /\ (part # "rte_ring" => org = 0)
  /\ PoolInit

RingsNext ==
  /\ UNCHANGED part
  /\ \/ part = "atomic_queue" /\ AqNext /\ UNCHANGED <<rtevars, poolvars>>
     \/ part = "rte_ring" /\ RteNext /\ UNCHANGED <<aqvars, poolvars>>
     \/ part = "thread_pool" /\ PoolNext /\ UNCHANGED <<aqvars, rtevars>>

RingsVars == <<part, aqvars, rtevars, poolvars>>

\* The workers of a pool that is not used stay at the beginning of their routine.
UsedPoolFairness ==
  /\ \A w \in Workers : WF_poolvars(part = "thread_pool" /\ WorkerStep(w))
  /\ \A c \in Callers : WF_poolvars(part = "thread_pool" /\ CallStep(c))

RingsSpec ==
  /\ RingsInit /\ [][RingsNext]_RingsVars
  /\ AqFairness /\ RteFairness /\ UsedPoolFairness
-----------------------------------------------------------------------------
\* The rings have no waits that do not end.
DrawsAndClaimsComplete == AqDrawsComplete /\ RteClaimsComplete
=============================================================================
