------------------------------- MODULE MCParts -------------------------------
(***************************************************************************)
(* The small components for TLC, side by side.  A behaviour picks one of   *)
(* them and uses only that: the components of one thread, the benchmark    *)
(* harness, and the pieces of the moodycamel queue.  They are checked for  *)
(* safety only.                                                            *)
(***************************************************************************)
EXTENDS AlignedSize, SegAllocator, LRUCache, CachedBind, MBench, FreeList,
        ProducerHash, ImplicitQueue

CONSTANTS
  UWidth, MaxSize, LineElements,                     \* IndexShuffle
  Precision, Shapes, Samples, MaxSamples, Percents,  \* Histogram
  c1, c2                                             \* consumers of ImplicitQueue

VARIABLES
  part,                                              \* the component used
  asked, perLine, fixed,
  hist, kept, outside

X == INSTANCE IndexShuffle
G == INSTANCE Histogram

xvars == <<asked, perLine, fixed>>
gvars == <<hist, kept, outside>>

aparts == <<arg, segvars, lruvars>>
bparts == <<xvars, gvars, bindvars>>
cparts == <<fvars, iqvars, hvars>>
-----------------------------------------------------------------------------
PartNames == {"aligned_size", "shuffle", "segments", "lru", "histogram", "cached_bind",
              "mbench", "free_list", "implicit_queue", "producer_hash"}

\* A component that is not used has one initial state.
PartsInit ==
  /\ part \in PartNames
  /\ arg = 0
  /\ LruInit /\ MBInit /\ FInit /\ HInit
  /\ SegInit /\ (reverse => part = "segments")
  /\ X!ShuffleInit /\ (part # "shuffle" => perLine = 1)
  /\ G!HistInit
  /\ part # "histogram" => hist["a"].nr = hist["b"].nr /\ hist["a"].nr = 2
  /\ BindInit /\ (left_first => part = "cached_bind")
  /\ IQInit /\ (part # "implicit_queue" => load.consumers = {c1})

PartsNext ==
  /\ UNCHANGED part
  /\ \/ part = "aligned_size" /\ NextArg
          /\ UNCHANGED <<segvars, lruvars, mbvars, bparts, cparts>>
     \/ part = "segments" /\ SegNext
          /\ UNCHANGED <<arg, lruvars, mbvars, bparts, cparts>>
     \/ part = "lru" /\ LruNext
          /\ UNCHANGED <<arg, segvars, mbvars, bparts, cparts>>
     \/ part = "mbench" /\ MBNext
          /\ UNCHANGED <<aparts, bparts, cparts>>
     \/ part = "shuffle" /\ X!NextSize
          /\ UNCHANGED <<aparts, mbvars, gvars, bindvars, cparts>>
     \/ part = "histogram" /\ G!HistNext
          /\ UNCHANGED <<aparts, mbvars, xvars, bindvars, cparts>>
     \/ part = "cached_bind" /\ BindNext
          /\ UNCHANGED <<aparts, mbvars, xvars, gvars, cparts>>
     \/ part = "free_list" /\ FNext
          /\ UNCHANGED <<aparts, mbvars, bparts, iqvars, hvars>>
     \/ part = "implicit_queue" /\ IQNext
          /\ UNCHANGED <<aparts, mbvars, bparts, fvars, hvars>>
     \/ part = "producer_hash" /\ HNext
          /\ UNCHANGED <<aparts, mbvars, bparts, fvars, iqvars>>

PartsVars == <<part, aparts, mbvars, bparts, cparts>>

PartsSpec == PartsInit /\ [][PartsNext]_PartsVars
-----------------------------------------------------------------------------
(* Values of the constants. *)
ShiftSeq == <<1, 2, 4, 8>>   \* what a 12-bit integer needs
TwoShapes == {[nr |-> 2, min |-> <<0, 1>>, max |-> <<4, 1>>],
              [nr |-> 3, min |-> <<1, 1>>, max |-> <<6, 1>>]}
FiveSamples == {<<0, 1>>, <<64, 32>>, <<83, 32>>, <<96, 32>>, <<88, 16>>}   \* as rounded
ResultOf(a) == <<"result", a>>
LongOrWide == {[enqueues |-> <<7>>, consumers |-> {c1}, claims |-> 7],
               [enqueues |-> <<5>>, consumers |-> {c1, c2}, claims |-> 6],
               [enqueues |-> <<2, 1>>, consumers |-> {c1, c2}, claims |-> 3]}
HashOf == [t \in {0, 1, 2} |-> t \div 2]
-----------------------------------------------------------------------------
\* The arithmetic of ring storage.  aligned_size: the least power of two, and 0 where
\* the type cannot hold one.  The slots of atomic_queue.h: the shuffle is a permutation
\* that parts neighbours.
RingArithmetic ==
  /\ part = "aligned_size" => LeastPowerOfTwo
  /\ part = "shuffle" => X!EachSlotOnce

=============================================================================
