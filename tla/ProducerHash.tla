----------------------------- MODULE ProducerHash -----------------------------
(***************************************************************************)
(* get_or_add_implicit_producer of queue-bench/moodycamel.h: which         *)
(* producer belongs to the calling thread.  The tables form a list; the    *)
(* newest is the main one, a thread finds itself in any of them and then   *)
(* copies itself to the main one.  A table is replaced by a larger one     *)
(* when half of it is promised, by one thread at a time; the others go on  *)
(* using it until three quarters are.                                      *)
(*                                                                         *)
(* In this build nobody leaves a table: the code for threads that exit is  *)
(* not compiled (line 200), so no implicit producer is ever recycled.      *)
(***************************************************************************)
EXTENDS Integers, Sequences, FiniteSets

CONSTANTS
  HThreads,
  Hash,        \* hash_thread_id of each
  TableSize,   \* INITIAL_IMPLICIT_PRODUCER_HASH_SIZE
  Nobody       \* invalid_thread_id

ASSUME HashAssumption ==
  /\ IsFiniteSet(HThreads) /\ Nobody \notin HThreads
  /\ \A t \in HThreads : Hash[t] \in Nat
  /\ TableSize \in Nat \ {0}

VARIABLES
  tables,      \* the keys of the tables, the oldest table first
  values,      \* and the values beside them
  hashCount,   \* implicitProducerHashCount
  resizing,    \* implicitProducerHashResizeInProgress
  producers,   \* the producer list: producer i was made by producers[i]
  hpc,         \* where each thread is
  hloc         \* its locals: mainHash, hash, index, newCount, value, newCapacity

hvars == <<tables, values, hashCount, resizing, producers, hpc, hloc>>

HNoCall == [main |-> 0, hash |-> 0, index |-> 0, count |-> 0, value |-> 0,
            size |-> 0]

HInit ==
  /\ tables = <<[i \in 0 .. (TableSize - 1) |-> Nobody]>>
  /\ values = <<[i \in 0 .. (TableSize - 1) |-> 0]>>
  /\ hashCount = 0
  /\ resizing = FALSE
  /\ producers = <<>>
  /\ hpc = [t \in HThreads |-> "idle"]
  /\ hloc = [t \in HThreads |-> HNoCall]

HGo(t, label) == hpc' = [hpc EXCEPT ![t] = label]
HReturn(t) == HGo(t, "idle") /\ hloc' = [hloc EXCEPT ![t] = HNoCall]
Cap(k) == Cardinality(DOMAIN tables[k])
Slot(t, k) == hloc[t].index % Cap(k)
-----------------------------------------------------------------------------
(* The search: the main table first, then the older ones. *)
GetOrAdd(t) ==
  /\ hpc[t] = "idle"
  /\ hloc' = [hloc EXCEPT ![t] = [HNoCall EXCEPT !.main = Len(tables), !.hash = Len(tables),
                                                 !.index = Hash[t]]]
  /\ HGo(t, "probe")
  /\ UNCHANGED <<tables, values, hashCount, resizing, producers>>

ProbedKey(t) == tables[hloc[t].hash][Slot(t, hloc[t].hash)]

\* Found, in the main table or in an older one, from where it is copied.
Found(t) ==
  /\ hpc[t] = "probe" /\ ProbedKey(t) = t
  /\ IF hloc[t].hash = hloc[t].main
       THEN HReturn(t)
       ELSE /\ hloc' = [hloc EXCEPT ![t].value = values[hloc[t].hash][Slot(t, hloc[t].hash)],
                                    ![t].index = Hash[t]]
            /\ HGo(t, "place")
  /\ UNCHANGED <<tables, values, hashCount, resizing, producers>>

Taken(t) ==
  /\ hpc[t] = "probe" /\ ProbedKey(t) \notin {t, Nobody}
  /\ hloc' = [hloc EXCEPT ![t].index = @ + 1]
  /\ UNCHANGED <<tables, values, hashCount, resizing, producers, hpc>>

\* Fault: only the main table is searched.
NotHereMain(t) ==
  /\ hpc[t] = "probe" /\ ProbedKey(t) = Nobody
  /\ HGo(t, "count")
  /\ UNCHANGED <<tables, values, hashCount, resizing, producers, hloc>>

NotHere(t) ==
  /\ hpc[t] = "probe" /\ ProbedKey(t) = Nobody
  /\ IF hloc[t].hash > 1
       THEN /\ hloc' = [hloc EXCEPT ![t].hash = @ - 1, ![t].index = Hash[t]]
            /\ hpc' = hpc
       ELSE HGo(t, "count") /\ hloc' = hloc
  /\ UNCHANGED <<tables, values, hashCount, resizing, producers>>
-----------------------------------------------------------------------------
(* Insert: a place is promised by the count ... *)
CountIn(t) ==
  /\ hpc[t] = "count"
  /\ hashCount' = hashCount + 1
  /\ hloc' = [hloc EXCEPT ![t] = [HNoCall EXCEPT !.main = hloc[t].main,
                                                 !.count = hashCount + 1]]
  /\ HGo(t, "insert")
  /\ UNCHANGED <<tables, values, resizing, producers>>

Half(k) == Cap(k) \div 2
HalfFull(t) == hloc[t].count >= Half(hloc[t].main)

\* ... and at half of the table, whoever sets the flag makes a larger one.
TakeResize(t) ==
  /\ hpc[t] = "insert" /\ HalfFull(t) /\ ~resizing
  /\ resizing' = TRUE
  /\ hloc' = [hloc EXCEPT ![t].main = Len(tables), ![t].size = 2 * Cap(Len(tables))]
  /\ HGo(t, "resize")
  /\ UNCHANGED <<tables, values, hashCount, producers>>

\* newCapacity is doubled until the count is below half of it.
CapacityFits(t) == hloc[t].count < hloc[t].size \div 2

Double(t) ==
  /\ hpc[t] = "resize" /\ HalfFull(t) /\ ~CapacityFits(t)
  /\ hloc' = [hloc EXCEPT ![t].size = 2 * @]
  /\ UNCHANGED <<tables, values, hashCount, resizing, producers, hpc>>

Resize(t) ==
  /\ hpc[t] = "resize" /\ HalfFull(t) /\ CapacityFits(t)
  /\ tables' = Append(tables, [i \in 0 .. (hloc[t].size - 1) |-> Nobody])
  /\ values' = Append(values, [i \in 0 .. (hloc[t].size - 1) |-> 0])
  /\ hloc' = [hloc EXCEPT ![t].main = Len(tables) + 1, ![t].size = 0]
  /\ HGo(t, "unlock")
  /\ UNCHANGED <<hashCount, resizing, producers>>

\* Somebody else has made it before; or there is no memory for it.
ResizeDone(t) ==
  /\ hpc[t] = "resize" /\ ~HalfFull(t)
  /\ hloc' = [hloc EXCEPT ![t].size = 0]
  /\ HGo(t, "unlock")
  /\ UNCHANGED <<tables, values, hashCount, resizing, producers>>

ResizeFails(t) ==
  /\ hpc[t] = "resize" /\ HalfFull(t) /\ CapacityFits(t)
  /\ hashCount' = hashCount - 1
  /\ HGo(t, "unlockfail")
  /\ UNCHANGED <<tables, values, resizing, producers, hloc>>

Unlock(t) ==
  /\ resizing' = FALSE
  /\ \/ hpc[t] = "unlock" /\ HGo(t, "room") /\ hloc' = hloc
     \/ hpc[t] = "unlockfail" /\ HReturn(t)
  /\ UNCHANGED <<tables, values, hashCount, producers>>

NoResize(t) ==
  /\ hpc[t] = "insert" /\ (HalfFull(t) => resizing)
  /\ HGo(t, "room")
  /\ UNCHANGED <<tables, values, hashCount, resizing, producers, hloc>>

\* Fault: there is always room.
HasRoomAny(t) == TRUE

HasRoom(t) == hloc[t].count < Half(hloc[t].main) + Cap(hloc[t].main) \div 4

\* Below three quarters: a producer is made and put on the list ...
NewProducer(t) ==
  /\ hpc[t] = "room" /\ HasRoom(t)
  /\ producers' = Append(producers, t)
  /\ hloc' = [hloc EXCEPT ![t].value = Len(producers) + 1, ![t].index = Hash[t]]
  /\ HGo(t, "place")
  /\ UNCHANGED <<tables, values, hashCount, resizing>>

\* ... or there is no memory for it ...
ProducerFails(t) ==
  /\ hpc[t] = "room" /\ HasRoom(t)
  /\ hashCount' = hashCount - 1
  /\ HReturn(t)
  /\ UNCHANGED <<tables, values, resizing, producers>>

\* ... otherwise the thread waits for the larger table.
WaitTable(t) ==
  /\ hpc[t] = "room" /\ ~HasRoom(t)
  /\ hloc' = [hloc EXCEPT ![t].main = Len(tables)]
  /\ HGo(t, "insert")
  /\ UNCHANGED <<tables, values, hashCount, resizing, producers>>

\* The first free slot of the main table, by a CAS of the key.
Place(t) ==
  /\ hpc[t] = "place"
  /\ LET m == hloc[t].main
     IN \/ /\ tables[m][Slot(t, m)] = Nobody
           /\ tables' = [tables EXCEPT ![m][Slot(t, m)] = t]
           /\ values' = [values EXCEPT ![m][Slot(t, m)] = hloc[t].value]
           /\ HReturn(t)
        \/ /\ tables[m][Slot(t, m)] # Nobody
           /\ hloc' = [hloc EXCEPT ![t].index = @ + 1]
           /\ UNCHANGED <<tables, values, hpc>>
  /\ UNCHANGED <<hashCount, resizing, producers>>

HNext == \E t \in HThreads :
  \/ GetOrAdd(t) \/ Found(t) \/ Taken(t) \/ NotHere(t) \/ CountIn(t)
  \/ TakeResize(t) \/ Double(t) \/ Resize(t) \/ ResizeDone(t) \/ ResizeFails(t)
  \/ Unlock(t) \/ NoResize(t) \/ NewProducer(t) \/ ProducerFails(t) \/ WaitTable(t) \/ Place(t)

HSpec == HInit /\ [][HNext]_hvars
-----------------------------------------------------------------------------
\* A thread has one producer, and finds that one wherever it finds itself.
OwnProducer ==
  /\ \A i, j \in DOMAIN producers : producers[i] = producers[j] => i = j
  /\ \A k \in DOMAIN tables : \A i \in DOMAIN tables[k] :
       tables[k][i] # Nobody => producers[values[k][i]] = tables[k][i]

\* What the search relies on to end (line 3303): every table keeps a free slot,
\* whoever still inserts into it.
EveryTableHasRoom ==
  \A k \in DOMAIN tables : \E i \in DOMAIN tables[k] : tables[k][i] = Nobody

\* The producer table gives each thread one producer, the same in every call, though
\* tables grow and entries are copied from one to the other: its elements stay in
\* order; and no table is ever full (lines 3280-3428).
OneProducerEach == OwnProducer /\ EveryTableHasRoom
=============================================================================
