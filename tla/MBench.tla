-------------------------------- MODULE MBench --------------------------------
(***************************************************************************)
(* run_test_task of mbench.h with the queue_bench of                       *)
(* queue-bench/benchmark.cc.  All threads meet at a barrier; each notes    *)
(* when it starts, lowers test_start_time to that, does its share of the   *)
(* operations, notes when it ends in test_end_time; the one that started   *)
(* them joins them and reports the time and the sum of what was dequeued.  *)
(* test_start_time and test_end_time are plain variables written by all    *)
(* threads: a read and a write of them are two steps.                      *)
(*                                                                         *)
(* The queue under test is external here: it holds what was enqueued and   *)
(* hands each element to one dequeue, in any order.                        *)
(***************************************************************************)
EXTENDS Integers, FiniteSets, FiniteSetsExt

CONSTANTS
  Producers,      \* thread_count[0] threads ...
  Consumers,      \* ... and thread_count[1] threads: numbers, the thread_id's
  Iteration,      \* iteration
  Internal,       \* output_internal_time
  UMax,            \* UINT64_MAX
  LastTime        \* bound: the clock stops here

ASSUME MBAssumption ==
  /\ Producers \subseteq Nat /\ Consumers \subseteq Nat
  /\ Producers \cap Consumers = {}
  /\ IsFiniteSet(Producers) /\ IsFiniteSet(Consumers)
  /\ Producers # {} /\ Consumers # {}
  /\ Iteration \in Nat /\ Internal \in Nat \ {0}
  /\ LastTime \in Nat /\ UMax \in Nat /\ LastTime < UMax

VARIABLES
  now,              \* the wall clock
  at_,              \* where each thread is
  start_us, end_us,
  low,              \* test_start_time as the thread read it
  thread_iter,
  test_start_time, test_end_time,
  queue,            \* what the queue holds: <<thread, iteration, n>>
  s,                \* s[thread_id].c
  output_time       \* phases that were put out

mbvars == <<now, at_, start_us, end_us, low, thread_iter, test_start_time,
            test_end_time, queue, s, output_time>>
times == <<start_us, end_us, low, test_start_time, test_end_time>>

BThreads == Producers \cup Consumers

MBInit ==
  /\ now = 0
  /\ at_ = [t \in BThreads |-> "barrier"]
  /\ start_us = [t \in BThreads |-> 0] /\ end_us = [t \in BThreads |-> 0]
  /\ low = [t \in BThreads |-> 0]
  /\ thread_iter = [t \in BThreads |-> 0]
  /\ test_start_time = UMax
  /\ test_end_time = 0     \* not initialized; nobody reads it
  /\ queue = {}
  /\ s = [t \in BThreads |-> 0]
  /\ output_time = 0

BGo(t, label) == at_' = [at_ EXCEPT ![t] = label]
-----------------------------------------------------------------------------
Tick ==
  /\ now < LastTime
  /\ now' = now + 1
  /\ UNCHANGED <<at_, times, thread_iter, queue, s, output_time>>

(* pthread_barrier_wait: the last to come lets everyone pass. *)
Meet ==
  /\ \A t \in BThreads : at_[t] = "barrier"
  /\ at_' = [t \in BThreads |-> "clock"]
  /\ UNCHANGED <<now, times, thread_iter, queue, s, output_time>>

StartClock(t) ==
  /\ at_[t] = "clock"
  /\ start_us' = [start_us EXCEPT ![t] = now]
  /\ BGo(t, "read")
  /\ UNCHANGED <<now, end_us, low, test_start_time, test_end_time,
                 thread_iter, queue, s, output_time>>

ReadStart(t) ==
  /\ at_[t] = "read"
  /\ low' = [low EXCEPT ![t] = test_start_time]
  /\ BGo(t, "lower")
  /\ UNCHANGED <<now, start_us, end_us, test_start_time, test_end_time,
                 thread_iter, queue, s, output_time>>

\* Fault: the time is taken when it is stored.
LowerNow(t) ==
  /\ at_[t] = "lower"
  /\ test_start_time' = IF low[t] < now THEN low[t] ELSE now
  /\ BGo(t, "op")
  /\ UNCHANGED <<now, start_us, end_us, low, test_end_time,
                 thread_iter, queue, s, output_time>>

(* test_start_time = min(test_start_time, start_us); a compiler may leave the *)
(* store out when the minimum is what was read.                              *)
Lower(t) ==
  /\ at_[t] = "lower"
  /\ \/ /\ low[t] > start_us[t]
        /\ test_start_time' = start_us[t]
     \/ /\ low[t] <= start_us[t]
        /\ test_start_time' \in {low[t], test_start_time}
  /\ BGo(t, "op")
  /\ UNCHANGED <<now, start_us, end_us, low, test_end_time,
                 thread_iter, queue, s, output_time>>
-----------------------------------------------------------------------------
\* iteration_per_thread: of the threads of the own kind.
PerThread(t) ==
  Iteration \div Cardinality(IF t \in Producers THEN Producers ELSE Consumers)

\* Fault: the number within the thread.
NumberOwn(t) == thread_iter[t]

\* The n that test_thread_op gets.
Number(t) == (t * PerThread(t)) + thread_iter[t]

(* ++thread_iter, and the output of a phase. *)
OpDone(t) ==
  /\ thread_iter' = [thread_iter EXCEPT ![t] = @ + 1]
  /\ output_time' =
       IF (thread_iter[t] + 1) % (Iteration \div Internal) = 0
         THEN output_time + 1 ELSE output_time
  /\ UNCHANGED <<now, at_, times>>

(* test_thread_op: while (!q.enqueue(n)); *)
EnqueueOp(t) ==
  /\ at_[t] = "op" /\ t \in Producers
  /\ thread_iter[t] < PerThread(t)
  /\ queue' = queue \cup {<<t, thread_iter[t], Number(t)>>}
  /\ s' = s
  /\ OpDone(t)

(* while (!q.dequeue(r)); s[thread_id].c += r *)
DequeueOp(t) ==
  /\ at_[t] = "op" /\ t \in Consumers
  /\ thread_iter[t] < PerThread(t)
  /\ \E e \in queue : queue' = queue \ {e} /\ s' = [s EXCEPT ![t] = @ + e[3]]
  /\ OpDone(t)

EndClock(t) ==
  /\ at_[t] = "op" /\ thread_iter[t] >= PerThread(t)
  /\ end_us' = [end_us EXCEPT ![t] = now]
  /\ BGo(t, "end")
  /\ UNCHANGED <<now, start_us, low, test_start_time, test_end_time,
                 thread_iter, queue, s, output_time>>

(* test_end_time = end_us; test_thread_over; the thread is over. *)
StoreEnd(t) ==
  /\ at_[t] = "end"
  /\ test_end_time' = end_us[t]
  /\ BGo(t, "over")
  /\ UNCHANGED <<now, start_us, end_us, low, test_start_time,
                 thread_iter, queue, s, output_time>>

BStep(t) ==
  \/ StartClock(t) \/ ReadStart(t) \/ Lower(t)
  \/ EnqueueOp(t) \/ DequeueOp(t) \/ EndClock(t) \/ StoreEnd(t)

MBNext == Tick \/ Meet \/ \E t \in BThreads : BStep(t)

MBSpec == MBInit /\ [][MBNext]_mbvars
-----------------------------------------------------------------------------
\* All threads were joined: test_over reports.
Joined == \A t \in BThreads : at_[t] = "over"

\* The time that is reported, an unsigned difference, is not negative, though the
\* least start is found by a read and a write that may overlap, and the end is
\* that of the last to write it and not the last (lines 48-66 and 76).
TimeNotNegative == Joined => test_start_time <= test_end_time

\* What DLOG_EXPR demands in test_over of benchmark.cc: the producers' numbers
\* are 0 .. iteration - 1, whatever the thread counts are, and the consumers
\* together get each of them (lines 52-67 of benchmark.cc).
SumIsExact ==
  Joined => 2 * MapThenSumSet(LAMBDA t : s[t], Consumers) = Iteration * (Iteration - 1)
=============================================================================
