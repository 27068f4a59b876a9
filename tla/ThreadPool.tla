------------------------------ MODULE ThreadPool ------------------------------
(***************************************************************************)
(* thread_pool.h with pl_allocator.h, from which its tasks take their      *)
(* memory.  Each worker has a queue of tasks, a mutex and a condition      *)
(* variable; a caller picks a worker by the busy bits, or any, appends a   *)
(* task to its queue and notifies it.  A task may itself submit a task.    *)
(* The owner of the pool destroys it: worker by worker, in order.          *)
(*                                                                         *)
(* What is done with a worker's mutex held is one step; a wait on the      *)
(* condition variable gives the mutex up and may end without a notice.     *)
(* A task is <<number, block>>, the block of memory that holds it.         *)
(*                                                                         *)
(* It is the user's part that no call is made on a worker that has been    *)
(* joined: a call begins before the first join, and a join waits for it.   *)
(***************************************************************************)
EXTENDS Integers, Sequences, FiniteSets

CONSTANTS
  Workers,     \* 0 .. n - 1, the tid's
  Clients,     \* threads that are not workers
  MaxTasks,    \* bound: calls that are made
  NoTask, None

Callers == Clients \cup Workers
Blocks == 1 .. (MaxTasks + 1)

ASSUME PoolAssumption ==
  /\ IsFiniteSet(Workers) /\ Workers # {} /\ Workers = 0 .. (Cardinality(Workers) - 1)
  /\ IsFiniteSet(Clients) /\ Clients \cap Workers = {}
  /\ MaxTasks \in Nat
  /\ NoTask \notin Nat \cup (Nat \X Blocks)
  /\ None \notin Blocks \cup Workers

VARIABLES
  busy_bits,   \* the tid's whose bit is set
  tasks, stop, \* of each worker
  wpc,         \* where each worker is in routine
  noticed,     \* the waiting workers that have been notified
  doing,       \* the task a worker is running
  cpc,         \* where each thread is in execute
  tid, block,  \* the worker a call has chosen, the memory of its task
  dpc,         \* where the destructor is: which worker, which step
  v_pl,        \* each thread's list of free blocks, the back last
  heap,        \* the blocks that the allocator has given out
  sent,        \* history: tasks accepted
  refused,     \* history: calls refused
  settled      \* history: workers that have waited once

poolvars == <<busy_bits, tasks, stop, wpc, noticed, doing, cpc, tid, block,
              dpc, v_pl, heap, sent, refused, settled>>
callvars == <<cpc, tid, block, sent, refused>>
memory == <<v_pl, heap>>

Last(w) == w + 1 \notin Workers

PoolInit ==
  /\ busy_bits = {}
  /\ tasks = [w \in Workers |-> <<>>]
  /\ stop = [w \in Workers |-> FALSE]
  /\ wpc = [w \in Workers |-> "top"]
  /\ noticed = {}
  /\ doing = [w \in Workers |-> NoTask]
  /\ cpc = [c \in Callers |-> "idle"]
  /\ tid = [c \in Callers |-> None]
  /\ block = [c \in Callers |-> None]
  /\ dpc = <<0, "lock">>
  /\ v_pl = [c \in Callers |-> <<>>]
  /\ heap = {}
  /\ sent = 0 /\ refused = 0
  /\ settled = {}

WGo(w, label) == wpc' = [wpc EXCEPT ![w] = label]
CGo(c, label) == cpc' = [cpc EXCEPT ![c] = label]
-----------------------------------------------------------------------------
(* Worker::routine. *)
Pop(w) ==
  /\ doing' = [doing EXCEPT ![w] = Head(tasks[w])]
  /\ tasks' = [tasks EXCEPT ![w] = Tail(@)]
  /\ WGo(w, "run")

\* The queue has a task: it is taken as it is, with the busy bit as it is.
Continue(w) ==
  /\ wpc[w] = "top" /\ tasks[w] # <<>>
  /\ Pop(w)
  /\ UNCHANGED <<busy_bits, stop, noticed, callvars, dpc, memory, settled>>

\* The thread returns: pl_thread_data gives its blocks back.
Exit(w) ==
  /\ WGo(w, "exit")
  /\ heap' = heap \ {v_pl[w][i] : i \in DOMAIN v_pl[w]}
  /\ v_pl' = [v_pl EXCEPT ![w] = <<>>]

\* It has none: the bit is cleared, and the wait begins unless stop is set.
Idle(w) ==
  /\ wpc[w] = "top" /\ tasks[w] = <<>>
  /\ busy_bits' = busy_bits \ {w}
  /\ settled' = settled \cup {w}
  /\ \/ stop[w] /\ Exit(w)
     \/ ~stop[w] /\ WGo(w, "wait") /\ UNCHANGED memory
  /\ UNCHANGED <<tasks, stop, noticed, doing, callvars, dpc>>

\* Fault: the bit is not set again.
WakeQuiet(w) ==
  /\ wpc[w] = "wait"
  /\ noticed' = noticed \ {w}
  /\ \/ tasks[w] # <<>> /\ Pop(w) /\ UNCHANGED memory
     \/ stop[w] /\ tasks[w] = <<>> /\ Exit(w) /\ UNCHANGED <<tasks, doing>>
  /\ UNCHANGED <<busy_bits, stop, callvars, dpc, settled>>

\* Fault: a worker that is told to stop leaves what it has.
WakeStops(w) ==
  /\ wpc[w] = "wait"
  /\ noticed' = noticed \ {w}
  /\ \/ /\ stop[w]
        /\ Exit(w)
        /\ UNCHANGED <<busy_bits, tasks, doing>>
     \/ /\ ~stop[w] /\ tasks[w] # <<>>
        /\ busy_bits' = busy_bits \cup {w}
        /\ Pop(w)
        /\ UNCHANGED memory
     \/ /\ ~stop[w] /\ tasks[w] = <<>>
        /\ UNCHANGED <<busy_bits, tasks, doing, wpc, memory>>
  /\ UNCHANGED <<stop, callvars, dpc, settled>>

\* The wait ends, by a notice or by itself, and the predicate is looked at.
Wake(w) ==
  /\ wpc[w] = "wait"
  /\ noticed' = noticed \ {w}
  /\ \/ /\ tasks[w] # <<>>
        /\ busy_bits' = busy_bits \cup {w}
        /\ Pop(w)
        /\ UNCHANGED memory
     \/ /\ stop[w] /\ tasks[w] = <<>>
        /\ Exit(w)
        /\ UNCHANGED <<busy_bits, tasks, doing>>
     \/ /\ ~stop[w] /\ tasks[w] = <<>>
        /\ UNCHANGED <<busy_bits, tasks, doing, wpc, memory>>
  /\ UNCHANGED <<stop, callvars, dpc, settled>>

\* Fault: the task is deleted and its memory forgotten.
FinishLeaks(w) ==
  /\ wpc[w] = "run" /\ cpc[w] = "idle"
  /\ doing' = [doing EXCEPT ![w] = NoTask]
  /\ WGo(w, "top")
  /\ UNCHANGED <<busy_bits, tasks, stop, noticed, callvars, dpc, v_pl, heap, settled>>

\* (*task)() returns, delete task: the block goes to this thread's list.
Finish(w) ==
  /\ wpc[w] = "run" /\ cpc[w] = "idle"
  /\ doing' = [doing EXCEPT ![w] = NoTask]
  /\ v_pl' = [v_pl EXCEPT ![w] = Append(@, doing[w][2])]
  /\ WGo(w, "top")
  /\ UNCHANGED <<busy_bits, tasks, stop, noticed, callvars, dpc, heap, settled>>
-----------------------------------------------------------------------------
\* A client, or the task that a worker runs, makes a call.
BeginCall(c, w) ==
  /\ cpc[c] = "idle" /\ (c \in Workers => wpc[c] = "run")
  /\ dpc[1] = 0 /\ dpc[2] # "gone"
  /\ sent + refused + Cardinality({d \in Callers : cpc[d] \in {"new", "push"}}) < MaxTasks
  /\ tid' = [tid EXCEPT ![c] = w]
  /\ CGo(c, "new")
  /\ UNCHANGED <<busy_bits, tasks, stop, wpc, noticed, doing, block, dpc,
                 memory, sent, refused, settled>>

Unused == Workers \ busy_bits

(* execute: the least clear bit, or any worker if there is none ... *)
Execute(c) ==
  \E w \in Workers :
    /\ Unused # {} => w \in Unused /\ \A v \in Unused : w <= v
    /\ BeginCall(c, w)

(* ... execute_forward: the worker that the caller names ... *)
ExecuteForward(c) == \E w \in Workers : BeginCall(c, w)

\* Fault: the block stays in the list.
NewTaskKeeps(c) ==
  /\ cpc[c] = "new"
  /\ block' = [block EXCEPT ![c] = IF v_pl[c] # <<>> THEN v_pl[c][Len(v_pl[c])]
                                   ELSE CHOOSE b \in Blocks : b \notin heap]
  /\ heap' = heap \cup {block'[c]}
  /\ CGo(c, "push")
  /\ UNCHANGED <<busy_bits, tasks, stop, wpc, noticed, doing, tid, dpc, v_pl,
                 sent, refused, settled>>

\* ... new PTask: the back of this thread's list, or memory from the heap ...
NewTask(c) ==
  /\ cpc[c] = "new"
  /\ \/ /\ v_pl[c] # <<>>
        /\ block' = [block EXCEPT ![c] = v_pl[c][Len(v_pl[c])]]
        /\ v_pl' = [v_pl EXCEPT ![c] = SubSeq(@, 1, Len(@) - 1)]
        /\ heap' = heap
     \/ /\ v_pl[c] = <<>>
        /\ block' = [block EXCEPT ![c] = CHOOSE b \in Blocks : b \notin heap]
        /\ heap' = heap \cup {block'[c]}
        /\ v_pl' = v_pl
  /\ CGo(c, "push")
  /\ UNCHANGED <<busy_bits, tasks, stop, wpc, noticed, doing, tid, dpc, sent, refused, settled>>

\* ... with the worker's mutex: the task is appended ...
Push(c) ==
  /\ cpc[c] = "push" /\ ~stop[tid[c]]
  /\ tasks' = [tasks EXCEPT ![tid[c]] = Append(@, <<sent, block[c]>>)]
  /\ sent' = sent + 1
  /\ block' = [block EXCEPT ![c] = None]
  /\ CGo(c, "notify")
  /\ UNCHANGED <<busy_bits, stop, wpc, noticed, doing, tid, dpc, memory, refused, settled>>

\* ... or refused: nobody deletes the task, its block is lost.
Throw(c) ==
  /\ cpc[c] = "push" /\ stop[tid[c]]
  /\ block' = [block EXCEPT ![c] = None]
  /\ tid' = [tid EXCEPT ![c] = None]
  /\ CGo(c, "idle")
  /\ refused' = refused + 1
  /\ UNCHANGED <<busy_bits, tasks, stop, wpc, noticed, doing, dpc, memory, sent, settled>>

\* ... notify_one: whoever waits is woken, otherwise nothing happens.
Notify(c) ==
  /\ cpc[c] = "notify"
  /\ noticed' = IF wpc[tid[c]] = "wait" THEN noticed \cup {tid[c]} ELSE noticed
  /\ tid' = [tid EXCEPT ![c] = None]
  /\ CGo(c, "idle")
  /\ UNCHANGED <<busy_bits, tasks, stop, wpc, doing, block, dpc, memory, sent, refused, settled>>
-----------------------------------------------------------------------------
(* ~Worker, of one worker after the other. *)
Stop(w) ==
  /\ dpc = <<w, "lock">>
  /\ stop' = [stop EXCEPT ![w] = TRUE]
  /\ dpc' = <<w, "notify">>
  /\ UNCHANGED <<busy_bits, tasks, wpc, noticed, doing, callvars, memory, settled>>

StopNotify(w) ==
  /\ dpc = <<w, "notify">>
  /\ noticed' = IF wpc[w] = "wait" THEN noticed \cup {w} ELSE noticed
  /\ dpc' = <<w, "join">>
  /\ UNCHANGED <<busy_bits, tasks, stop, wpc, doing, callvars, memory, settled>>

JoinWorker(w) ==
  /\ dpc = <<w, "join">>
  /\ wpc[w] = "exit"
  /\ \A c \in Callers : cpc[c] = "idle"
  /\ dpc' = IF Last(w) THEN <<w, "gone">> ELSE <<w + 1, "lock">>
  /\ UNCHANGED <<busy_bits, tasks, stop, wpc, noticed, doing, callvars, memory, settled>>

WorkerStep(w) == Continue(w) \/ Idle(w) \/ Finish(w) \/ (w \in noticed /\ Wake(w))
CallStep(c) == NewTask(c) \/ Push(c) \/ Throw(c) \/ Notify(c)
OwnerStep == \E w \in Workers : Stop(w) \/ StopNotify(w) \/ JoinWorker(w)

PoolNext ==
  \/ \E w \in Workers : Continue(w) \/ Idle(w) \/ Finish(w) \/ Wake(w)
  \/ \E c \in Callers : Execute(c) \/ ExecuteForward(c) \/ CallStep(c)
  \/ OwnerStep

PoolSpec == PoolInit /\ [][PoolNext]_poolvars

\* Tasks end, calls that have begun return, nobody has to destroy the pool.  A
\* wait need not end unless it is noticed.
PoolFairness ==
  /\ \A w \in Workers : WF_poolvars(WorkerStep(w))
  /\ \A c \in Callers : WF_poolvars(CallStep(c))
-----------------------------------------------------------------------------
Lane == INSTANCE TaskLanes WITH
  Lanes <- Workers,
  lane <- [w \in Workers |-> [i \in DOMAIN tasks[w] |-> tasks[w][i][1]]],
  doing <- [w \in Workers |-> IF doing[w] = NoTask THEN NoTask ELSE doing[w][1]],
  closed <- {w \in Workers : stop[w]},
  accepted <- sent

\* A task that execute has accepted is run, once, in its worker's order, however
\* the notices, the waits and the destruction of the pool overlap (lines 42-86).
PoolImplementsLanes == Lane!LanesSpec

\* Once a worker has waited its bit tells the truth: it is clear while the worker
\* waits, and from there on only while it exits (lines 65-72).
BitsAreHonest ==
  \A w \in settled : w \in busy_bits <=> wpc[w] \notin {"wait", "exit"}

Queued == UNION {{tasks[w][i][2] : i \in DOMAIN tasks[w]} : w \in Workers}
InHand == ({block[c] : c \in Callers} \ {None})
            \cup {doing[w][2] : w \in {v \in Workers : doing[v] # NoTask}}
Listed(c) == {v_pl[c][i] : i \in DOMAIN v_pl[c]}

OneOwner ==
  /\ Queued \cap InHand = {}
  /\ \A c \in Callers : Listed(c) \cap (Queued \cup InHand) = {}
  /\ \A c, d \in Callers : c # d => Listed(c) \cap Listed(d) = {}
  /\ Queued \cup InHand \cup UNION {Listed(c) : c \in Callers} \subseteq heap

GivenBack == dpc[2] = "gone" => Cardinality(heap) = refused

\* A block is in one queue, one hand or one thread's list, though it is allocated
\* by one thread and deleted by another, and what the lists hold is not lost (lines
\* 26-50 of pl_allocator.h).  When the pool is gone its memory has been given back,
\* but for the block of each call that was refused: execute_forward throws without
\* deleting the task.
BlocksAreAccounted == OneOwner /\ GivenBack
=============================================================================
