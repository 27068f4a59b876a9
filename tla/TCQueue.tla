------------------------------- MODULE TCQueue -------------------------------
(***************************************************************************)
(* TCQueue of tcq.h: concurrent callers of task_enqueue() are combined     *)
(* into batches.  The caller that takes en_lck leads: it opens a queue,    *)
(* waits until the queue is full or the time is over, closes it, waits for *)
(* the others with the lock pair wlck.lock(), wlck.unlock(), and hands the *)
(* batch over.  The others follow: they put their task in the open queue   *)
(* under the shared side of wlck.  get() of the leader's future answers    *)
(* the whole batch; get() of a follower's future waits for that.           *)
(*                                                                         *)
(* wlck is the lock of SharedMutex: every step of it is an action of that  *)
(* module.  A task is named by its caller and the number of the call; its  *)
(* name is its uid, so uids are unique, as callers have to see to.         *)
(***************************************************************************)
EXTENDS Integers, Sequences

CONSTANTS
  Threads,
  Half,       \* half the values of wlck: 2^7
  MaxCount,   \* max_count
  VerMod,     \* values of queue_ver: 2^8
  MaxCalls,   \* the most calls of task_enqueue a thread makes
  Workloads,  \* how many calls each thread makes, one function each
  None        \* an element of a vector that nothing was moved to

ASSUME QueueAssumption ==
  /\ MaxCount \in Nat \ {0}
  /\ VerMod \in Nat \ {0}
  /\ MaxCalls \in Nat
  /\ Workloads \subseteq [Threads -> 0 .. MaxCalls]
  /\ None \notin Threads \X (1 .. MaxCalls)

VARIABLES
  en_lck,          \* whether some thread leads
  wlck, wpc,       \* the shared lock: its word, and where each thread is in it
  queue_valid,     \* followers may enter
  queue_ver,       \* number of the queue
  queue_cnt,       \* places asked for
  queue_try_cnt,   \* places filled
  uid_queue,       \* the tasks; task_queue moves along with it
  pro_queue,       \* the promises of the tasks
  pc,              \* where each thread is
  todo,            \* calls of task_enqueue each thread has yet to begin
  calls,           \* calls it has begun
  gets,            \* futures it has got the result of
  idx,             \* the place it has in the queue
  ver,             \* _ver: the queue that had no place for it
  len,             \* the length of the batch it leads
  fls,             \* the leaders' states: a batch each
  result           \* the uid whose result a promise was given

queue == <<queue_valid, queue_ver, queue_cnt, queue_try_cnt>>
vectors == <<uid_queue, pro_queue>>
locks == <<en_lck, wlck, wpc>>
client == <<todo, calls, gets, fls, result>>
locals == <<idx, ver, len>>
vars == <<locks, queue, vectors, pc, client, locals>>

W == INSTANCE SharedMutex WITH l <- wlck, pc <- wpc

Task == Threads \X (1 .. MaxCalls)
Vector == [i \in 1 .. MaxCount |-> None]
MyTask(t) == <<t, calls[t]>>

Step(t, from, to) == pc[t] = from /\ pc' = [pc EXCEPT ![t] = to]

Init ==
  /\ en_lck = FALSE
  /\ W!Init
  /\ queue_valid = FALSE
  /\ queue_ver \in 0 .. (VerMod - 1)     \* the constructor does not set it
  /\ queue_cnt = 0 /\ queue_try_cnt = 0
  /\ uid_queue = <<>> /\ pro_queue = <<>>
  /\ pc = [t \in Threads |-> "idle"]
  /\ todo \in Workloads
  /\ calls = [t \in Threads |-> 0]
  /\ gets = [t \in Threads |-> 0]
  /\ idx = [t \in Threads |-> 0]
  /\ ver = [t \in Threads |-> 0]
  /\ len = [t \in Threads |-> 0]
  /\ fls = {}
  /\ result = <<>>

task_enqueue(t) ==
  /\ Step(t, "idle", "try")
  /\ todo[t] > 0
  /\ todo' = [todo EXCEPT ![t] = @ - 1]
  /\ calls' = [calls EXCEPT ![t] = @ + 1]
  /\ UNCHANGED <<locks, queue, vectors, gets, fls, result, locals>>

(* en_lck.try_lock() *)
TryEnLock(t) ==
  /\ Step(t, "try", IF en_lck THEN "check" ELSE "reset")
  /\ en_lck' = TRUE
  /\ UNCHANGED <<wlck, wpc, queue, vectors, client, locals>>
-----------------------------------------------------------------------------
(* The leader opens the queue. *)

ResetCounters(t) ==
  /\ Step(t, "reset", "swap_in")
  /\ queue_cnt' = 0 /\ queue_try_cnt' = 0
  /\ UNCHANGED <<locks, queue_valid, queue_ver, vectors, client, locals>>

SwapIn(t) ==
  /\ Step(t, "swap_in", "version")
  /\ uid_queue' = Vector /\ pro_queue' = Vector
  /\ UNCHANGED <<locks, queue, client, locals>>

\* Fault: the queues have no number.
NextVersionNot(t) ==
  /\ Step(t, "version", "lead")
  /\ UNCHANGED <<locks, queue, vectors, client, locals>>

NextVersion(t) ==
  /\ Step(t, "version", "lead")
  /\ queue_ver' = (queue_ver + 1) % VerMod
  /\ UNCHANGED <<locks, queue_valid, queue_cnt, queue_try_cnt, vectors, client, locals>>

\* Fault: counts the places that are filled, not those asked for.
enqueue_ready_filled(t) ==
  /\ idx' = [idx EXCEPT ![t] = IF queue_try_cnt >= MaxCount THEN -1 ELSE queue_try_cnt]
  /\ queue_cnt' = queue_cnt + 1
  /\ UNCHANGED <<locks, queue_valid, queue_ver, queue_try_cnt, vectors, client, ver, len>>

enqueue_ready(t) ==
  /\ idx' = [idx EXCEPT ![t] = IF queue_cnt >= MaxCount THEN -1 ELSE queue_cnt]
  /\ queue_cnt' = queue_cnt + 1
  /\ UNCHANGED <<locks, queue_valid, queue_ver, queue_try_cnt, vectors, client, ver, len>>

(* The leader takes the first place itself ... *)
Lead(t) == Step(t, "lead", "open") /\ enqueue_ready(t)

(* ... before it lets the others in. *)
Open(t) ==
  /\ Step(t, "open", "put_uid")
  /\ queue_valid' = TRUE
  /\ UNCHANGED <<locks, queue_ver, queue_cnt, queue_try_cnt, vectors, client, locals>>
-----------------------------------------------------------------------------
(* Leader and followers put their task in their place. *)

PutUid(t) ==
  /\ Step(t, "put_uid", "put_pro")
  /\ uid_queue' = [uid_queue EXCEPT ![idx[t] + 1] = MyTask(t)]
  /\ UNCHANGED <<locks, queue, pro_queue, client, locals>>

PutPromise(t) ==
  /\ Step(t, "put_pro", "confirm")
  /\ pro_queue' = [pro_queue EXCEPT ![idx[t] + 1] = MyTask(t)]
  /\ UNCHANGED <<locks, queue, uid_queue, client, locals>>

enqueue_confirm(t) ==
  /\ Step(t, "confirm", IF wpc[t] = "shared" THEN "leave" ELSE "poll")
  /\ queue_try_cnt' = queue_try_cnt + 1
  /\ UNCHANGED <<locks, queue_valid, queue_ver, queue_cnt, vectors, client, locals>>
-----------------------------------------------------------------------------
(* The leader closes the queue. *)

(* The queue is full, or the time is over, which may be at any moment. *)
Poll(t) ==
  /\ Step(t, "poll", "close")
  /\ UNCHANGED <<locks, queue, vectors, client, locals>>

Close(t) ==
  /\ Step(t, "close", "exclude")
  /\ queue_valid' = FALSE
  /\ UNCHANGED <<locks, queue_ver, queue_cnt, queue_try_cnt, vectors, client, locals>>

\* Fault: the leader does not wait for the followers.
ExcludeNot(t) ==
  /\ Step(t, "exclude", "count")
  /\ UNCHANGED <<locks, queue, vectors, client, locals>>

(* wlck.lock(): the try that wins *)
Exclude(t) ==
  /\ Step(t, "exclude", "readmit")
  /\ W!try_lock(t)
  /\ UNCHANGED <<en_lck, queue, vectors, client, locals>>

Readmit(t) ==
  /\ Step(t, "readmit", "count")
  /\ W!unlock(t)
  /\ UNCHANGED <<en_lck, queue, vectors, client, locals>>

Count(t) ==
  /\ Step(t, "count", "swap_out")
  /\ len' = [len EXCEPT ![t] = queue_try_cnt]
  /\ UNCHANGED <<locks, queue, vectors, client, idx, ver>>

(* The leader takes the vectors out, as long as the batch (resize). *)
SwapOut(t) ==
  /\ Step(t, "swap_out", "hand_over")
  /\ fls' = fls \cup {[leader |-> MyTask(t),
                       uids |-> SubSeq(uid_queue, 1, len[t]),
                       pros |-> SubSeq(pro_queue, 1, len[t])]}
  /\ uid_queue' = <<>> /\ pro_queue' = <<>>
  /\ UNCHANGED <<locks, queue, todo, calls, gets, result, locals>>

(* en_lck.unlock().  hook_batch_collection and uid_map, which come after it, *)
(* touch only what is the leader's own.                                      *)
HandOver(t) ==
  /\ Step(t, "hand_over", "idle")
  /\ en_lck' = FALSE
  /\ UNCHANGED <<wlck, wpc, queue, vectors, client, locals>>
-----------------------------------------------------------------------------
(* The followers. *)

Check(t) ==
  /\ Step(t, "check", IF queue_valid THEN "share" ELSE "try")
  /\ UNCHANGED <<locks, queue, vectors, client, locals>>

Share(t) ==
  /\ Step(t, "share", "recheck")
  /\ W!lock_shared(t)
  /\ UNCHANGED <<en_lck, queue, vectors, client, locals>>

SpinShared(t) ==
  /\ W!SpinShared(t)
  /\ UNCHANGED <<en_lck, queue, vectors, pc, client, locals>>

\* Fault: what was seen without the lock is not looked at again under it.
RecheckNot(t) ==
  /\ wpc[t] = "shared"
  /\ Step(t, "recheck", "ready")
  /\ UNCHANGED <<locks, queue, vectors, client, locals>>

Recheck(t) ==
  /\ wpc[t] = "shared"
  /\ Step(t, "recheck", IF queue_valid THEN "ready" ELSE "turn_back")
  /\ UNCHANGED <<locks, queue, vectors, client, locals>>

Unshare(t, from, to) ==
  /\ Step(t, from, to)
  /\ W!unlock_shared(t)
  /\ UNCHANGED <<en_lck, queue, vectors, client, locals>>

TurnBack(t) == Unshare(t, "turn_back", "try")

Ready(t) ==
  /\ Step(t, "ready", IF queue_cnt >= MaxCount THEN "refused" ELSE "put_uid")
  /\ enqueue_ready(t)

Refused(t) ==
  /\ Step(t, "refused", "go_wait")
  /\ ver' = [ver EXCEPT ![t] = queue_ver]
  /\ UNCHANGED <<locks, queue, vectors, client, idx, len>>

\* Fault: waits with the lock in its hands.
GoWaitLocked(t) ==
  /\ Step(t, "go_wait", "wait")
  /\ UNCHANGED <<locks, queue, vectors, client, locals>>

GoWait(t) == Unshare(t, "go_wait", "wait")

(* The queue has expired, or is another one by now. *)
Expired(t) ==
  /\ Step(t, "wait", "try")
  /\ ~queue_valid \/ ver[t] # queue_ver
  /\ UNCHANGED <<locks, queue, vectors, client, locals>>

Leave(t) == Unshare(t, "leave", "idle")
-----------------------------------------------------------------------------
(* The futures.  A thread gets its results in the order of its calls. *)

get(t) ==
  /\ Step(t, "idle", "get")
  /\ gets[t] < calls[t]
  /\ UNCHANGED <<locks, queue, vectors, client, locals>>

GotResult(t) == gets' = [gets EXCEPT ![t] = @ + 1]

(* The leader asks for the results of its batch, hook_batch_ret_collection, *)
(* which answers every uid, and gives each to the promise that is at the    *)
(* place of the uid.                                                        *)
process_batch(t) ==
  /\ Step(t, "get", "idle")
  /\ \E b \in fls :
       /\ b.leader = <<t, gets[t] + 1>>
       /\ result' = [k \in DOMAIN result \cup {b.pros[i] : i \in DOMAIN b.pros} |->
                       IF \E i \in DOMAIN b.pros : b.pros[i] = k
                         THEN b.uids[CHOOSE i \in DOMAIN b.pros : b.pros[i] = k]
                         ELSE result[k]]
  /\ GotResult(t)
  /\ UNCHANGED <<locks, queue, vectors, todo, calls, fls, locals>>

(* A follower waits until its promise is kept. *)
GetFollower(t) ==
  /\ Step(t, "get", "idle")
  /\ <<t, gets[t] + 1>> \in DOMAIN result
  /\ \A b \in fls : b.leader # <<t, gets[t] + 1>>
  /\ GotResult(t)
  /\ UNCHANGED <<locks, queue, vectors, todo, calls, fls, result, locals>>
-----------------------------------------------------------------------------
LeaderStep(t) ==
  \/ ResetCounters(t) \/ SwapIn(t) \/ NextVersion(t) \/ Lead(t) \/ Open(t)
  \/ Poll(t) \/ Close(t) \/ Exclude(t) \/ Readmit(t)
  \/ Count(t) \/ SwapOut(t) \/ HandOver(t)

FollowerStep(t) ==
  \/ Check(t) \/ Share(t) \/ SpinShared(t) \/ Recheck(t) \/ TurnBack(t)
  \/ Ready(t) \/ Refused(t) \/ GoWait(t) \/ Expired(t) \/ Leave(t)

Continue(t) ==
  \/ TryEnLock(t) \/ LeaderStep(t) \/ FollowerStep(t)
  \/ PutUid(t) \/ PutPromise(t) \/ enqueue_confirm(t)
  \/ process_batch(t) \/ GetFollower(t)

(* Every thread has got the results of all its calls. *)
Finished ==
  /\ \A t \in Threads : pc[t] = "idle" /\ todo[t] = 0 /\ gets[t] = calls[t]
  /\ UNCHANGED vars

Next ==
  \/ \E t \in Threads : task_enqueue(t) \/ get(t) \/ Continue(t)
  \/ Finished

Spec == Init /\ [][Next]_vars

\* Threads that yield are scheduled again, the time of the leader passes, and a
\* caller gets the results of its calls.
FairSpec == Spec /\ \A t \in Threads : WF_vars(get(t) \/ Continue(t))

-----------------------------------------------------------------------------
TypeOK ==
  /\ en_lck \in BOOLEAN
  /\ queue_valid \in BOOLEAN
  /\ queue_ver \in 0 .. (VerMod - 1)
  /\ queue_cnt \in Nat /\ queue_try_cnt \in Nat
  /\ \A v \in {uid_queue, pro_queue} : v \in Seq(Task \cup {None})
  /\ pc \in [Threads -> STRING]
  /\ todo \in [Threads -> 0 .. MaxCalls]
  /\ calls \in [Threads -> Nat] /\ gets \in [Threads -> Nat]
  /\ idx \in [Threads -> Nat \cup {-1}]
  /\ ver \in [Threads -> 0 .. (VerMod - 1)]
  /\ len \in [Threads -> Nat]
  /\ \A b \in fls : DOMAIN b.uids = DOMAIN b.pros

\* "We can hold queues thread-safely until `en_lck` unlocking" (line 227): who is
\* about to put a task in its place finds the vectors of an open queue, and a
\* place nobody else has filled.  A follower looks at queue_valid, is held up,
\* and comes back when the queue it saw is closed, or another one.
PutsInOwnPlace ==
  \A t \in Threads :
    /\ pc[t] = "put_uid" =>
         idx[t] + 1 \in DOMAIN uid_queue /\ uid_queue[idx[t] + 1] = None
    /\ pc[t] = "put_pro" =>
         idx[t] + 1 \in DOMAIN pro_queue /\ pro_queue[idx[t] + 1] = None

\* Everybody's result is the result of its own task: uid and promise of a task
\* are moved to the vectors in two steps and still meet in one place, whatever
\* is put next to them meanwhile (lines 207-209, 279-281).
ResultIsOwn ==
  /\ \A k \in DOMAIN result : result[k] = k
  /\ \A b \in fls : b.uids = b.pros

\* "There is a possibility that the queue will fail immediately after being
\* created by a new leader (ABA problem), so add `queue_ver` to prevent this
\* problem" (lines 268-270): a follower that goes on waiting waits for a queue
\* that is full, not beside one that has room for it.
WaitsForFullQueue ==
  \A t \in Threads :
    pc[t] = "wait" /\ queue_valid /\ ver[t] = queue_ver => queue_cnt >= MaxCount

\* The task that has the i-th place of the queue that is open, from the moment
\* the place is given to it.
Holder(i) ==
  IF uid_queue[i] # None
    THEN uid_queue[i]
    ELSE MyTask(CHOOSE t \in Threads : pc[t] \in {"open", "put_uid"} /\ idx[t] = i - 1)

Gathered ==
  IF uid_queue = <<>> THEN <<>>
  ELSE [i \in 1 .. (IF queue_cnt < MaxCount THEN queue_cnt ELSE MaxCount) |-> Holder(i)]

B == INSTANCE Batching WITH
       open <- Gathered,
       batches <- {b.uids : b \in fls},
       answered <- DOMAIN result

\* Each task is in one batch, at the place it was given, and no batch is handed
\* over before all who had a place in it have filled it.
ImplementsBatching == B!Spec

\* Every call of task_enqueue and every get ends, however the calls fall into
\* batches: no circle of leaders and followers waits for one another's results,
\* as long as each thread gets them in the order of its calls.
EveryCallReturns ==
  \A t \in Threads : pc[t] # "idle" ~> pc[t] = "idle"
=============================================================================
