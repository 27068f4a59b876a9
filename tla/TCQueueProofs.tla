---------------------------- MODULE TCQueueProofs ----------------------------
(***************************************************************************)
(* TCQueue gives everybody the result of its own task and implements       *)
(* Batching, for any number of threads that the lock wlck can count, of    *)
(* calls and of places.  The invariant says who leads, that whoever is     *)
(* inside the open queue keeps its leader from going past wlck.lock(),     *)
(* that the places of those who have yet to fill them are their own and    *)
(* still empty, that the leader counts just the places that were given,    *)
(* and that a task that waits for a place has not had one.                 *)
(***************************************************************************)
EXTENDS TCQueue, FiniteSetTheorems, SequenceTheorems, TLAPS

\* The lock, with what is proved about it.
WP == INSTANCE SharedMutexProofs WITH l <- wlck, pc <- wpc

Placed == {"put_uid", "put_pro", "confirm"}
Preparing == {"reset", "swap_in", "version", "lead", "open"}
Gathering == {"poll", "close", "exclude"}
Finishing == {"readmit", "count", "swap_out", "hand_over"}
Sharing == {"turn_back", "ready", "refused", "go_wait", "leave"}
Outside == {"idle", "try", "check", "share", "wait", "get"}
Labels == Placed \cup Preparing \cup Gathering \cup Finishing \cup Sharing \cup Outside \cup {"recheck"}

Types ==
  /\ en_lck \in BOOLEAN /\ queue_valid \in BOOLEAN
  /\ queue_ver \in 0 .. (VerMod - 1)
  /\ queue_cnt \in Nat /\ queue_try_cnt \in Nat
  /\ pc \in [Threads -> Labels] /\ wpc \in [Threads -> WP!Labels]
  /\ idx \in [Threads -> Int] /\ todo \in [Threads -> Int]
  /\ calls \in [Threads -> Nat] /\ gets \in [Threads -> Nat]
  /\ ver \in [Threads -> Int] /\ len \in [Threads -> Nat]

\* What a thread has of the lock, where it is.
HoldsRight(t) ==
  wpc[t] \in CASE pc[t] \in Placed -> {"idle", "shared"}
               [] pc[t] = "recheck" -> {"lock_shared", "shared"}
               [] pc[t] = "readmit" -> {"exclusive"}
               [] pc[t] \in Sharing -> {"shared"}
               [] OTHER -> {"idle"}

Leads(t) == \/ pc[t] \in Preparing \cup Gathering \cup Finishing
            \/ (pc[t] \in Placed /\ wpc[t] # "shared")

\* Inside the open queue: who has found it valid under the shared lock.
Inside(t) == wpc[t] = "shared" /\ pc[t] \in Placed \cup (Sharing \ {"turn_back"})

OneLeader ==
  /\ en_lck <=> \E t \in Threads : Leads(t)
  /\ \A t, u \in Threads : Leads(t) /\ Leads(u) => t = u

\* The queue is open only while its leader gathers, and nobody is inside after that.
LeaderStays ==
  /\ queue_valid => \E u \in Threads : Leads(u) /\ pc[u] \in Placed \cup {"poll", "close"}
  /\ \A t \in Threads : Inside(t) =>
       \E u \in Threads : Leads(u) /\ pc[u] \in Placed \cup Gathering

Roles == (\A t \in Threads : HoldsRight(t)) /\ OneLeader /\ LeaderStays
-----------------------------------------------------------------------------
(* What a step leaves alone. *)

Frame(t) ==
  \A u \in Threads : u # t =>
    /\ pc'[u] = pc[u] /\ wpc'[u] = wpc[u] /\ idx'[u] = idx[u] /\ calls'[u] = calls[u]
    /\ ver'[u] = ver[u] /\ len'[u] = len[u]

Acts(t) == task_enqueue(t) \/ get(t) \/ Continue(t)

LEMMA StepFrame ==
  ASSUME Types, NEW t \in Threads, Acts(t)
  PROVE  Types' /\ Frame(t)
<1>1. MaxCount \in Nat /\ VerMod \in Nat /\ VerMod > 0
  BY QueueAssumption
<1> USE DEF Types, Frame, Labels, WP!Labels, Placed, Preparing, Gathering, Finishing, Sharing, Outside,
            locks, queue, vectors, client, locals, Step
<1>2. CASE task_enqueue(t)
  BY <1>2 DEF task_enqueue
<1>3. CASE get(t) \/ TryEnLock(t)
  BY <1>3 DEF get, TryEnLock
<1>4. CASE ResetCounters(t)
  BY <1>4 DEF ResetCounters
<1>5. CASE SwapIn(t)
  BY <1>5 DEF SwapIn
<1>6. CASE Open(t)
  BY <1>6 DEF Open
<1>7. CASE NextVersion(t)
  BY <1>1, <1>7 DEF NextVersion
<1>8. CASE Lead(t) \/ Ready(t)
  BY <1>1, <1>8 DEF Lead, Ready, enqueue_ready
<1>9. CASE PutUid(t) \/ PutPromise(t) \/ enqueue_confirm(t)
  <2>1. CASE PutUid(t)
    BY <2>1 DEF PutUid
  <2>2. CASE PutPromise(t)
    BY <2>2 DEF PutPromise
  <2>3. CASE enqueue_confirm(t)
    BY <2>3 DEF enqueue_confirm
  <2> QED
    BY <1>9, <2>1, <2>2, <2>3
<1>10. CASE Poll(t) \/ Close(t) \/ Count(t) \/ SwapOut(t) \/ HandOver(t)
  <2>1. CASE Poll(t)
    BY <2>1 DEF Poll
  <2>2. CASE Close(t)
    BY <2>2 DEF Close
  <2>3. CASE Count(t)
    BY <2>3 DEF Count
  <2>4. CASE SwapOut(t)
    BY <2>4 DEF SwapOut
  <2>5. CASE HandOver(t)
    BY <2>5 DEF HandOver
  <2> QED
    BY <1>10, <2>1, <2>2, <2>3, <2>4, <2>5
<1>11. CASE Exclude(t) \/ Readmit(t)
  BY <1>11 DEF Exclude, Readmit, W!try_lock, W!unlock, W!Goto
<1>12. CASE Check(t) \/ Recheck(t) \/ Refused(t) \/ Expired(t)
  <2>1. CASE Check(t)
    BY <2>1 DEF Check
  <2>2. CASE Recheck(t)
    BY <2>2 DEF Recheck
  <2>3. CASE Refused(t)
    BY <2>3 DEF Refused
  <2>4. CASE Expired(t)
    BY <2>4 DEF Expired
  <2> QED
    BY <1>12, <2>1, <2>2, <2>3, <2>4
<1>13. CASE Share(t) \/ SpinShared(t)
  BY <1>13 DEF Share, SpinShared, W!lock_shared, W!SpinShared, W!Goto
<1>14. CASE TurnBack(t) \/ GoWait(t) \/ Leave(t)
  BY <1>14 DEF TurnBack, GoWait, Leave, Unshare, W!unlock_shared, W!Goto
<1>15. CASE process_batch(t) \/ GetFollower(t)
  BY <1>15 DEF process_batch, GetFollower, GotResult
<1> QED
  BY <1>2, <1>4, <1>8, <1>9, <1>10, <1>11, <1>12, <1>13, <1>14, <1>15, <1>3, <1>7, <1>5, <1>6
     DEF Acts, Continue, LeaderStep, FollowerStep
-----------------------------------------------------------------------------
(* Who holds the lock, who leads and who is inside. *)

\* Each step is one of the lock's, or leaves the lock alone.
LEMMA StepLock ==
  ASSUME WP!WordAssumption, WP!IInv, NEW t \in Threads, Acts(t)
  PROVE  WP!IInv'
<1>1. WP!Next \/ UNCHANGED WP!vars
  <2> USE DEF WP!vars, WP!Next, locks, Step
  <2>1. CASE task_enqueue(t) \/ get(t) \/ TryEnLock(t)
    BY <2>1 DEF task_enqueue, get, TryEnLock
  <2>2. CASE ResetCounters(t) \/ SwapIn(t) \/ NextVersion(t) \/ Open(t) \/ Lead(t) \/ Ready(t)
    BY <2>2 DEF ResetCounters, SwapIn, NextVersion, Open, Lead, Ready, enqueue_ready
  <2>3. CASE PutUid(t) \/ PutPromise(t) \/ enqueue_confirm(t)
    BY <2>3 DEF PutUid, PutPromise, enqueue_confirm
  <2>4. CASE Poll(t) \/ Close(t) \/ Count(t) \/ SwapOut(t) \/ HandOver(t)
    BY <2>4 DEF Poll, Close, Count, SwapOut, HandOver
  <2>5. CASE Check(t) \/ Recheck(t) \/ Refused(t) \/ Expired(t)
    BY <2>5 DEF Check, Recheck, Refused, Expired
  <2>6. CASE process_batch(t) \/ GetFollower(t)
    BY <2>6 DEF process_batch, GetFollower
  <2>7. CASE Exclude(t)
    <3>1. WP!try_lock(t)
      BY <2>7 DEF Exclude, W!try_lock, WP!try_lock, W!Goto, WP!Goto
    <3> QED
      BY <3>1
  <2>8. CASE Readmit(t)
    <3>1. WP!unlock(t)
      BY <2>8 DEF Readmit, W!unlock, WP!unlock, W!Goto, WP!Goto, W!At, WP!At, W!FetchXor1,
                  WP!FetchXor1, W!Odd, WP!Odd
    <3> QED
      BY <3>1
  <2>9. CASE Share(t)
    <3>1. WP!lock_shared(t)
      BY <2>9 DEF Share, W!lock_shared, WP!lock_shared, W!Goto, WP!Goto, W!At, WP!At, W!FetchAdd,
                  WP!FetchAdd, W!Odd, WP!Odd, W!Mod, WP!Mod
    <3> QED
      BY <3>1
  <2>10. CASE SpinShared(t)
    <3>1. WP!SpinShared(t)
      BY <2>10 DEF SpinShared, W!SpinShared, WP!SpinShared, W!Goto, WP!Goto, W!At, WP!At, W!Odd, WP!Odd
    <3> QED
      BY <3>1
  <2>11. CASE TurnBack(t) \/ GoWait(t) \/ Leave(t)
    <3>1. WP!unlock_shared(t)
      BY <2>11 DEF TurnBack, GoWait, Leave, Unshare, W!unlock_shared, WP!unlock_shared, W!Goto,
                   WP!Goto, W!At, WP!At, W!FetchSub, WP!FetchSub, W!Mod, WP!Mod
    <3> QED
      BY <3>1
  <2> QED
    BY <2>1, <2>2, <2>3, <2>4, <2>5, <2>6, <2>7, <2>8, <2>9, <2>10, <2>11
       DEF Acts, Continue, LeaderStep, FollowerStep
<1> QED
  BY <1>1, WP!NextKeeps

\* What the thread that acts does to its role.
BecomesLeader(t) ==
  /\ ~Leads(t) /\ Leads(t)' /\ pc[t] = "try"
  /\ ~en_lck /\ en_lck' /\ queue_valid' = queue_valid

StopsLeading(t) ==
  /\ Leads(t) /\ ~Leads(t)' /\ pc[t] = "hand_over"
  /\ ~en_lck' /\ queue_valid' = queue_valid /\ ~Inside(t)'

\* The leader goes on gathering, or has the lock for itself.
LeadsOn(t) ==
  /\ Leads(t) /\ Leads(t)' /\ en_lck' = en_lck
  /\ (queue_valid' => \/ pc'[t] \in Placed \cup {"poll", "close"}
                      \/ queue_valid /\ pc[t] \notin Placed \cup {"poll", "close"})
  /\ (pc[t] \in Placed \cup Gathering => \/ pc'[t] \in Placed \cup Gathering
                                         \/ wpc'[t] = "exclusive")

Follows(t) ==
  /\ ~Leads(t) /\ ~Leads(t)' /\ en_lck' = en_lck /\ queue_valid' = queue_valid
  /\ (Inside(t)' => Inside(t) \/ queue_valid)

LEMMA StepRole ==
  ASSUME Types, NEW t \in Threads, HoldsRight(t), Acts(t)
  PROVE  /\ HoldsRight(t)'
         /\ BecomesLeader(t) \/ StopsLeading(t) \/ LeadsOn(t) \/ Follows(t)
<1>1. pc[t] \in Labels /\ pc \in [Threads -> Labels] /\ wpc \in [Threads -> WP!Labels]
  BY DEF Types
<1> USE <1>1 DEF HoldsRight, BecomesLeader, StopsLeading, LeadsOn, Follows, Leads, Inside, Labels, Placed,
        Preparing, Gathering, Finishing, Sharing, Outside, locks, queue, Step, WP!Labels
<1>2. CASE task_enqueue(t)
  BY <1>2 DEF task_enqueue
<1>3. CASE get(t)
  BY <1>3 DEF get
<1>4. CASE TryEnLock(t)
  BY <1>4 DEF TryEnLock, Types
<1>5. CASE ResetCounters(t)
  BY <1>5 DEF ResetCounters
<1>6. CASE SwapIn(t)
  BY <1>6 DEF SwapIn
<1>7. CASE NextVersion(t)
  BY <1>7 DEF NextVersion
<1>8. CASE Lead(t)
  BY <1>8 DEF Lead, enqueue_ready
<1>9. CASE Open(t)
  BY <1>9 DEF Open
<1>10. CASE PutUid(t)
  BY <1>10 DEF PutUid
<1>11. CASE PutPromise(t)
  BY <1>11 DEF PutPromise
<1>12. CASE enqueue_confirm(t)
  BY <1>12 DEF enqueue_confirm
<1>13. CASE Poll(t)
  BY <1>13 DEF Poll
<1>14. CASE Close(t)
  BY <1>14 DEF Close
<1>15. CASE Exclude(t)
  BY <1>15 DEF Exclude, W!try_lock, W!Goto
<1>16. CASE Readmit(t)
  BY <1>16 DEF Readmit, W!unlock, W!Goto
<1>17. CASE Count(t)
  BY <1>17 DEF Count
<1>18. CASE SwapOut(t)
  BY <1>18 DEF SwapOut
<1>19. CASE HandOver(t)
  BY <1>19 DEF HandOver
<1>20. CASE Check(t)
  BY <1>20 DEF Check
<1>21. CASE Share(t)
  BY <1>21 DEF Share, W!lock_shared, W!Goto
<1>22. CASE SpinShared(t)
  BY <1>22 DEF SpinShared, W!SpinShared, W!Goto, W!At
<1>23. CASE Recheck(t)
  BY <1>23 DEF Recheck
<1>24. CASE Ready(t)
  BY <1>24 DEF Ready, enqueue_ready
<1>25. CASE Refused(t)
  BY <1>25 DEF Refused
<1>26. CASE Expired(t)
  BY <1>26 DEF Expired
<1>27. CASE TurnBack(t)
  BY <1>27 DEF TurnBack, Unshare, W!unlock_shared, W!Goto
<1>28. CASE GoWait(t)
  BY <1>28 DEF GoWait, Unshare, W!unlock_shared, W!Goto
<1>29. CASE Leave(t)
  BY <1>29 DEF Leave, Unshare, W!unlock_shared, W!Goto
<1>30. CASE process_batch(t)
  BY <1>30 DEF process_batch
<1>31. CASE GetFollower(t)
  BY <1>31 DEF GetFollower
<1> QED
  BY <1>2, <1>3, <1>4, <1>5, <1>6, <1>7, <1>8, <1>9, <1>10, <1>11, <1>12, <1>13, <1>14, <1>15, <1>16,
     <1>17, <1>18, <1>19, <1>20, <1>21, <1>22, <1>23, <1>24, <1>25, <1>26, <1>27, <1>28, <1>29, <1>30, <1>31
     DEF Acts, Continue, LeaderStep, FollowerStep

LEMMA StepRoles ==
  ASSUME WP!WordAssumption, WP!IInv, Types, Roles, NEW t \in Threads, Acts(t)
  PROVE  Roles'
<1>1. Frame(t) /\ wpc' \in [Threads -> WP!Labels]
  BY StepFrame DEF Types
<1>2. \A u \in Threads : u # t => /\ Leads(u)' <=> Leads(u)
                                  /\ Inside(u)' <=> Inside(u)
                                  /\ HoldsRight(u)' <=> HoldsRight(u)
                                  /\ pc'[u] = pc[u] /\ wpc'[u] = wpc[u]
  BY <1>1 DEF Frame, Leads, Inside, HoldsRight
<1>3. HoldsRight(t)' /\ (BecomesLeader(t) \/ StopsLeading(t) \/ LeadsOn(t) \/ Follows(t))
  BY StepRole DEF Roles
<1>4. \A u \in Threads : HoldsRight(u)'
  BY <1>2, <1>3 DEF Roles
\* Who has the lock for itself finds nobody inside.
<1>5. wpc'[t] = "exclusive" => \A u \in Threads : ~Inside(u)'
  <2>1. WP!IInv'
    BY StepLock
  <2> QED
    BY <1>1, <2>1 DEF WP!IInv, WP!Exclusion, WP!Writers, WP!Readers, Inside
<1>6. (en_lck <=> \E u \in Threads : Leads(u)) /\ \A u, v \in Threads : Leads(u) /\ Leads(v) => u = v
  BY DEF Roles, OneLeader
<1>7. OneLeader'
  <2>1. CASE BecomesLeader(t)
    BY <1>2, <1>6, <2>1 DEF BecomesLeader, OneLeader
  <2>2. CASE StopsLeading(t)
    BY <1>2, <1>6, <2>2 DEF StopsLeading, OneLeader
  <2>3. CASE LeadsOn(t)
    BY <1>2, <1>6, <2>3 DEF LeadsOn, OneLeader
  <2>4. CASE Follows(t)
    BY <1>2, <1>6, <2>4 DEF Follows, OneLeader
  <2> QED
    BY <1>3, <2>1, <2>2, <2>3, <2>4
<1>8. /\ queue_valid => \E u \in Threads : Leads(u) /\ pc[u] \in Placed \cup {"poll", "close"}
      /\ \A u \in Threads : Inside(u) => \E v \in Threads : Leads(v) /\ pc[v] \in Placed \cup Gathering
  BY DEF Roles, LeaderStays
<1>9. \A u \in Threads : Leads(u) => ~Inside(u)
  BY DEF Leads, Inside, Preparing, Gathering, Finishing, Sharing, Placed
<1>10. queue_valid' => \E u \in Threads : Leads(u)' /\ pc'[u] \in Placed \cup {"poll", "close"}
  <2> SUFFICES ASSUME queue_valid' PROVE \E u \in Threads : Leads(u)' /\ pc'[u] \in Placed \cup {"poll", "close"}
    OBVIOUS
  <2>1. CASE LeadsOn(t)
    <3>1. CASE pc'[t] \in Placed \cup {"poll", "close"}
      BY <2>1, <3>1 DEF LeadsOn
    <3>2. CASE queue_valid /\ pc[t] \notin Placed \cup {"poll", "close"}
      BY <1>6, <1>8, <2>1, <3>2 DEF LeadsOn
    <3> QED
      BY <2>1, <3>1, <3>2 DEF LeadsOn
  <2>2. CASE BecomesLeader(t) \/ StopsLeading(t) \/ Follows(t)
    <3>1. queue_valid
      BY <2>2 DEF BecomesLeader, StopsLeading, Follows
    <3>2. PICK u \in Threads : Leads(u) /\ pc[u] \in Placed \cup {"poll", "close"}
      BY <1>8, <3>1
    <3>3. u # t
      BY <2>2, <3>2 DEF BecomesLeader, StopsLeading, Follows, Placed
    <3> QED
      BY <1>2, <3>2, <3>3
  <2> QED
    BY <1>3, <2>1, <2>2
<1>11. ASSUME NEW u \in Threads, Inside(u)'
       PROVE  \E v \in Threads : Leads(v)' /\ pc'[v] \in Placed \cup Gathering
  <2>1. wpc'[t] # "exclusive"
    BY <1>5, <1>11
  <2>2. PICK v \in Threads : Leads(v) /\ pc[v] \in Placed \cup Gathering
    <3>1. CASE Inside(u)
      BY <1>8, <3>1
    <3>2. CASE ~Inside(u)
      <4>1. u = t
        BY <1>2, <1>11, <3>2
      <4>2. ~Leads(t)'
        BY <1>11, <4>1 DEF Leads, Inside, Preparing, Gathering, Finishing, Sharing, Placed
      <4>3. queue_valid
        <5>1. CASE StopsLeading(t)
          BY <1>11, <4>1, <5>1 DEF StopsLeading
        <5>2. CASE Follows(t)
          BY <1>11, <3>2, <4>1, <5>2 DEF Follows
        <5> QED
          BY <1>3, <4>2, <5>1, <5>2 DEF BecomesLeader, LeadsOn
      <4> QED
        BY <1>8, <4>3 DEF Gathering
    <3> QED
      BY <3>1, <3>2
  <2>3. CASE v = t
    <3>1. LeadsOn(t)
      BY <1>3, <2>2, <2>3 DEF BecomesLeader, StopsLeading, Follows, Placed, Gathering
    <3> QED
      BY <2>1, <2>2, <2>3, <3>1 DEF LeadsOn
  <2>4. CASE v # t
    BY <1>2, <2>2, <2>4
  <2> QED
    BY <2>3, <2>4
<1> QED
  BY <1>4, <1>7, <1>10, <1>11 DEF Roles, LeaderStays
-----------------------------------------------------------------------------
(* Places in the open queue, and what is in them. *)

Up == {"version", "lead", "open", "readmit", "count", "swap_out"} \cup Placed \cup Gathering
VectorsUp == \E u \in Threads : Leads(u) /\ pc[u] \in Up

IsVector(v) == v = [i \in 1 .. MaxCount |-> v[i]]

HasPlace(t) == pc[t] \in Placed \cup {"open"}

\* What is in a place, until its holder has filled it.
OwnPlace(t) ==
  /\ idx[t] \in 0 .. (MaxCount - 1) /\ idx[t] < queue_cnt
  /\ pc[t] \in {"open", "put_uid"} => uid_queue[idx[t] + 1] = None
  /\ pc[t] \in {"open", "put_uid", "put_pro"} => pro_queue[idx[t] + 1] = None
  /\ pc[t] = "put_pro" => uid_queue[idx[t] + 1] = MyTask(t)

\* Uid and promise meet, but for a holder between its two steps.
Meet(i) ==
  /\ i > queue_cnt => uid_queue[i] = None /\ pro_queue[i] = None
  /\ uid_queue[i] = pro_queue[i] \/ \E t \in Threads : pc[t] = "put_pro" /\ idx[t] + 1 = i

Vectors ==
  VectorsUp => /\ IsVector(uid_queue) /\ IsVector(pro_queue)
               /\ \A i \in 1 .. MaxCount : Meet(i)

Fresh == \A u \in Threads : pc[u] \in {"swap_in", "version", "lead"} => queue_cnt = 0

Places ==
  /\ \A t \in Threads : HasPlace(t) => OwnPlace(t)
  /\ \A t, u \in Threads : t # u /\ HasPlace(t) /\ HasPlace(u) => idx[t] # idx[u]
  /\ Vectors
  /\ Fresh

\* Nobody has a place while the leader prepares or finishes.
LEMMA NoPlaces ==
  ASSUME Roles, NEW u \in Threads, pc[u] \in Finishing \cup {"reset", "swap_in", "version", "lead"}
  PROVE  \A t \in Threads : ~HasPlace(t)
<1> SUFFICES ASSUME NEW t \in Threads, HasPlace(t) PROVE FALSE
  OBVIOUS
<1> USE DEF Preparing, Gathering, Finishing, Sharing, Placed
<1>1. Leads(u) /\ \A v \in Threads : Leads(v) => v = u
  BY DEF Roles, OneLeader, Leads
<1>2. ~Leads(t)
  BY <1>1 DEF HasPlace
<1>3. Inside(t)
  BY <1>2 DEF HasPlace, Leads, Inside
<1>4. PICK v \in Threads : Leads(v) /\ pc[v] \in Placed \cup Gathering
  BY <1>3 DEF Roles, LeaderStays
<1> QED
  BY <1>1, <1>4

\* Whoever has a place, or is about to ask for one, finds the vectors.
LEMMA PlacesFindVectors ==
  ASSUME Roles, NEW t \in Threads, HasPlace(t) \/ pc[t] = "ready"
  PROVE  VectorsUp
<1> USE DEF Up, Preparing, Gathering, Finishing, Sharing, Placed
<1>1. CASE Leads(t)
  BY <1>1 DEF HasPlace, Leads, VectorsUp
<1>2. CASE ~Leads(t)
  <2>1. Inside(t)
    BY <1>2 DEF HasPlace, Leads, Inside, Roles, HoldsRight
  <2> QED
    BY <2>1 DEF Roles, LeaderStays, VectorsUp
<1> QED
  BY <1>1, <1>2

\* Steps that leave the places alone.
Quiet(t) ==
  /\ uid_queue' = uid_queue /\ pro_queue' = pro_queue /\ queue_cnt' = queue_cnt /\ idx' = idx
  /\ pc[t] \notin {"put_uid", "put_pro"} /\ pc'[t] \notin {"put_pro", "confirm"}
  /\ HasPlace(t)' => pc[t] = "open" /\ calls' = calls
  /\ pc[t] = "open" => pc'[t] = "put_uid"
  /\ pc'[t] \in {"swap_in", "version", "lead"} => pc[t] \in {"swap_in", "version", "lead"}
  /\ (Leads(t)' /\ pc'[t] \in Up) <=> (Leads(t) /\ pc[t] \in Up)
  /\ Leads(t)' /\ pc'[t] \in Up \ {"version", "lead"} => pc[t] \in Up \ {"version", "lead"}
  /\ IF pc[t] = "confirm" THEN queue_try_cnt' = queue_try_cnt + 1 /\ ~HasPlace(t)'
                          ELSE queue_try_cnt' = queue_try_cnt /\ (HasPlace(t)' <=> HasPlace(t))
  /\ pc'[t] = "swap_out" => len'[t] = queue_try_cnt /\ queue_try_cnt' = queue_try_cnt
  /\ pc'[t] # "swap_in"

LEMMA QuietKeeps ==
  ASSUME Types, Places, NEW t \in Threads, Frame(t), Quiet(t)
  PROVE  Places'
<1>1. \A u \in Threads : u # t => /\ pc'[u] = pc[u] /\ calls'[u] = calls[u]
                                  /\ Leads(u)' <=> Leads(u)
                                  /\ HasPlace(u)' <=> HasPlace(u)
  BY DEF Frame, Leads, HasPlace
<1>2. HasPlace(t)' => HasPlace(t)
  BY DEF Quiet, HasPlace
<1>3. \A u \in Threads : HasPlace(u)' => OwnPlace(u)'
  <2> SUFFICES ASSUME NEW u \in Threads, HasPlace(u)' PROVE OwnPlace(u)'
    OBVIOUS
  <2>1. OwnPlace(u)
    BY <1>1, <1>2 DEF Places
  <2>2. CASE u = t
    BY <2>1, <2>2 DEF Quiet, OwnPlace
  <2>3. CASE u # t
    BY <1>1, <2>1, <2>3 DEF Quiet, OwnPlace, MyTask
  <2> QED
    BY <2>2, <2>3
<1>4. \A u, v \in Threads : u # v /\ HasPlace(u)' /\ HasPlace(v)' => idx'[u] # idx'[v]
  BY <1>1, <1>2 DEF Quiet, Places
<1>5. Vectors'
  <2> SUFFICES ASSUME VectorsUp'
               PROVE  (IsVector(uid_queue) /\ IsVector(pro_queue) /\ \A i \in 1 .. MaxCount : Meet(i))'
    BY DEF Vectors
  <2>1. VectorsUp
    BY <1>1 DEF Quiet, VectorsUp
  <2>2. IsVector(uid_queue) /\ IsVector(pro_queue) /\ \A i \in 1 .. MaxCount : Meet(i)
    BY <2>1 DEF Places, Vectors
  <2>3. \A u \in Threads : pc'[u] = "put_pro" <=> pc[u] = "put_pro"
    BY <1>1 DEF Quiet
  <2>4. ASSUME NEW i \in 1 .. MaxCount PROVE Meet(i)'
    <3>1. Meet(i)
      BY <2>2
    <3> QED
      BY <2>3, <3>1 DEF Meet, Quiet
  <2> QED
    BY <2>2, <2>4 DEF Quiet, IsVector
<1>6. Fresh'
  BY <1>1 DEF Quiet, Places, Fresh
<1> QED
  BY <1>3, <1>4, <1>5, <1>6 DEF Places

LEMMA QuietSteps ==
  ASSUME Types, NEW t \in Threads, HoldsRight(t), Acts(t)
  PROVE  \/ Quiet(t)
         \/ ResetCounters(t) \/ SwapIn(t) \/ Lead(t) \/ Ready(t) \/ PutUid(t) \/ PutPromise(t) \/ SwapOut(t)
<1>1. /\ pc[t] \in Labels /\ pc \in [Threads -> Labels] /\ wpc \in [Threads -> WP!Labels]
      /\ len \in [Threads -> Nat]
  BY DEF Types
<1> USE <1>1 DEF HoldsRight, Quiet, HasPlace, Leads, Up, Labels, Placed, Preparing, Gathering, Finishing,
        Sharing, Outside, locks, queue, vectors, client, locals, Step
<1>2. CASE task_enqueue(t)
  BY <1>2 DEF task_enqueue
<1>3. CASE get(t)
  BY <1>3 DEF get
<1>4. CASE TryEnLock(t)
  BY <1>4 DEF TryEnLock
<1>5. CASE NextVersion(t)
  BY <1>5 DEF NextVersion
<1>6. CASE Open(t)
  BY <1>6 DEF Open
<1>7. CASE enqueue_confirm(t)
  BY <1>7 DEF enqueue_confirm
<1>8. CASE Poll(t)
  BY <1>8 DEF Poll
<1>9. CASE Close(t)
  BY <1>9 DEF Close
<1>10. CASE Exclude(t)
  BY <1>10 DEF Exclude
<1>11. CASE Readmit(t)
  BY <1>11 DEF Readmit
<1>12. CASE Count(t)
  BY <1>12 DEF Count
<1>13. CASE HandOver(t)
  BY <1>13 DEF HandOver
<1>14. CASE Check(t)
  BY <1>14 DEF Check
<1>15. CASE Share(t)
  BY <1>15 DEF Share
<1>16. CASE SpinShared(t)
  BY <1>16 DEF SpinShared, W!SpinShared, W!At
<1>17. CASE Recheck(t)
  BY <1>17 DEF Recheck
<1>18. CASE Refused(t)
  BY <1>18 DEF Refused
<1>19. CASE Expired(t)
  BY <1>19 DEF Expired
<1>20. CASE TurnBack(t) \/ GoWait(t) \/ Leave(t)
  BY <1>20 DEF TurnBack, GoWait, Leave, Unshare
<1>21. CASE process_batch(t)
  BY <1>21 DEF process_batch
<1>22. CASE GetFollower(t)
  BY <1>22 DEF GetFollower
<1> QED
  BY <1>2, <1>3, <1>4, <1>5, <1>6, <1>7, <1>8, <1>9, <1>10, <1>11, <1>12, <1>13, <1>14, <1>15, <1>16,
     <1>17, <1>18, <1>19, <1>20, <1>21, <1>22 DEF Acts, Continue, LeaderStep, FollowerStep

\* The leader empties the vectors and counts from 0.
LEMMA ResetKeeps ==
  ASSUME Roles, Places, Types, NEW t \in Threads, Frame(t),
         ResetCounters(t) \/ SwapIn(t) \/ SwapOut(t)
  PROVE  Places'
<1> USE DEF Finishing
<1>1. pc[t] \in {"reset", "swap_in", "swap_out"} /\ pc'[t] \in {"swap_in", "version", "hand_over"}
  BY DEF ResetCounters, SwapIn, SwapOut, Step, Types
<1>2. Leads(t) /\ (\A u \in Threads : Leads(u) => u = t) /\ \A u \in Threads : ~HasPlace(u)
  BY <1>1, NoPlaces DEF Leads, Preparing, Roles, OneLeader
<1>3. \A u \in Threads : u # t => pc'[u] = pc[u] /\ wpc'[u] = wpc[u]
  BY DEF Frame
<1>4. \A u \in Threads : ~HasPlace(u)'
  BY <1>1, <1>2, <1>3 DEF HasPlace, Placed
<1>5. \A u \in Threads : u # t => ~Leads(u)'
  BY <1>2, <1>3 DEF Leads
<1>6. Fresh'
  <2>1. \A u \in Threads : pc'[u] \in {"swap_in", "version", "lead"} => u = t
    BY <1>5 DEF Leads, Preparing
  <2>2. CASE ResetCounters(t)
    BY <2>2 DEF ResetCounters, Fresh
  <2>3. CASE SwapIn(t)
    BY <2>1, <2>3 DEF SwapIn, Step, Fresh, Places, queue
  <2>4. CASE SwapOut(t)
    BY <2>1, <2>4 DEF SwapOut, Step, Fresh, Types
  <2> QED
    BY <2>2, <2>3, <2>4
<1>7. Vectors'
  <2>1. CASE SwapIn(t)
    <3>1. uid_queue' = Vector /\ pro_queue' = Vector
      BY <2>1 DEF SwapIn
    <3>2. Vector = [i \in 1 .. MaxCount |-> None]
      BY DEF Vector
    <3>3. IsVector(uid_queue)' /\ IsVector(pro_queue)'
      BY <3>1, <3>2 DEF IsVector
    <3>4. \A i \in 1 .. MaxCount : Meet(i)'
      BY <3>1, <3>2 DEF Meet
    <3> QED
      BY <3>3, <3>4 DEF Vectors
  <2>2. CASE ResetCounters(t) \/ SwapOut(t)
    <3>1. pc'[t] \notin Up
      BY <2>2 DEF ResetCounters, SwapOut, Step, Types, Up, Placed, Gathering
    <3> QED
      BY <1>5, <3>1 DEF Vectors, VectorsUp
  <2> QED
    BY <2>1, <2>2
<1> QED
  BY <1>4, <1>6, <1>7 DEF Places

\* A place is asked for.
LEMMA ReadyKeeps ==
  ASSUME Roles, Places, Types, NEW t \in Threads, Frame(t), Lead(t) \/ Ready(t)
  PROVE  Places'
<1>1. MaxCount \in Nat /\ MaxCount > 0 /\ queue_cnt \in Nat
  BY QueueAssumption DEF Types
<1>2. /\ pc[t] \in {"lead", "ready"} /\ queue_cnt' = queue_cnt + 1
      /\ idx'[t] = IF queue_cnt >= MaxCount THEN -1 ELSE queue_cnt
      /\ pc'[t] = IF pc[t] = "lead" THEN "open" ELSE IF queue_cnt >= MaxCount THEN "refused" ELSE "put_uid"
      /\ UNCHANGED <<uid_queue, pro_queue, calls, wpc>>
  BY DEF Lead, Ready, enqueue_ready, Step, Types, vectors, client, locks
<1>3. pc[t] = "lead" => queue_cnt = 0
  BY DEF Places, Fresh
<1>4. \A u \in Threads : u # t => pc'[u] = pc[u] /\ idx'[u] = idx[u] /\ (Leads(u)' <=> Leads(u))
                                  /\ (HasPlace(u)' <=> HasPlace(u))
  BY DEF Frame, Leads, HasPlace
<1>5. VectorsUp
  <2>1. CASE pc[t] = "lead"
    BY <2>1 DEF VectorsUp, Leads, Preparing, Up
  <2>2. CASE pc[t] = "ready"
    BY <2>2, PlacesFindVectors
  <2> QED
    BY <1>2, <2>1, <2>2
<1>6. IsVector(uid_queue) /\ IsVector(pro_queue) /\ \A i \in 1 .. MaxCount : Meet(i)
  BY <1>5 DEF Places, Vectors
<1>7. HasPlace(t)' => queue_cnt < MaxCount /\ idx'[t] = queue_cnt
  BY <1>1, <1>2, <1>3 DEF HasPlace, Placed
<1>8. \A u \in Threads : HasPlace(u)' => OwnPlace(u)'
  <2> SUFFICES ASSUME NEW u \in Threads, HasPlace(u)' PROVE OwnPlace(u)'
    OBVIOUS
  <2>1. CASE u = t
    <3>1. queue_cnt + 1 \in 1 .. MaxCount /\ queue_cnt + 1 > queue_cnt
      BY <1>1, <1>7, <2>1
    <3>2. uid_queue[queue_cnt + 1] = None /\ pro_queue[queue_cnt + 1] = None
      BY <1>6, <3>1 DEF Meet
    <3>3. pc'[t] # "put_pro"
      BY <1>2
    <3> QED
      BY <1>1, <1>2, <1>7, <2>1, <3>2, <3>3 DEF OwnPlace
  <2>2. CASE u # t
    <3>1. OwnPlace(u)
      BY <1>4, <2>2 DEF Places
    <3> QED
      BY <1>1, <1>2, <1>4, <2>2, <3>1 DEF OwnPlace, MyTask, Types
  <2> QED
    BY <2>1, <2>2
<1>9. \A u, v \in Threads : u # v /\ HasPlace(u)' /\ HasPlace(v)' => idx'[u] # idx'[v]
  <2>1. \A u \in Threads : u # t /\ HasPlace(u)' => idx'[u] < queue_cnt /\ idx'[u] \in Int
    BY <1>4 DEF Places, OwnPlace
  <2>2. \A u \in Threads : u # t /\ HasPlace(u)' /\ HasPlace(t)' => idx'[u] # idx'[t]
    BY <1>1, <1>7, <2>1
  <2>3. \A u, v \in Threads : u # v /\ u # t /\ v # t /\ HasPlace(u)' /\ HasPlace(v)' => idx'[u] # idx'[v]
    BY <1>4 DEF Places
  <2> QED
    BY <2>2, <2>3
<1>10. Vectors'
  <2>1. \A u \in Threads : pc'[u] = "put_pro" <=> pc[u] = "put_pro"
    BY <1>2, <1>4
  <2>2. ASSUME NEW i \in 1 .. MaxCount PROVE Meet(i)'
    <3>1. Meet(i)
      BY <1>6
    <3>2. i > queue_cnt' => i > queue_cnt
      BY <1>1, <1>2
    <3>3. \A u \in Threads : pc[u] = "put_pro" => idx'[u] = idx[u]
      BY <1>2, <1>4
    <3> QED
      BY <1>2, <2>1, <3>1, <3>2, <3>3 DEF Meet
  <2> QED
    BY <1>2, <1>6, <2>2 DEF Vectors, IsVector
<1>11. Fresh'
  <2> SUFFICES ASSUME NEW u \in Threads, pc'[u] \in {"swap_in", "version", "lead"} PROVE FALSE
    BY DEF Fresh
  <2>1. u # t
    BY <1>2
  <2>2. pc[u] \in {"swap_in", "version", "lead"}
    BY <1>4, <2>1
  <2>3. CASE pc[t] = "lead"
    BY <2>1, <2>2, <2>3 DEF Roles, OneLeader, Leads, Preparing
  <2>4. CASE pc[t] = "ready"
    <3>1. wpc[t] = "shared"
      BY <2>4 DEF Roles, HoldsRight, Sharing, Placed
    <3>2. PICK v \in Threads : Leads(v) /\ pc[v] \in Placed \cup Gathering
      BY <2>4, <3>1 DEF Roles, LeaderStays, Inside, Sharing
    <3> QED
      BY <2>2, <3>2 DEF Roles, OneLeader, Leads, Preparing, Placed, Gathering
  <2> QED
    BY <1>2, <2>3, <2>4
<1> QED
  BY <1>8, <1>9, <1>10, <1>11 DEF Places

\* A place is filled, in two steps.
LEMMA PutKeeps ==
  ASSUME Roles, Places, Types, NEW t \in Threads, Frame(t), PutUid(t) \/ PutPromise(t)
  PROVE  Places'
<1> DEFINE k == idx[t] + 1
<1>1. /\ pc[t] \in {"put_uid", "put_pro"} /\ pc'[t] = IF pc[t] = "put_uid" THEN "put_pro" ELSE "confirm"
      /\ UNCHANGED <<idx, calls, wpc, queue_cnt>>
      /\ uid_queue' = IF pc[t] = "put_uid" THEN [uid_queue EXCEPT ![k] = MyTask(t)] ELSE uid_queue
      /\ pro_queue' = IF pc[t] = "put_uid" THEN pro_queue ELSE [pro_queue EXCEPT ![k] = MyTask(t)]
  BY DEF PutUid, PutPromise, Step, Types, locks, queue, client, locals
<1>2. \A u \in Threads : u # t => pc'[u] = pc[u] /\ (Leads(u)' <=> Leads(u)) /\ (HasPlace(u)' <=> HasPlace(u))
  BY DEF Frame, Leads, HasPlace
<1>3. HasPlace(t) /\ OwnPlace(t) /\ \A u \in Threads : u # t /\ HasPlace(u) => idx[u] # idx[t] /\ OwnPlace(u)
  BY <1>1 DEF HasPlace, Placed, Places
<1>4. k \in 1 .. MaxCount /\ k <= queue_cnt
  <2>1. MaxCount \in Nat /\ queue_cnt \in Nat
    BY QueueAssumption DEF Types
  <2> QED
    BY <1>3, <2>1 DEF OwnPlace
<1>5. IsVector(uid_queue) /\ IsVector(pro_queue) /\ \A i \in 1 .. MaxCount : Meet(i)
  BY <1>3, PlacesFindVectors DEF Places, Vectors
<1>6. /\ \A i \in 1 .. MaxCount : i # k => uid_queue'[i] = uid_queue[i] /\ pro_queue'[i] = pro_queue[i]
      /\ uid_queue'[k] = MyTask(t)
      /\ pro_queue'[k] = IF pc[t] = "put_uid" THEN None ELSE MyTask(t)
  BY <1>1, <1>3, <1>4, <1>5 DEF IsVector, OwnPlace
<1>7. IsVector(uid_queue)' /\ IsVector(pro_queue)'
  <2>1. CASE pc[t] = "put_uid"
    BY <1>1, <1>5, <2>1 DEF IsVector
  <2>2. CASE pc[t] # "put_uid"
    BY <1>1, <1>5, <2>2 DEF IsVector
  <2> QED
    BY <2>1, <2>2
<1>8. \A u \in Threads : HasPlace(u)' => OwnPlace(u)'
  <2> SUFFICES ASSUME NEW u \in Threads, HasPlace(u)' PROVE OwnPlace(u)'
    OBVIOUS
  <2>1. CASE u = t
    BY <1>1, <1>3, <1>6, <2>1 DEF OwnPlace, MyTask
  <2>2. CASE u # t
    <3>1. OwnPlace(u) /\ idx[u] # idx[t]
      BY <1>2, <1>3, <2>2
    <3>2. idx[u] + 1 # k /\ idx[u] + 1 \in 1 .. MaxCount
      BY <1>3, <3>1, QueueAssumption DEF OwnPlace
    <3>3. uid_queue'[idx[u] + 1] = uid_queue[idx[u] + 1] /\ pro_queue'[idx[u] + 1] = pro_queue[idx[u] + 1]
      BY <1>6, <3>2
    <3> QED
      BY <1>1, <1>2, <2>2, <3>1, <3>3 DEF OwnPlace, MyTask
  <2> QED
    BY <2>1, <2>2
<1>9. \A u, v \in Threads : u # v /\ HasPlace(u)' /\ HasPlace(v)' => idx'[u] # idx'[v]
  BY <1>1, <1>2, <1>3 DEF Places
<1>10. ASSUME NEW i \in 1 .. MaxCount PROVE Meet(i)'
  <2>1. CASE i = k
    <3>1. ~(i > queue_cnt)
      BY <1>4, <2>1, QueueAssumption DEF Types
    <3>2. pc[t] = "put_uid" => pc'[t] = "put_pro" /\ idx'[t] + 1 = i
      BY <1>1, <2>1
    <3>3. pc[t] # "put_uid" => uid_queue'[i] = pro_queue'[i]
      BY <1>6, <2>1
    <3> QED
      BY <1>1, <3>1, <3>2, <3>3 DEF Meet
  <2>2. CASE i # k
    <3>1. Meet(i) /\ uid_queue'[i] = uid_queue[i] /\ pro_queue'[i] = pro_queue[i]
      BY <1>5, <1>6, <2>2
    <3>2. ASSUME NEW u \in Threads, pc[u] = "put_pro", idx[u] + 1 = i
          PROVE  pc'[u] = "put_pro" /\ idx'[u] + 1 = i
      BY <1>1, <1>2, <2>2, <3>2
    <3> QED
      BY <1>1, <3>1, <3>2 DEF Meet
  <2> QED
    BY <2>1, <2>2
<1>11. Fresh'
  BY <1>1, <1>2 DEF Places, Fresh
<1> QED
  BY <1>7, <1>8, <1>9, <1>10, <1>11 DEF Places, Vectors

LEMMA StepPlaces ==
  ASSUME Types, Roles, Places, NEW t \in Threads, Acts(t)
  PROVE  Places'
<1>1. Frame(t) /\ HoldsRight(t)
  BY StepFrame DEF Roles
<1>2. CASE Quiet(t)
  BY <1>1, <1>2, QuietKeeps
<1> QED
  BY <1>1, <1>2, QuietSteps, ResetKeeps, ReadyKeeps, PutKeeps
-----------------------------------------------------------------------------
(* The results. *)

\* When the leader takes the vectors out, uid and promise have met in every place.
LEMMA BatchMeets ==
  ASSUME Roles, Places, NEW t \in Threads, pc[t] = "swap_out"
  PROVE  uid_queue = pro_queue
<1>1. Leads(t) /\ VectorsUp
  BY DEF Leads, Finishing, VectorsUp, Up
<1>2. \A u \in Threads : pc[u] # "put_pro"
  BY NoPlaces DEF Finishing, HasPlace, Placed
<1>3. \A i \in 1 .. MaxCount : uid_queue[i] = pro_queue[i]
  BY <1>1, <1>2 DEF Places, Vectors, Meet
<1>4. uid_queue = [i \in 1 .. MaxCount |-> uid_queue[i]] /\ pro_queue = [i \in 1 .. MaxCount |-> pro_queue[i]]
  BY <1>1 DEF Places, Vectors, IsVector
<1> QED
  BY <1>3, <1>4

LEMMA StepResults ==
  ASSUME Roles, Places, ResultIsOwn, NEW t \in Threads, Acts(t)
  PROVE  ResultIsOwn'
<1>1. (\A k \in DOMAIN result : result[k] = k) /\ \A b \in fls : b.uids = b.pros
  BY DEF ResultIsOwn
<1>2. CASE SwapOut(t)
  <2>1. uid_queue = pro_queue
    BY <1>2, BatchMeets DEF SwapOut, Step
  <2>2. PICK b : b.uids = b.pros /\ fls' = fls \cup {b} /\ result' = result
    BY <1>2, <2>1 DEF SwapOut
  <2> QED
    BY <1>1, <2>2 DEF ResultIsOwn
<1>3. CASE process_batch(t)
  <2>1. PICK b \in fls :
          result' = [k \in DOMAIN result \cup {b.pros[i] : i \in DOMAIN b.pros} |->
                       IF \E i \in DOMAIN b.pros : b.pros[i] = k
                         THEN b.uids[CHOOSE i \in DOMAIN b.pros : b.pros[i] = k]
                         ELSE result[k]]
    BY <1>3 DEF process_batch
  <2>2. b.uids = b.pros
    BY <1>1
  <2>3. ASSUME NEW k \in DOMAIN result' PROVE result'[k] = k
    <3>1. CASE \E i \in DOMAIN b.pros : b.pros[i] = k
      <4> DEFINE i == CHOOSE j \in DOMAIN b.pros : b.pros[j] = k
      <4>1. b.pros[i] = k
        BY <3>1
      <4>2. result'[k] = b.uids[i]
        BY <2>1, <2>3, <3>1
      <4> QED
        BY <2>2, <4>1, <4>2
    <3>2. CASE ~\E i \in DOMAIN b.pros : b.pros[i] = k
      <4>1. k \in DOMAIN result /\ result'[k] = result[k]
        BY <2>1, <2>3, <3>2
      <4> QED
        BY <1>1, <4>1
    <3> QED
      BY <3>1, <3>2
  <2>4. fls' = fls
    BY <1>3 DEF process_batch
  <2> QED
    BY <1>1, <2>3, <2>4 DEF ResultIsOwn
<1>4. CASE fls' = fls /\ result' = result
  BY <1>4 DEF ResultIsOwn
<1>5. SwapOut(t) \/ process_batch(t) \/ (fls' = fls /\ result' = result)
  BY DEF Acts, Continue, LeaderStep, FollowerStep, task_enqueue, get, TryEnLock, ResetCounters, SwapIn,
         NextVersion, Lead, Ready, enqueue_ready, Open, PutUid, PutPromise, enqueue_confirm, Poll, Close,
         Exclude, Readmit, Count, HandOver, Check, Share, SpinShared, Recheck, Refused, Expired, TurnBack,
         GoWait, Leave, Unshare, GetFollower, client
<1> QED
  BY <1>2, <1>3, <1>4, <1>5
-----------------------------------------------------------------------------
(* Which tasks there are. *)

\* Where a thread is that is in a call and has no place yet.
Pending == {"try", "check", "share", "recheck", "turn_back", "ready", "refused", "go_wait", "wait",
            "reset", "swap_in", "version", "lead"}

CallsBound ==
  \A t \in Threads : /\ todo[t] \in Nat /\ todo[t] + calls[t] <= MaxCalls
                     /\ pc[t] \notin {"idle", "get"} => calls[t] >= 1

\* A task that has had a place: of a call that was made, and not of one that has yet
\* to get a place.
Told(k) == k \in Task /\ k[2] <= calls[k[1]] /\ (pc[k[1]] \in Pending => k[2] < calls[k[1]])

NoneTwice ==
  /\ VectorsUp => \A i \in 1 .. MaxCount : uid_queue[i] # None => Told(uid_queue[i])
  /\ \A b \in fls : \A i \in DOMAIN b.uids : Told(b.uids[i])

CallBegins(t) == pc[t] = "idle" /\ calls'[t] = calls[t] + 1
CallGoesOn(t) ==
  /\ calls'[t] = calls[t]
  /\ pc'[t] \in Pending => pc[t] \in Pending
  /\ pc[t] \in {"idle", "get"} => pc'[t] \in {"idle", "get"}

LEMMA StepCalls ==
  ASSUME Types, CallsBound, NEW t \in Threads, Acts(t)
  PROVE  CallsBound' /\ (CallBegins(t) \/ CallGoesOn(t))
<1>1. /\ pc \in [Threads -> Labels] /\ calls \in [Threads -> Nat] /\ MaxCalls \in Nat
      /\ \A u \in Threads : /\ todo[u] \in Nat /\ todo[u] + calls[u] <= MaxCalls
                            /\ pc[u] \notin {"idle", "get"} => calls[u] >= 1
  BY QueueAssumption DEF Types, CallsBound
<1>2. Frame(t)
  BY StepFrame
<1>3. CASE task_enqueue(t)
  <2>1. /\ todo' = [todo EXCEPT ![t] = todo[t] - 1] /\ calls' = [calls EXCEPT ![t] = calls[t] + 1]
        /\ todo[t] > 0 /\ pc[t] = "idle"
    BY <1>3 DEF task_enqueue, Step
  <2>2. calls'[t] = calls[t] + 1
    BY <1>1, <2>1
  <2>3. CallsBound'
    <3> SUFFICES ASSUME NEW u \in Threads
                 PROVE  /\ todo'[u] \in Nat /\ todo'[u] + calls'[u] <= MaxCalls
                        /\ pc'[u] \notin {"idle", "get"} => calls'[u] >= 1
      BY DEF CallsBound
    <3>1. CASE u = t
      <4>1. todo'[t] = todo[t] - 1
        BY <2>1 DEF Types
      <4> QED
        BY <1>1, <2>1, <2>2, <3>1, <4>1
    <3>2. CASE u # t
      <4>1. todo'[u] = todo[u] /\ calls'[u] = calls[u] /\ pc'[u] = pc[u]
        BY <1>2, <2>1, <3>2 DEF Frame
      <4> QED
        BY <1>1, <4>1
    <3> QED
      BY <3>1, <3>2
  <2> QED
    BY <2>1, <2>2, <2>3 DEF CallBegins
<1>4. CASE todo' = todo /\ calls' = calls /\ CallGoesOn(t)
  <2>1. CallsBound'
    BY <1>1, <1>2, <1>4 DEF CallsBound, Frame, CallGoesOn
  <2> QED
    BY <1>4, <2>1
<1>5. task_enqueue(t) \/ (todo' = todo /\ calls' = calls /\ CallGoesOn(t))
  <2> USE <1>1 DEF Pending, client, Step, CallGoesOn
  <2>1. CASE get(t) \/ TryEnLock(t)
    BY <2>1 DEF get, TryEnLock
  <2>2. CASE ResetCounters(t) \/ SwapIn(t) \/ NextVersion(t) \/ Open(t)
    BY <2>2 DEF ResetCounters, SwapIn, NextVersion, Open
  <2>3. CASE Lead(t) \/ Ready(t)
    BY <2>3 DEF Lead, Ready, enqueue_ready
  <2>4. CASE PutUid(t) \/ PutPromise(t) \/ enqueue_confirm(t)
    BY <2>4 DEF PutUid, PutPromise, enqueue_confirm
  <2>5. CASE Poll(t) \/ Close(t) \/ Exclude(t) \/ Readmit(t)
    BY <2>5 DEF Poll, Close, Exclude, Readmit
  <2>6. CASE Count(t) \/ SwapOut(t) \/ HandOver(t)
    BY <2>6 DEF Count, SwapOut, HandOver
  <2>7. CASE Check(t) \/ Share(t) \/ Recheck(t) \/ Refused(t) \/ Expired(t)
    BY <2>7 DEF Check, Share, Recheck, Refused, Expired
  <2>8. CASE SpinShared(t)
    BY <2>8 DEF SpinShared
  <2>9. CASE TurnBack(t) \/ GoWait(t) \/ Leave(t)
    BY <2>9 DEF TurnBack, GoWait, Leave, Unshare
  <2>10. CASE process_batch(t) \/ GetFollower(t)
    BY <2>10 DEF process_batch, GetFollower
  <2> QED
    BY <2>1, <2>2, <2>3, <2>4, <2>5, <2>6, <2>7, <2>8, <2>9, <2>10
       DEF Acts, Continue, LeaderStep, FollowerStep
<1> QED
  BY <1>3, <1>4, <1>5

LEMMA ToldStays ==
  ASSUME Types, CallsBound, NEW t \in Threads, Acts(t), NEW k, Told(k)
  PROVE  Told(k)'
<1>1. k \in Task /\ k[1] \in Threads /\ k[2] \in Nat /\ k[2] <= calls[k[1]]
      /\ (pc[k[1]] \in Pending => k[2] < calls[k[1]])
  BY QueueAssumption DEF Told, Task
<1>2. calls \in [Threads -> Nat] /\ Frame(t)
  BY StepFrame DEF Types
<1>3. CASE k[1] = t
  BY <1>1, <1>2, <1>3, StepCalls DEF Told, CallBegins, CallGoesOn
<1>4. CASE k[1] # t
  BY <1>1, <1>2, <1>4 DEF Told, Frame
<1> QED
  BY <1>3, <1>4
-----------------------------------------------------------------------------
(* How many there are. *)

Holders == {t \in Threads : HasPlace(t)}
Given == IF queue_cnt < MaxCount THEN queue_cnt ELSE MaxCount

FilledOrHeld(i) ==
  i <= queue_cnt => \/ uid_queue[i] # None
                    \/ \E t \in Threads : pc[t] \in {"open", "put_uid"} /\ idx[t] + 1 = i

\* Each place given is filled and counted, or its holder has yet to count it; so the
\* leader, who finds no holder, finds as many as it counts.
Counting ==
  /\ VectorsUp => queue_try_cnt + Cardinality(Holders) = Given
  /\ VectorsUp => \A i \in 1 .. MaxCount : FilledOrHeld(i)
  /\ ~VectorsUp => uid_queue = <<>>
  /\ \A u \in Threads : pc[u] = "swap_in" => queue_try_cnt = 0
  /\ \A u \in Threads : Leads(u) /\ pc[u] \in Up \ {"version", "lead"} => queue_cnt >= 1
  /\ \A u \in Threads : pc[u] = "swap_out" => len[u] = queue_try_cnt

LEMMA HolderFacts ==
  ASSUME WP!WordAssumption, NEW S \in SUBSET Threads
  PROVE  /\ Cardinality(S) \in Nat
         /\ S = {} => Cardinality(S) = 0
         /\ \A t \in Threads \ S : Cardinality(S \cup {t}) = Cardinality(S) + 1
         /\ \A t \in S : Cardinality(S \ {t}) = Cardinality(S) - 1
<1>1. IsFiniteSet(Threads)
  BY DEF WP!WordAssumption, WP!IsFiniteSet, IsFiniteSet
<1>2. IsFiniteSet(S)
  BY <1>1, FS_Subset
<1> QED
  BY <1>2, FS_CardinalityType, FS_EmptySet, FS_AddElement, FS_RemoveElement

LEMMA QuietCounts ==
  ASSUME WP!WordAssumption, Types, Roles, Counting, NEW t \in Threads, Frame(t), Quiet(t)
  PROVE  Counting'
<1>1. \A u \in Threads : u # t => /\ pc'[u] = pc[u] /\ len'[u] = len[u] /\ idx'[u] = idx[u]
                                  /\ Leads(u)' <=> Leads(u)
                                  /\ HasPlace(u)' <=> HasPlace(u)
  BY DEF Frame, Leads, HasPlace
<1>2. VectorsUp' <=> VectorsUp
  BY <1>1 DEF Quiet, VectorsUp
<1>3. queue_try_cnt \in Nat /\ queue_try_cnt' \in Nat /\ Given' = Given /\ Given \in Int
  BY QueueAssumption DEF Quiet, Types, Given
<1>4. VectorsUp' => queue_try_cnt' + Cardinality(Holders') = Given'
  <2> SUFFICES ASSUME VectorsUp PROVE queue_try_cnt' + Cardinality(Holders') = Given
    BY <1>2, <1>3
  <2>1. queue_try_cnt + Cardinality(Holders) = Given /\ Holders \in SUBSET Threads
    BY DEF Counting, Holders
  <2>2. CASE pc[t] = "confirm"
    <3>1. queue_try_cnt' = queue_try_cnt + 1 /\ ~HasPlace(t)' /\ HasPlace(t)
      BY <2>2 DEF Quiet, HasPlace, Placed
    <3>2. t \in Holders /\ Holders' = Holders \ {t}
      BY <1>1, <3>1 DEF Holders
    <3>3. Cardinality(Holders') = Cardinality(Holders) - 1 /\ Cardinality(Holders) \in Nat
      BY <2>1, <3>2, HolderFacts
    <3> QED
      BY <1>3, <2>1, <3>1, <3>3
  <2>3. CASE pc[t] # "confirm"
    <3>1. queue_try_cnt' = queue_try_cnt /\ Holders' = Holders
      BY <1>1, <2>3 DEF Quiet, Holders
    <3> QED
      BY <2>1, <3>1
  <2> QED
    BY <2>2, <2>3
<1>5. VectorsUp' => \A i \in 1 .. MaxCount : FilledOrHeld(i)'
  <2> SUFFICES ASSUME VectorsUp, NEW i \in 1 .. MaxCount PROVE FilledOrHeld(i)'
    BY <1>2
  <2>1. FilledOrHeld(i)
    BY DEF Counting
  <2>2. ASSUME NEW u \in Threads, pc[u] \in {"open", "put_uid"}
        PROVE  pc'[u] \in {"open", "put_uid"} /\ idx'[u] = idx[u]
    BY <1>1, <2>2 DEF Quiet
  <2> QED
    BY <2>1, <2>2 DEF FilledOrHeld, Quiet
<1>6. ~VectorsUp' => uid_queue' = <<>>
  BY <1>2 DEF Counting, Quiet
<1>7. \A u \in Threads : pc'[u] \in {"swap_in", "swap_out"} => queue_try_cnt' = queue_try_cnt
  <2> SUFFICES ASSUME NEW u \in Threads, pc'[u] \in {"swap_in", "swap_out"}, pc[t] = "confirm", u # t
               PROVE  FALSE
    BY <1>1 DEF Quiet
  <2>1. HasPlace(t) /\ pc[u] \in {"swap_in", "swap_out"}
    BY <1>1 DEF HasPlace, Placed
  <2> QED
    BY <2>1, NoPlaces DEF Finishing
<1>8. \A u \in Threads : pc'[u] = "swap_in" => queue_try_cnt' = 0
  BY <1>1, <1>7 DEF Counting, Quiet
<1>9. \A u \in Threads : Leads(u)' /\ pc'[u] \in Up \ {"version", "lead"} => queue_cnt' >= 1
  BY <1>1 DEF Counting, Quiet
<1>10. \A u \in Threads : pc'[u] = "swap_out" => len'[u] = queue_try_cnt'
  BY <1>1, <1>7 DEF Counting, Quiet
<1> QED
  BY <1>4, <1>5, <1>6, <1>8, <1>9, <1>10 DEF Counting

LEMMA ResetCounts ==
  ASSUME WP!WordAssumption, Types, Roles, Places, Counting, NEW t \in Threads, Frame(t),
         ResetCounters(t) \/ SwapIn(t) \/ SwapOut(t)
  PROVE  Counting'
<1> USE DEF Finishing
<1>1. pc[t] \in {"reset", "swap_in", "swap_out"} /\ pc'[t] \in {"swap_in", "version", "hand_over"}
      /\ wpc'[t] = wpc[t]
  BY DEF ResetCounters, SwapIn, SwapOut, Step, Types, locks
<1>2. Leads(t) /\ (\A u \in Threads : Leads(u) => u = t) /\ \A u \in Threads : ~HasPlace(u)
  BY <1>1, NoPlaces DEF Leads, Preparing, Roles, OneLeader
<1>3. \A u \in Threads : u # t => pc'[u] = pc[u] /\ wpc'[u] = wpc[u] /\ ~Leads(u)'
  BY <1>2 DEF Frame, Leads
<1>4. \A u \in Threads : u # t => pc'[u] \notin {"swap_in", "swap_out"}
  BY <1>3 DEF Leads, Preparing
<1>5. Holders' = {} /\ Cardinality(Holders') = 0
  <2>1. Holders' = {}
    BY <1>1, <1>2, <1>3 DEF HasPlace, Placed, Holders
  <2> QED
    BY <2>1, FS_EmptySet
<1>6. MaxCount \in Nat /\ MaxCount > 0
  BY QueueAssumption
<1>7. CASE ResetCounters(t)
  <2>1. queue_try_cnt' = 0 /\ queue_cnt' = 0 /\ uid_queue' = uid_queue /\ pc[t] = "reset" /\ pc'[t] = "swap_in"
    BY <1>7 DEF ResetCounters, Step, Types, vectors
  <2>2. ~VectorsUp /\ ~VectorsUp'
    BY <1>2, <1>3, <2>1 DEF VectorsUp, Up, Placed, Gathering
  <2> QED
    BY <1>3, <1>4, <2>1, <2>2 DEF Counting, Up, Placed, Gathering
<1>8. CASE SwapIn(t)
  <2>1. /\ queue_try_cnt' = queue_try_cnt /\ queue_cnt' = queue_cnt
        /\ pc[t] = "swap_in" /\ pc'[t] = "version"
    BY <1>8 DEF SwapIn, Step, Types, queue
  <2>2. queue_cnt = 0 /\ queue_try_cnt = 0
    BY <2>1 DEF Places, Fresh, Counting
  <2>3. VectorsUp'
    BY <2>1 DEF VectorsUp, Up, Leads, Preparing
  <2>4. queue_try_cnt' + Cardinality(Holders') = Given'
    BY <1>5, <1>6, <2>1, <2>2 DEF Given
  <2>5. \A i \in 1 .. MaxCount : FilledOrHeld(i)'
    BY <1>6, <2>1, <2>2 DEF FilledOrHeld
  <2> QED
    BY <1>3, <1>4, <2>1, <2>3, <2>4, <2>5 DEF Counting
<1>9. CASE SwapOut(t)
  <2>1. uid_queue' = <<>> /\ pc'[t] = "hand_over"
    BY <1>9 DEF SwapOut, Step, Types
  <2>2. ~VectorsUp'
    BY <1>3, <2>1 DEF VectorsUp, Up, Placed, Gathering
  <2> QED
    BY <1>3, <1>4, <2>1, <2>2 DEF Counting, Up, Placed, Gathering
<1> QED
  BY <1>7, <1>8, <1>9

LEMMA ReadyCounts ==
  ASSUME WP!WordAssumption, Types, Roles, Places, Counting, NEW t \in Threads, Frame(t), Lead(t) \/ Ready(t)
  PROVE  Counting'
<1>1. MaxCount \in Nat /\ MaxCount > 0 /\ queue_cnt \in Nat /\ queue_try_cnt \in Nat
  BY QueueAssumption DEF Types
<1>2. /\ pc[t] \in {"lead", "ready"} /\ queue_cnt' = queue_cnt + 1 /\ queue_try_cnt' = queue_try_cnt
      /\ idx'[t] = IF queue_cnt >= MaxCount THEN -1 ELSE queue_cnt
      /\ pc'[t] = IF pc[t] = "lead" THEN "open" ELSE IF queue_cnt >= MaxCount THEN "refused" ELSE "put_uid"
      /\ UNCHANGED <<uid_queue, pro_queue, calls, wpc, len>>
  BY DEF Lead, Ready, enqueue_ready, Step, Types, vectors, client, locks
<1>3. pc[t] = "lead" => queue_cnt = 0
  BY DEF Places, Fresh
<1>4. \A u \in Threads : u # t => pc'[u] = pc[u] /\ idx'[u] = idx[u] /\ (HasPlace(u)' <=> HasPlace(u))
  BY DEF Frame, HasPlace
<1>5. VectorsUp
  <2>1. CASE pc[t] = "lead"
    BY <2>1 DEF VectorsUp, Leads, Preparing, Up
  <2>2. CASE pc[t] = "ready"
    BY <2>2, PlacesFindVectors
  <2> QED
    BY <1>2, <2>1, <2>2
<1>6. queue_try_cnt + Cardinality(Holders) = Given /\ Holders \in SUBSET Threads /\ ~HasPlace(t)
  BY <1>2, <1>5 DEF Counting, Holders, HasPlace, Placed
<1>7. queue_try_cnt' + Cardinality(Holders') = Given'
  <2>1. CASE queue_cnt < MaxCount
    <3>1. HasPlace(t)'
      BY <1>1, <1>2, <2>1 DEF HasPlace, Placed
    <3>2. Holders' = Holders \cup {t} /\ t \notin Holders
      BY <1>4, <1>6, <3>1 DEF Holders
    <3>3. Cardinality(Holders') = Cardinality(Holders) + 1 /\ Cardinality(Holders) \in Nat
      BY <1>6, <3>2, HolderFacts
    <3>4. Given = queue_cnt /\ Given' = queue_cnt + 1
      BY <1>1, <1>2, <2>1 DEF Given
    <3> QED
      BY <1>1, <1>2, <1>6, <3>3, <3>4
  <2>2. CASE ~(queue_cnt < MaxCount)
    <3>1. pc[t] = "ready" /\ ~HasPlace(t)'
      BY <1>1, <1>2, <1>3, <2>2 DEF HasPlace, Placed
    <3>2. Holders' = Holders
      BY <1>4, <1>6, <3>1 DEF Holders
    <3>3. Given = MaxCount /\ Given' = MaxCount
      BY <1>1, <1>2, <2>2 DEF Given
    <3> QED
      BY <1>2, <1>6, <3>2, <3>3
  <2> QED
    BY <2>1, <2>2
<1>8. ASSUME NEW i \in 1 .. MaxCount PROVE FilledOrHeld(i)'
  <2> SUFFICES ASSUME i <= queue_cnt + 1
               PROVE  \/ uid_queue[i] # None
                      \/ \E u \in Threads : pc'[u] \in {"open", "put_uid"} /\ idx'[u] + 1 = i
    BY <1>2 DEF FilledOrHeld
  <2>1. CASE i = queue_cnt + 1
    <3>1. queue_cnt < MaxCount
      BY <1>1, <2>1
    <3> QED
      BY <1>1, <1>2, <2>1, <3>1
  <2>2. CASE i # queue_cnt + 1
    <3>1. i <= queue_cnt /\ FilledOrHeld(i)
      BY <1>1, <1>5, <2>2 DEF Counting
    <3>2. ASSUME NEW u \in Threads, pc[u] \in {"open", "put_uid"}
          PROVE  pc'[u] \in {"open", "put_uid"} /\ idx'[u] = idx[u]
      BY <1>2, <1>4, <3>2
    <3> QED
      BY <3>1, <3>2 DEF FilledOrHeld
  <2> QED
    BY <2>1, <2>2
<1>9. VectorsUp'
  <2>1. PICK u \in Threads : Leads(u) /\ pc[u] \in Up
    BY <1>5 DEF VectorsUp
  <2>2. CASE u = t
    BY <1>2, <1>1, <1>3, <2>1, <2>2 DEF VectorsUp, Leads, Up, Preparing, Placed, Gathering, Finishing
  <2>3. CASE u # t
    BY <2>1, <2>3 DEF Frame, VectorsUp, Leads
  <2> QED
    BY <2>2, <2>3
<1>10. (\A u \in Threads : pc'[u] \in {"swap_in", "swap_out"} => pc[u] = pc'[u] /\ u # t)
  BY <1>2, <1>4
<1> QED
  BY <1>1, <1>2, <1>7, <1>8, <1>9, <1>10 DEF Counting

LEMMA PutCounts ==
  ASSUME WP!WordAssumption, Types, Roles, Places, Counting, CallsBound, NEW t \in Threads, Frame(t),
         PutUid(t) \/ PutPromise(t)
  PROVE  Counting'
<1>1. /\ pc[t] \in {"put_uid", "put_pro"} /\ pc'[t] = IF pc[t] = "put_uid" THEN "put_pro" ELSE "confirm"
      /\ UNCHANGED <<idx, calls, wpc, queue_cnt, queue_try_cnt, len>>
      /\ uid_queue' = IF pc[t] = "put_uid" THEN [uid_queue EXCEPT ![idx[t] + 1] = MyTask(t)] ELSE uid_queue
  BY DEF PutUid, PutPromise, Step, Types, locks, queue, client, locals
<1>2. \A u \in Threads : u # t => pc'[u] = pc[u] /\ (Leads(u)' <=> Leads(u)) /\ (HasPlace(u)' <=> HasPlace(u))
  BY DEF Frame, Leads, HasPlace
<1>3. HasPlace(t) /\ HasPlace(t)' /\ (Leads(t)' <=> Leads(t)) /\ pc[t] \in Up \ {"version", "lead"}
      /\ pc'[t] \in Up \ {"version", "lead"}
  BY <1>1 DEF HasPlace, Placed, Leads, Up, Preparing, Gathering, Finishing
<1>4. VectorsUp /\ VectorsUp'
  BY <1>2, <1>3, PlacesFindVectors DEF VectorsUp
<1>5. Holders' = Holders /\ Given' = Given
  BY <1>1, <1>2, <1>3 DEF Holders, Given
<1>6. MyTask(t) # None
  <2>1. calls[t] \in Nat /\ calls[t] >= 1 /\ todo[t] \in Nat /\ todo[t] + calls[t] <= MaxCalls /\ MaxCalls \in Nat
    BY <1>1, QueueAssumption DEF Types, CallsBound
  <2>2. calls[t] \in 1 .. MaxCalls
    BY <2>1
  <2> QED
    BY <2>2, QueueAssumption DEF MyTask
<1>7. ASSUME NEW i \in 1 .. MaxCount PROVE FilledOrHeld(i)'
  <2>1. FilledOrHeld(i)
    BY <1>4 DEF Counting
  <2>2. uid_queue = [j \in 1 .. MaxCount |-> uid_queue[j]]
    BY <1>4 DEF Places, Vectors, IsVector
  <2>3. CASE pc[t] = "put_uid" /\ idx[t] + 1 = i
    BY <1>1, <1>6, <2>2, <2>3 DEF FilledOrHeld
  <2>4. CASE ~(pc[t] = "put_uid" /\ idx[t] + 1 = i)
    <3>1. uid_queue'[i] = uid_queue[i]
      BY <1>1, <2>2, <2>4
    <3>2. ASSUME NEW u \in Threads, pc[u] \in {"open", "put_uid"}, idx[u] + 1 = i
          PROVE  pc'[u] \in {"open", "put_uid"} /\ idx'[u] + 1 = i
      BY <1>1, <1>2, <2>4, <3>2
    <3> QED
      BY <1>1, <2>1, <3>1, <3>2 DEF FilledOrHeld
  <2> QED
    BY <2>3, <2>4
<1> QED
  BY <1>1, <1>2, <1>3, <1>4, <1>5, <1>7 DEF Counting

LEMMA StepCounts ==
  ASSUME WP!WordAssumption, Types, Roles, Places, Counting, CallsBound, NEW t \in Threads, Acts(t)
  PROVE  Counting'
<1>1. Frame(t) /\ HoldsRight(t)
  BY StepFrame DEF Roles
<1> QED
  BY <1>1, QuietSteps, QuietCounts, ResetCounts, ReadyCounts, PutCounts
-----------------------------------------------------------------------------
(* The tasks that have a place, as the abstract queue has them. *)

\* The task k has place i, from the moment the place is given to it.
HeldBy(i, k) ==
  IF uid_queue[i] # None
    THEN k = uid_queue[i]
    ELSE \E t \in Threads : pc[t] \in {"open", "put_uid"} /\ idx[t] + 1 = i /\ k = MyTask(t)

QueueInv == Types /\ Roles /\ Places /\ Counting /\ CallsBound /\ NoneTwice

LEMMA GatheredIs == VectorsUp /\ QueueInv => Gathered = [i \in 1 .. Given |-> Holder(i)]
<1> SUFFICES ASSUME VectorsUp, QueueInv PROVE Gathered = [i \in 1 .. Given |-> Holder(i)]
  OBVIOUS
<1>1. uid_queue = [i \in 1 .. MaxCount |-> uid_queue[i]]
  BY DEF QueueInv, Places, Vectors, IsVector
<1>2. uid_queue # <<>>
  BY <1>1, QueueAssumption
<1> QED
  BY <1>2 DEF Gathered, Given

LEMMA HolderIs == VectorsUp /\ QueueInv => \A i \in 1 .. MaxCount : \A k : HeldBy(i, k) => Holder(i) = k
<1> SUFFICES ASSUME VectorsUp, QueueInv, NEW i \in 1 .. MaxCount, NEW k, HeldBy(i, k)
             PROVE  Holder(i) = k
  OBVIOUS
<1>1. CASE uid_queue[i] # None
  BY <1>1 DEF HeldBy, Holder
<1>2. CASE uid_queue[i] = None
  <2> DEFINE P(t) == pc[t] \in {"open", "put_uid"} /\ idx[t] = i - 1
  <2>1. \A t \in Threads : idx[t] \in Int
    BY DEF QueueInv, Types
  <2>2. PICK t \in Threads : P(t) /\ k = MyTask(t)
    BY <1>2, <2>1 DEF HeldBy
  <2>3. \A u \in Threads : P(u) => u = t
    BY <2>2 DEF QueueInv, Places, HasPlace, Placed
  <2>4. (CHOOSE u \in Threads : P(u)) = t
    BY <2>2, <2>3
  <2> QED
    BY <1>2, <2>2, <2>4 DEF Holder
<1> QED
  BY <1>1, <1>2

LEMMA EachIsHeld ==
  ASSUME VectorsUp, QueueInv, NEW i \in 1 .. Given
  PROVE  i \in 1 .. MaxCount /\ HeldBy(i, Holder(i))
<1>1. MaxCount \in Nat /\ queue_cnt \in Nat
  BY QueueAssumption DEF QueueInv, Types
<1>2. i \in 1 .. MaxCount /\ i <= queue_cnt
  BY <1>1 DEF Given
<1>3. FilledOrHeld(i)
  BY <1>2 DEF QueueInv, Counting
<1>4. PICK k : HeldBy(i, k)
  BY <1>2, <1>3 DEF FilledOrHeld, HeldBy
<1> QED
  BY <1>2, <1>4, HolderIs

\* Who waits for a place has a task that nobody has seen.
LEMMA NotJoined ==
  ASSUME QueueInv, NEW t \in Threads, pc[t] \in Pending
  PROVE  /\ MyTask(t) \in Task
         /\ \A b \in fls : \A i \in DOMAIN b.uids : b.uids[i] # MyTask(t)
         /\ VectorsUp => \A i \in 1 .. Given : Holder(i) \in Task /\ Holder(i) # MyTask(t)
<1>1. /\ calls \in [Threads -> Nat] /\ MaxCalls \in Nat
      /\ \A u \in Threads : todo[u] \in Nat /\ todo[u] + calls[u] <= MaxCalls
                            /\ (pc[u] \notin {"idle", "get"} => calls[u] >= 1)
  BY QueueAssumption DEF QueueInv, Types, CallsBound
<1>2. \A u \in Threads : pc[u] \notin {"idle", "get"} => MyTask(u) \in Task
  <2> SUFFICES ASSUME NEW u \in Threads, pc[u] \notin {"idle", "get"} PROVE calls[u] \in 1 .. MaxCalls
    BY DEF MyTask, Task
  <2> QED
    BY <1>1
<1>3. \A k : Told(k) => k \in Task /\ k # MyTask(t)
  BY <1>1 DEF Told, MyTask
<1>4. ASSUME VectorsUp, NEW i \in 1 .. Given PROVE Holder(i) \in Task /\ Holder(i) # MyTask(t)
  <2>1. i \in 1 .. MaxCount /\ HeldBy(i, Holder(i))
    BY <1>4, EachIsHeld
  <2>2. CASE uid_queue[i] # None
    BY <1>3, <1>4, <2>1, <2>2 DEF HeldBy, QueueInv, NoneTwice
  <2>3. CASE uid_queue[i] = None
    <3>1. PICK u \in Threads : pc[u] \in {"open", "put_uid"} /\ Holder(i) = MyTask(u)
      BY <2>1, <2>3 DEF HeldBy
    <3> QED
      BY <1>2, <3>1 DEF MyTask, Pending
  <2> QED
    BY <2>2, <2>3
<1> QED
  BY <1>2, <1>3, <1>4 DEF QueueInv, NoneTwice, Pending

\* The leader takes out just the places that were given, all filled.
LEMMA TakenWhole ==
  ASSUME WP!WordAssumption, QueueInv, NEW t \in Threads, pc[t] = "swap_out"
  PROVE  /\ \A i \in 1 .. len[t] : i \in 1 .. MaxCount /\ uid_queue[i] # None
         /\ SubSeq(uid_queue, 1, len[t]) = Gathered
         /\ DOMAIN SubSeq(uid_queue, 1, len[t]) = 1 .. len[t]
         /\ \A i \in 1 .. len[t] : SubSeq(uid_queue, 1, len[t])[i] = uid_queue[i]
         /\ Gathered # <<>>
<1>1. Leads(t) /\ VectorsUp /\ pc[t] \in Up \ {"version", "lead"}
  BY DEF Leads, Finishing, VectorsUp, Up
<1>2. \A u \in Threads : ~HasPlace(u)
  BY NoPlaces DEF QueueInv, Finishing
<1>3. MaxCount \in Nat /\ MaxCount > 0 /\ queue_cnt \in Nat /\ queue_cnt >= 1 /\ queue_try_cnt \in Nat
  BY <1>1, QueueAssumption DEF QueueInv, Types, Counting
<1>4. Cardinality(Holders) = 0
  <2>1. Holders = {}
    BY <1>2 DEF Holders
  <2> QED
    BY <2>1, FS_EmptySet
<1>5. len[t] = Given /\ Given \in 1 .. MaxCount
  BY <1>1, <1>3, <1>4 DEF QueueInv, Counting, Given
<1>6. \A i \in 1 .. Given : i \in 1 .. MaxCount /\ uid_queue[i] # None
  <2> TAKE i \in 1 .. Given
  <2>1. i \in 1 .. MaxCount /\ i <= queue_cnt
    BY <1>3, <1>5 DEF Given
  <2> QED
    BY <1>1, <1>2, <2>1 DEF QueueInv, Counting, FilledOrHeld, HasPlace, Placed
<1>7. \A i \in 1 .. Given : Holder(i) = uid_queue[i]
  BY <1>6 DEF Holder
<1>8. Gathered = [i \in 1 .. Given |-> uid_queue[i]]
  BY <1>1, <1>7, GatheredIs
<1>9. SubSeq(uid_queue, 1, Given) = [i \in 1 .. Given |-> uid_queue[i]]
  <2> DEFINE S == {uid_queue[i] : i \in 1 .. MaxCount}
  <2>1. \A i \in 1 .. Given : uid_queue[i] \in S /\ i \in 1 .. MaxCount
    BY <1>3, <1>5
  <2> HIDE DEF S
  <2>2. /\ SubSeq(uid_queue, 1, Given) \in Seq(S)
        /\ Len(SubSeq(uid_queue, 1, Given)) = Given
        /\ \A i \in 1 .. Given : SubSeq(uid_queue, 1, Given)[i] = uid_queue[i]
    BY <1>3, <1>5, <2>1, SubSeqProperties
  <2> DEFINE q == SubSeq(uid_queue, 1, Given)
  <2>3. q \in [1 .. Given -> S]
    <3>1. \A s \in Seq(S) : s \in [1 .. Len(s) -> S]
      OBVIOUS
    <3> QED
      BY <2>2, <3>1
  <2>4. \A i \in 1 .. Given : q[i] = uid_queue[i]
    BY <2>2
  <2> HIDE DEF q
  <2>5. q = [i \in 1 .. Given |-> uid_queue[i]]
    BY <2>3, <2>4
  <2> QED
    BY <2>5 DEF q
<1>10. Gathered # <<>>
  BY <1>5, <1>8
<1> QED
  BY <1>5, <1>6, <1>8, <1>9, <1>10

\* What is in the vectors and in the batches changes in two actions each.
LEMMA VectorsChange ==
  ASSUME Types, NEW t \in Threads, HoldsRight(t), Acts(t)
  PROVE  /\ SwapIn(t) \/ SwapOut(t) \/ PutUid(t) \/ uid_queue' = uid_queue
         /\ SwapOut(t) \/ fls' = fls
         /\ process_batch(t) \/ result' = result
<1>1. SwapIn(t) \/ SwapOut(t) \/ PutUid(t) \/ uid_queue' = uid_queue
  BY QuietSteps DEF Quiet, ResetCounters, Lead, Ready, enqueue_ready, PutPromise, vectors
<1>2. (SwapOut(t) \/ fls' = fls) /\ (process_batch(t) \/ result' = result)
  BY DEF Acts, Continue, LeaderStep, FollowerStep, task_enqueue, get, TryEnLock, ResetCounters, SwapIn,
         NextVersion, Lead, Ready, enqueue_ready, Open, PutUid, PutPromise, enqueue_confirm, Poll, Close,
         Exclude, Readmit, Count, SwapOut, HandOver, Check, Share, SpinShared, Recheck, Refused, Expired,
         TurnBack, GoWait, Leave, Unshare, process_batch, GetFollower, client
<1> QED
  BY <1>1, <1>2

LEMMA StepTold ==
  ASSUME WP!WordAssumption, QueueInv, NEW t \in Threads, Acts(t)
  PROVE  NoneTwice'
<1>1. Frame(t) /\ HoldsRight(t) /\ Types /\ CallsBound
  BY StepFrame DEF QueueInv, Roles
<1>2. \A k : Told(k) => Told(k)'
  BY <1>1, ToldStays
<1>3. VectorsUp' => \A i \in 1 .. MaxCount : uid_queue'[i] # None => Told(uid_queue[i])'
  <2> SUFFICES ASSUME VectorsUp', NEW i \in 1 .. MaxCount, uid_queue'[i] # None
               PROVE  Told(uid_queue[i])'
    OBVIOUS
  <2>1. CASE SwapIn(t)
    BY <2>1 DEF SwapIn, Vector
  <2>2. CASE SwapOut(t)
    <3>1. Counting'
      BY <1>1, StepCounts DEF QueueInv
    <3>2. Leads(t) /\ (\A u \in Threads : Leads(u) => u = t) /\ pc'[t] = "hand_over"
      BY <2>2 DEF SwapOut, Step, Leads, Finishing, QueueInv, Roles, OneLeader, Types
    <3>3. \A u \in Threads : u # t => ~Leads(u)'
      BY <1>1, <3>2 DEF Frame, Leads
    <3> QED
      BY <3>2, <3>3 DEF VectorsUp, Up, Placed, Gathering
  <2>3. CASE PutUid(t)
    <3>1. /\ uid_queue' = [uid_queue EXCEPT ![idx[t] + 1] = MyTask(t)] /\ calls' = calls
          /\ pc[t] = "put_uid" /\ pc'[t] = "put_pro"
      BY <1>1, <2>3 DEF PutUid, Step, Types, client
    <3>2. VectorsUp
      BY <3>1, PlacesFindVectors DEF QueueInv, HasPlace, Placed
    <3>3. CASE uid_queue'[i] = uid_queue[i]
      <4>1. Told(uid_queue[i])
        BY <3>2, <3>3 DEF QueueInv, NoneTwice
      <4> QED
        BY <1>1, <3>3, <4>1, ToldStays DEF Told
    <3>4. CASE uid_queue'[i] = MyTask(t)
      <4>1. calls[t] \in Nat /\ calls[t] >= 1 /\ todo[t] \in Nat /\ todo[t] + calls[t] <= MaxCalls
            /\ MaxCalls \in Nat
        BY <1>1, <3>1, QueueAssumption DEF Types, CallsBound
      <4>2. calls[t] \in 1 .. MaxCalls
        BY <4>1
      <4> QED
        BY <3>1, <3>4, <4>1, <4>2 DEF Told, MyTask, Task, Pending
    <3> QED
      BY <3>1, <3>2, <3>3, <3>4 DEF QueueInv, Places, Vectors, IsVector
  <2>4. CASE uid_queue' = uid_queue /\ ~SwapIn(t)
    <3>1. VectorsUp
      <4>1. CASE Quiet(t)
        BY <1>1, <4>1 DEF Quiet, VectorsUp, Frame, Leads
      <4>2. CASE ResetCounters(t)
        <5>1. pc'[t] = "swap_in"
          BY <1>1, <4>2 DEF ResetCounters, Step, Types
        <5> QED
          BY <1>1, <5>1 DEF Frame, VectorsUp, Leads, Up, Placed, Gathering
      <4>3. CASE Lead(t)
        BY <4>3 DEF Lead, Step, VectorsUp, Leads, Preparing, Up
      <4>4. CASE Ready(t) \/ PutUid(t) \/ PutPromise(t)
        BY <4>4, PlacesFindVectors DEF Ready, PutUid, PutPromise, Step, HasPlace, Placed, QueueInv
      <4>5. CASE SwapOut(t)
        BY <4>5 DEF SwapOut, Step, VectorsUp, Leads, Finishing, Up
      <4> QED
        BY <1>1, <2>4, <4>1, <4>2, <4>3, <4>4, <4>5, QuietSteps
    <3>2. Told(uid_queue[i])
      BY <2>4, <3>1 DEF QueueInv, NoneTwice
    <3> QED
      BY <1>1, <2>4, <3>2, ToldStays DEF Told
  <2> QED
    BY <1>1, <2>1, <2>2, <2>3, <2>4, VectorsChange
<1>4. \A b \in fls' : \A i \in DOMAIN b.uids : Told(b.uids[i])'
  <2>1. \A b \in fls : \A i \in DOMAIN b.uids : Told(b.uids[i])
    BY DEF QueueInv, NoneTwice
  <2>2. CASE SwapOut(t)
    <3> DEFINE taken == SubSeq(uid_queue, 1, len[t])
    <3> DEFINE c == [leader |-> MyTask(t), uids |-> taken, pros |-> SubSeq(pro_queue, 1, len[t])]
    <3>1. fls' = fls \cup {c} /\ c.uids = taken
      BY <2>2 DEF SwapOut
    <3>2. pc[t] = "swap_out" /\ VectorsUp
      BY <2>2 DEF SwapOut, Step, VectorsUp, Leads, Finishing, Up
    <3>3. \A i \in DOMAIN taken : i \in 1 .. MaxCount /\ uid_queue[i] # None /\ taken[i] = uid_queue[i]
      BY <3>2, TakenWhole
    <3>4. \A i \in DOMAIN taken : Told(taken[i])
      BY <3>2, <3>3 DEF QueueInv, NoneTwice
    <3> HIDE DEF taken, c
    <3>5. \A b \in fls' : \A i \in DOMAIN b.uids : Told(b.uids[i])
      BY <2>1, <3>1, <3>4
    <3> QED
      BY <1>2, <3>5
  <2>3. CASE fls' = fls
    BY <1>2, <2>1, <2>3
  <2> QED
    BY <1>1, <2>2, <2>3, VectorsChange
<1> QED
  BY <1>3, <1>4 DEF NoneTwice
-----------------------------------------------------------------------------
(* Each step is one of the abstract queue, or changes nothing for it. *)

LEMMA GatheredIsNext == (VectorsUp /\ QueueInv => Gathered = [i \in 1 .. Given |-> Holder(i)])'
  BY GatheredIs, PTL

LEMMA HolderIsNext ==
  (VectorsUp /\ QueueInv => \A i \in 1 .. MaxCount : \A k : HeldBy(i, k) => Holder(i) = k)'
  BY HolderIs, PTL

LEMMA HeldStays ==
  ASSUME QueueInv, VectorsUp, NEW t \in Threads, Acts(t),
         ~ResetCounters(t), ~SwapIn(t), ~SwapOut(t),
         NEW i \in 1 .. MaxCount, NEW k, HeldBy(i, k)
  PROVE  HeldBy(i, k)'
<1>1. Types /\ Frame(t) /\ HoldsRight(t)
  BY StepFrame DEF QueueInv, Roles
<1>2. \A u \in Threads : u # t => pc'[u] = pc[u] /\ idx'[u] = idx[u] /\ calls'[u] = calls[u]
  BY <1>1 DEF Frame
<1>3. CASE Quiet(t)
  <2>1. ASSUME NEW u \in Threads, pc[u] \in {"open", "put_uid"}
        PROVE  pc'[u] \in {"open", "put_uid"} /\ idx'[u] = idx[u] /\ calls'[u] = calls[u]
    BY <1>2, <1>3, <2>1 DEF Quiet, HasPlace, Placed
  <2> QED
    BY <1>3, <2>1 DEF HeldBy, MyTask, Quiet
<1>4. CASE Lead(t) \/ Ready(t)
  <2>1. pc[t] \in {"lead", "ready"} /\ uid_queue' = uid_queue
    BY <1>4 DEF Lead, Ready, enqueue_ready, Step, vectors
  <2> QED
    BY <1>2, <2>1 DEF HeldBy, MyTask
<1>5. CASE PutPromise(t)
  <2>1. pc[t] = "put_pro" /\ uid_queue' = uid_queue
    BY <1>5 DEF PutPromise, Step
  <2> QED
    BY <1>2, <2>1 DEF HeldBy, MyTask
<1>6. CASE PutUid(t)
  <2>1. /\ uid_queue' = [uid_queue EXCEPT ![idx[t] + 1] = MyTask(t)]
        /\ idx' = idx /\ calls' = calls /\ pc[t] = "put_uid"
    BY <1>6 DEF PutUid, Step, locals, client
  <2>2. OwnPlace(t) /\ uid_queue = [j \in 1 .. MaxCount |-> uid_queue[j]]
    BY <2>1, PlacesFindVectors DEF QueueInv, Places, Vectors, IsVector, HasPlace, Placed
  <2>3. CASE i = idx[t] + 1
    <3>1. uid_queue[i] = None /\ uid_queue'[i] = MyTask(t)
      BY <2>1, <2>2, <2>3 DEF OwnPlace
    <3>2. PICK u \in Threads : pc[u] \in {"open", "put_uid"} /\ idx[u] + 1 = i /\ k = MyTask(u)
      BY <3>1 DEF HeldBy
    <3>3. idx[u] = idx[t]
      BY <1>1, <2>3, <3>2 DEF Types
    <3>4. u = t
      BY <2>1, <3>2, <3>3 DEF QueueInv, Places, HasPlace, Placed
    <3>5. MyTask(t) # None
      <4>1. calls[t] \in Nat /\ calls[t] >= 1 /\ todo[t] \in Nat /\ todo[t] + calls[t] <= MaxCalls
            /\ MaxCalls \in Nat
        BY <1>1, <2>1, QueueAssumption DEF Types, QueueInv, CallsBound
      <4>2. calls[t] \in 1 .. MaxCalls
        BY <4>1
      <4> QED
        BY <4>2, QueueAssumption DEF MyTask
    <3> QED
      BY <3>1, <3>2, <3>4, <3>5 DEF HeldBy
  <2>4. CASE i # idx[t] + 1
    <3>1. uid_queue'[i] = uid_queue[i]
      BY <2>1, <2>2, <2>4
    <3>2. ASSUME NEW u \in Threads, idx[u] + 1 = i
          PROVE  u # t /\ pc'[u] = pc[u] /\ idx'[u] = idx[u] /\ calls'[u] = calls[u]
      BY <1>2, <2>4, <3>2
    <3> QED
      BY <3>1, <3>2 DEF HeldBy, MyTask
  <2> QED
    BY <2>3, <2>4
<1> QED
  BY <1>1, <1>3, <1>4, <1>5, <1>6, QuietSteps

LEMMA SameGathered ==
  ASSUME QueueInv, QueueInv', VectorsUp, VectorsUp', Given' = Given,
         \A i \in 1 .. MaxCount : \A k : HeldBy(i, k) => HeldBy(i, k)'
  PROVE  Gathered' = Gathered
<1>1. Gathered = [i \in 1 .. Given |-> Holder(i)]
  BY GatheredIs
<1>2. Gathered' = [i \in 1 .. Given |-> Holder(i)']
  BY GatheredIsNext
<1>3. \A i \in 1 .. Given : Holder(i)' = Holder(i)
  <2> TAKE i \in 1 .. Given
  <2>1. i \in 1 .. MaxCount /\ HeldBy(i, Holder(i))
    BY EachIsHeld
  <2> QED
    BY <2>1, HolderIsNext
<1> QED
  BY <1>1, <1>2, <1>3

\* The next place goes to the task of the thread that asks, if there is one left.
LEMMA ReadySimulates ==
  ASSUME WP!WordAssumption, QueueInv, QueueInv', NEW t \in Threads, Acts(t), Lead(t) \/ Ready(t)
  PROVE  Gathered' = Gathered \/ B!Join(MyTask(t))
<1>1. MaxCount \in Nat /\ MaxCount > 0 /\ queue_cnt \in Nat
  BY QueueAssumption DEF QueueInv, Types
<1>2. /\ pc[t] \in {"lead", "ready"} /\ queue_cnt' = queue_cnt + 1
      /\ idx'[t] = IF queue_cnt >= MaxCount THEN -1 ELSE queue_cnt
      /\ pc'[t] = IF pc[t] = "lead" THEN "open" ELSE IF queue_cnt >= MaxCount THEN "refused" ELSE "put_uid"
      /\ UNCHANGED <<uid_queue, calls, fls, result, wpc>>
  BY DEF Lead, Ready, enqueue_ready, Step, QueueInv, Types, vectors, client, locks
<1>3. pc[t] = "lead" => queue_cnt = 0
  BY DEF QueueInv, Places, Fresh
<1>4. VectorsUp
  <2>1. CASE pc[t] = "lead"
    BY <2>1 DEF VectorsUp, Leads, Preparing, Up
  <2>2. CASE pc[t] = "ready"
    BY <2>2, PlacesFindVectors DEF QueueInv
  <2> QED
    BY <1>2, <2>1, <2>2
<1>5. VectorsUp'
  <2>1. uid_queue # <<>>
    <3>1. uid_queue = [i \in 1 .. MaxCount |-> uid_queue[i]]
      BY <1>4 DEF QueueInv, Places, Vectors, IsVector
    <3> QED
      BY <1>1, <3>1
  <2> QED
    BY <1>2, <2>1 DEF QueueInv, Counting
<1>6. \A i \in 1 .. MaxCount : \A k : HeldBy(i, k) => HeldBy(i, k)'
  BY <1>2, <1>4, HeldStays DEF ResetCounters, SwapIn, SwapOut, Step
<1>7. CASE queue_cnt < MaxCount
  <2> DEFINE n == Given
  <2>1. n = queue_cnt /\ Given' = n + 1 /\ n \in Nat /\ n + 1 \in 1 .. MaxCount /\ n < MaxCount
    BY <1>1, <1>2, <1>7 DEF Given
  <2>2. \A i \in 1 .. n : Holder(i)' = Holder(i)
    <3> TAKE i \in 1 .. n
    <3>1. i \in 1 .. MaxCount /\ HeldBy(i, Holder(i))
      BY <1>4, EachIsHeld
    <3> QED
      BY <1>5, <1>6, <3>1, HolderIsNext
  <2>3. \A i : i = n + 1 => Holder(i)' = MyTask(t)
    <3>1. ~(n + 1 <= queue_cnt) /\ n + 1 > queue_cnt
      BY <2>1
    <3>2. uid_queue'[n + 1] = None
      BY <1>2, <1>4, <2>1, <3>1 DEF QueueInv, Places, Vectors, Meet
    <3>3. pc'[t] \in {"open", "put_uid"} /\ idx'[t] + 1 = n + 1
      BY <1>1, <1>2, <1>7, <2>1
    <3>4. MyTask(t)' = MyTask(t)
      BY <1>2 DEF MyTask
    <3> SUFFICES ASSUME NEW i, i = n + 1 PROVE Holder(i)' = MyTask(t)
      OBVIOUS
    <3>5. ASSUME NEW k, k = MyTask(t) PROVE Holder(i)' = k
      <4>1. HeldBy(i, k)'
        BY <3>2, <3>3, <3>4, <3>5 DEF HeldBy
      <4>2. i \in 1 .. MaxCount
        BY <2>1
      <4> QED
        BY <1>5, <4>1, <4>2, HolderIsNext
    <3> QED
      BY <3>5
  <2>4. Gathered = [i \in 1 .. n |-> Holder(i)] /\ \A i \in 1 .. n : Holder(i) \in Task /\ Holder(i) # MyTask(t)
    BY <1>2, <1>4, GatheredIs, NotJoined DEF Pending
  <2>5. MyTask(t) \in Task /\ \A b \in fls : \A i \in DOMAIN b.uids : b.uids[i] # MyTask(t)
    BY <1>2, NotJoined DEF Pending
  <2>6. Gathered' = [i \in 1 .. n + 1 |-> IF i <= n THEN Holder(i) ELSE MyTask(t)]
    <3>1. Gathered' = [i \in 1 .. n + 1 |-> Holder(i)']
      BY <1>5, <2>1, GatheredIsNext
    <3>2. \A i \in 1 .. n + 1 : Holder(i)' = IF i <= n THEN Holder(i) ELSE MyTask(t)
      <4> TAKE i \in 1 .. n + 1
      <4>1. CASE i <= n
        BY <2>1, <2>2, <4>1
      <4>2. CASE ~(i <= n)
        <5>1. i = n + 1
          BY <2>1, <4>2
        <5> QED
          BY <2>3, <4>2, <5>1
      <4> QED
        BY <4>1, <4>2
    <3> QED
      BY <3>1, <3>2
  <2> HIDE DEF n
  <2>7. Gathered \in Seq(Task) /\ Len(Gathered) = n /\ \A i \in 1 .. n : Gathered[i] # MyTask(t)
    BY <2>1, <2>4
  <2>8. Gathered' = Append(Gathered, MyTask(t))
    BY <2>1, <2>4, <2>5, <2>6, <2>7, AppendProperties
  <2>9. \A b \in {c.uids : c \in fls} \cup {Gathered} : MyTask(t) \notin B!Members(b)
    <3>1. \A b \in fls : MyTask(t) \notin B!Members(b.uids)
      BY <2>5 DEF B!Members
    <3>2. MyTask(t) \notin B!Members(Gathered)
      BY <2>1, <2>4 DEF B!Members
    <3> QED
      BY <3>1, <3>2
  <2>10. B!Join(MyTask(t))
    BY <1>2, <2>1, <2>5, <2>7, <2>8, <2>9 DEF B!Join
  <2> QED
    BY <2>10
<1>8. CASE ~(queue_cnt < MaxCount)
  <2>1. Given' = Given
    BY <1>1, <1>2, <1>8 DEF Given
  <2> QED
    BY <1>4, <1>5, <1>6, <2>1, SameGathered
<1> QED
  BY <1>7, <1>8

LEMMA StepSimulates ==
  ASSUME WP!WordAssumption, QueueInv, QueueInv', ResultIsOwn, NEW t \in Threads, Acts(t)
  PROVE  [B!Next]_(B!vars)
<1>1. Types /\ Frame(t) /\ HoldsRight(t)
  BY StepFrame DEF QueueInv, Roles
<1>2. (SwapOut(t) \/ fls' = fls) /\ (process_batch(t) \/ result' = result)
  BY <1>1, VectorsChange
<1>3. CASE Gathered' = Gathered /\ fls' = fls /\ result' = result
  BY <1>3 DEF B!vars
<1>4. CASE Lead(t) \/ Ready(t)
  <2>1. fls' = fls /\ result' = result
    BY <1>4 DEF Lead, Ready, enqueue_ready, client
  <2>2. CASE B!Join(MyTask(t))
    <3>1. MyTask(t) \in Task
      BY <2>2 DEF B!Join
    <3> QED
      BY <2>2, <3>1 DEF B!Next
  <2> QED
    BY <1>3, <1>4, <2>1, <2>2, ReadySimulates
<1>5. CASE SwapOut(t)
  <2>1. pc[t] = "swap_out"
    BY <1>5 DEF SwapOut, Step
  <2>2. SubSeq(uid_queue, 1, len[t]) = Gathered /\ Gathered # <<>>
    BY <2>1, TakenWhole
  <2> DEFINE c == [leader |-> MyTask(t), uids |-> SubSeq(uid_queue, 1, len[t]),
                   pros |-> SubSeq(pro_queue, 1, len[t])]
  <2>3. fls' = fls \cup {c} /\ c.uids = Gathered /\ uid_queue' = <<>> /\ result' = result
    BY <1>5, <2>2 DEF SwapOut
  <2> HIDE DEF c
  <2>4. {b.uids : b \in fls'} = {b.uids : b \in fls} \cup {Gathered}
    BY <2>3
  <2>5. Gathered' = <<>>
    BY <2>3 DEF Gathered
  <2>6. B!HandOver
    BY <2>2, <2>3, <2>4, <2>5 DEF B!HandOver
  <2> QED
    BY <2>6 DEF B!Next
<1>6. CASE ResetCounters(t) \/ SwapIn(t)
  <2>1. pc[t] \in {"reset", "swap_in"} /\ fls' = fls /\ result' = result
    BY <1>6 DEF ResetCounters, SwapIn, Step, client
  <2>2. ~VectorsUp
    BY <2>1 DEF QueueInv, Roles, OneLeader, Leads, Preparing, VectorsUp, Up, Placed, Gathering
  <2>3. Gathered = <<>>
    BY <2>2 DEF QueueInv, Counting, Gathered
  <2>4. CASE ResetCounters(t)
    <3>1. uid_queue' = <<>>
      BY <2>2, <2>4 DEF QueueInv, Counting, ResetCounters, vectors
    <3> QED
      BY <1>3, <2>1, <2>3, <3>1 DEF Gathered
  <2>5. CASE SwapIn(t)
    <3>1. pc[t] = "swap_in" /\ pc'[t] = "version" /\ queue_cnt' = queue_cnt
      BY <1>1, <2>5 DEF SwapIn, Step, Types, queue
    <3>2. queue_cnt' = 0
      BY <3>1 DEF QueueInv, Places, Fresh
    <3>3. VectorsUp'
      BY <3>1 DEF VectorsUp, Leads, Preparing, Up
    <3>4. Given' = 0
      BY <3>2, QueueAssumption DEF Given
    <3>5. Gathered' = [i \in 1 .. 0 |-> Holder(i)']
      BY <3>3, <3>4, GatheredIsNext
    <3>6. Gathered' = <<>>
      BY <3>5
    <3> QED
      BY <1>3, <2>1, <2>3, <3>6
  <2> QED
    BY <1>6, <2>4, <2>5
<1>7. CASE Quiet(t) \/ PutUid(t) \/ PutPromise(t)
  <2>1. Given' = Given
    BY <1>7 DEF Quiet, PutUid, PutPromise, Given, queue
  <2>2. ~ResetCounters(t) /\ ~SwapIn(t) /\ ~SwapOut(t)
    <3>1. CASE Quiet(t)
      <4>1. ~ResetCounters(t)
        BY <1>1, <3>1 DEF Quiet, ResetCounters, Step, Types
      <4>2. ~SwapIn(t)
        BY <1>1, <3>1 DEF Quiet, SwapIn, Step, Types, Leads, Preparing, Up, Placed, Gathering
      <4>3. ~SwapOut(t)
        BY <1>1, <3>1 DEF Quiet, SwapOut, Step, Types, Leads, Finishing, Up, Placed, Gathering
      <4> QED
        BY <4>1, <4>2, <4>3
    <3>2. CASE PutUid(t) \/ PutPromise(t)
      BY <3>2 DEF PutUid, PutPromise, ResetCounters, SwapIn, SwapOut, Step
    <3> QED
      BY <1>7, <3>1, <3>2
  <2>3. fls' = fls
    BY <1>2, <2>2
  <2>4. Gathered' = Gathered
    <3>1. VectorsUp' <=> VectorsUp
      <4>1. CASE Quiet(t)
        BY <1>1, <4>1 DEF Quiet, Frame, VectorsUp, Leads
      <4>2. CASE PutUid(t) \/ PutPromise(t)
        <5>1. pc[t] \in Placed /\ pc'[t] \in Placed /\ wpc' = wpc
          BY <1>1, <4>2 DEF PutUid, PutPromise, Step, Types, Placed, locks
        <5>2. HasPlace(t)
          BY <5>1 DEF HasPlace
        <5>3. VectorsUp
          BY <5>2, PlacesFindVectors DEF QueueInv
        <5>4. \A u \in Threads : Leads(u) /\ pc[u] \in Up => Leads(u)' /\ pc'[u] \in Up
          BY <1>1, <5>1 DEF Frame, Leads, Up, Placed, Preparing, Gathering, Finishing
        <5> QED
          BY <5>3, <5>4 DEF VectorsUp
      <4> QED
        BY <1>7, <4>1, <4>2
    <3>2. CASE VectorsUp
      <4>1. \A i \in 1 .. MaxCount : \A k : HeldBy(i, k) => HeldBy(i, k)'
        BY <2>2, <3>2, HeldStays
      <4> QED
        BY <2>1, <3>1, <3>2, <4>1, SameGathered
    <3>3. CASE ~VectorsUp
      <4>1. uid_queue = <<>> /\ uid_queue' = <<>>
        BY <3>1, <3>3 DEF QueueInv, Counting
      <4> QED
        BY <4>1 DEF Gathered
    <3> QED
      BY <3>2, <3>3
  <2>5. CASE result' = result
    BY <1>3, <2>3, <2>4, <2>5
  <2>6. CASE process_batch(t)
    <3>1. PICK b \in fls : DOMAIN result' = DOMAIN result \cup {b.pros[i] : i \in DOMAIN b.pros}
      BY <2>6 DEF process_batch
    <3>2. b.uids = b.pros
      BY DEF ResultIsOwn
    <3>3. DOMAIN result' = DOMAIN result \cup B!Members(b.uids)
      BY <3>1, <3>2 DEF B!Members
    <3>4. B!Answer(b.uids)
      BY <2>3, <2>4, <3>3 DEF B!Answer
    <3>5. b.uids \in {c.uids : c \in fls}
      OBVIOUS
    <3> QED
      BY <3>4, <3>5 DEF B!Next
  <2> QED
    BY <1>2, <2>5, <2>6
<1> QED
  BY <1>1, <1>4, <1>5, <1>6, <1>7, QuietSteps
-----------------------------------------------------------------------------
IInv == WP!IInv /\ QueueInv /\ ResultIsOwn

LEMMA InitHolds == WP!WordAssumption /\ Init => IInv
<1> SUFFICES ASSUME WP!WordAssumption, Init PROVE IInv
  OBVIOUS
<1>1. /\ en_lck = FALSE /\ queue_valid = FALSE /\ queue_cnt = 0 /\ queue_try_cnt = 0
      /\ queue_ver \in 0 .. (VerMod - 1)
      /\ pc = [t \in Threads |-> "idle"] /\ wpc = [t \in Threads |-> "idle"]
      /\ calls = [t \in Threads |-> 0] /\ gets = [t \in Threads |-> 0]
      /\ todo \in [Threads -> Int] /\ idx = [t \in Threads |-> 0] /\ ver = [t \in Threads |-> 0] /\ len = [t \in Threads |-> 0]
      /\ fls = {} /\ result = <<>>
  BY QueueAssumption DEF Init, W!Init
<1>2. WP!IInv
  <2>1. WP!Init
    BY DEF Init, W!Init, WP!Init
  <2> QED
    BY <2>1, WP!InitHolds
<1>3. Types
  <2>1. en_lck \in BOOLEAN /\ queue_valid \in BOOLEAN
    BY <1>1
  <2>2. "idle" \in Labels /\ "idle" \in WP!Labels
    BY DEF Labels, Outside, WP!Labels
  <2>3. pc \in [Threads -> Labels] /\ wpc \in [Threads -> WP!Labels]
    BY <1>1, <2>2
  <2> QED
    BY <1>1, <2>1, <2>3 DEF Types
<1>4. \A t \in Threads : ~Leads(t) /\ ~Inside(t) /\ ~HasPlace(t) /\ HoldsRight(t) /\ pc[t] = "idle"
  BY <1>1 DEF Leads, Inside, HasPlace, HoldsRight, Preparing, Gathering, Finishing, Placed, Sharing
<1>5. Roles
  BY <1>1, <1>4 DEF Roles, OneLeader, LeaderStays
<1>6. Places
  BY <1>1, <1>4 DEF Places, Vectors, VectorsUp, Fresh
<1>7. ~VectorsUp /\ uid_queue = <<>>
  BY <1>4 DEF VectorsUp, Init
<1>8. Counting
  BY <1>1, <1>4, <1>7 DEF Counting
<1>9. CallsBound
  <2> SUFFICES ASSUME NEW t \in Threads
               PROVE  todo[t] \in Nat /\ todo[t] + calls[t] <= MaxCalls /\ pc[t] = "idle"
    BY DEF CallsBound
  <2>1. todo[t] \in 0 .. MaxCalls /\ MaxCalls \in Nat /\ calls[t] = 0
    BY <1>1, QueueAssumption DEF Init
  <2> QED
    BY <1>1, <2>1
<1>10. NoneTwice /\ ResultIsOwn
  BY <1>1, <1>7 DEF NoneTwice, ResultIsOwn
<1> QED
  BY <1>2, <1>3, <1>5, <1>6, <1>8, <1>9, <1>10 DEF IInv, QueueInv

LEMMA NextHolds == WP!WordAssumption /\ IInv /\ [Next]_vars => IInv'
<1> SUFFICES ASSUME WP!WordAssumption, IInv, [Next]_vars PROVE IInv'
  OBVIOUS
<1>1. CASE \E t \in Threads : Acts(t)
  <2>1. PICK t \in Threads : Acts(t)
    BY <1>1
  <2> QED
    BY <2>1, StepLock, StepFrame, StepRoles, StepPlaces, StepCounts, StepCalls, StepTold, StepResults
       DEF IInv, QueueInv
<1>2. CASE UNCHANGED vars
  <2>1. UNCHANGED WP!vars
    BY <1>2 DEF vars, locks, WP!vars
  <2>2. WP!IInv'
    BY <2>1, WP!NextKeeps DEF IInv
  <2>3. Types' /\ Roles'
    BY <1>2 DEF vars, locks, queue, client, locals, IInv, QueueInv, Types, Roles, HoldsRight, OneLeader, LeaderStays,
                Leads, Inside
  <2>4. Places'
    BY <1>2 DEF vars, locks, queue, vectors, client, locals, IInv, QueueInv, Places, HasPlace, OwnPlace, MyTask,
                Vectors, VectorsUp, Leads, IsVector, Meet, Fresh
  <2>5. Counting'
    BY <1>2 DEF vars, locks, queue, vectors, client, locals, IInv, QueueInv, Counting, VectorsUp, Leads,
                Holders, HasPlace, Given, FilledOrHeld
  <2>6. CallsBound' /\ NoneTwice' /\ ResultIsOwn'
    BY <1>2 DEF vars, locks, vectors, client, IInv, QueueInv, CallsBound, NoneTwice, Told, VectorsUp,
                Leads, ResultIsOwn
  <2> QED
    BY <2>2, <2>3, <2>4, <2>5, <2>6 DEF IInv, QueueInv
<1> QED
  BY <1>1, <1>2 DEF Next, Acts, Finished

\* Everybody's result is that of its own task, for any number of threads that wlck
\* can count, of calls and of places: uid and promise, moved in two steps
\* (lines 207-209, 279-281), meet in one place.
THEOREM OwnResults ==
  ASSUME WP!WordAssumption
  PROVE  Spec => []ResultIsOwn
<1>1. Init => IInv
  BY InitHolds
<1>2. IInv /\ [Next]_vars => IInv'
  BY NextHolds
<1>3. IInv => ResultIsOwn
  BY DEF IInv
<1> QED
  BY <1>1, <1>2, <1>3, PTL DEF Spec

\* "We can hold queues thread-safely until `en_lck` unlocking" (line 227) is true
\* while wlck can count the threads: who is about to put a task in its place finds
\* the vectors of an open queue and a place that nobody else has filled.
THEOREM OwnPlaces ==
  ASSUME WP!WordAssumption
  PROVE  Spec => []PutsInOwnPlace
<1>1. Init => IInv
  BY InitHolds
<1>2. IInv /\ [Next]_vars => IInv'
  BY NextHolds
<1>3. IInv => PutsInOwnPlace
  <2> SUFFICES ASSUME IInv, NEW t \in Threads, pc[t] \in {"put_uid", "put_pro"}
               PROVE  /\ idx[t] + 1 \in DOMAIN uid_queue /\ idx[t] + 1 \in DOMAIN pro_queue
                      /\ pc[t] = "put_uid" => uid_queue[idx[t] + 1] = None
                      /\ pc[t] = "put_pro" => pro_queue[idx[t] + 1] = None
    BY DEF PutsInOwnPlace
  <2>1. HasPlace(t) /\ OwnPlace(t)
    BY DEF HasPlace, Placed, IInv, QueueInv, Places
  <2>2. IsVector(uid_queue) /\ IsVector(pro_queue)
    BY <2>1, PlacesFindVectors DEF IInv, QueueInv, Places, Vectors
  <2>3. DOMAIN uid_queue = 1 .. MaxCount /\ DOMAIN pro_queue = 1 .. MaxCount
    BY <2>2 DEF IsVector
  <2>4. idx[t] + 1 \in 1 .. MaxCount
    BY <2>1, QueueAssumption DEF OwnPlace
  <2> QED
    BY <2>1, <2>3, <2>4 DEF OwnPlace
<1> QED
  BY <1>1, <1>2, <1>3, PTL DEF Spec

\* Each task is in one batch, at the place it was given, and a batch is handed over
\* only whole: the queue implements the abstract one, whose open batch is the tasks
\* that have a place, those who have yet to put their task in it too.
THEOREM Refinement ==
  ASSUME WP!WordAssumption
  PROVE  Spec => ImplementsBatching
<1>1. Init => IInv
  BY InitHolds
<1>2. IInv /\ [Next]_vars => IInv'
  BY NextHolds
<1>3. Init => B!Init
  BY DEF Init, B!Init, Gathered
<1>4. IInv /\ IInv' /\ [Next]_vars => [B!Next]_(B!vars)
  <2> SUFFICES ASSUME IInv, IInv', [Next]_vars PROVE [B!Next]_(B!vars)
    OBVIOUS
  <2>1. CASE \E t \in Threads : Acts(t)
    BY <2>1, StepSimulates DEF IInv
  <2>2. CASE UNCHANGED vars
    BY <2>2 DEF vars, queue, vectors, client, locals, B!vars, Gathered, Holder, MyTask
  <2> QED
    BY <2>1, <2>2 DEF Next, Acts, Finished
<1> QED
  BY <1>1, <1>2, <1>3, <1>4, PTL DEF Spec, ImplementsBatching, B!Spec
=============================================================================
