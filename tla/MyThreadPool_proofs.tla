------------------------- MODULE MyThreadPool_proofs -------------------------
(***************************************************************************)
(* Theorems about MyThreadPool, for every number of threads and tasks and  *)
(* every size of the queue.                                                *)
(*                                                                         *)
(* QuietInv: the counter stays 0, so that no thread gets past the waits    *)
(* for a task, and the ring of slots holds the last tasks added.           *)
(* HeldInv: the lock has its holder, as long as create found it unused.    *)
(***************************************************************************)
EXTENDS MyThreadPool, TLAPS

USE DEF sharedVars, poolVars, queueVars, mainVars

LEMMA ThreadsDistinct ==
    /\ Main \in Threads /\ Manager \in Threads /\ Main # Manager
    /\ Workers \subseteq Threads /\ Main \notin Workers /\ Manager \notin Workers
  BY MyPoolAssumption DEF Threads, Workers, Manager, Main

LEMMA ShutdownValues == 0..2 = {0, 1, 2}
  OBVIOUS

-----------------------------------------------------------------------------
(* The queue                                                               *)

\* How far slot s lies behind taskqueue_tail, which is the oldest.
Back(s) == IF s < taskqueue_tail THEN taskqueue_tail - s
           ELSE taskqueue_tail - s + taskqueue_max_size

\* Each slot holds the task that was stored there last.
RingHolds ==
    \A s \in 0..(taskqueue_max_size - 1) :
        taskqueue[s] = IF Back(s) <= Stored THEN Stored - Back(s) + 1 ELSE 0

\* What main knows at each place.
MainKnows ==
    /\ pc[Main] \in {"add lock", "add", "signal"} => added < MaxTasks
    /\ pc[Main] \notin {"create", "done"} => joining < Min

QuietInv ==
    /\ MyPoolTypeOK /\ MainKnows /\ RingHolds
    /\ taskqueue_cur_size = 0
    /\ \A t \in Threads : pc[t] # "beyond"

LEMMA QuietInit == Init => QuietInv
<1> SUFFICES ASSUME Init PROVE QuietInv
  OBVIOUS
<1>1. pc \in [Threads -> Places] /\ \A t \in Threads : pc[t] # "beyond"
  BY DEF Init, Places
<1>2. MyPoolTypeOK
  BY <1>1, MyPoolAssumption DEF Init, MyPoolTypeOK
<1>3. pc[Main] = "create"
  BY ThreadsDistinct DEF Init
<1>4. MainKnows
  BY <1>3 DEF MainKnows
<1>5. RingHolds
  BY <1>3, MyPoolAssumption DEF Init, RingHolds, Back, Stored
<1> QED
  BY <1>1, <1>2, <1>4, <1>5 DEF QuietInv, Init

\* A step that leaves the queue and the count of the tasks alone.
LEMMA RingKept ==
    ASSUME RingHolds, UNCHANGED queueVars, Stored' = Stored
    PROVE  RingHolds'
  BY DEF RingHolds, Back

\* The index of the slot after i, which the code writes with a remainder.
LEMMA WrapsRound ==
    ASSUME NEW m \in Nat, m > 0, NEW i \in 0..(m - 1)
    PROVE  (i + 1) % m = IF i + 1 = m THEN 0 ELSE i + 1
<1>1. CASE i + 1 = m
  BY <1>1
<1>2. CASE i + 1 # m
  BY <1>2
<1> QED
  BY <1>1, <1>2

LEMMA StoreStep ==
    ASSUME QuietInv, AddStore
    PROVE  QuietInv' /\ lock' = NoOne
<1> USE DEF QuietInv
<1>1. taskqueue_cur_size # taskqueue_max_size /\ pc[Main] = "add"
  BY MyPoolAssumption DEF AddStore, Go
<1>2. /\ pc' = [pc EXCEPT ![Main] = "signal"]
      /\ taskqueue' = [taskqueue EXCEPT ![taskqueue_tail] = added + 1]
      /\ taskqueue_tail' = (taskqueue_tail + 1) % taskqueue_max_size
      /\ taskqueue_cur_size' = taskqueue_cur_size /\ lock' = NoOne
      /\ UNCHANGED <<waiting, caught, poolVars, mainVars>>
  BY <1>1 DEF AddStore, Go, Count, Unlock
<1>3. pc'[Main] = "signal" /\ added < MaxTasks /\ added + 1 \in 0..MaxTasks
  BY <1>1, <1>2, ThreadsDistinct, MyPoolAssumption DEF MyPoolTypeOK, MainKnows
<1>4. Stored = added /\ Stored' = added + 1
  BY <1>1, <1>2, <1>3 DEF Stored, MyPoolTypeOK
<1>5. taskqueue_tail' = IF taskqueue_tail + 1 = taskqueue_max_size
                        THEN 0 ELSE taskqueue_tail + 1
  <2>1. taskqueue_max_size \in Nat /\ taskqueue_max_size > 0
    BY MyPoolAssumption
  <2>2. taskqueue_tail \in 0..(taskqueue_max_size - 1)
    BY DEF MyPoolTypeOK
  <2> QED
    BY <1>2, <2>1, <2>2, WrapsRound
<1>6. MyPoolTypeOK'
  <2>1. pc' \in [Threads -> Places]
    BY <1>2 DEF MyPoolTypeOK, Places
  <2>2. taskqueue_tail' \in 0..(taskqueue_max_size - 1)
    BY <1>5, MyPoolAssumption DEF MyPoolTypeOK
  <2>3. taskqueue' \in [0..(taskqueue_max_size - 1) -> 0..MaxTasks]
    BY <1>2, <1>3 DEF MyPoolTypeOK
  <2> QED
    BY <1>2, <2>1, <2>2, <2>3 DEF MyPoolTypeOK
<1>7. RingHolds'
  <2> SUFFICES ASSUME NEW s \in 0..(taskqueue_max_size - 1)
               PROVE  taskqueue'[s] = IF Back(s)' <= Stored' THEN Stored' - Back(s)' + 1 ELSE 0
    BY DEF RingHolds
  <2>1. CASE s = taskqueue_tail
    <3>1. Back(s)' = 1
      BY <1>5, <2>1, MyPoolAssumption DEF Back, MyPoolTypeOK
    <3>2. taskqueue'[s] = added + 1
      BY <1>2, <2>1 DEF MyPoolTypeOK
    <3> QED
      BY <1>4, <3>1, <3>2 DEF MyPoolTypeOK
  <2>2. CASE s # taskqueue_tail
    <3>1. Back(s)' = Back(s) + 1 /\ Back(s) \in Nat
      BY <1>5, <2>2, MyPoolAssumption DEF Back, MyPoolTypeOK
    <3>2. taskqueue'[s] = taskqueue[s]
      BY <1>2, <2>2 DEF MyPoolTypeOK
    <3> QED
      BY <1>4, <3>1, <3>2 DEF RingHolds, MyPoolTypeOK
  <2> QED
    BY <2>1, <2>2
<1>8. MainKnows' /\ \A t \in Threads : pc'[t] # "beyond"
  BY <1>1, <1>2, <1>3, ThreadsDistinct DEF MyPoolTypeOK, MainKnows
<1> QED
  BY <1>2, <1>6, <1>7, <1>8

\* A step of a worker or of the manager stays where nothing runs a task.
LEMMA WorkerQuiet ==
    ASSUME QuietInv, NEW w \in Workers, WorkerStep(w) \/ W_Spurious(w)
    PROVE  QuietInv'
<1> USE DEF QuietInv
<1>1. w \in Threads /\ w # Main
  BY ThreadsDistinct
<1>2. /\ UNCHANGED <<queueVars, mainVars, shutdown>>
      /\ \E to \in Places \ {"beyond"} : pc' = [pc EXCEPT ![w] = to]
  BY DEF WorkerStep, Lock, W_Check, W_Look, W_Wake, W_Relock, W_Awake, W_Spurious,
     Leave, Go, Places
<1>3. PICK to \in Places \ {"beyond"} : pc' = [pc EXCEPT ![w] = to]
  BY <1>2
<1>4. pc'[Main] = pc[Main] /\ pc' \in [Threads -> Places]
      /\ \A t \in Threads : pc'[t] # "beyond"
  BY <1>1, <1>3 DEF MyPoolTypeOK
<1>5. lock' \in Threads \cup {NoOne} /\ waiting' \subseteq Workers /\ caught' = caught
  BY <1>1 DEF WorkerStep, Lock, W_Check, W_Look, W_Wake, W_Relock, W_Awake, W_Spurious,
     Leave, Go, Take, Unlock, MyPoolTypeOK
<1>6. wait_exit_thread_num' \in 0..1
  BY DEF WorkerStep, Lock, W_Check, W_Look, W_Wake, W_Relock, W_Awake, W_Spurious,
     MyPoolTypeOK
<1>7. MyPoolTypeOK'
  BY <1>2, <1>4, <1>5, <1>6 DEF MyPoolTypeOK
<1>8. MainKnows' /\ RingHolds'
  BY <1>2, <1>4, RingKept DEF MainKnows, Stored
<1> QED
  BY <1>2, <1>4, <1>7, <1>8

LEMMA ManagerQuiet ==
    ASSUME QuietInv, ManagerStep
    PROVE  QuietInv'
<1> USE DEF QuietInv
<1>1. ~MustGrow /\ ~MustShrink
  BY MyPoolAssumption DEF MustGrow, MustShrink, cur_thread_num, cur_work_num
<1>2. /\ UNCHANGED <<queueVars, mainVars, poolVars, waiting, caught>>
      /\ lock' \in {lock, Manager, NoOne}
      /\ \E to \in Places \ {"beyond"} : pc' = [pc EXCEPT ![Manager] = to]
  BY <1>1 DEF ManagerStep, Lock, M_Check, Leave, Go, Take, Unlock, Places
<1>3. PICK to \in Places \ {"beyond"} : pc' = [pc EXCEPT ![Manager] = to]
  BY <1>2
<1>4. pc'[Main] = pc[Main] /\ pc' \in [Threads -> Places]
      /\ \A t \in Threads : pc'[t] # "beyond"
  BY <1>3, ThreadsDistinct DEF MyPoolTypeOK
<1>5. MyPoolTypeOK'
  BY <1>2, <1>4, ThreadsDistinct DEF MyPoolTypeOK
<1>6. MainKnows' /\ RingHolds'
  BY <1>2, <1>4, RingKept DEF MainKnows, Stored
<1> QED
  BY <1>2, <1>4, <1>5, <1>6

\* A step of main from one place to the next, other than AddStore.
LEMMA MainGoes ==
    ASSUME QuietInv, NEW to \in Places \ {"beyond"}, pc' = [pc EXCEPT ![Main] = to],
           UNCHANGED queueVars, Stored' = Stored,
           lock' \in Threads \cup {NoOne}, waiting' \subseteq Workers, caught' \subseteq Threads,
           shutdown' \in 0..2, UNCHANGED wait_exit_thread_num,
           added' \in 0..MaxTasks, joining' \in 0..Min,
           to \in {"add lock", "add", "signal"} => added' < MaxTasks,
           to \notin {"create", "done"} => joining' < Min
    PROVE  QuietInv'
<1> USE DEF QuietInv
<1>1. pc'[Main] = to /\ pc' \in [Threads -> Places] /\ \A t \in Threads : pc'[t] # "beyond"
  BY ThreadsDistinct DEF MyPoolTypeOK
<1>2. MyPoolTypeOK'
  BY <1>1 DEF MyPoolTypeOK
<1>3. MainKnows' /\ RingHolds'
  BY <1>1, RingKept DEF MainKnows
<1> QED
  BY <1>1, <1>2, <1>3

LEMMA StartQuiet ==
    ASSUME QuietInv, StartThread
    PROVE  QuietInv'
<1> USE DEF QuietInv
<1>1. PICK t \in Threads :
         /\ t # Main
         /\ \/ joining < Min /\ joining' = joining + 1
               /\ pc' = [pc EXCEPT ![t] = "lock", ![Main] = "create"]
            \/ ~(joining < Min) /\ joining' = 0
               /\ pc' = [pc EXCEPT ![t] = "lock", ![Main] = "init"]
  <2>1. CASE joining < Min
    <3>1. joining \in Workers /\ joining # Manager /\ joining \in Threads /\ joining # Main
      BY <2>1, ThreadsDistinct, MyPoolAssumption DEF MyPoolTypeOK, Workers
    <3> QED
      BY <2>1, <3>1 DEF StartThread
  <2>2. CASE ~(joining < Min)
    BY <2>2, ThreadsDistinct DEF StartThread
  <2> QED
    BY <2>1, <2>2
<1>2. pc' \in [Threads -> Places] /\ pc'[Main] \in {"create", "init"}
      /\ \A u \in Threads : pc'[u] # "beyond"
  BY <1>1, ThreadsDistinct DEF MyPoolTypeOK, Places
<1>3. pc'[Main] = "init" => joining' = 0
  BY <1>1, ThreadsDistinct DEF MyPoolTypeOK
<1>4. joining' \in 0..Min
  BY <1>1, MyPoolAssumption DEF MyPoolTypeOK
<1>5. UNCHANGED <<sharedVars, poolVars, queueVars, added>>
  BY DEF StartThread
<1>6. MyPoolTypeOK'
  BY <1>2, <1>4, <1>5 DEF MyPoolTypeOK
<1>7. MainKnows'
  <2>1. pc'[Main] \notin {"add lock", "add", "signal", "done"}
    BY <1>2
  <2>2. 0 < Min
    BY MyPoolAssumption
  <2>3. pc'[Main] = "create" \/ joining' < Min
    BY <1>2, <1>3, <2>2
  <2> QED
    BY <2>1, <2>3 DEF MainKnows
<1>8. RingHolds'
  BY <1>2, <1>5, RingKept DEF Stored, StartThread
<1> QED
  BY <1>2, <1>5, <1>6, <1>7, <1>8

\* Where main is when it takes a step other than StartThread and AddStore.
LEMMA MainQuiet ==
    ASSUME QuietInv, MainStep \/ AddCall \/ DestroyCall
    PROVE  QuietInv'
<1> USE DEF QuietInv
<1>1. CASE StartThread \/ AddStore
  BY <1>1, StartQuiet, StoreStep
<1>2. CASE AddSignal
  <2>1. /\ pc[Main] = "signal" /\ pc' = [pc EXCEPT ![Main] = "idle"]
        /\ waiting' \subseteq waiting /\ added' = added + 1
        /\ UNCHANGED <<lock, caught, poolVars, queueVars, joining>>
    BY <1>2 DEF AddSignal, Go
  <2>2. added' \in 0..MaxTasks /\ joining' < Min
    BY <2>1, MyPoolAssumption DEF MyPoolTypeOK, MainKnows
  <2>3. pc'[Main] = "idle"
    BY <2>1, ThreadsDistinct DEF MyPoolTypeOK
  <2>4. Stored' = Stored
    BY <2>1, <2>3 DEF Stored, MyPoolTypeOK
  <2>5. "idle" \in Places \ {"beyond"}
    BY DEF Places
  <2> QED
    BY <2>1, <2>2, <2>4, <2>5, MainGoes DEF MyPoolTypeOK
<1>3. CASE Join
  <2>1. /\ pc[Main] = "join" /\ joining' = joining + 1
        /\ pc' = [pc EXCEPT ![Main] = IF joining + 1 < Min THEN "broadcast" ELSE "done"]
        /\ UNCHANGED <<sharedVars, poolVars, queueVars, added>>
    BY <1>3 DEF Join, Go, cur_thread_num
  <2>2. joining < Min /\ joining' \in 0..Min
    BY <2>1, MyPoolAssumption DEF MyPoolTypeOK, MainKnows
  <2>3. pc'[Main] \in {"broadcast", "done"}
    BY <2>1, ThreadsDistinct DEF MyPoolTypeOK
  <2>4. Stored' = Stored
    BY <2>1, <2>3 DEF Stored
  <2>5. {"broadcast", "done"} \subseteq Places \ {"beyond"}
    BY DEF Places
  <2>6. CASE joining + 1 < Min
    BY <2>1, <2>2, <2>4, <2>5, <2>6, MainGoes DEF MyPoolTypeOK
  <2>7. CASE ~(joining + 1 < Min)
    BY <2>1, <2>2, <2>4, <2>5, <2>7, MainGoes DEF MyPoolTypeOK
  <2> QED
    BY <2>6, <2>7
<1>4. CASE \/ InitLock \/ InitConditions \/ InitShutdown \/ AddCall \/ AddLock
           \/ DestroyCall \/ DestroyLock \/ DestroySet \/ JoinManager \/ Broadcast
  <2>1. PICK to \in {"init conditions", "init shutdown", "idle", "add lock", "add",
                     "destroy lock", "destroy", "join manager", "broadcast", "join"} :
           /\ pc' = [pc EXCEPT ![Main] = to]
           /\ to \in {"add lock", "add"} => added < MaxTasks
    BY <1>4 DEF InitLock, InitConditions, InitShutdown, AddCall, AddLock, DestroyCall,
       DestroyLock, DestroySet, JoinManager, Broadcast, Go, MainKnows
  <2>2. pc[Main] \notin {"create", "done", "signal"}
    BY <1>4 DEF InitLock, InitConditions, InitShutdown, AddCall, AddLock, DestroyCall,
       DestroyLock, DestroySet, JoinManager, Broadcast, Go
  <2>3. UNCHANGED <<queueVars, mainVars, wait_exit_thread_num>>
    BY <1>4 DEF InitLock, InitConditions, InitShutdown, AddCall, AddLock, DestroyCall,
       DestroyLock, DestroySet, JoinManager, Broadcast
  <2>4. /\ lock' \in {lock, NoOne, Main} /\ waiting' \in {waiting, {}}
        /\ shutdown' \in {shutdown, 0, 1}
    BY <1>4 DEF InitLock, InitConditions, InitShutdown, AddCall, AddLock, DestroyCall,
       DestroyLock, DestroySet, JoinManager, Broadcast, Take, D_Lock, Unlock
  <2>5. caught' \subseteq Threads
    <3>1. CASE InitLock
      BY <3>1 DEF InitLock, MyPoolTypeOK
    <3>2. CASE InitConditions
      BY <3>2, ThreadsDistinct DEF InitConditions, MyPoolTypeOK
    <3>3. CASE ~InitLock /\ ~InitConditions
      BY <1>4, <3>3 DEF InitShutdown, AddCall, AddLock, DestroyCall, DestroyLock,
         DestroySet, JoinManager, Broadcast, MyPoolTypeOK
    <3> QED
      BY <3>1, <3>2, <3>3
  <2>6. to \in Places \ {"beyond"} /\ to # "signal" /\ pc'[Main] = to
    BY <2>1, ThreadsDistinct DEF MyPoolTypeOK, Places
  <2>7. Stored' = Stored
    BY <2>2, <2>3, <2>6 DEF Stored
  <2>8. joining < Min
    BY <2>2 DEF MainKnows
  <2>9. lock' \in Threads \cup {NoOne} /\ waiting' \subseteq Workers
    <3>1. lock' \in Threads \cup {NoOne}
      BY <2>4, ThreadsDistinct DEF MyPoolTypeOK
    <3>2. waiting' \subseteq Workers
      BY <2>4 DEF MyPoolTypeOK
    <3> QED
      BY <3>1, <3>2
  <2>10. shutdown' \in 0..2 /\ added' \in 0..MaxTasks /\ joining' \in 0..Min
    <3>1. shutdown \in 0..2 /\ added \in 0..MaxTasks /\ joining \in 0..Min
      BY DEF MyPoolTypeOK
    <3>2. added' = added /\ joining' = joining
      BY <2>3
    <3>3. shutdown' = shutdown \/ shutdown' = 0 \/ shutdown' = 1
      BY <2>4
    <3>4. shutdown' \in 0..2
      BY <3>1, <3>3, ShutdownValues
    <3> QED
      BY <3>1, <3>2, <3>4
  <2>11. /\ to \in {"add lock", "add", "signal"} => added' < MaxTasks
         /\ joining' < Min
    BY <2>1, <2>3, <2>6, <2>8
  <2>12. UNCHANGED queueVars /\ UNCHANGED wait_exit_thread_num
    BY <2>3
  <2>13. pc' = [pc EXCEPT ![Main] = to] /\ to \in Places \ {"beyond"}
    BY <2>1, <2>6
  <2> QED
    BY <2>5, <2>7, <2>9, <2>10, <2>11, <2>12, <2>13, MainGoes
<1> QED
  BY <1>1, <1>2, <1>3, <1>4 DEF MainStep

LEMMA QuietNext ==
    ASSUME QuietInv, [Next]_vars
    PROVE  QuietInv'
<1>1. CASE UNCHANGED vars
  <2>1. /\ UNCHANGED <<lock, waiting, caught, shutdown, wait_exit_thread_num>>
        /\ UNCHANGED <<taskqueue, taskqueue_tail, taskqueue_cur_size, added, joining, pc>>
    BY <1>1 DEF vars
  <2>2. MyPoolTypeOK' /\ MainKnows'
    BY <2>1 DEF QuietInv, MyPoolTypeOK, MainKnows
  <2>3. RingHolds'
    BY <2>1, RingKept DEF QuietInv, Stored
  <2> QED
    BY <2>1, <2>2, <2>3 DEF QuietInv
<1>2. CASE Next
  BY <1>2, WorkerQuiet, ManagerQuiet, MainQuiet DEF Next
<1> QED
  BY <1>1, <1>2

\* The inductive invariant of the queue.
LEMMA QuietCorrect == Spec => []QuietInv
  BY QuietInit, QuietNext, PTL DEF Spec

-----------------------------------------------------------------------------
(* What the counter that is never counted comes to *)

LEMMA QuietMeansNothingRuns == QuietInv => NoTaskRuns
<1> SUFFICES ASSUME QuietInv PROVE NoTaskRuns
  OBVIOUS
<1> USE DEF QuietInv
<1> DEFINE kept == {k \in 1..Stored : k > Stored - taskqueue_max_size}
<1>1. Stored \in Nat
  BY DEF Stored, MyPoolTypeOK
<1>2. taskqueue_tail \in 0..(taskqueue_max_size - 1) /\ taskqueue_max_size \in Nat \ {0}
  BY MyPoolAssumption DEF MyPoolTypeOK
<1>3. DOMAIN taskqueue = 0..(taskqueue_max_size - 1)
  BY DEF MyPoolTypeOK
<1>4. ASSUME NEW s \in 0..(taskqueue_max_size - 1), taskqueue[s] # 0
      PROVE  taskqueue[s] \in kept
  <2>1. Back(s) \in 1..taskqueue_max_size
    BY <1>2 DEF Back
  <2>2. taskqueue[s] = Stored - Back(s) + 1 /\ Back(s) <= Stored
    BY <1>4 DEF RingHolds
  <2> QED
    BY <1>1, <1>2, <2>1, <2>2
<1>5. ASSUME NEW k \in kept
      PROVE  k # 0 /\ \E s \in 0..(taskqueue_max_size - 1) : taskqueue[s] = k
  <2> DEFINE back == Stored - k + 1
             s == IF taskqueue_tail >= back THEN taskqueue_tail - back
                  ELSE taskqueue_tail - back + taskqueue_max_size
  <2>1. back \in 1..taskqueue_max_size /\ back <= Stored /\ Stored - back + 1 = k /\ k # 0
    BY <1>1, <1>2, <1>5
  <2> HIDE DEF back
  <2>2. s \in 0..(taskqueue_max_size - 1) /\ Back(s) = back
    BY <1>2, <2>1 DEF Back
  <2>3. taskqueue[s] = k
    BY <2>1, <2>2 DEF RingHolds
  <2> QED
    BY <2>1, <2>2, <2>3
<1>6. {taskqueue[s] : s \in DOMAIN taskqueue} \ {0} = kept
  BY <1>3, <1>4, <1>5
<1> QED
  BY <1>6 DEF NoTaskRuns

(* No task is ever run and the pool never grows or shrinks, whatever       *)
(* shutdown was before create set it; the queue has the last               *)
(* taskqueue_max_size tasks added, as addtask, which never counts them,    *)
(* never waits for room.                                                   *)
THEOREM NothingRuns == Spec => []NoTaskRuns
  BY QuietCorrect, QuietMeansNothingRuns, PTL

-----------------------------------------------------------------------------
(* The lock *)

\* Until create has come to the lock, nothing is caught by it.
HeldInv == LockIsHeld /\ (pc[Main] \in {"create", "init"} => caught = {})

LEMMA HeldInit == Init => HeldInv
  BY ThreadsDistinct DEF Init, HeldInv, LockIsHeld

\* A step that frees the lock, or leaves it, or takes it when it is free.
LEMMA WorkerHeld ==
    ASSUME QuietInv, HeldInv, NEW w \in Workers, WorkerStep(w) \/ W_Spurious(w)
    PROVE  HeldInv'
<1> USE DEF QuietInv
<1>1. w \in Threads /\ w # Main /\ caught' = caught
  BY ThreadsDistinct DEF WorkerStep, Lock, W_Check, W_Look, W_Wake, W_Relock, W_Awake,
     W_Spurious, MyPoolTypeOK
<1> DEFINE Inside == {"check", "look", "awake", "add", "destroy"}
<1>2. PICK to \in Places : /\ pc' = [pc EXCEPT ![w] = to]
                           /\ \/ pc[w] \in Inside /\ lock' = NoOne /\ to \notin Inside
                              \/ pc[w] \in Inside /\ lock' = lock
                              \/ lock = NoOne /\ lock' = w
                              \/ lock' = lock /\ to \notin Inside
  BY DEF WorkerStep, Lock, W_Check, W_Look, W_Wake, W_Relock, W_Awake, W_Spurious,
     Leave, Go, Take, Unlock, Places
<1>3. pc'[w] = to /\ \A t \in Threads \ {w} : pc'[t] = pc[t]
  BY <1>1, <1>2 DEF MyPoolTypeOK
<1>4. LockIsHeld'
  BY <1>1, <1>2, <1>3, MyPoolAssumption DEF HeldInv, LockIsHeld
<1> QED
  BY <1>1, <1>3, <1>4, ThreadsDistinct DEF HeldInv

LEMMA ManagerHeld ==
    ASSUME QuietInv, HeldInv, ManagerStep
    PROVE  HeldInv'
<1> USE DEF QuietInv
<1>1. ~MustGrow /\ ~MustShrink
  BY MyPoolAssumption DEF MustGrow, MustShrink, cur_thread_num, cur_work_num
<1>2. PICK to \in {"check", "gone", "lock"} :
         /\ pc' = [pc EXCEPT ![Manager] = to] /\ caught' = caught
         /\ \/ pc[Manager] = "check" /\ lock' \in {lock, NoOne} /\ to # "check"
               /\ (lock' = NoOne \/ lock' = lock)
            \/ lock = NoOne /\ lock' = Manager
  BY <1>1 DEF ManagerStep, Lock, M_Check, Leave, Go, Take, Unlock
<1>3. pc'[Manager] = to /\ \A t \in Threads \ {Manager} : pc'[t] = pc[t]
  BY <1>2, ThreadsDistinct DEF MyPoolTypeOK
<1>4. LockIsHeld'
  BY <1>2, <1>3, ThreadsDistinct, MyPoolAssumption DEF HeldInv, LockIsHeld
<1> QED
  BY <1>2, <1>3, <1>4, ThreadsDistinct DEF HeldInv

LEMMA MainHeld ==
    ASSUME QuietInv, HeldInv, MainStep \/ AddCall \/ DestroyCall
    PROVE  HeldInv'
<1> USE DEF QuietInv
<1>1. CASE StartThread
  <2>1. caught' = caught /\ lock' = lock /\ caught = {}
    BY <1>1 DEF StartThread, HeldInv
  <2>2. \A t \in Threads : pc'[t] \in {pc[t], "lock", "init", "create"}
    BY <1>1 DEF StartThread, MyPoolTypeOK
  <2> QED
    BY <2>1, <2>2 DEF HeldInv, LockIsHeld
<1>2. CASE InitLock
  <2>1. /\ pc[Main] = "init" /\ pc' = [pc EXCEPT ![Main] = "init conditions"]
        /\ caught = {} /\ (caught' = {} => lock = NoOne)
    BY <1>2 DEF InitLock, Go, HeldInv
  <2>2. pc'[Main] = "init conditions" /\ \A t \in Threads \ {Main} : pc'[t] = pc[t]
    BY <2>1, ThreadsDistinct DEF MyPoolTypeOK
  <2>3. lock' = NoOne
    BY <1>2 DEF InitLock
  <2> QED
    BY <2>1, <2>2, <2>3, MyPoolAssumption DEF HeldInv, LockIsHeld
<1> DEFINE Inside == {"check", "look", "awake", "add", "destroy"}
<1>3. CASE \/ MainStep /\ ~StartThread /\ ~InitLock
           \/ AddCall \/ DestroyCall
  <2>1. taskqueue_cur_size # taskqueue_max_size
    BY MyPoolAssumption
  <2>2. PICK to \in Places \ {"create", "init"} :
           /\ pc' = [pc EXCEPT ![Main] = to]
           /\ \/ pc[Main] \in Inside /\ lock' = NoOne /\ to \notin Inside
              \/ lock = NoOne /\ lock' = Main
              \/ lock' = lock /\ to \notin Inside
    BY <1>3, <2>1 DEF MainStep, InitConditions, InitShutdown, AddCall, AddLock, AddStore,
       AddSignal, DestroyCall, DestroyLock, DestroySet, JoinManager, Broadcast, Join,
       Go, Take, D_Lock, Unlock, Places
  <2>3. caught \subseteq caught'
    BY <1>3 DEF MainStep, InitConditions, InitShutdown, AddCall, AddLock, AddStore,
       AddSignal, DestroyCall, DestroyLock, DestroySet, JoinManager, Broadcast, Join
  <2>4. pc'[Main] = to /\ \A t \in Threads \ {Main} : pc'[t] = pc[t]
    BY <2>2, ThreadsDistinct DEF MyPoolTypeOK
  <2>5. LockIsHeld'
    BY <2>2, <2>3, <2>4, ThreadsDistinct, MyPoolAssumption DEF HeldInv, LockIsHeld
  <2> QED
    BY <2>2, <2>4, <2>5 DEF HeldInv
<1> QED
  BY <1>1, <1>2, <1>3 DEF MainStep

LEMMA HeldNext ==
    ASSUME QuietInv, HeldInv, [Next]_vars
    PROVE  HeldInv'
<1>1. CASE UNCHANGED vars
  BY <1>1 DEF vars, HeldInv, LockIsHeld
<1>2. CASE Next
  BY <1>2, WorkerHeld, ManagerHeld, MainHeld DEF Next
<1> QED
  BY <1>1, <1>2

(* Whoever is between its lock and its unlock has the lock, although no    *)
(* unlock asks who has it and the manager comes to a lock it never freed;  *)
(* unless the initialisation of the lock, which comes after the threads    *)
(* have been started, found it in use.                                     *)
THEOREM LockHeld == Spec => []LockIsHeld
<1>1. Spec => []HeldInv
  BY HeldInit, HeldNext, QuietCorrect, PTL DEF Spec
<1>2. HeldInv => LockIsHeld
  BY DEF HeldInv
<1> QED
  BY <1>1, <1>2, PTL

=============================================================================
