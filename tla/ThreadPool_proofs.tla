------------------------- MODULE ThreadPool_proofs -------------------------
(***************************************************************************)
(* Theorems about the pool of ThreadPool, for every number of workers,     *)
(* producers, tasks and slots of the queue.                                *)
(*                                                                         *)
(* The chain of invariants: the types; when a producer may be inside an    *)
(* unlocked add (Overlap); who holds the mutex (HoldsLock); what a thread  *)
(* inside a critical section knows of the queue (Sections); and from these *)
(* the ring of slots, the sleeping threads, the two counters of threads,   *)
(* the arguments that are freed, the place of every task, and that the     *)
(* pool implements TaskQueue.                                              *)
(***************************************************************************)
EXTENDS ThreadPool, FiniteSetTheorems, SequenceTheorems, TLAPS

USE DEF poolVars, queueVars, countVars, workerVars, producerVars, managerVars,
        destroyVars, historyVars, notWorker, notProducer, notManager, notDestroy

-----------------------------------------------------------------------------
(* The ring of slots.                                                      *)

LEMMA ModInRange ==
    ASSUME NEW x \in Nat, NEW n \in Nat \ {0}
    PROVE  x % n \in 0..n-1
  OBVIOUS

LEMMA ModSmall ==
    ASSUME NEW n \in Nat \ {0}, NEW x \in 0..n-1
    PROVE  x % n = x
  OBVIOUS

LEMMA ModLarge ==
    ASSUME NEW n \in Nat \ {0}, NEW x \in n..2*n-1
    PROVE  x % n = x - n
  OBVIOUS

LEMMA NextSlotInRange ==
    ASSUME NEW i \in Slots
    PROVE  NextSlot(i) \in Slots
  BY PoolAssumption, ModInRange DEF NextSlot, Slots

LEMMA NextSlotCases ==
    ASSUME NEW i \in Slots
    PROVE  NextSlot(i) = IF i + 1 = QMax THEN 0 ELSE i + 1
  BY PoolAssumption DEF NextSlot, Slots

\* The slot s places after slot f.
LEMMA RingIndex ==
    ASSUME NEW f \in Slots, NEW s \in 0..QMax
    PROVE  /\ (f + s) % QMax \in Slots
           /\ (f + s) % QMax = IF f + s < QMax THEN f + s ELSE f + s - QMax
<1>1. CASE f + s < QMax
  BY <1>1, ModSmall, PoolAssumption DEF Slots
<1>2. CASE f + s >= QMax
  BY <1>2, ModLarge, PoolAssumption DEF Slots
<1> QED
  BY <1>1, <1>2, PoolAssumption DEF Slots

LEMMA RingPut ==
    ASSUME NEW f \in Slots, NEW s \in 0..QMax-1
    PROVE  NextSlot((f + s) % QMax) = (f + (s + 1)) % QMax
<1> DEFINE r == (f + s) % QMax
<1>1. r \in Slots /\ r = IF f + s < QMax THEN f + s ELSE f + s - QMax
  BY RingIndex, PoolAssumption
<1>2. s + 1 \in 0..QMax
  BY PoolAssumption
<1>3. (f + (s + 1)) % QMax = IF f + (s + 1) < QMax THEN f + (s + 1)
                                                   ELSE f + (s + 1) - QMax
  BY <1>2, RingIndex
<1>4. NextSlot(r) = IF r + 1 = QMax THEN 0 ELSE r + 1
  BY <1>1, NextSlotCases
<1> HIDE DEF r
<1>5. NextSlot(r) = (f + (s + 1)) % QMax
  BY <1>1, <1>3, <1>4, PoolAssumption DEF Slots
<1> QED
  BY <1>5 DEF r

LEMMA RingTake ==
    ASSUME NEW f \in Slots, NEW s \in 1..QMax
    PROVE  (f + s) % QMax = (NextSlot(f) + (s - 1)) % QMax
<1>1. (f + s) % QMax = IF f + s < QMax THEN f + s ELSE f + s - QMax
  BY RingIndex, PoolAssumption
<1>2. NextSlot(f) \in Slots /\ NextSlot(f) = IF f + 1 = QMax THEN 0 ELSE f + 1
  BY NextSlotInRange, NextSlotCases
<1>3. s - 1 \in 0..QMax
  BY PoolAssumption
<1>4. (NextSlot(f) + (s - 1)) % QMax = IF NextSlot(f) + (s - 1) < QMax
                                       THEN NextSlot(f) + (s - 1)
                                       ELSE NextSlot(f) + (s - 1) - QMax
  BY <1>2, <1>3, RingIndex
<1> QED
  BY <1>1, <1>2, <1>4, PoolAssumption DEF Slots

LEMMA RingDistinct ==
    ASSUME NEW f \in Slots, NEW s \in 0..QMax-1, NEW t \in 0..QMax-1,
           (f + s) % QMax = (f + t) % QMax
    PROVE  s = t
<1>1. (f + s) % QMax = IF f + s < QMax THEN f + s ELSE f + s - QMax
  BY RingIndex, PoolAssumption
<1>2. (f + t) % QMax = IF f + t < QMax THEN f + t ELSE f + t - QMax
  BY RingIndex, PoolAssumption
<1> QED
  BY <1>1, <1>2, PoolAssumption DEF Slots

LEMMA WorkersFinite ==
    ASSUME NEW S \in SUBSET Workers
    PROVE  IsFiniteSet(S) /\ Cardinality(S) \in Nat
<1>1. IsFiniteSet(Workers)
  BY PoolAssumption, FS_Interval DEF Workers
<1> QED
  BY <1>1, FS_Subset, FS_CardinalityType

-----------------------------------------------------------------------------
(* Type correctness.                                                       *)

LEMMA TypeInit == Init => PoolTypeOK
<1> SUFFICES ASSUME Init PROVE PoolTypeOK
  OBVIOUS
<1>1. PICK failed \in SUBSET (0..MinThr-1) :
         wpc = [w \in Workers |-> IF w < MinThr /\ w \notin failed
                                  THEN "lock" ELSE "none"]
  BY DEF Init
<1>2. wpc \in [Workers -> Gone \cup {"lock", "towait", "waiting", "woken",
                                    "dispatch", "taken", "running", "finished"}]
  BY <1>1 DEF Gone
<1>3. task_queue \in [Slots -> Tasks \cup {NULL, Junk}]
  BY PoolAssumption DEF Init
<1>4. wait_exit_thr_num \in Int /\ live_thr_num \in Int /\ 0 \in Slots
  BY PoolAssumption DEF Init, Slots
<1>5. /\ task \in [Workers -> Tasks \cup {NULL, Junk}]
      /\ ppc = [p \in Producers |-> "idle"]
      /\ arg \in [Producers -> Tasks \cup {NULL}] /\ reg \in [Producers -> Int]
  BY DEF Init
<1>6. ppc \in [Producers -> {"idle", "lock", "towait", "waiting", "woken",
                             "decide", "uslot", "urear", "usize", "uunlock"}]
  BY <1>5
<1>7. sample \in [size : Int, live : Int, busy : Int]
  BY DEF Init, NoSample
<1>8. shutdown \in BOOLEAN
  BY Zenon DEF Init
<1> QED
  BY <1>2, <1>3, <1>4, <1>5, <1>6, <1>7, <1>8, PoolAssumption
  DEF Init, PoolTypeOK

LEMMA TypeStep == PoolTypeOK /\ [Next]_vars => PoolTypeOK'
<1> SUFFICES ASSUME PoolTypeOK, [Next]_vars PROVE PoolTypeOK'
  OBVIOUS
<1> USE DEF PoolTypeOK, Gone
<1>1. ASSUME NEW w \in Workers, WorkerStep(w) \/ W_Spurious(w) PROVE PoolTypeOK'
  <2>1. CASE W_Lock(w)
    BY <2>1 DEF W_Lock, WGo, Acquire, WorkerLoop
  <2>2. CASE W_Wait(w)
    BY <2>2 DEF W_Wait, WGo, Release
  <2>3. CASE W_Wake(w)
    BY <2>3 DEF W_Wake, WGo, Release, Acquire, WorkerLoop
  <2>4. CASE W_Stop(w)
    BY <2>4 DEF W_Stop, WGo, Release
  <2>5. CASE W_Take(w)
    BY <2>5, NextSlotInRange
    DEF W_Take, WGo, Release, BroadcastNotFull, FrontTask
  <2>6. CASE W_Begin(w)
    BY <2>6 DEF W_Begin, WGo
  <2>7. CASE W_Run(w)
    BY <2>7 DEF W_Run, WGo
  <2>8. CASE W_End(w)
    BY <2>8 DEF W_End, WGo
  <2>9. CASE W_Spurious(w)
    BY <2>9 DEF W_Spurious, WGo
  <2> QED
    BY <1>1, <2>1, <2>2, <2>3, <2>4, <2>5, <2>6, <2>7, <2>8, <2>9 DEF WorkerStep
<1>2. ASSUME NEW p \in Producers, P_Call(p) \/ AddStep(p) \/ P_Spurious(p)
      PROVE PoolTypeOK'
  <2>1. CASE P_Lock(p)
    BY <2>1 DEF P_Lock, PGo, Acquire, AddLoop
  <2>2. CASE P_Wait(p)
    BY <2>2 DEF P_Wait, PGo, Release
  <2>3. CASE P_Put(p)
    BY <2>3, NextSlotInRange
    DEF P_Put, PGo, Release, StoreArg, SignalNotEmpty, Waiters
  <2>4. CASE P_SeeShutdown(p)
    BY <2>4 DEF P_SeeShutdown, PGo, Release
  <2>5. CASE P_UnlockedStore(p)
    BY <2>5, PoolAssumption DEF P_UnlockedStore, PGo, StoreArg, Slots
  <2>6. CASE P_UnlockedRear(p)
    BY <2>6, NextSlotInRange DEF P_UnlockedRear, PGo
  <2>7. CASE P_UnlockedSize(p)
    BY <2>7 DEF P_UnlockedSize, PGo
  <2>8. CASE P_ForeignUnlock(p)
    BY <2>8 DEF P_ForeignUnlock, PGo, Release, SignalNotEmpty, Waiters
  <2>9. CASE P_Call(p)
    BY <2>9, PoolAssumption DEF P_Call, PGo, Tasks
  <2>10. CASE P_Spurious(p)
    BY <2>10 DEF P_Spurious, PGo
  <2> QED
    BY <1>2, <2>1, <2>2, <2>3, <2>4, <2>5, <2>6, <2>7, <2>8, <2>9, <2>10
    DEF AddStep
<1>3. ASSUME ManagerStep PROVE PoolTypeOK'
  <2>1. CASE A_Check
    BY <2>1 DEF A_Check
  <2>2. CASE A_Sample
    BY <2>2 DEF A_Sample
  <2>3. CASE A_Count
    BY <2>3 DEF A_Count, AfterGrow, NoSample
  <2>4. CASE A_Grow
    <3>1. PICK S \in SUBSET Reusable, failed \in SUBSET Workers :
             /\ live_thr_num' = live_thr_num + Cardinality(S)
             /\ live_thr_num + Cardinality(S) <= MaxThr
             /\ wpc' = [v \in Workers |-> IF v \in failed THEN "none"
                                          ELSE IF v \in S THEN "lock" ELSE wpc[v]]
      BY <2>4 DEF A_Grow
    <3>2. Cardinality(S) \in Nat
      BY WorkersFinite DEF Reusable
    <3> QED
      BY <3>1, <3>2, <2>4 DEF A_Grow, AfterGrow, NoSample
  <2>5. CASE A_Shrink
    BY <2>5, PoolAssumption DEF A_Shrink, NoSample
  <2>6. CASE A_Signal
    BY <2>6, PoolAssumption DEF A_Signal, SignalNotEmpty, Waiters
  <2> QED
    BY <1>3, <2>1, <2>2, <2>3, <2>4, <2>5, <2>6 DEF ManagerStep
<1>4. ASSUME D_Shutdown \/ DestroyStep PROVE PoolTypeOK'
  <2>1. CASE D_Shutdown
    BY <2>1 DEF D_Shutdown
  <2>2. CASE D_Broadcast
    BY <2>2 DEF D_Broadcast
  <2>3. CASE D_Join
    BY <2>3 DEF D_Join
  <2>4. CASE D_FreeArrays
    BY <2>4 DEF D_FreeArrays
  <2>5. CASE D_FreePool
    BY <2>5 DEF D_FreePool, Acquire
  <2> QED
    BY <1>4, <2>1, <2>2, <2>3, <2>4, <2>5 DEF DestroyStep
<1>5. CASE UNCHANGED vars
  BY <1>5 DEF vars
<1> QED
  BY <1>1, <1>2, <1>3, <1>4, <1>5 DEF Next

(* Every variable keeps its type, whatever the threads do.                 *)
THEOREM TypeCorrect == Spec => []PoolTypeOK
  BY TypeInit, TypeStep, PTL DEF Spec

-----------------------------------------------------------------------------
(* The critical sections of pool->lock.                                    *)

\* When an add goes on without the mutex, and when no add is under way.
Overlap ==
    /\ shutdown <=> dpc # "idle"
    /\ \A p \in Producers :
          ppc[p] \in {"uslot", "urear", "usize", "uunlock"} => shutdown
    /\ DestroyWhen # "anytime" /\ shutdown => \A p \in Producers : ppc[p] = "idle"

LEMMA OverlapInv == Spec => []Overlap
<1>1. Init => Overlap
  BY DEF Init, Overlap
<1>2. PoolTypeOK /\ Overlap /\ [Next]_vars => Overlap'
  <2> SUFFICES ASSUME PoolTypeOK, Overlap, [Next]_vars PROVE Overlap'
    OBVIOUS
  <2> USE DEF PoolTypeOK, Overlap
  <2>1. ASSUME NEW w \in Workers, WorkerStep(w) \/ W_Spurious(w) PROVE Overlap'
    BY <2>1 DEF WorkerStep, W_Lock, W_Wait, W_Wake, W_Stop, W_Take, W_Begin,
                W_Run, W_End, W_Spurious,
                BroadcastNotFull
  <2>2. ASSUME NEW p \in Producers, P_Call(p) \/ AddStep(p) \/ P_Spurious(p)
        PROVE Overlap'
    BY <2>2 DEF AddStep, P_Call, P_Lock, P_Wait, P_Put, P_SeeShutdown,
                P_UnlockedStore, P_UnlockedRear, P_UnlockedSize,
                P_ForeignUnlock, P_Spurious, PGo, AddLoop
  <2>3. CASE ManagerStep
    BY <2>3 DEF ManagerStep, A_Check, A_Sample, A_Count, A_Grow, A_Shrink,
                A_Signal
  <2>4. CASE D_Shutdown \/ DestroyStep
    BY <2>4 DEF D_Shutdown, DestroyStep, D_Broadcast, D_Join, D_FreeArrays,
                D_FreePool
  <2>5. CASE UNCHANGED vars
    BY <2>5 DEF vars
  <2> QED
    BY <2>1, <2>2, <2>3, <2>4, <2>5 DEF Next
<1> QED
  BY <1>1, <1>2, TypeCorrect, PTL DEF Spec

\* The pool has been orderly if it is.
LEMMA StepOrderly ==
    ASSUME Overlap, [Next]_vars, Orderly'
    PROVE  Orderly
  BY DEF Orderly, Overlap, Next, D_Shutdown, DestroyStep, D_Broadcast, D_Join,
     D_FreeArrays, D_FreePool, ManagerStep, A_Check, A_Sample, A_Count,
     A_Grow, A_Shrink, A_Signal, AddStep, P_Call, P_Lock, P_Wait, P_Put,
     P_SeeShutdown, P_UnlockedStore, P_UnlockedRear, P_UnlockedSize,
     P_ForeignUnlock, P_Spurious, WorkerStep, W_Lock, W_Wait, W_Wake,
     W_Stop, W_Take, W_Begin, W_Run, W_End, W_Spurious, vars

(* No two threads are inside a critical section of an orderly pool.        *)
THEOREM LockHeld == Spec => []HoldsLock
<1>1. Init => HoldsLock
  BY DEF Init, HoldsLock
<1>2. PoolTypeOK /\ Overlap /\ HoldsLock /\ [Next]_vars => HoldsLock'
  <2> SUFFICES ASSUME PoolTypeOK, Overlap, HoldsLock, [Next]_vars PROVE HoldsLock'
    OBVIOUS
  <2> USE PoolAssumption DEF PoolTypeOK, Overlap, HoldsLock, Orderly, Acquire, Release
  <2>1. ASSUME NEW w \in Workers, WorkerStep(w) \/ W_Spurious(w) PROVE HoldsLock'
    BY <2>1 DEF WorkerStep, W_Lock, W_Wait, W_Wake, W_Stop, W_Take, W_Begin,
                W_Run, W_End, W_Spurious,
                WGo, BroadcastNotFull
  <2>2. ASSUME NEW p \in Producers, P_Call(p) \/ AddStep(p) \/ P_Spurious(p)
        PROVE HoldsLock'
    BY <2>2 DEF AddStep, P_Call, P_Lock, P_Wait, P_Put, P_SeeShutdown,
                P_UnlockedStore, P_UnlockedRear, P_UnlockedSize,
                P_ForeignUnlock, P_Spurious, PGo, SignalNotEmpty, Waiters
  <2>3. CASE ManagerStep
    BY <2>3 DEF ManagerStep, A_Check, A_Sample, A_Count, A_Grow, A_Shrink,
                A_Signal, SignalNotEmpty, Waiters, Reusable
  <2>4. CASE D_Shutdown \/ DestroyStep
    BY <2>4 DEF D_Shutdown, DestroyStep, D_Broadcast, D_Join, D_FreeArrays,
                D_FreePool
  <2>5. CASE UNCHANGED vars
    BY <2>5 DEF vars
  <2> QED
    BY <2>1, <2>2, <2>3, <2>4, <2>5 DEF Next
<1> QED
  BY <1>1, <1>2, TypeCorrect, OverlapInv, PTL DEF Spec

\* What a thread between two steps of a critical section relies on.
Sections ==
    Orderly =>
    /\ queue_size \in 0..QMax
    /\ \A w \in Workers : wpc[w] = "towait" => queue_size = 0
    /\ \A w \in Workers : wpc[w] = "dispatch" /\ ~shutdown => queue_size > 0
    /\ \A p \in Producers : ppc[p] \in {"towait", "waiting"} => queue_size = QMax
    /\ \A p \in Producers : ppc[p] = "decide" => queue_size < QMax

LEMMA SectionsInv == Spec => []Sections
<1>1. Init => Sections
  BY PoolAssumption DEF Init, Sections
<1>2. PoolTypeOK /\ Overlap /\ HoldsLock /\ Sections /\ [Next]_vars => Sections'
  <2> SUFFICES ASSUME PoolTypeOK, Overlap, HoldsLock, Sections, [Next]_vars
               PROVE  Sections'
    OBVIOUS
  <2> USE PoolAssumption DEF PoolTypeOK, Overlap, HoldsLock, Sections, Orderly,
                             Acquire, Release
  <2>1. ASSUME NEW w \in Workers, WorkerStep(w) \/ W_Spurious(w) PROVE Sections'
    BY <2>1 DEF WorkerStep, W_Lock, W_Wait, W_Wake, W_Stop, W_Take, W_Begin,
                W_Run, W_End, W_Spurious,
                WGo, WorkerLoop, BroadcastNotFull
  <2>2. ASSUME NEW p \in Producers, P_Call(p) \/ AddStep(p) \/ P_Spurious(p)
        PROVE Sections'
    BY <2>2 DEF AddStep, P_Call, P_Lock, P_Wait, P_Put, P_SeeShutdown,
                P_UnlockedStore, P_UnlockedRear, P_UnlockedSize,
                P_ForeignUnlock, P_Spurious, PGo, AddLoop, SignalNotEmpty,
                Waiters
  <2>3. CASE ManagerStep
    BY <2>3 DEF ManagerStep, A_Check, A_Sample, A_Count, A_Grow, A_Shrink,
                A_Signal, SignalNotEmpty, Waiters, Reusable
  <2>4. CASE D_Shutdown \/ DestroyStep
    BY <2>4 DEF D_Shutdown, DestroyStep, D_Broadcast, D_Join, D_FreeArrays,
                D_FreePool
  <2>5. CASE UNCHANGED vars
    BY <2>5 DEF vars
  <2> QED
    BY <2>1, <2>2, <2>3, <2>4, <2>5 DEF Next
<1> QED
  BY <1>1, <1>2, TypeCorrect, OverlapInv, LockHeld, PTL DEF Spec

(* A producer of an orderly pool sleeps only while the queue is full.      *)
THEOREM SleepOnlyWhenFull == Spec => []ProducersWaitOnlyWhenFull
<1>1. Sections => ProducersWaitOnlyWhenFull
  BY DEF Sections, ProducersWaitOnlyWhenFull
<1> QED
  BY <1>1, SectionsInv, PTL

(* The queue of an orderly pool never holds more than its capacity, and    *)
(* its two indices agree with its size.                                    *)
THEOREM RingCorrect == Spec => []RingIsRight
<1>1. Init => RingIsRight
  BY ModSmall, PoolAssumption DEF Init, RingIsRight
<1>2. /\ PoolTypeOK /\ Overlap /\ Sections /\ Sections' /\ RingIsRight
      /\ [Next]_vars
      => RingIsRight'
  <2> SUFFICES ASSUME PoolTypeOK, Overlap, Sections, Sections', RingIsRight,
                      [Next]_vars, Orderly'
               PROVE  RingIsRight'
    BY DEF RingIsRight
  <2>1. Orderly /\ queue_size' \in 0..QMax
    BY DEF Sections, Orderly, Overlap, Next, D_Shutdown, DestroyStep,
           D_Broadcast, D_Join, D_FreeArrays, D_FreePool, ManagerStep, A_Check,
           A_Sample, A_Count, A_Grow, A_Shrink, A_Signal, AddStep, P_Call,
           P_Lock, P_Wait, P_Put, P_SeeShutdown, P_UnlockedStore,
           P_UnlockedRear, P_UnlockedSize, P_ForeignUnlock, P_Spurious,
           WorkerStep, W_Lock, W_Wait, W_Wake, W_Stop, W_Take, W_Begin, W_Run,
           W_End, W_Spurious, vars
  <2>2. queue_rear = (queue_front + queue_size) % QMax
    BY <2>1 DEF RingIsRight
  <2>3. ASSUME NEW w \in Workers, W_Take(w) PROVE RingIsRight'
    <3>1. queue_size \in 1..QMax /\ queue_front \in Slots
      BY <2>1, <2>3, PoolAssumption DEF W_Take, WGo, Sections, PoolTypeOK
    <3>2. queue_rear' = (queue_front' + queue_size') % QMax
      BY <2>2, <2>3, <3>1, RingTake DEF W_Take
    <3> QED
      BY <2>1, <3>2 DEF RingIsRight
  <2>4. ASSUME NEW p \in Producers, P_Put(p) PROVE RingIsRight'
    <3>1. queue_size \in 0..QMax-1 /\ queue_front \in Slots
      BY <2>1, <2>4, PoolAssumption DEF P_Put, PGo, Sections, PoolTypeOK
    <3>2. queue_rear' = (queue_front' + queue_size') % QMax
      BY <2>2, <2>4, <3>1, RingPut DEF P_Put
    <3> QED
      BY <2>1, <3>2 DEF RingIsRight
  <2>5. CASE UNCHANGED <<queue_size, queue_front, queue_rear>>
    BY <2>1, <2>2, <2>5 DEF RingIsRight
  <2>6. ASSUME NEW p \in Producers, AddStep(p), ~P_Put(p)
        PROVE  UNCHANGED <<queue_size, queue_front, queue_rear>>
    BY <2>1, <2>6 DEF Orderly, Overlap, AddStep, PGo, P_Call, P_Lock, P_Wait,
                      P_Put, P_SeeShutdown, P_UnlockedStore, P_UnlockedRear,
                      P_UnlockedSize, P_ForeignUnlock, P_Spurious
  <2> QED
    BY <2>3, <2>4, <2>5, <2>6
    DEF Next, D_Shutdown, DestroyStep, D_Broadcast, D_Join, D_FreeArrays,
        D_FreePool, ManagerStep, A_Check, A_Sample, A_Count, A_Grow, A_Shrink,
        A_Signal, P_Call, P_Spurious, WorkerStep, W_Lock, W_Wait, W_Wake,
        W_Stop, W_Take, W_Begin, W_Run, W_End, W_Spurious, vars
<1> QED
  BY <1>1, <1>2, TypeCorrect, OverlapInv, SectionsInv, PTL DEF Spec

-----------------------------------------------------------------------------
(* The counters of threads.                                                *)

Busy == {w \in Workers : wpc[w] \in {"running", "finished"}}

(* busy_thr_num counts the threads that run a task, at every moment.       *)
THEOREM BusyCorrect == Spec => []BusyIsRight
<1>1. Init => BusyIsRight
  <2> SUFFICES ASSUME Init PROVE BusyIsRight
    OBVIOUS
  <2>1. Busy = {}
    BY DEF Init, Busy
  <2> QED
    BY <2>1, FS_EmptySet DEF Init, Busy, BusyIsRight
<1>2. PoolTypeOK /\ BusyIsRight /\ [Next]_vars => BusyIsRight'
  <2> SUFFICES ASSUME PoolTypeOK, BusyIsRight, [Next]_vars PROVE BusyIsRight'
    OBVIOUS
  <2>0. IsFiniteSet(Busy) /\ busy_thr_num = Cardinality(Busy)
    BY WorkersFinite DEF Busy, BusyIsRight
  <2>1. ASSUME NEW w \in Workers, W_Begin(w) PROVE BusyIsRight'
    <3>1. w \notin Busy /\ Busy' = Busy \cup {w}
      BY <2>1 DEF W_Begin, WGo, Busy, PoolTypeOK
    <3>2. Cardinality(Busy \cup {w}) = Cardinality(Busy) + 1
      BY <2>0, <3>1, FS_AddElement
    <3>3. busy_thr_num' = Cardinality(Busy')
      BY <2>0, <2>1, <3>1, <3>2 DEF W_Begin
    <3> QED
      BY <3>3 DEF Busy, BusyIsRight
  <2>2. ASSUME NEW w \in Workers, W_End(w) PROVE BusyIsRight'
    <3>1. w \in Busy /\ Busy' = Busy \ {w}
      BY <2>2 DEF W_End, WGo, Busy, PoolTypeOK
    <3>2. Cardinality(Busy \ {w}) = Cardinality(Busy) - 1
      BY <2>0, <3>1, FS_RemoveElement
    <3>3. busy_thr_num' = Cardinality(Busy')
      BY <2>0, <2>2, <3>1, <3>2 DEF W_End
    <3> QED
      BY <3>3 DEF Busy, BusyIsRight
  <2>3. ASSUME Busy' = Busy, busy_thr_num' = busy_thr_num PROVE BusyIsRight'
    BY <2>0, <2>3 DEF Busy, BusyIsRight
  <2>4. ASSUME NEW w \in Workers, WorkerStep(w) \/ W_Spurious(w),
               ~W_Begin(w), ~W_End(w)
        PROVE  Busy' = Busy /\ busy_thr_num' = busy_thr_num
    BY <2>4 DEF PoolTypeOK, Busy, WorkerStep, W_Lock, W_Wait, W_Wake, W_Stop,
                W_Take, W_Begin, W_Run, W_End, W_Spurious, WGo, WorkerLoop
  <2>5. ASSUME NEW p \in Producers, P_Call(p) \/ AddStep(p) \/ P_Spurious(p)
        PROVE  Busy' = Busy /\ busy_thr_num' = busy_thr_num
    BY <2>5 DEF PoolTypeOK, Busy, AddStep, P_Call, P_Lock, P_Wait, P_Put,
                P_SeeShutdown, P_UnlockedStore, P_UnlockedRear, P_UnlockedSize,
                P_ForeignUnlock, P_Spurious, SignalNotEmpty, Waiters
  <2>6. ASSUME ManagerStep PROVE Busy' = Busy /\ busy_thr_num' = busy_thr_num
    BY <2>6 DEF PoolTypeOK, Busy, ManagerStep, A_Check, A_Sample, A_Count,
                A_Grow, A_Shrink, A_Signal, SignalNotEmpty, Waiters, Reusable,
                Gone
  <2>7. ASSUME D_Shutdown \/ DestroyStep \/ UNCHANGED vars
        PROVE  Busy' = Busy /\ busy_thr_num' = busy_thr_num
    BY <2>7 DEF PoolTypeOK, Busy, D_Shutdown, DestroyStep, D_Broadcast, D_Join,
                D_FreeArrays, D_FreePool, vars
  <2> QED
    BY <2>1, <2>2, <2>3, <2>4, <2>5, <2>6, <2>7 DEF Next
<1> QED
  BY <1>1, <1>2, TypeCorrect, PTL DEF Spec

\* The threads that were started and have not retired.
Live == {w \in Workers : wpc[w] \notin {"none", "retired"}}

(* Until shutdown no thread has stopped, so that the slots the manager     *)
(* reuses are those of threads that live_thr_num no longer counts.         *)
NoneStopped == ~shutdown => \A w \in Workers : wpc[w] # "stopped"

LEMMA NoneStoppedInv == Spec => []NoneStopped
<1>1. Init => NoneStopped
  BY DEF Init, NoneStopped
<1>2. PoolTypeOK /\ NoneStopped /\ [Next]_vars => NoneStopped'
  BY DEF PoolTypeOK, NoneStopped, Next, vars, WorkerStep, W_Lock, W_Wait,
         W_Wake, W_Stop, W_Take, W_Begin, W_Run, W_End, W_Spurious, WGo,
         WorkerLoop, AddStep, P_Call, P_Lock, P_Wait, P_Put, P_SeeShutdown,
         P_UnlockedStore, P_UnlockedRear, P_UnlockedSize, P_ForeignUnlock,
         P_Spurious, ManagerStep, A_Check, A_Sample, A_Count, A_Grow, A_Shrink,
         A_Signal, SignalNotEmpty, Waiters, D_Shutdown, DestroyStep,
         D_Broadcast, D_Join, D_FreeArrays, D_FreePool
<1> QED
  BY <1>1, <1>2, TypeCorrect, PTL DEF Spec

(* When every pthread_create succeeds, live_thr_num stays between the      *)
(* limits and counts the live threads until shutdown, although the manager *)
(* grows and shrinks the pool on values it sampled earlier.                *)
THEOREM LiveCorrect == ASSUME ~CreateMayFail PROVE Spec => []LiveIsRight
<1>1. Init => LiveIsRight
  <2> SUFFICES ASSUME Init PROVE LiveIsRight
    OBVIOUS
  <2>1. Live = 0..MinThr-1
    BY PoolAssumption DEF Init, Live, Workers
  <2>2. Cardinality(Live) = MinThr
    BY <2>1, FS_Interval, PoolAssumption
  <2> QED
    BY <2>2, PoolAssumption DEF Init, Live, LiveIsRight
<1>2. PoolTypeOK /\ NoneStopped /\ LiveIsRight /\ [Next]_vars => LiveIsRight'
  <2> SUFFICES ASSUME PoolTypeOK, NoneStopped, LiveIsRight, [Next]_vars
               PROVE  LiveIsRight'
    OBVIOUS
  <2>0. /\ live_thr_num \in MinThr..MaxThr /\ IsFiniteSet(Live)
        /\ ~shutdown => live_thr_num = Cardinality(Live)
    BY WorkersFinite DEF Live, LiveIsRight
  <2>1. ASSUME NEW w \in Workers, WGo(w, "woken", "retired"), MayRetire,
               live_thr_num' = live_thr_num - 1, UNCHANGED shutdown
        PROVE  LiveIsRight'
    <3>1. w \in Live /\ Live' = Live \ {w}
      BY <2>1 DEF WGo, Live, PoolTypeOK
    <3>2. live_thr_num' \in MinThr..MaxThr
      BY <2>0, <2>1, PoolAssumption DEF MayRetire
    <3> QED
      BY <2>0, <2>1, <3>1, <3>2, FS_RemoveElement DEF Live, LiveIsRight
  <2>2. CASE A_Grow
    <3>1. PICK S \in SUBSET Reusable :
             /\ live_thr_num + Cardinality(S) <= MaxThr
             /\ live_thr_num' = live_thr_num + Cardinality(S)
             /\ wpc' = [v \in Workers |-> IF v \in S THEN "lock" ELSE wpc[v]]
      BY <2>2 DEF A_Grow
    <3>2. IsFiniteSet(S) /\ Cardinality(S) \in Nat
      BY WorkersFinite DEF Reusable
    <3>3. ~shutdown => Live' = Live \cup S /\ Live \cap S = {}
      BY <3>1 DEF Reusable, Gone, Live, NoneStopped, PoolTypeOK
    <3>4. Cardinality(Live \cup S) =
             Cardinality(Live) + Cardinality(S) - Cardinality(Live \cap S)
      BY <2>0, <3>2, FS_Union
    <3>5. Cardinality({}) = 0 /\ Cardinality(Live) \in Nat
      BY <2>0, FS_EmptySet, FS_CardinalityType
    <3>6. ~shutdown => Cardinality(Live') = Cardinality(Live) + Cardinality(S)
      BY <3>2, <3>3, <3>4, <3>5
    <3> QED
      BY <2>0, <2>2, <3>1, <3>2, <3>6, PoolAssumption
      DEF A_Grow, Live, LiveIsRight
  <2>3. ASSUME Live' = Live, live_thr_num' = live_thr_num, shutdown' \/ ~shutdown
        PROVE  LiveIsRight'
    BY <2>0, <2>3 DEF Live, LiveIsRight
  <2>4. ASSUME NEW w \in Workers, WorkerStep(w) \/ W_Spurious(w)
        PROVE  LiveIsRight'
    <3>1. CASE WGo(w, "woken", "retired")
      BY <2>1, <2>4, <3>1 DEF WGo, PoolTypeOK, Gone, WorkerLoop, WorkerStep,
                              W_Lock, W_Wait, W_Wake, W_Stop, W_Take, W_Begin,
                              W_Run, W_End, W_Spurious
    <3>2. CASE ~WGo(w, "woken", "retired")
      BY <2>3, <2>4, <3>2 DEF WGo, PoolTypeOK, Live, WorkerLoop, WorkerStep,
                              W_Lock, W_Wait, W_Wake, W_Stop, W_Take, W_Begin,
                              W_Run, W_End, W_Spurious
    <3> QED
      BY <3>1, <3>2
  <2>5. ASSUME NEW p \in Producers, P_Call(p) \/ AddStep(p) \/ P_Spurious(p)
        PROVE  LiveIsRight'
    BY <2>3, <2>5 DEF PoolTypeOK, Live, AddStep, P_Call, P_Lock, P_Wait, P_Put,
                      P_SeeShutdown, P_UnlockedStore, P_UnlockedRear,
                      P_UnlockedSize, P_ForeignUnlock, P_Spurious,
                      SignalNotEmpty, Waiters
  <2>6. CASE ManagerStep
    BY <2>2, <2>3, <2>6 DEF PoolTypeOK, Live, ManagerStep, A_Check, A_Sample,
                            A_Count, A_Grow, A_Shrink, A_Signal, SignalNotEmpty,
                            Waiters
  <2>7. CASE D_Shutdown \/ DestroyStep \/ UNCHANGED vars
    BY <2>3, <2>7 DEF PoolTypeOK, Live, D_Shutdown, DestroyStep, D_Broadcast,
                      D_Join, D_FreeArrays, D_FreePool, vars
  <2> QED
    BY <2>4, <2>5, <2>6, <2>7 DEF Next
<1> QED
  BY <1>1, <1>2, TypeCorrect, NoneStoppedInv, PTL DEF Spec

-----------------------------------------------------------------------------
(* A pool of fixed size.                                                   *)

Fixed == MinThr = MaxThr /\ ~CreateMayFail

\* Every slot has a thread that was started and never retires.
Staffed == \A w \in Workers : wpc[w] \notin {"none", "retired"}

LEMMA StaffedInv == ASSUME Fixed PROVE Spec => []Staffed
<1> USE DEF Fixed
<1>1. Init => Staffed
  BY PoolAssumption DEF Init, Staffed, Workers
<1>2. PoolTypeOK /\ LiveIsRight /\ Staffed /\ [Next]_vars => Staffed'
  <2> SUFFICES ASSUME PoolTypeOK, LiveIsRight, Staffed, [Next]_vars PROVE Staffed'
    OBVIOUS
  <2>1. ~MayRetire
    BY PoolAssumption DEF MayRetire, LiveIsRight
  <2>2. ASSUME NEW w \in Workers, WorkerStep(w) \/ W_Spurious(w) PROVE Staffed'
    BY <2>1, <2>2 DEF PoolTypeOK, Staffed, WGo, WorkerLoop, WorkerStep, W_Lock,
                      W_Wait, W_Wake, W_Stop, W_Take, W_Begin, W_Run, W_End,
                      W_Spurious
  <2>3. ASSUME NEW p \in Producers, P_Call(p) \/ AddStep(p) \/ P_Spurious(p)
        PROVE  Staffed'
    BY <2>3 DEF PoolTypeOK, Staffed, SignalNotEmpty, Waiters, AddStep, P_Call,
                P_Lock, P_Wait, P_Put, P_SeeShutdown, P_UnlockedStore,
                P_UnlockedRear, P_UnlockedSize, P_ForeignUnlock, P_Spurious
  <2>4. CASE ManagerStep
    BY <2>4 DEF PoolTypeOK, Staffed, SignalNotEmpty, Waiters, ManagerStep,
                A_Check, A_Sample, A_Count, A_Grow, A_Shrink, A_Signal
  <2>5. CASE D_Shutdown \/ DestroyStep \/ UNCHANGED vars
    BY <2>5 DEF PoolTypeOK, Staffed, D_Shutdown, DestroyStep, D_Broadcast,
                D_Join, D_FreeArrays, D_FreePool, vars
  <2> QED
    BY <2>2, <2>3, <2>4, <2>5 DEF Next
<1> QED
  BY <1>1, <1>2, TypeCorrect, LiveCorrect, PTL DEF Spec

(* In a pool of fixed size no wakeup is lost: a queued task always finds a *)
(* worker awake.  What breaks this in an elastic pool is the worker that   *)
(* answers a wakeup by retiring.                                           *)
THEOREM NoLostWakeup ==
    ASSUME Fixed PROVE Spec => [](Orderly => NoSleepOverTasks)
<1> DEFINE Inv == Orderly => NoSleepOverTasks
<1>1. Init => Inv
  BY DEF Init, NoSleepOverTasks
<1>2. /\ PoolTypeOK /\ Overlap /\ Sections /\ Staffed /\ Staffed' /\ Inv
      /\ [Next]_vars
      => Inv'
  <2> SUFFICES ASSUME PoolTypeOK, Overlap, Sections, Staffed, Staffed', Inv,
                      [Next]_vars, Orderly', queue_size' > 0
               PROVE  \E w \in Workers : wpc'[w] # "waiting"
    BY DEF NoSleepOverTasks, Staffed
  <2>1. Orderly
    BY StepOrderly
  <2>2. ASSUME NEW w \in Workers, WorkerStep(w) \/ W_Spurious(w)
        PROVE  wpc'[w] # "waiting"
    <3>1. ~W_Wait(w)
      BY <2>1, <2>2, PoolAssumption DEF Sections, W_Wait, WGo, PoolTypeOK
    <3> QED
      BY <2>2, <3>1 DEF PoolTypeOK, WGo, WorkerLoop, WorkerStep, W_Lock, W_Wait,
                        W_Wake, W_Stop, W_Take, W_Begin, W_Run, W_End,
                        W_Spurious
  <2>3. ASSUME SignalNotEmpty PROVE \E w \in Workers : wpc'[w] # "waiting"
    <3>1. CASE Waiters = {}
      <4>1. 0 \in Workers
        BY PoolAssumption DEF Workers
      <4> QED
        BY <2>3, <3>1, <4>1 DEF SignalNotEmpty, Waiters
    <3>2. CASE Waiters # {}
      BY <2>3, <3>2 DEF SignalNotEmpty, Waiters, PoolTypeOK
    <3> QED
      BY <3>1, <3>2
  <2>4. ASSUME queue_size' = queue_size,
               \A w \in Workers : wpc[w] # "waiting" => wpc'[w] # "waiting"
        PROVE  \E w \in Workers : wpc'[w] # "waiting"
    BY <2>1, <2>4 DEF NoSleepOverTasks
  <2>5. ASSUME NEW p \in Producers, P_Call(p) \/ AddStep(p) \/ P_Spurious(p)
        PROVE  \E w \in Workers : wpc'[w] # "waiting"
    BY <2>1, <2>3, <2>4, <2>5
    DEF Orderly, Overlap, PGo, AddStep, P_Call, P_Lock, P_Wait, P_Put,
        P_SeeShutdown, P_UnlockedStore, P_UnlockedRear, P_UnlockedSize,
        P_ForeignUnlock, P_Spurious
  <2>6. CASE ManagerStep
    BY <2>3, <2>4, <2>6 DEF PoolTypeOK, ManagerStep, A_Check, A_Sample, A_Count,
                            A_Grow, A_Shrink, A_Signal
  <2>7. CASE D_Shutdown \/ DestroyStep \/ UNCHANGED vars
    BY <2>4, <2>7 DEF PoolTypeOK, D_Shutdown, DestroyStep, D_Broadcast, D_Join,
                      D_FreeArrays, D_FreePool, vars
  <2> QED
    BY <2>2, <2>5, <2>6, <2>7 DEF Next
<1> QED
  BY <1>1, <1>2, TypeCorrect, OverlapInv, SectionsInv, StaffedInv, PTL DEF Spec

\* How far the joins of threadpool_destroy have got.
Joined ==
    /\ joining \in 0..MaxThr
    /\ \A w \in Workers : w < joining => wpc[w] \in Gone
    /\ dpc \in {"arraysfreed", "freed"} => joining = MaxThr

(* In a pool of fixed size threadpool_destroy frees the pool only after    *)
(* every worker has gone.                                                  *)
THEOREM FreedLast == ASSUME Fixed PROVE Spec => []PoolFreedLast
<1> USE DEF Fixed
<1>1. Init => Joined
  BY PoolAssumption DEF Init, Joined, Workers
<1>2. PoolTypeOK /\ LiveIsRight /\ Joined /\ [Next]_vars => Joined'
  <2> SUFFICES ASSUME PoolTypeOK, LiveIsRight, Joined, [Next]_vars PROVE Joined'
    OBVIOUS
  <2> USE PoolAssumption DEF PoolTypeOK, Joined, Gone
  <2>1. live_thr_num = MaxThr
    BY DEF LiveIsRight
  <2>2. ASSUME NEW w \in Workers, WorkerStep(w) \/ W_Spurious(w) PROVE Joined'
    BY <2>2 DEF WGo, WorkerStep, W_Lock, W_Wait, W_Wake, W_Stop, W_Take,
                W_Begin, W_Run, W_End, W_Spurious
  <2>3. ASSUME NEW p \in Producers, P_Call(p) \/ AddStep(p) \/ P_Spurious(p)
        PROVE  Joined'
    BY <2>3 DEF SignalNotEmpty, Waiters, AddStep, P_Call, P_Lock, P_Wait, P_Put,
                P_SeeShutdown, P_UnlockedStore, P_UnlockedRear, P_UnlockedSize,
                P_ForeignUnlock, P_Spurious
  <2>4. CASE A_Grow
    <3>1. PICK S \in SUBSET Reusable :
             /\ live_thr_num + Cardinality(S) <= MaxThr
             /\ wpc' = [v \in Workers |-> IF v \in S THEN "lock" ELSE wpc[v]]
      BY <2>4 DEF A_Grow
    <3>2. S = {}
      BY <2>1, <3>1, WorkersFinite, FS_EmptySet DEF Reusable
    <3> QED
      BY <2>4, <3>1, <3>2 DEF A_Grow
  <2>5. CASE ManagerStep /\ ~A_Grow
    BY <2>5 DEF SignalNotEmpty, Waiters, ManagerStep, A_Check, A_Sample,
                A_Count, A_Grow, A_Shrink, A_Signal
  <2>6. CASE D_Shutdown \/ DestroyStep \/ UNCHANGED vars
    <3>1. CASE D_Broadcast
      BY <3>1 DEF D_Broadcast
    <3>2. CASE D_Join
      BY <2>1, <3>2 DEF D_Join, JoinLimit, Workers
    <3>3. CASE D_FreeArrays
      BY <2>1, <3>3 DEF D_FreeArrays, JoinLimit
    <3>4. CASE D_Shutdown \/ D_FreePool \/ UNCHANGED vars
      BY <3>4 DEF D_Shutdown, D_FreePool, vars
    <3> QED
      BY <2>6, <3>1, <3>2, <3>3, <3>4 DEF DestroyStep
  <2> QED
    BY <2>2, <2>3, <2>4, <2>5, <2>6 DEF Next
<1>3. Joined => PoolFreedLast
  BY DEF Joined, PoolFreedLast, Workers
<1> QED
  BY <1>1, <1>2, <1>3, TypeCorrect, LiveCorrect, PTL DEF Spec

-----------------------------------------------------------------------------
(* The arguments of the tasks.                                             *)

\* Every add brings an argument of its own, and a slot is freed at most once.
Args ==
    Orderly =>
    /\ \A p \in Producers : ppc[p] # "idle" =>
          /\ arg[p] \in 1..adds /\ arg[p] \notin freed
          /\ \A i \in Slots : task_queue[i] # arg[p]
          /\ \A q \in Producers : ppc[q] # "idle" /\ arg[q] = arg[p] => q = p
    /\ freed \subseteq 1..adds \cup {Junk}
    /\ \A i \in Slots : task_queue[i] \in Tasks =>
          /\ task_queue[i] \in 1..adds /\ task_queue[i] \notin freed
          /\ \A j \in Slots : task_queue[j] = task_queue[i] => j = i
    /\ \A i \in 0..queue_size-1 : QueuedTask(i) \in Tasks

LEMMA ArgsInv == Spec => []Args
<1>1. Init => Args
  BY PoolAssumption DEF Init, Args, Tasks, NULL, Junk
<1>2. /\ PoolTypeOK /\ Overlap /\ Sections /\ Sections' /\ RingIsRight
      /\ Args /\ [Next]_vars
      => Args'
  <2> SUFFICES ASSUME PoolTypeOK, Overlap, Sections, Sections', RingIsRight,
                      Args, [Next]_vars, Orderly'
               PROVE  Args'
    BY DEF Args
  <2>1. Orderly
    BY StepOrderly
  <2>2. /\ queue_size \in 0..QMax /\ queue_size' \in 0..QMax
        /\ queue_front \in Slots
        /\ queue_rear = (queue_front + queue_size) % QMax
    BY <2>1 DEF Sections, RingIsRight, PoolTypeOK
  <2>3. ASSUME NEW w \in Workers, W_Take(w) PROVE Args'
    <3>1. \A i \in 0..queue_size'-1 : QueuedTask(i)' = QueuedTask(i + 1)
      <4> SUFFICES ASSUME NEW i \in 0..queue_size'-1
                   PROVE  QueuedTask(i)' = QueuedTask(i + 1)
        OBVIOUS
      <4>1. queue_size \in 1..QMax /\ i + 1 \in 1..QMax /\ (i + 1) - 1 = i
        BY <2>2, <2>3, PoolAssumption DEF W_Take
      <4> QED
        BY <2>2, <2>3, <4>1, RingTake DEF W_Take, QueuedTask
    <3>2. \A i \in 0..queue_size'-1 : QueuedTask(i)' \in Tasks
      BY <2>1, <2>2, <2>3, <3>1, PoolAssumption DEF Args, W_Take
    <3> QED
      BY <2>1, <2>3, <3>2 DEF Args, W_Take, BroadcastNotFull, PoolTypeOK
  <2>4. ASSUME NEW p \in Producers, P_Put(p) PROVE Args'
    <3>1. /\ queue_size \in 0..QMax-1 /\ queue_rear \in Slots
          /\ arg[p] \in 1..adds /\ arg[p] \in Tasks /\ arg[p] \notin freed
          /\ arg[p] # Junk /\ arg[p] # NULL
      BY <2>1, <2>2, <2>4, PoolAssumption
      DEF P_Put, PGo, Sections, Args, PoolTypeOK, Tasks, NULL, Junk
    <3>2. /\ task_queue' = [task_queue EXCEPT ![queue_rear] = arg[p]]
          /\ freed' = freed \cup ({task_queue[queue_rear]} \ {NULL})
          /\ adds' = adds /\ queue_front' = queue_front
          /\ queue_size' = queue_size + 1
          /\ ppc' = [ppc EXCEPT ![p] = "idle"]
          /\ arg' = [arg EXCEPT ![p] = NULL]
      BY <2>4 DEF P_Put, PGo, StoreArg
    <3>3. \A i \in 0..queue_size'-1 : QueuedTask(i)' \in Tasks
      <4> SUFFICES ASSUME NEW i \in 0..queue_size'-1 PROVE QueuedTask(i)' \in Tasks
        OBVIOUS
      <4>1. i \in 0..QMax-1 /\ (queue_front + i) % QMax \in Slots
        BY <2>2, <3>1, <3>2, RingIndex, PoolAssumption
      <4>2. CASE i = queue_size
        BY <2>2, <3>1, <3>2, <4>2 DEF QueuedTask, PoolTypeOK
      <4>3. CASE i \in 0..queue_size-1
        <5>1. (queue_front + i) % QMax # queue_rear
          BY <2>2, <3>1, <4>1, <4>3, RingDistinct
        <5>2. QueuedTask(i)' = QueuedTask(i)
          BY <3>2, <4>1, <5>1 DEF QueuedTask, PoolTypeOK
        <5> QED
          BY <2>1, <4>3, <5>2 DEF Args
      <4> QED
        BY <3>1, <3>2, <4>2, <4>3
    <3>4. ASSUME NEW q \in Producers, ppc'[q] # "idle"
          PROVE  /\ arg'[q] \in 1..adds' /\ arg'[q] \notin freed'
                 /\ \A i \in Slots : task_queue'[i] # arg'[q]
                 /\ \A r \in Producers : ppc'[r] # "idle" /\ arg'[r] = arg'[q] => r = q
      <4>1. q # p /\ ppc[q] # "idle" /\ arg'[q] = arg[q]
        BY <3>2, <3>4 DEF PoolTypeOK
      <4>2. ppc[p] # "idle" /\ arg[q] # arg[p] /\ arg[q] # task_queue[queue_rear]
        BY <2>1, <2>4, <3>1, <4>1 DEF Args, P_Put, PGo
      <4> QED
        BY <2>1, <3>1, <3>2, <4>1, <4>2 DEF Args, PoolTypeOK
    <3>5. freed' \subseteq 1..adds' \cup {Junk}
      BY <2>1, <3>1, <3>2 DEF Args, PoolTypeOK
    <3>6. ASSUME NEW i \in Slots, task_queue'[i] \in Tasks
          PROVE  /\ task_queue'[i] \in 1..adds' /\ task_queue'[i] \notin freed'
                 /\ \A j \in Slots : task_queue'[j] = task_queue'[i] => j = i
      <4>1. ppc[p] # "idle"
        BY <2>4 DEF P_Put, PGo
      <4>2. \A j \in Slots : task_queue[j] # arg[p]
        BY <2>1, <4>1 DEF Args
      <4>3. CASE i = queue_rear
        BY <3>1, <3>2, <4>2, <4>3 DEF PoolTypeOK
      <4>4. CASE i # queue_rear
        BY <2>1, <3>1, <3>2, <3>6, <4>2, <4>4 DEF Args, PoolTypeOK
      <4> QED
        BY <4>3, <4>4
    <3> QED
      BY <3>3, <3>4, <3>5, <3>6 DEF Args
  <2>5. ASSUME NEW p \in Producers, P_Call(p) PROVE Args'
    <3>1. /\ adds' = adds + 1 /\ adds \in Nat
          /\ ppc' = [ppc EXCEPT ![p] = "lock"]
          /\ arg' = [arg EXCEPT ![p] = adds + 1]
          /\ UNCHANGED <<freed, task_queue, queue_size, queue_front>>
      BY <2>5, PoolAssumption DEF P_Call, PGo, PoolTypeOK
    <3>2. adds + 1 \notin 1..adds \cup {Junk} /\ adds + 1 # Junk /\ adds + 1 # NULL
      BY <3>1 DEF Junk, NULL
    <3>3. /\ adds + 1 \notin freed
          /\ \A i \in Slots : task_queue[i] # adds + 1
          /\ \A q \in Producers : ppc[q] # "idle" => arg[q] # adds + 1
      BY <2>1, <3>1, <3>2 DEF Args, PoolTypeOK
    <3>4. \A i \in 0..queue_size'-1 : QueuedTask(i)' \in Tasks
      BY <2>1, <3>1 DEF Args, QueuedTask
    <3> QED
      BY <2>1, <3>1, <3>3, <3>4 DEF Args, PoolTypeOK
  <2>6. ASSUME UNCHANGED <<arg, freed, task_queue, queue_size, queue_front, adds>>,
               \A p \in Producers : ppc'[p] # "idle" => ppc[p] # "idle"
        PROVE  Args'
    BY <2>1, <2>6 DEF Args, QueuedTask
  <2>7. ASSUME NEW w \in Workers, WorkerStep(w) \/ W_Spurious(w), ~W_Take(w)
        PROVE  Args'
    BY <2>6, <2>7 DEF PoolTypeOK, WorkerStep, W_Lock, W_Wait, W_Wake, W_Stop,
                      W_Take, W_Begin, W_Run, W_End, W_Spurious
  <2>8. ASSUME NEW p \in Producers, AddStep(p) \/ P_Spurious(p), ~P_Put(p)
        PROVE  Args'
    BY <2>1, <2>6, <2>8 DEF Orderly, Overlap, PoolTypeOK, PGo, AddStep, P_Call,
                            P_Lock, P_Wait, P_Put, P_SeeShutdown,
                            P_UnlockedStore, P_UnlockedRear, P_UnlockedSize,
                            P_ForeignUnlock, P_Spurious
  <2>9. CASE ManagerStep \/ D_Shutdown \/ DestroyStep \/ UNCHANGED vars
    BY <2>6, <2>9 DEF ManagerStep, A_Check, A_Sample, A_Count, A_Grow, A_Shrink,
                      A_Signal, D_Shutdown, DestroyStep, D_Broadcast, D_Join,
                      D_FreeArrays, D_FreePool, vars
  <2> QED
    BY <2>3, <2>4, <2>5, <2>7, <2>8, <2>9 DEF Next
<1> QED
  BY <1>1, <1>2, TypeCorrect, OverlapInv, SectionsInv, RingCorrect, PTL DEF Spec

(* In an orderly pool an add never frees the argument of a task that is    *)
(* still queued, however often the ring has gone round.                    *)
THEOREM ArgsKept == Spec => []QueuedArgsKept
<1>1. PoolTypeOK /\ Sections /\ Args => QueuedArgsKept
  <2> SUFFICES ASSUME PoolTypeOK, Sections, Args, Orderly,
                      NEW i \in 0..queue_size-1
               PROVE  QueuedTask(i) \in Tasks \ freed
    BY DEF QueuedArgsKept
  <2>1. (queue_front + i) % QMax \in Slots
    BY RingIndex, PoolAssumption DEF PoolTypeOK, Sections
  <2> QED
    BY <2>1 DEF Args, QueuedTask
<1> QED
  BY <1>1, TypeCorrect, SectionsInv, ArgsInv, PTL

-----------------------------------------------------------------------------
(* The queue of tasks.                                                     *)

\* A worker that has a task which has yet to return.
Has(w) == wpc[w] \in {"taken", "running"}

\* A task is with its add, in the queue, with one worker or done.
TasksOnce ==
    Orderly =>
    /\ done \subseteq 1..adds
    /\ \A p \in Producers : ppc[p] # "idle" => arg[p] \notin done
    /\ \A i \in 0..queue_size-1 :
          /\ QueuedTask(i) \in 1..adds /\ QueuedTask(i) \notin done
          /\ \A p \in Producers : ppc[p] # "idle" => arg[p] # QueuedTask(i)
          /\ \A j \in 0..queue_size-1 : QueuedTask(i) = QueuedTask(j) => i = j
    /\ \A w \in Workers : Has(w) =>
          /\ task[w] \in 1..adds /\ task[w] \notin done
          /\ \A p \in Producers : ppc[p] # "idle" => arg[p] # task[w]
          /\ \A i \in 0..queue_size-1 : QueuedTask(i) # task[w]
          /\ \A v \in Workers : Has(v) /\ task[v] = task[w] => v = w

\* Where the queued tasks are: apart from one another and from the rear.
LEMMA QueuedSlots ==
    ASSUME queue_size \in 0..QMax, queue_front \in Slots, NEW i \in 0..queue_size-1
    PROVE  /\ i \in 0..QMax-1 /\ (queue_front + i) % QMax \in Slots
           /\ queue_size < QMax =>
                 (queue_front + i) % QMax # (queue_front + queue_size) % QMax
<1>1. i \in 0..QMax-1 /\ i \in 0..QMax
  BY PoolAssumption
<1>2. (queue_front + i) % QMax \in Slots
  BY <1>1, RingIndex
<1>3. ASSUME queue_size < QMax
      PROVE  (queue_front + i) % QMax # (queue_front + queue_size) % QMax
  <2>1. queue_size \in 0..QMax-1 /\ i # queue_size
    BY <1>3, PoolAssumption
  <2> QED
    BY <1>1, <2>1, RingDistinct
<1> QED
  BY <1>1, <1>2, <1>3

\* threadpool_add puts a task behind those in the queue.
LEMMA PutIsLast ==
    ASSUME PoolTypeOK, Sections, RingIsRight, Orderly, NEW p \in Producers, P_Put(p)
    PROVE  /\ queue_size \in 0..QMax-1 /\ queue_size' = queue_size + 1
           /\ \A i \in 0..queue_size :
                 QueuedTask(i)' = IF i = queue_size THEN arg[p] ELSE QueuedTask(i)
<1>1. /\ queue_size \in 0..QMax-1 /\ queue_size \in 0..QMax /\ queue_size < QMax
      /\ queue_front \in Slots /\ queue_rear \in Slots
      /\ queue_rear = (queue_front + queue_size) % QMax
  BY PoolAssumption DEF P_Put, PGo, Sections, RingIsRight, PoolTypeOK
<1>2. /\ task_queue' = [task_queue EXCEPT ![queue_rear] = arg[p]]
      /\ queue_front' = queue_front /\ queue_size' = queue_size + 1
      /\ DOMAIN task_queue = Slots
  BY DEF P_Put, StoreArg, PoolTypeOK
<1>3. ASSUME NEW i \in 0..queue_size
      PROVE  QueuedTask(i)' = IF i = queue_size THEN arg[p] ELSE QueuedTask(i)
  <2>1. CASE i = queue_size
    BY <1>1, <1>2, <2>1 DEF QueuedTask
  <2>2. CASE i # queue_size
    <3>1. i \in 0..queue_size-1
      BY <1>1, <2>2
    <3>2. (queue_front + i) % QMax \in Slots /\ (queue_front + i) % QMax # queue_rear
      BY <1>1, <3>1, QueuedSlots
    <3> QED
      BY <1>2, <2>2, <3>2 DEF QueuedTask
  <2> QED
    BY <2>1, <2>2
<1> QED
  BY <1>1, <1>2, <1>3

\* threadpool_thread takes the first.
LEMMA TakeIsFirst ==
    ASSUME PoolTypeOK, Sections, Orderly, NEW w \in Workers, W_Take(w)
    PROVE  /\ queue_size \in 1..QMax /\ queue_size' = queue_size - 1
           /\ task' = [task EXCEPT ![w] = QueuedTask(0)]
           /\ \A i \in 0..queue_size-2 : QueuedTask(i)' = QueuedTask(i + 1)
<1>1. queue_size \in 1..QMax /\ queue_front \in Slots
  BY PoolAssumption DEF W_Take, WGo, Sections, PoolTypeOK
<1>2. /\ task_queue' = task_queue /\ queue_front' = NextSlot(queue_front)
      /\ queue_size' = queue_size - 1
  BY DEF W_Take
<1>3. task' = [task EXCEPT ![w] = QueuedTask(0)]
  <2>1. (queue_front + 0) % QMax = queue_front
    BY <1>1, ModSmall, PoolAssumption DEF Slots
  <2> QED
    BY <2>1 DEF W_Take, FrontTask, QueuedTask
<1>4. ASSUME NEW i \in 0..queue_size-2
      PROVE  QueuedTask(i)' = QueuedTask(i + 1)
  <2>1. i + 1 \in 1..QMax /\ (i + 1) - 1 = i
    BY <1>1, PoolAssumption
  <2>2. (queue_front + (i + 1)) % QMax = (NextSlot(queue_front) + i) % QMax
    BY <1>1, <2>1, RingTake
  <2> QED
    BY <1>2, <2>2 DEF QueuedTask
<1> QED
  BY <1>1, <1>2, <1>3, <1>4

\* A step that neither queues nor takes a task.
LEMMA OthersKeepQueue ==
    ASSUME UNCHANGED <<queue_size, queue_front, task_queue>>
    PROVE  \A i : QueuedTask(i)' = QueuedTask(i)
  BY DEF QueuedTask

\* What the other steps leave alone.
LEMMA TasksOnceKept ==
    ASSUME TasksOnce, Orderly,
           UNCHANGED <<queue_size, queue_front, task_queue, arg, adds, done>>,
           \A p \in Producers : ppc'[p] # "idle" => ppc[p] # "idle",
           \A w \in Workers : Has(w)' => Has(w) /\ task'[w] = task[w]
    PROVE  TasksOnce'
  BY OthersKeepQueue DEF TasksOnce

\* Threads are started in slots where none runs, and woken when they wait.
LEMMA OthersKeepTasks ==
    ASSUME PoolTypeOK, ManagerStep \/ D_Shutdown \/ DestroyStep \/ UNCHANGED vars,
           NEW w \in Workers, wpc'[w] \in {"taken", "running"}
    PROVE  wpc'[w] = wpc[w]
<1>1. CASE A_Grow
  BY <1>1 DEF A_Grow
<1>2. CASE A_Signal
  BY <1>2 DEF A_Signal, SignalNotEmpty, Waiters, PoolTypeOK
<1>3. CASE D_Broadcast
  BY <1>3 DEF D_Broadcast
<1>4. CASE \/ A_Check \/ A_Sample \/ A_Count \/ A_Shrink
           \/ D_Shutdown \/ D_Join \/ D_FreeArrays \/ D_FreePool \/ UNCHANGED vars
  <2>1. wpc' = wpc
    BY <1>4 DEF A_Check, A_Sample, A_Count, A_Shrink, D_Shutdown, D_Join, D_FreeArrays,
       D_FreePool, vars
  <2> QED
    BY <2>1
<1> QED
  BY <1>1, <1>2, <1>3, <1>4 DEF ManagerStep, DestroyStep

LEMMA TasksOnceInv == Spec => []TasksOnce
<1>1. Init => TasksOnce
  BY PoolAssumption DEF Init, TasksOnce, Has
<1>2. /\ PoolTypeOK /\ Overlap /\ Sections /\ RingIsRight /\ Args
      /\ TasksOnce /\ [Next]_vars
      => TasksOnce'
  <2> SUFFICES ASSUME PoolTypeOK, Overlap, Sections, RingIsRight, Args,
                      TasksOnce, [Next]_vars, Orderly'
               PROVE  TasksOnce'
    BY DEF TasksOnce
  <2>1. Orderly /\ adds \in Nat
    BY StepOrderly, PoolAssumption DEF PoolTypeOK
  <2>2. ASSUME NEW w \in Workers, W_Take(w) PROVE TasksOnce'
    <3> DEFINE size == queue_size
    <3>1. /\ size \in 1..QMax /\ size' = size - 1
          /\ task' = [task EXCEPT ![w] = QueuedTask(0)]
          /\ \A i \in 0..size-2 : QueuedTask(i)' = QueuedTask(i + 1)
      BY <2>1, <2>2, TakeIsFirst
    <3>2. /\ wpc' = [wpc EXCEPT ![w] = "taken"]
          /\ \A p \in Producers : ppc'[p] # "idle" => ppc[p] # "idle"
          /\ UNCHANGED <<arg, adds, done>>
      BY <2>2 DEF W_Take, WGo, BroadcastNotFull
    <3>3. \A v \in Workers : Has(v)' => \/ v = w /\ task'[v] = QueuedTask(0)
                                        \/ v # w /\ Has(v) /\ task'[v] = task[v]
      <4>1. task'[w] = QueuedTask(0) /\ \A v \in Workers : v # w => task'[v] = task[v]
        BY <3>1 DEF PoolTypeOK
      <4>2. \A v \in Workers : v # w => wpc'[v] = wpc[v]
        BY <3>2 DEF PoolTypeOK
      <4> QED
        BY <4>1, <4>2 DEF Has
    <3>4. 0 \in 0..size-1 /\ \A i \in 0..size'-1 : i + 1 \in 0..size-1 /\ i \in 0..size-2
      BY <3>1, PoolAssumption
    <3> HIDE DEF size
    <3>5. ASSUME NEW i \in 0..size'-1, NEW j \in 0..size'-1,
                 QueuedTask(i)' = QueuedTask(j)'
          PROVE  i = j
      <4>1. QueuedTask(i + 1) = QueuedTask(j + 1)
        BY <3>1, <3>4, <3>5
      <4>2. i + 1 = j + 1
        BY <2>1, <3>4, <4>1 DEF TasksOnce, size
      <4> QED
        BY <4>2
    <3>6. ASSUME NEW i \in 0..size'-1
          PROVE  /\ QueuedTask(i)' \in 1..adds' /\ QueuedTask(i)' \notin done'
                 /\ \A p \in Producers : ppc'[p] # "idle" => arg'[p] # QueuedTask(i)'
                 /\ QueuedTask(i)' # QueuedTask(0)
                 /\ \A v \in Workers : Has(v) => QueuedTask(i)' # task[v]
      <4>1. QueuedTask(i)' = QueuedTask(i + 1) /\ i + 1 \in 0..size-1 /\ i + 1 # 0
        BY <3>1, <3>4
      <4> QED
        BY <2>1, <3>2, <3>4, <4>1 DEF TasksOnce, size
    <3>7. /\ QueuedTask(0) \in 1..adds' /\ QueuedTask(0) \notin done'
          /\ \A p \in Producers : ppc'[p] # "idle" => arg'[p] # QueuedTask(0)
          /\ \A v \in Workers : Has(v) => QueuedTask(0) # task[v]
      BY <2>1, <3>2, <3>4 DEF TasksOnce, size
    <3> QED
      BY <2>1, <3>2, <3>3, <3>5, <3>6, <3>7 DEF TasksOnce, size
  <2>3. ASSUME NEW p \in Producers, P_Put(p) PROVE TasksOnce'
    <3>1. /\ queue_size \in 0..QMax-1 /\ queue_size' = queue_size + 1
          /\ \A i \in 0..queue_size :
                QueuedTask(i)' = IF i = queue_size THEN arg[p] ELSE QueuedTask(i)
      BY <2>1, <2>3, PutIsLast
    <3>2. /\ ppc[p] # "idle" /\ ppc' = [ppc EXCEPT ![p] = "idle"]
          /\ arg' = [arg EXCEPT ![p] = NULL]
          /\ UNCHANGED <<adds, done, task>>
          /\ \A w \in Workers : Has(w)' => Has(w)
      BY <2>3 DEF P_Put, PGo, SignalNotEmpty, Waiters, Has, PoolTypeOK
    <3>3. \A q \in Producers : ppc'[q] # "idle" =>
              q # p /\ ppc[q] # "idle" /\ arg'[q] = arg[q] /\ arg[q] # arg[p]
      BY <2>1, <3>2 DEF Args, PoolTypeOK
    <3>4. 0..queue_size'-1 = 0..queue_size /\ 0..queue_size = 0..queue_size-1 \cup {queue_size}
      BY <3>1, PoolAssumption
    <3>5. /\ arg[p] \in 1..adds /\ arg[p] \notin done
          /\ \A i \in 0..queue_size-1 : QueuedTask(i) # arg[p]
          /\ \A w \in Workers : Has(w) => task[w] # arg[p]
      BY <2>1, <3>2 DEF TasksOnce, Args
    <3>6. ASSUME NEW i \in 0..queue_size
          PROVE  /\ QueuedTask(i)' \in 1..adds' /\ QueuedTask(i)' \notin done'
                 /\ \A q \in Producers : ppc'[q] # "idle" => arg'[q] # QueuedTask(i)'
                 /\ \A j \in 0..queue_size : QueuedTask(i)' = QueuedTask(j)' => i = j
                 /\ \A w \in Workers : Has(w) => QueuedTask(i)' # task[w]
      BY <2>1, <3>1, <3>2, <3>3, <3>4, <3>5 DEF TasksOnce
    <3>7. \A i \in 0..queue_size'-1 : i \in 0..queue_size
      BY <3>4
    <3>8. \A w \in Workers : Has(w)' =>
             /\ Has(w) /\ task'[w] = task[w]
             /\ task[w] \in 1..adds' /\ task[w] \notin done'
             /\ \A q \in Producers : ppc'[q] # "idle" => arg'[q] # task[w]
      BY <2>1, <3>2, <3>3 DEF TasksOnce
    <3>9. \A w \in Workers : Has(w)' =>
             \A v \in Workers : Has(v)' /\ task'[v] = task'[w] => v = w
      BY <2>1, <3>8 DEF TasksOnce
    <3>10. done' \subseteq 1..adds' /\ \A q \in Producers : ppc'[q] # "idle" => arg'[q] \notin done'
      BY <2>1, <3>2, <3>3 DEF TasksOnce
    <3> QED
      BY <3>6, <3>7, <3>8, <3>9, <3>10 DEF TasksOnce
  <2>4. ASSUME NEW p \in Producers, P_Call(p) PROVE TasksOnce'
    <3>1. /\ adds' = adds + 1 /\ arg' = [arg EXCEPT ![p] = adds + 1]
          /\ ppc' = [ppc EXCEPT ![p] = "lock"]
          /\ UNCHANGED <<queue_size, queue_front, task_queue, wpc, task, done>>
      BY <2>4 DEF P_Call, PGo
    <3>2. /\ adds + 1 \notin 1..adds /\ 1..adds \subseteq 1..adds'
          /\ \A q \in Producers : ppc'[q] # "idle" =>
                \/ arg'[q] = adds + 1
                \/ ppc[q] # "idle" /\ arg'[q] = arg[q]
      BY <2>1, <3>1 DEF PoolTypeOK
    <3> QED
      BY <2>1, <3>1, <3>2, OthersKeepQueue DEF TasksOnce, Has
  <2>5. ASSUME NEW w \in Workers, W_Run(w) PROVE TasksOnce'
    <3>1. /\ wpc[w] = "running" /\ wpc' = [wpc EXCEPT ![w] = "finished"]
          /\ done' = done \cup {task[w]} /\ task' = [task EXCEPT ![w] = NULL]
          /\ UNCHANGED <<queue_size, queue_front, task_queue, adds, arg, ppc>>
      BY <2>5 DEF W_Run, WGo
    <3>2. Has(w) /\ \A v \in Workers : Has(v)' => v # w /\ Has(v) /\ task'[v] = task[v]
      BY <3>1 DEF Has, PoolTypeOK
    <3> QED
      BY <2>1, <3>1, <3>2, OthersKeepQueue DEF TasksOnce
  <2>6. ASSUME NEW w \in Workers, WorkerStep(w) \/ W_Spurious(w), ~W_Take(w), ~W_Run(w)
        PROVE  TasksOnce'
    <3>1. /\ UNCHANGED <<queue_size, queue_front, task_queue, arg, adds, done, ppc>>
          /\ task' = task
      BY <2>6 DEF WorkerStep, W_Lock, W_Wait, W_Wake, W_Stop, W_Begin, W_End, W_Spurious
    <3>2. \A v \in Workers : Has(v)' => Has(v)
      BY <2>6 DEF WorkerStep, W_Lock, W_Wait, W_Wake, W_Stop, W_Begin, W_End,
                  W_Spurious, WGo, WorkerLoop, Has, PoolTypeOK
    <3> QED
      BY <2>1, <3>1, <3>2, TasksOnceKept
  <2>7. ASSUME NEW p \in Producers, AddStep(p) \/ P_Spurious(p), ~P_Put(p)
        PROVE  TasksOnce'
    <3>1. ppc[p] \notin {"uslot", "urear", "usize", "uunlock"}
      BY <2>1 DEF Orderly, Overlap
    <3>2. /\ UNCHANGED <<queue_size, queue_front, task_queue, arg, adds, done, wpc, task>>
          /\ \A q \in Producers : ppc'[q] # "idle" => ppc[q] # "idle"
      BY <2>7, <3>1 DEF AddStep, P_Spurious, P_Lock, P_Wait, P_SeeShutdown,
         P_UnlockedStore, P_UnlockedRear, P_UnlockedSize, P_ForeignUnlock, PGo, PoolTypeOK
    <3> QED
      BY <2>1, <3>2, TasksOnceKept DEF Has
  <2>8. CASE ManagerStep \/ D_Shutdown \/ DestroyStep \/ UNCHANGED vars
    <3>1. UNCHANGED <<queue_size, queue_front, task_queue, arg, adds, done, ppc, task>>
      BY <2>8 DEF ManagerStep, A_Check, A_Sample, A_Count, A_Grow, A_Shrink, A_Signal,
         D_Shutdown, DestroyStep, D_Broadcast, D_Join, D_FreeArrays, D_FreePool, vars
    <3>2. \A w \in Workers : Has(w)' => Has(w)
      BY <2>8, OthersKeepTasks DEF Has
    <3> QED
      BY <2>1, <3>1, <3>2, TasksOnceKept
  <2> QED
    BY <2>2, <2>3, <2>4, <2>5, <2>6, <2>7, <2>8 DEF Next
<1> QED
  BY <1>1, <1>2, TypeCorrect, OverlapInv, SectionsInv, RingCorrect, ArgsInv, PTL DEF Spec


\* The queue that Queue is instantiated with.
tasks == [i \in 1..queue_size |-> QueuedTask(i - 1)]

LEMMA TasksAreSeq ==
    ASSUME Sections, Args, TasksOnce, Orderly
    PROVE  /\ queue_size \in Nat /\ tasks \in Seq(Tasks) /\ Len(tasks) = queue_size
           /\ \A i \in 1..queue_size : tasks[i] = QueuedTask(i - 1)
<1>1. queue_size \in Nat
  BY PoolAssumption DEF Sections
<1>2. \A i \in 1..queue_size : i - 1 \in 0..queue_size-1
  BY <1>1
<1>3. \A i \in 1..queue_size : QueuedTask(i - 1) \in Tasks
  BY <1>2 DEF Args
<1> QED
  BY <1>1, <1>3 DEF tasks

LEMMA AppendIs ==
    ASSUME NEW S, NEW s \in Seq(S), NEW t \in Seq(S), NEW v \in S,
           Len(t) = Len(s) + 1, t[Len(s) + 1] = v,
           \A k \in 1..Len(s) : t[k] = s[k]
    PROVE  t = Append(s, v)
<1>1. Append(s, v) \in Seq(S) /\ Len(Append(s, v)) = Len(t)
  OBVIOUS
<1>2. ASSUME NEW k \in 1..Len(t) PROVE t[k] = Append(s, v)[k]
  OBVIOUS
<1> QED
  BY <1>1, <1>2, SeqEqual

LEMMA TailIs ==
    ASSUME NEW S, NEW s \in Seq(S), NEW t \in Seq(S),
           Len(s) = Len(t) + 1, \A k \in 1..Len(t) : t[k] = s[k + 1]
    PROVE  s # <<>> /\ t = Tail(s)
<1>1. s # <<>> /\ Tail(s) \in Seq(S) /\ Len(Tail(s)) = Len(t)
  OBVIOUS
<1>2. ASSUME NEW k \in 1..Len(t) PROVE t[k] = Tail(s)[k]
  BY <1>1
<1> QED
  BY <1>1, <1>2, SeqEqual

\* threadpool_add submits its argument, which is known of nowhere else.
LEMMA PutSubmits ==
    ASSUME PoolTypeOK, Sections, RingIsRight, Args, TasksOnce, Orderly,
           NEW p \in Producers, P_Put(p)
    PROVE  /\ arg[p] \in Tasks
           /\ arg[p] \notin {tasks[i] : i \in DOMAIN tasks} \cup Running \cup done
           /\ Len(tasks) < QMax /\ tasks' = Append(tasks, arg[p])
           /\ Running' = Running /\ done' = done
<1>1. /\ queue_size \in 0..QMax-1 /\ queue_size' = queue_size + 1
      /\ \A i \in 0..queue_size :
            QueuedTask(i)' = IF i = queue_size THEN arg[p] ELSE QueuedTask(i)
  BY PutIsLast
<1>2. /\ queue_size \in Nat /\ tasks \in Seq(Tasks) /\ Len(tasks) = queue_size
      /\ \A i \in 1..queue_size : tasks[i] = QueuedTask(i - 1)
  BY TasksAreSeq
<1>3. ppc[p] # "idle" /\ task' = task /\ done' = done
  BY DEF P_Put, PGo
<1>4. arg[p] \in Tasks
  BY <1>3, PoolAssumption DEF Args, PoolTypeOK, Tasks
<1>5. \A i \in 1..queue_size : i - 1 \in 0..queue_size-1 /\ i - 1 \in 0..queue_size /\ i - 1 # queue_size
  BY <1>2
<1>6. arg[p] \notin {tasks[i] : i \in DOMAIN tasks} \cup Running \cup done
  <2>1. \A i \in 0..queue_size-1 : QueuedTask(i) # arg[p]
    BY <1>3 DEF TasksOnce
  <2>2. DOMAIN tasks = 1..queue_size
    BY DEF tasks
  <2>3. \A i \in DOMAIN tasks : tasks[i] # arg[p]
    BY <1>2, <1>5, <2>1, <2>2
  <2>4. arg[p] \notin Running /\ arg[p] \notin done
    BY <1>3 DEF TasksOnce, Running, Has
  <2> QED
    BY <2>3, <2>4
<1>7. tasks' = Append(tasks, arg[p])
  <2> DEFINE new == [i \in 1..queue_size+1 |->
                        IF i = queue_size + 1 THEN arg[p] ELSE tasks[i]]
  <2>1. new \in Seq(Tasks) /\ Len(new) = Len(tasks) + 1
    BY <1>2, <1>4
  <2>2. new[Len(tasks) + 1] = arg[p] /\ \A k \in 1..Len(tasks) : new[k] = tasks[k]
    BY <1>2
  <2>3. new = Append(tasks, arg[p])
    BY <1>2, <1>4, <2>1, <2>2, AppendIs
  <2>4. \A i \in 1..queue_size+1 : QueuedTask(i - 1)' = new[i]
    <3>1. \A i \in 1..queue_size+1 : i - 1 \in 0..queue_size /\ (i - 1 = queue_size <=> i = queue_size + 1)
      BY <1>2
    <3>2. \A i \in 1..queue_size+1 : i # queue_size + 1 => i \in 1..queue_size
      BY <1>2
    <3> QED
      BY <1>1, <1>2, <3>1, <3>2
  <2>5. tasks' = new
    BY <1>1, <2>4 DEF tasks
  <2> QED
    BY <2>3, <2>5
<1>8. Running' = Running
  <2>1. \A w \in Workers : Has(w)' <=> Has(w)
    BY DEF P_Put, SignalNotEmpty, Waiters, Has, PoolTypeOK
  <2> QED
    BY <1>3, <2>1 DEF Running, Has
<1> QED
  BY <1>1, <1>2, <1>3, <1>4, <1>6, <1>7, <1>8, PoolAssumption

\* A worker starts the first task.
LEMMA TakeStarts ==
    ASSUME PoolTypeOK, Sections, Args, TasksOnce, Orderly, NEW w \in Workers, W_Take(w)
    PROVE  /\ tasks # <<>> /\ tasks' = Tail(tasks)
           /\ Running' = Running \cup {Head(tasks)} /\ done' = done
<1>1. /\ queue_size \in 1..QMax /\ queue_size' = queue_size - 1
      /\ task' = [task EXCEPT ![w] = QueuedTask(0)]
      /\ \A i \in 0..queue_size-2 : QueuedTask(i)' = QueuedTask(i + 1)
  BY TakeIsFirst
<1>2. /\ queue_size \in Nat /\ tasks \in Seq(Tasks) /\ Len(tasks) = queue_size
      /\ \A i \in 1..queue_size : tasks[i] = QueuedTask(i - 1)
  BY TasksAreSeq
<1>3. /\ wpc[w] = "dispatch" /\ wpc' = [wpc EXCEPT ![w] = "taken"] /\ done' = done
  BY DEF W_Take, WGo
<1>4. tasks # <<>> /\ tasks' = Tail(tasks) /\ Head(tasks) = QueuedTask(0)
  <2> DEFINE new == [i \in 1..queue_size-1 |-> tasks[i + 1]]
  <2>1. queue_size - 1 \in Nat /\ \A i \in 1..queue_size-1 : i + 1 \in 1..queue_size
    BY <1>1, <1>2
  <2>2. /\ new \in Seq(Tasks) /\ Len(new) = queue_size - 1 /\ Len(tasks) = Len(new) + 1
        /\ \A k \in 1..Len(new) : new[k] = tasks[k + 1]
    BY <1>2, <2>1
  <2>3. tasks # <<>> /\ new = Tail(tasks)
    BY <1>2, <2>2, TailIs
  <2>4. \A i \in 1..queue_size-1 : QueuedTask(i - 1)' = new[i]
    <3>1. \A i \in 1..queue_size-1 :
             i - 1 \in 0..queue_size-2 /\ (i - 1) + 1 = i /\ (i + 1) - 1 = i
      BY <1>2
    <3> QED
      BY <1>1, <1>2, <2>1, <3>1
  <2>5. tasks' = new
    BY <1>1, <2>4 DEF tasks
  <2>6. Head(tasks) = QueuedTask(0)
    <3>1. Head(tasks) = tasks[1] /\ 1 \in 1..queue_size /\ 1 - 1 = 0
      BY <1>1, <1>2
    <3> QED
      BY <1>2, <3>1
  <2> QED
    BY <2>3, <2>5, <2>6
<1>5. Running' = Running \cup {QueuedTask(0)}
  <2>1. task'[w] = QueuedTask(0) /\ \A v \in Workers : v # w => task'[v] = task[v]
    BY <1>1 DEF PoolTypeOK
  <2>2. wpc'[w] = "taken" /\ \A v \in Workers : v # w => wpc'[v] = wpc[v]
    BY <1>3 DEF PoolTypeOK
  <2> QED
    BY <1>3, <2>1, <2>2 DEF Running
<1> QED
  BY <1>3, <1>4, <1>5

\* Its task, which no other worker has, returns.
LEMMA RunFinishes ==
    ASSUME PoolTypeOK, TasksOnce, Orderly, NEW w \in Workers, W_Run(w)
    PROVE  /\ task[w] \in Tasks /\ task[w] \in Running
           /\ Running' = Running \ {task[w]} /\ done' = done \cup {task[w]}
           /\ tasks' = tasks
<1>1. /\ wpc[w] = "running" /\ wpc' = [wpc EXCEPT ![w] = "finished"]
      /\ done' = done \cup {task[w]} /\ task' = [task EXCEPT ![w] = NULL]
      /\ UNCHANGED <<queue_size, queue_front, task_queue>>
  BY DEF W_Run, WGo
<1>2. /\ task[w] \in 1..adds
      /\ \A v \in Workers : Has(v) /\ task[v] = task[w] => v = w
  BY <1>1 DEF TasksOnce, Has
<1>3. task[w] \in Tasks
  BY <1>2, PoolAssumption DEF PoolTypeOK, Tasks
<1>4. Running' = Running \ {task[w]}
  <2>1. wpc'[w] = "finished" /\ \A v \in Workers : v # w => wpc'[v] = wpc[v] /\ task'[v] = task[v]
    BY <1>1 DEF PoolTypeOK
  <2> QED
    BY <1>1, <1>2, <2>1 DEF Running, Has
<1>5. tasks' = tasks
  BY <1>1, OthersKeepQueue DEF tasks
<1> QED
  BY <1>1, <1>3, <1>4, <1>5 DEF Running

\* The other steps leave the queue as it is.
LEMMA OthersKeepTheQueue ==
    ASSUME PoolTypeOK, Overlap, Orderly, [Next]_vars,
           \A w \in Workers : ~W_Take(w) /\ ~W_Run(w),
           \A p \in Producers : ~P_Put(p)
    PROVE  tasks' = tasks /\ Running' = Running /\ done' = done
<1>1. ASSUME UNCHANGED <<queue_size, queue_front, task_queue, task, done>>,
             \A w \in Workers : Has(w)' <=> Has(w)
      PROVE  tasks' = tasks /\ Running' = Running /\ done' = done
  BY <1>1, OthersKeepQueue DEF tasks, Running, Has
<1>2. ASSUME NEW w \in Workers, WorkerStep(w) \/ W_Spurious(w)
      PROVE  tasks' = tasks /\ Running' = Running /\ done' = done
  <2>1. UNCHANGED <<queue_size, queue_front, task_queue, task, done>>
    BY <1>2 DEF WorkerStep, W_Lock, W_Wait, W_Wake, W_Stop, W_Begin, W_End, W_Spurious
  <2>2. \A v \in Workers : Has(v)' <=> Has(v)
    BY <1>2 DEF WorkerStep, W_Lock, W_Wait, W_Wake, W_Stop, W_Begin, W_End,
                W_Spurious, WGo, WorkerLoop, Has, PoolTypeOK
  <2> QED
    BY <1>1, <2>1, <2>2
<1>3. ASSUME NEW p \in Producers, P_Call(p) \/ AddStep(p) \/ P_Spurious(p)
      PROVE  tasks' = tasks /\ Running' = Running /\ done' = done
  <2>1. ppc[p] \notin {"uslot", "urear", "usize", "uunlock"}
    BY DEF Orderly, Overlap
  <2>2. UNCHANGED <<queue_size, queue_front, task_queue, task, done, wpc>>
    BY <1>3, <2>1 DEF AddStep, P_Spurious, P_Call, P_Lock, P_Wait, P_SeeShutdown,
       P_UnlockedStore, P_UnlockedRear, P_UnlockedSize, P_ForeignUnlock, PGo
  <2> QED
    BY <1>1, <2>2 DEF Has
<1>4. CASE ManagerStep \/ D_Shutdown \/ DestroyStep \/ UNCHANGED vars
  <2>1. UNCHANGED <<queue_size, queue_front, task_queue, task, done>>
    BY <1>4 DEF ManagerStep, A_Check, A_Sample, A_Count, A_Grow, A_Shrink, A_Signal,
       D_Shutdown, DestroyStep, D_Broadcast, D_Join, D_FreeArrays, D_FreePool, vars
  <2>2. \A w \in Workers : Has(w)' => Has(w)
    BY <1>4, OthersKeepTasks DEF Has
  <2>3. \A w \in Workers : Has(w) => Has(w)'
    BY <1>4 DEF ManagerStep, A_Check, A_Sample, A_Count, A_Grow, A_Shrink, A_Signal,
       D_Shutdown, DestroyStep, D_Broadcast, D_Join, D_FreeArrays, D_FreePool, vars,
       SignalNotEmpty, Waiters, Reusable, Gone, Has, PoolTypeOK
  <2> QED
    BY <1>1, <2>1, <2>2, <2>3
<1> QED
  BY <1>2, <1>3, <1>4 DEF Next

LEMMA QueueStep ==
    ASSUME PoolTypeOK, Overlap, Sections, RingIsRight, Args, TasksOnce, Orderly,
           [Next]_vars
    PROVE  [Queue!Next]_(Queue!vars)
<1>1. [Queue!Next]_(Queue!vars) <=>
         \/ /\ tasks # <<>> /\ tasks' = Tail(tasks)
            /\ Running' = Running \cup {Head(tasks)} /\ done' = done
         \/ \E t \in Tasks :
               /\ t \notin {tasks[i] : i \in DOMAIN tasks} \cup Running \cup done
               /\ Len(tasks) < QMax /\ tasks' = Append(tasks, t)
               /\ Running' = Running /\ done' = done
         \/ \E t \in Tasks :
               /\ t \in Running /\ Running' = Running \ {t} /\ done' = done \cup {t}
               /\ tasks' = tasks
         \/ tasks' = tasks /\ Running' = Running /\ done' = done
  BY DEF Queue!Next, Queue!vars, Queue!Start, Queue!Submit, Queue!Finish, Queue!Known, tasks
<1>2. CASE \E w \in Workers : W_Take(w)
  BY <1>1, <1>2, TakeStarts
<1>3. CASE \E p \in Producers : P_Put(p)
  BY <1>1, <1>3, PutSubmits
<1>4. CASE \E w \in Workers : W_Run(w)
  BY <1>1, <1>4, RunFinishes
<1>5. CASE /\ \A w \in Workers : ~W_Take(w) /\ ~W_Run(w)
           /\ \A p \in Producers : ~P_Put(p)
  BY <1>1, <1>5, OthersKeepTheQueue
<1> QED
  BY <1>2, <1>3, <1>4, <1>5

LEMMA QueueInit == Init => Queue!Init
<1> SUFFICES ASSUME Init PROVE Queue!Init
  OBVIOUS
<1>1. tasks = <<>>
  BY DEF Init, tasks
<1>2. Running = {}
  BY DEF Init, Running
<1> QED
  BY <1>1, <1>2 DEF Init, Queue!Init, tasks

(* Until an add overlaps threadpool_destroy every step of the pool is one  *)
(* of a bounded first-in first-out queue of tasks, or none of its: however *)
(* the pool grows and shrinks, whichever threads fail to start.            *)
THEOREM QueueUntilOverlap ==
    Spec => Queue!Init /\ [][Orderly => [Queue!Next]_(Queue!vars)]_vars
<1>1. /\ PoolTypeOK /\ Overlap /\ Sections /\ RingIsRight /\ Args /\ TasksOnce
      /\ [Next]_vars
      => (Orderly => [Queue!Next]_(Queue!vars))
  BY QueueStep
<1> QED
  BY <1>1, QueueInit, TypeCorrect, OverlapInv, SectionsInv, RingCorrect, ArgsInv,
     TasksOnceInv, PTL DEF Spec

(* A pool that is destroyed as main does it, or never, implements the      *)
(* queue: threadpool_add and the loop of threadpool_thread keep the order, *)
(* lose no task and run none twice.                                        *)
THEOREM ImplementsQueue ==
    ASSUME DestroyWhen # "anytime"
    PROVE  Spec => QueueSpec
<1>1. /\ PoolTypeOK /\ Overlap /\ Sections /\ RingIsRight /\ Args /\ TasksOnce
      /\ [Next]_vars
      => [Queue!Next]_(Queue!vars)
  BY QueueStep DEF Orderly
<1> QED
  BY <1>1, QueueInit, TypeCorrect, OverlapInv, SectionsInv, RingCorrect, ArgsInv,
     TasksOnceInv, PTL DEF Spec, QueueSpec, Queue!Spec

=============================================================================
