----------------------------- MODULE ThreadPool -----------------------------
(***************************************************************************)
(* The elastic thread pool of src/thread/thread_pool/thread_pool.c.        *)
(*                                                                         *)
(* Workers (threadpool_thread), callers of threadpool_add, the manager     *)
(* (adjust_thread) and the caller of threadpool_destroy share one struct   *)
(* threadpool_t.  A step is what a thread does between two points where    *)
(* another thread can see or disturb it: critical sections are split where *)
(* the code uses the pool without the mutex (every use of shutdown, the    *)
(* signals of the manager and of destroy, an add that has seen shutdown).  *)
(*                                                                         *)
(* A worker is the slot of threads[] with its tid.  A slot gets a new      *)
(* thread only once its thread has exited, so it identifies the thread.    *)
(***************************************************************************)
EXTENDS Integers, FiniteSets, Sequences

CONSTANTS
    MinThr, MaxThr, QMax,  \* min_thr_num, max_thr_num, queue_max_size
    MinWait, Vary,         \* MIN_WAIT_TASK_NUM, DEFAULT_THREAD_VARY
    Producers, Destroyer,  \* threads that call threadpool_add, threadpool_destroy
    NoOne,                 \* the holder of a mutex that is free
    MaxAdds,               \* bound: how many calls of threadpool_add are made
    DestroyWhen,           \* when threadpool_destroy may be called
    CreateMayFail,         \* pthread_create may fail; its result is never read
    Garbage, Leftover      \* malloc's contents of wait_exit_thr_num, task_queue[i].arg

Workers == 0..MaxThr-1
Slots == 0..QMax-1
Tasks == 1..MaxAdds      \* the argument of an add; each add brings one of its own
NULL == 0                \* a NULL arg
Junk == -1               \* an arg that was never written

ASSUME PoolAssumption ==
    /\ MinThr \in Nat \ {0} /\ MaxThr \in Nat /\ MinThr <= MaxThr
    /\ QMax \in Nat \ {0} /\ MinWait \in Nat \ {0} /\ Vary \in Nat \ {0}
    /\ Producers \cap Workers = {} /\ NoOne # Destroyer
    /\ {NoOne, Destroyer} \cap (Workers \cup Producers) = {}
    /\ MaxAdds \in Nat
    /\ DestroyWhen \in {"never", "afterAdds", "anytime"}
    /\ CreateMayFail \in BOOLEAN
    /\ Garbage \subseteq Int /\ Leftover \subseteq {NULL, Junk}

VARIABLES
    lock,               \* the holder of pool->lock
    queue_size, queue_front, queue_rear,
    task_queue,         \* the arg in each slot of the ring
    live_thr_num, busy_thr_num, wait_exit_thr_num, shutdown,
    wpc, task,          \* each worker: where it is, its local copy of a task
    ppc, arg, reg,      \* each producer: where it is, its argument, a loaded int
    apc, sample, sigs,  \* the manager: its locals, the signals it has yet to send
    dpc, joining,       \* destroy: where it is, its loop index
    adds, freed, done   \* calls so far, args given to free(), tasks that ended

queueVars == <<queue_size, queue_front, queue_rear, task_queue>>
countVars == <<live_thr_num, busy_thr_num, wait_exit_thr_num>>
poolVars == <<queueVars, countVars, shutdown>>
workerVars == <<wpc, task>>
producerVars == <<ppc, arg, reg>>
managerVars == <<apc, sample, sigs>>
destroyVars == <<dpc, joining>>
historyVars == <<adds, freed, done>>
vars == <<lock, poolVars, workerVars, producerVars, managerVars, destroyVars,
          historyVars>>
\* What the step of one kind of thread leaves alone.
notWorker == <<producerVars, managerVars, destroyVars, historyVars>>
notProducer == <<workerVars, managerVars, destroyVars>>
notManager == <<producerVars, destroyVars, historyVars>>
notDestroy == <<producerVars, managerVars, historyVars>>

Gone == {"none", "retired", "stopped"}    \* no thread is running in the slot
NoSample == [size |-> 0, live |-> 0, busy |-> 0]

(* threadpool_create.  memset clears only sizeof(pointer) bytes of         *)
(* threads[], task_queue is not cleared and wait_exit_thr_num is not set.  *)
Init ==
    /\ lock = NoOne
    /\ queue_size = 0 /\ queue_front = 0 /\ queue_rear = 0
    /\ task_queue \in [Slots -> Leftover]
    /\ live_thr_num = MinThr /\ busy_thr_num = 0 /\ wait_exit_thr_num \in Garbage
    /\ shutdown = FALSE
    /\ \E failed \in SUBSET (0..MinThr-1) :
          /\ CreateMayFail \/ failed = {}
          /\ wpc = [w \in Workers |-> IF w < MinThr /\ w \notin failed
                                      THEN "lock" ELSE "none"]
    /\ task = [w \in Workers |-> NULL]
    /\ ppc = [p \in Producers |-> "idle"]
    /\ arg = [p \in Producers |-> NULL] /\ reg = [p \in Producers |-> 0]
    /\ apc = "check" /\ sample = NoSample /\ sigs = 0
    /\ dpc = "idle" /\ joining = 0
    /\ adds = 0 /\ freed = {} /\ done = {}

(* Operators whose names end in Faulty are what a slip in the code would   *)
(* make of the operator that follows them; no specification uses them.     *)
AcquireFaulty(t) == lock' = t                 \* trylock, its result ignored
\* pthread_mutex_lock and pthread_mutex_unlock of pool->lock
Acquire(t) == lock = NoOne /\ lock' = t
Release == lock' = NoOne

Waiters == {w \in Workers : wpc[w] = "waiting"}

SignalFaulty == wpc' = wpc                    \* forgotten
\* pthread_cond_signal(&queue_not_empty)
SignalNotEmpty ==
    IF Waiters = {} THEN wpc' = wpc
    ELSE \E w \in Waiters : wpc' = [wpc EXCEPT ![w] = "woken"]

NextSlot(i) == (i + 1) % QMax

WGo(w, from, to) == wpc[w] = from /\ wpc' = [wpc EXCEPT ![w] = to]
PGo(p, from, to) == ppc[p] = from /\ ppc' = [ppc EXCEPT ![p] = to]

-----------------------------------------------------------------------------
(* threadpool_add                                                          *)

P_Call(p) ==
    /\ adds < MaxAdds
    /\ dpc = "idle" \/ DestroyWhen = "anytime"
    /\ PGo(p, "idle", "lock")
    /\ adds' = adds + 1
    /\ arg' = [arg EXCEPT ![p] = adds + 1]
    /\ UNCHANGED <<lock, poolVars, notProducer, reg, freed, done>>

AddLoopFaulty == IF queue_size > QMax /\ ~shutdown THEN "towait" ELSE "decide"
\* Where the loop on a full queue leaves an add that holds the lock.
AddLoop == IF queue_size = QMax /\ ~shutdown THEN "towait" ELSE "decide"

\* Takes the mutex, on entry or inside pthread_cond_wait after a wakeup.
P_Lock(p) ==
    /\ Acquire(p)
    /\ PGo(p, "lock", AddLoop) \/ PGo(p, "woken", AddLoop)
    /\ UNCHANGED <<poolVars, notProducer, arg, reg, historyVars>>

P_Wait(p) ==
    /\ PGo(p, "towait", "waiting")
    /\ Release
    /\ UNCHANGED <<poolVars, notProducer, arg, reg, historyVars>>

StoreArgFaulty(p) ==                          \* stores, then frees
    /\ freed' = freed \cup {arg[p]}
    /\ task_queue' = [task_queue EXCEPT ![queue_rear] = NULL]
\* Frees the argument the slot held before and stores the new one.
StoreArg(p) ==
    /\ freed' = freed \cup ({task_queue[queue_rear]} \ {NULL})
    /\ task_queue' = [task_queue EXCEPT ![queue_rear] = arg[p]]

P_Put(p) ==
    /\ ~shutdown
    /\ PGo(p, "decide", "idle")
    /\ StoreArg(p)
    /\ queue_rear' = NextSlot(queue_rear)
    /\ queue_size' = queue_size + 1
    /\ SignalNotEmpty
    /\ Release
    /\ arg' = [arg EXCEPT ![p] = NULL]
    /\ UNCHANGED <<queue_front, countVars, shutdown, task, reg, managerVars,
                   destroyVars, adds, done>>

(* An add that sees shutdown releases the mutex and, having no return      *)
(* there, goes on to the same stores without it, loading and storing each  *)
(* index; its last unlock releases a mutex that it does not hold.          *)
P_SeeShutdown(p) ==
    /\ shutdown
    /\ PGo(p, "decide", "uslot")
    /\ Release
    /\ UNCHANGED <<poolVars, notProducer, arg, reg, historyVars>>

P_UnlockedStore(p) ==
    /\ PGo(p, "uslot", "urear")
    /\ StoreArg(p)
    /\ reg' = [reg EXCEPT ![p] = queue_rear]
    /\ UNCHANGED <<lock, queue_size, queue_front, queue_rear, countVars,
                   shutdown, notProducer, arg, adds, done>>

P_UnlockedRear(p) ==
    /\ PGo(p, "urear", "usize")
    /\ queue_rear' = NextSlot(reg[p])
    /\ reg' = [reg EXCEPT ![p] = queue_size]
    /\ UNCHANGED <<lock, queue_size, queue_front, task_queue, countVars,
                   shutdown, notProducer, arg, historyVars>>

P_UnlockedSize(p) ==
    /\ PGo(p, "usize", "uunlock")
    /\ queue_size' = reg[p] + 1
    /\ reg' = [reg EXCEPT ![p] = 0]
    /\ UNCHANGED <<lock, queue_front, queue_rear, task_queue, countVars,
                   shutdown, notProducer, arg, historyVars>>

P_ForeignUnlock(p) ==
    /\ PGo(p, "uunlock", "idle")
    /\ SignalNotEmpty
    /\ Release
    /\ arg' = [arg EXCEPT ![p] = NULL]
    /\ UNCHANGED <<poolVars, task, reg, managerVars, destroyVars, historyVars>>

-----------------------------------------------------------------------------
(* threadpool_thread                                                       *)

WorkerLoopFaulty == IF ~shutdown THEN "towait" ELSE "dispatch"
\* Where the loop on an empty queue leaves a worker that holds the lock.
WorkerLoop == IF queue_size = 0 /\ ~shutdown THEN "towait" ELSE "dispatch"

W_Lock(w) ==
    /\ Acquire(w)
    /\ WGo(w, "lock", WorkerLoop)
    /\ UNCHANGED <<poolVars, task, notWorker>>

\* Between reading shutdown and joining the waiters a wakeup can be missed.
W_Wait(w) ==
    /\ WGo(w, "towait", "waiting")
    /\ Release
    /\ UNCHANGED <<poolVars, task, notWorker>>

MayRetireFaulty == wait_exit_thr_num > 0
MayRetire == wait_exit_thr_num > 0 /\ live_thr_num > MinThr

(* pthread_cond_wait returns: a pending request to shrink is served first, *)
(* whatever the wakeup was for.                                            *)
W_Wake(w) ==
    /\ lock = NoOne
    /\ wait_exit_thr_num' = wait_exit_thr_num - (IF wait_exit_thr_num > 0 THEN 1 ELSE 0)
    /\ \/ /\ MayRetire
          /\ WGo(w, "woken", "retired")
          /\ live_thr_num' = live_thr_num - 1
          /\ Release
       \/ /\ ~MayRetire
          /\ WGo(w, "woken", WorkerLoop)
          /\ Acquire(w)
          /\ UNCHANGED live_thr_num
    /\ UNCHANGED <<queueVars, busy_thr_num, shutdown, task, notWorker>>

W_Stop(w) ==
    /\ shutdown
    /\ WGo(w, "dispatch", "stopped")
    /\ Release
    /\ UNCHANGED <<poolVars, task, notWorker>>

BroadcastFaulty == ppc' = ppc                 \* forgotten
\* pthread_cond_broadcast(&queue_not_full)
BroadcastNotFull ==
    ppc' = [p \in Producers |-> IF ppc[p] = "waiting" THEN "woken" ELSE ppc[p]]

FrontTaskFaulty == task_queue[NextSlot(queue_front)]    \* advances, then reads
FrontTask == task_queue[queue_front]

W_Take(w) ==
    /\ ~shutdown
    /\ WGo(w, "dispatch", "taken")
    /\ task' = [task EXCEPT ![w] = FrontTask]
    /\ queue_front' = NextSlot(queue_front)
    /\ queue_size' = queue_size - 1
    /\ BroadcastNotFull
    /\ Release
    /\ UNCHANGED <<queue_rear, task_queue, countVars, shutdown, arg, reg,
                   managerVars, destroyVars, historyVars>>

W_Begin(w) ==
    /\ WGo(w, "taken", "running")
    /\ busy_thr_num' = busy_thr_num + 1
    /\ UNCHANGED <<lock, queueVars, live_thr_num, wait_exit_thr_num, shutdown,
                   task, notWorker>>

\* The task function returns.
W_Run(w) ==
    /\ WGo(w, "running", "finished")
    /\ done' = done \cup {task[w]}
    /\ task' = [task EXCEPT ![w] = NULL]
    /\ UNCHANGED <<lock, poolVars, producerVars, managerVars, destroyVars,
                   adds, freed>>

W_End(w) ==
    /\ WGo(w, "finished", "lock")
    /\ busy_thr_num' = busy_thr_num - 1
    /\ UNCHANGED <<lock, queueVars, live_thr_num, wait_exit_thr_num, shutdown,
                   task, notWorker>>

\* pthread_cond_wait may return with no signal.
W_Spurious(w) ==
    /\ WGo(w, "waiting", "woken")
    /\ UNCHANGED <<lock, poolVars, task, notWorker>>
P_Spurious(p) ==
    /\ PGo(p, "waiting", "woken")
    /\ UNCHANGED <<lock, poolVars, notProducer, arg, reg, historyVars>>

-----------------------------------------------------------------------------
(* adjust_thread: a round samples the pool, perhaps grows it and perhaps   *)
(* shrinks it, both on the values sampled at its beginning.                *)

MustGrow(s) == s.size >= MinWait /\ s.live < MaxThr
MustShrink(s) == 2 * s.busy < s.live /\ s.live > MinThr
AfterGrow(s) == IF MustShrink(s) THEN "shrink" ELSE "check"

\* Reads shutdown without the mutex, then sleeps.
A_Check ==
    /\ apc = "check"
    /\ apc' = IF shutdown THEN "exited" ELSE "sample"
    /\ UNCHANGED <<lock, poolVars, workerVars, sample, sigs, notManager>>

A_Sample ==
    /\ apc = "sample" /\ lock = NoOne
    /\ sample' = [sample EXCEPT !.size = queue_size, !.live = live_thr_num]
    /\ apc' = "count"
    /\ UNCHANGED <<lock, poolVars, workerVars, sigs, notManager>>

\* The sample is a local of the round: it is reset when the round is over.
A_Count ==
    /\ apc = "count"
    /\ LET s == [sample EXCEPT !.busy = busy_thr_num]
       IN  /\ apc' = IF MustGrow(s) THEN "grow" ELSE AfterGrow(s)
           /\ sample' = IF apc' = "check" THEN NoSample ELSE s
    /\ UNCHANGED <<lock, poolVars, workerVars, sigs, notManager>>

(* The scan reuses the slots it finds 0 or whose thread is not alive.  A   *)
(* slot that was never written may hold anything, and pthread_kill on a    *)
(* thread that has exited but was not joined may or may not report ESRCH:  *)
(* the slots reused are any set of such slots, within both limits.         *)
Reusable == {w \in Workers : wpc[w] \in Gone}

A_Grow ==
    /\ apc = "grow" /\ lock = NoOne
    /\ \E S \in SUBSET Reusable, failed \in SUBSET Workers :
          /\ Cardinality(S) <= Vary
          /\ live_thr_num + Cardinality(S) <= MaxThr
          /\ live_thr_num' = live_thr_num + Cardinality(S)
          /\ failed \subseteq S /\ (CreateMayFail \/ failed = {})
          /\ wpc' = [w \in Workers |-> IF w \in failed THEN "none"
                                       ELSE IF w \in S THEN "lock" ELSE wpc[w]]
    /\ apc' = AfterGrow(sample)
    /\ sample' = NoSample
    /\ UNCHANGED <<lock, queueVars, busy_thr_num, wait_exit_thr_num, shutdown,
                   task, sigs, notManager>>

A_Shrink ==
    /\ apc = "shrink" /\ lock = NoOne
    /\ wait_exit_thr_num' = Vary
    /\ sigs' = Vary
    /\ apc' = "signal"
    /\ sample' = NoSample
    /\ UNCHANGED <<lock, queueVars, live_thr_num, busy_thr_num, shutdown,
                   workerVars, notManager>>

\* The signals are sent without the mutex.
A_Signal ==
    /\ apc = "signal"
    /\ SignalNotEmpty
    /\ sigs' = sigs - 1
    /\ apc' = IF sigs = 1 THEN "check" ELSE "signal"
    /\ UNCHANGED <<lock, poolVars, task, sample, notManager>>

-----------------------------------------------------------------------------
(* threadpool_destroy and threadpool_free.  The environment calls destroy  *)
(* never, as main does (once, when no add is under way), or at any time.   *)

D_Shutdown ==
    /\ dpc = "idle"
    /\ \/ DestroyWhen = "anytime"
       \/ DestroyWhen = "afterAdds" /\ \A p \in Producers : ppc[p] = "idle"
    /\ shutdown' = TRUE
    /\ dpc' = "broadcast"
    /\ UNCHANGED <<lock, queueVars, countVars, workerVars, joining, notDestroy>>

\* Once the manager has been joined; without the mutex.
D_Broadcast ==
    /\ dpc = "broadcast" /\ apc = "exited"
    /\ wpc' = [w \in Workers |-> IF wpc[w] = "waiting" THEN "woken" ELSE wpc[w]]
    /\ dpc' = "join"
    /\ UNCHANGED <<lock, poolVars, task, joining, notDestroy>>

JoinLimitFaulty == live_thr_num - 1
JoinLimit == live_thr_num

\* Joins threads[0], threads[1], ... up to the live_thr_num of the moment.
D_Join ==
    /\ dpc = "join" /\ joining < JoinLimit
    /\ wpc[joining] \in Gone
    /\ joining' = joining + 1
    /\ UNCHANGED <<lock, poolVars, workerVars, dpc, notDestroy>>

D_FreeArrays ==
    /\ dpc = "join" /\ joining >= JoinLimit
    /\ dpc' = "arraysfreed"
    /\ UNCHANGED <<lock, poolVars, workerVars, joining, notDestroy>>

(* Takes the mutex for good, destroys it and frees the pool.  A thread that *)
(* still uses the pool is undefined behaviour from here on: of what it may *)
(* do, the model keeps that the memory is still there and the mutex held.  *)
D_FreePool ==
    /\ dpc = "arraysfreed"
    /\ Acquire(Destroyer)
    /\ dpc' = "freed"
    /\ UNCHANGED <<poolVars, workerVars, joining, notDestroy>>

-----------------------------------------------------------------------------
WorkerStep(w) ==
    \/ W_Lock(w) \/ W_Wait(w) \/ W_Wake(w) \/ W_Stop(w) \/ W_Take(w)
    \/ W_Begin(w) \/ W_Run(w) \/ W_End(w)

AddStep(p) ==
    \/ P_Lock(p) \/ P_Wait(p) \/ P_Put(p) \/ P_SeeShutdown(p)
    \/ P_UnlockedStore(p) \/ P_UnlockedRear(p) \/ P_UnlockedSize(p)
    \/ P_ForeignUnlock(p)

ManagerStep ==
    A_Check \/ A_Sample \/ A_Count \/ A_Grow \/ A_Shrink \/ A_Signal

DestroyStep == D_Broadcast \/ D_Join \/ D_FreeArrays \/ D_FreePool

Next ==
    \/ \E w \in Workers : WorkerStep(w) \/ W_Spurious(w)
    \/ \E p \in Producers : P_Call(p) \/ AddStep(p) \/ P_Spurious(p)
    \/ ManagerStep
    \/ D_Shutdown \/ DestroyStep

Spec == Init /\ [][Next]_vars

(* Every thread that can go on goes on, a task function returns, and a     *)
(* thread that keeps finding the mutex free now and then gets it.  Nobody  *)
(* has to call add or destroy, and no wakeup has to be spurious.           *)
Fairness ==
    /\ \A w \in Workers : SF_vars(WorkerStep(w))
    /\ \A p \in Producers : SF_vars(AddStep(p))
    /\ SF_vars(ManagerStep) /\ SF_vars(DestroyStep)

FairSpec == Spec /\ Fairness

-----------------------------------------------------------------------------
(* Properties                                                              *)

PoolTypeOK ==
    /\ lock \in Workers \cup Producers \cup {NoOne, Destroyer}
    /\ queue_size \in Int /\ queue_front \in Slots /\ queue_rear \in Slots
    /\ task_queue \in [Slots -> Tasks \cup {NULL, Junk}]
    /\ live_thr_num \in Int /\ busy_thr_num \in Int
    /\ wait_exit_thr_num \in Int /\ shutdown \in BOOLEAN
    /\ wpc \in [Workers -> Gone \cup {"lock", "towait", "waiting", "woken",
                        "dispatch", "taken", "running", "finished"}]
    /\ task \in [Workers -> Tasks \cup {NULL, Junk}]
    /\ ppc \in [Producers -> {"idle", "lock", "towait", "waiting", "woken",
                           "decide", "uslot", "urear", "usize", "uunlock"}]
    /\ arg \in [Producers -> Tasks \cup {NULL}]
    /\ reg \in [Producers -> Int]
    /\ \A p \in Producers : ppc[p] = "urear" => reg[p] \in Slots
    /\ apc \in {"check", "sample", "count", "grow", "shrink", "signal", "exited"}
    /\ sample \in [size : Int, live : Int, busy : Int]
    /\ sigs \in 0..Vary /\ (apc = "signal" => sigs > 0)
    /\ dpc \in {"idle", "broadcast", "join", "arraysfreed", "freed"}
    /\ joining \in Nat
    /\ adds \in 0..MaxAdds
    /\ freed \subseteq Tasks \cup {Junk} /\ done \subseteq Tasks \cup {NULL, Junk}

(* A pool is used in an orderly way until an add overlaps threadpool_destroy. *)
Orderly == DestroyWhen # "anytime" \/ ~shutdown

(* In an orderly pool whoever is inside a critical section of pool->lock   *)
(* holds it, so no two threads are, although an add that sees shutdown     *)
(* releases the mutex twice.                                               *)
HoldsLock ==
    Orderly =>
    /\ \A w \in Workers : wpc[w] \in {"towait", "dispatch"} => lock = w
    /\ \A p \in Producers : ppc[p] \in {"towait", "decide"} => lock = p

(* The comments on queue_size and queue_max_size: the number of elements   *)
(* never exceeds the capacity.                                             *)
QueueWithinCapacity == queue_size <= QMax

(* In an orderly pool it never does, and the two indices agree with it.    *)
RingIsRight ==
    Orderly =>
    /\ queue_size \in 0..QMax
    /\ queue_rear = (queue_front + queue_size) % QMax

QueuedTask(i) == task_queue[(queue_front + i) % QMax]    \* i-th from the front

(* threadpool_add frees the argument it finds in the slot it fills: in an  *)
(* orderly pool never one of a task that no worker has taken yet.          *)
QueuedArgsKept ==
    Orderly => \A i \in 0..queue_size-1 : QueuedTask(i) \in Tasks \ freed

(* live_thr_num stays between the limits of the pool and, until shutdown,  *)
(* counts the threads that were started and have not retired.              *)
LiveIsRight ==
    /\ live_thr_num \in MinThr..MaxThr
    /\ ~shutdown =>
          live_thr_num = Cardinality({w \in Workers : wpc[w] \notin {"none", "retired"}})

(* busy_thr_num counts the threads between their two visits to             *)
(* thread_counter.                                                         *)
BusyIsRight ==
    busy_thr_num = Cardinality({w \in Workers : wpc[w] \in {"running", "finished"}})

(* A producer sleeps on queue_not_full only while the queue is full: every *)
(* dequeue wakes them all, before another add can fill the queue again.    *)
ProducersWaitOnlyWhenFull ==
    Orderly => \A p \in Producers : ppc[p] = "waiting" => queue_size = QMax

(* In a pool of fixed size a queued task never lies there while every      *)
(* worker sleeps: no wakeup of queue_not_empty is lost.                    *)
NoSleepOverTasks ==
    queue_size > 0 =>
        \E w \in Workers : wpc[w] \notin {"waiting", "none", "retired"}

(* The pool is freed only after every worker has gone, which is what the   *)
(* joins of threadpool_destroy are for.                                    *)
PoolFreedLast ==
    dpc \in {"arraysfreed", "freed"} => \A w \in Workers : wpc[w] \in Gone

(* An argument is not freed while the task that was given it still runs:   *)
(* process reads its argument until its last statement.                    *)
ArgOutlivesTask ==
    \A w \in Workers : wpc[w] \in {"taken", "running"} => task[w] \notin freed

(* The pool implements a bounded first-in first-out queue of tasks.        *)
Running == {task[w] : w \in {v \in Workers : wpc[v] \in {"taken", "running"}}}

Queue == INSTANCE TaskQueue
    WITH Capacity <- QMax,
         queue <- [i \in 1..queue_size |-> QueuedTask(i - 1)],
         running <- Running

QueueSpec == Queue!Spec

(* A task that was queued is run, unless the pool is shut down.            *)
IsQueued(t) == \E i \in 0..queue_size-1 : QueuedTask(i) = t

QueuedTaskRuns ==
    \A t \in Tasks : IsQueued(t) ~> (t \in done \/ shutdown)

(* Calls of threadpool_add go on returning: several producers may sleep on *)
(* queue_not_full at once, but never do all that are inside it stay there. *)
(* (Which one returns is left open: to one of them the others may always   *)
(* be faster.)                                                             *)
AddReturns == \E p \in Producers : ppc[p] # "idle" /\ ppc'[p] = "idle"

AddsGoOn ==
    []<>(\A p \in Producers : ppc[p] = "idle") \/ []<><<AddReturns>>_vars

(* A call of threadpool_destroy returns.                                   *)
DestroyReturns == shutdown ~> (dpc = "freed")

=============================================================================
