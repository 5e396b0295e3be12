---------------------------- MODULE MyThreadPool ----------------------------
(***************************************************************************)
(* The second thread pool, of src/thread/mythreadpool/thread_pool.c: one   *)
(* thread creates it, adds tasks and destroys it ("called by the main      *)
(* thread"), against the workers and the manager.                          *)
(*                                                                         *)
(* threadpool_create starts the threads before it initialises the lock,    *)
(* the conditions and shutdown.  Until then shutdown is whatever malloc    *)
(* returned; the lock and the conditions are taken to be all zero there,   *)
(* which is what their initialisation makes of them.                       *)
(*                                                                         *)
(* threadpool_addtask does not count the task it stores.  The code that    *)
(* runs a task, or adds and retires threads, starts at "beyond" and is not *)
(* modelled, as nothing comes there: see NoTaskRuns.                       *)
(***************************************************************************)
EXTENDS Integers, FiniteSets

CONSTANTS
    Min, Max,               \* min_thr_num, max_thr_num
    taskqueue_max_size,
    NoOne,
    MaxTasks                \* bound: calls of threadpool_addtask

Workers == 0..(Min - 1)
Manager == Max
Main == Max + 1
Threads == Workers \cup {Manager, Main}

ASSUME MyPoolAssumption ==
    /\ Min \in Nat \ {0} /\ Max \in Nat /\ Min <= Max
    /\ taskqueue_max_size \in Nat \ {0} /\ MaxTasks \in Nat
    /\ NoOne \notin Threads

VARIABLES
    lock,                   \* who has it, or NoOne
    waiting,                \* the threads that taskqueue_full can wake
    shutdown, wait_exit_thread_num,
    taskqueue,              \* of each slot: the task, counted from 1, or 0
    taskqueue_tail, taskqueue_cur_size,
    added,                  \* calls of threadpool_addtask that have returned
    pc,                     \* of each thread
    joining,                \* the loop counter of create and destroy
    caught                  \* who used the lock or slept when it was initialised

sharedVars == <<lock, waiting, caught>>
poolVars == <<shutdown, wait_exit_thread_num>>
queueVars == <<taskqueue, taskqueue_tail, taskqueue_cur_size>>
mainVars == <<added, joining>>
vars == <<sharedVars, poolVars, queueVars, mainVars, pc>>

Init ==
    /\ lock = NoOne /\ waiting = {} /\ caught = {}
    /\ shutdown \in 0..2 /\ wait_exit_thread_num \in 0..1
    /\ taskqueue = [s \in 0..(taskqueue_max_size - 1) |-> 0]
    /\ taskqueue_tail = 0 /\ taskqueue_cur_size = 0
    /\ added = 0 /\ joining = 0
    /\ pc = [t \in Threads |-> IF t = Main THEN "create" ELSE "unborn"]

Go(t, from, to) == pc[t] = from /\ pc' = [pc EXCEPT ![t] = to]
Take(t) == lock = NoOne /\ lock' = t
\* An unlock asks nobody who has the lock.
Unlock == lock' = NoOne

-----------------------------------------------------------------------------
(* threadpool_create *)

StartThread ==
    /\ pc[Main] = "create"
    /\ LET t == IF joining < Min THEN joining ELSE Manager
       IN  pc' = [pc EXCEPT ![t] = "lock",
                            ![Main] = IF t = Manager THEN "init" ELSE "create"]
    /\ joining' = IF joining < Min THEN joining + 1 ELSE 0
    /\ UNCHANGED <<sharedVars, poolVars, queueVars, added>>

\* Frees the lock, whoever has it and whoever is asleep over it.
InitLock ==
    /\ Go(Main, "init", "init conditions")
    /\ lock' = NoOne
    /\ caught' = IF lock = NoOne THEN {}
                 ELSE {lock} \cup {t \in Threads : pc[t] \in {"lock", "woken"}}
    /\ UNCHANGED <<waiting, poolVars, queueVars, mainVars>>

\* Who sleeps on a condition that is initialised is not woken through it.
InitConditions ==
    /\ Go(Main, "init conditions", "init shutdown")
    /\ waiting' = {} /\ caught' = caught \cup waiting
    /\ UNCHANGED <<lock, poolVars, queueVars, mainVars>>

InitShutdown ==
    /\ Go(Main, "init shutdown", "idle")
    /\ shutdown' = 0
    /\ UNCHANGED <<sharedVars, wait_exit_thread_num, queueVars, mainVars>>

-----------------------------------------------------------------------------
(* threadpool_addtask *)

AddCall ==
    /\ added < MaxTasks
    /\ Go(Main, "idle", "add lock")
    /\ UNCHANGED <<sharedVars, poolVars, queueVars, mainVars>>

AddLock ==
    /\ Go(Main, "add lock", "add") /\ Take(Main)
    /\ UNCHANGED <<waiting, caught, poolVars, queueVars, mainVars>>

CountFaulty == taskqueue_cur_size' = taskqueue_cur_size + 1   \* counts the task
Count == UNCHANGED taskqueue_cur_size

\* It would wait for room if the tasks were counted; shutdown is not set yet.
AddStore ==
    /\ IF taskqueue_cur_size = taskqueue_max_size
       THEN Go(Main, "add", "beyond") /\ UNCHANGED <<lock, queueVars>>
       ELSE /\ Go(Main, "add", "signal")
            /\ taskqueue' = [taskqueue EXCEPT ![taskqueue_tail] = added + 1]
            /\ taskqueue_tail' = (taskqueue_tail + 1) % taskqueue_max_size
            /\ Count /\ Unlock
    /\ UNCHANGED <<waiting, caught, poolVars, mainVars>>

AddSignal ==
    /\ Go(Main, "signal", "idle")
    /\ IF waiting = {} THEN UNCHANGED waiting
       ELSE \E w \in waiting : waiting' = waiting \ {w}
    /\ added' = added + 1
    /\ UNCHANGED <<lock, caught, poolVars, queueVars, joining>>

-----------------------------------------------------------------------------
(* threadpool_runtask *)

Lock(t) ==
    /\ Go(t, "lock", "check") /\ Take(t)
    /\ UNCHANGED <<waiting, caught, poolVars, queueVars, mainVars>>

Leave(t, from) == Go(t, from, "gone") /\ Unlock

W_Check(w) ==
    /\ IF shutdown = 0 THEN Go(w, "check", "look") /\ UNCHANGED lock
                       ELSE Leave(w, "check")
    /\ UNCHANGED <<waiting, caught, poolVars, queueVars, mainVars>>

\* The head of the inner loop: is there a task, and if not, sleep.
W_Look(w) ==
    /\ IF taskqueue_cur_size = 0
       THEN Go(w, "look", "asleep") /\ Unlock /\ waiting' = waiting \cup {w}
       ELSE Go(w, "look", "beyond") /\ UNCHANGED <<lock, waiting>>
    /\ UNCHANGED <<caught, poolVars, queueVars, mainVars>>

\* Signalled, or for no reason at all.
W_Wake(w) ==
    /\ Go(w, "asleep", "woken") /\ w \notin waiting /\ w \notin caught
    /\ UNCHANGED <<sharedVars, poolVars, queueVars, mainVars>>

W_Spurious(w) ==
    /\ Go(w, "asleep", "woken") /\ w \in waiting \cup caught
    /\ waiting' = waiting \ {w}
    /\ UNCHANGED <<lock, caught, poolVars, queueVars, mainVars>>

W_Relock(w) ==
    /\ Go(w, "woken", "awake") /\ Take(w)
    /\ UNCHANGED <<waiting, caught, poolVars, queueVars, mainVars>>

W_Awake(w) ==
    /\ IF shutdown = 1 \/ wait_exit_thread_num > 0
       THEN Leave(w, "awake") ELSE Go(w, "awake", "look") /\ UNCHANGED lock
    /\ wait_exit_thread_num' =
          IF shutdown # 1 /\ wait_exit_thread_num > 0
          THEN wait_exit_thread_num - 1 ELSE wait_exit_thread_num
    /\ UNCHANGED <<waiting, caught, shutdown, queueVars, mainVars>>

-----------------------------------------------------------------------------
(* threadpool_manage *)

\* As create sets them; they change only beyond.
cur_thread_num == Min
cur_work_num == 0

MustGrow ==
    /\ cur_work_num = cur_thread_num /\ taskqueue_cur_size > 0
    /\ cur_thread_num < Max
MustShrink == cur_work_num * 2 < cur_thread_num /\ cur_thread_num > Min

\* With nothing to do it comes to its lock again, which it still has.
M_Check ==
    /\ IF shutdown = 1 THEN Leave(Manager, "check")
       ELSE /\ Go(Manager, "check", IF MustGrow \/ MustShrink THEN "beyond" ELSE "lock")
            /\ UNCHANGED lock
    /\ UNCHANGED <<waiting, caught, poolVars, queueVars, mainVars>>

-----------------------------------------------------------------------------
(* threadpool_destroy *)

DestroyCall ==
    /\ Go(Main, "idle", "destroy lock")
    /\ UNCHANGED <<sharedVars, poolVars, queueVars, mainVars>>

D_LockFaulty == UNCHANGED lock                \* forgets pthread_mutex_lock
D_Lock == Take(Main)

DestroyLock ==
    /\ Go(Main, "destroy lock", "destroy") /\ D_Lock
    /\ UNCHANGED <<waiting, caught, poolVars, queueVars, mainVars>>

DestroySet ==
    /\ Go(Main, "destroy", "join manager")
    /\ shutdown' = 1
    /\ Unlock
    /\ UNCHANGED <<waiting, caught, wait_exit_thread_num, queueVars, mainVars>>

JoinManager ==
    /\ pc[Manager] = "gone"
    /\ Go(Main, "join manager", "broadcast")
    /\ UNCHANGED <<sharedVars, poolVars, queueVars, mainVars>>

\* Once for each thread that is joined.
Broadcast ==
    /\ Go(Main, "broadcast", "join")
    /\ waiting' = {}
    /\ UNCHANGED <<lock, caught, poolVars, queueVars, mainVars>>

\* threadpool_free is empty.
Join ==
    /\ pc[Main] = "join" /\ pc[joining] = "gone"
    /\ Go(Main, "join", IF joining + 1 < cur_thread_num THEN "broadcast" ELSE "done")
    /\ joining' = joining + 1
    /\ UNCHANGED <<sharedVars, poolVars, queueVars, added>>

-----------------------------------------------------------------------------
WorkerStep(w) ==
    Lock(w) \/ W_Check(w) \/ W_Look(w) \/ W_Wake(w) \/ W_Relock(w) \/ W_Awake(w)

ManagerStep == Lock(Manager) \/ M_Check

\* What main does within a call; nobody has to make one.
MainStep ==
    \/ StartThread \/ InitLock \/ InitConditions \/ InitShutdown
    \/ AddLock \/ AddStore \/ AddSignal
    \/ DestroyLock \/ DestroySet \/ JoinManager \/ Broadcast \/ Join

Next ==
    \/ \E w \in Workers : WorkerStep(w) \/ W_Spurious(w)
    \/ ManagerStep
    \/ MainStep \/ AddCall \/ DestroyCall

Spec == Init /\ [][Next]_vars

\* A thread goes on, and gets a lock that is free again and again.
FairSpec ==
    /\ Spec /\ SF_vars(MainStep) /\ SF_vars(ManagerStep)
    /\ \A w \in Workers : SF_vars(WorkerStep(w))

-----------------------------------------------------------------------------
(* Properties *)

Places ==
    {"unborn", "lock", "check", "look", "asleep", "woken", "awake", "gone", "beyond",
     "create", "init", "init conditions", "init shutdown", "idle", "add lock", "add",
     "signal", "destroy lock", "destroy", "join manager", "broadcast", "join", "done"}

MyPoolTypeOK ==
    /\ lock \in Threads \cup {NoOne}
    /\ waiting \subseteq Workers /\ caught \subseteq Threads
    /\ shutdown \in 0..2 /\ wait_exit_thread_num \in 0..1
    /\ taskqueue \in [0..(taskqueue_max_size - 1) -> 0..MaxTasks]
    /\ taskqueue_tail \in 0..(taskqueue_max_size - 1)
    /\ taskqueue_cur_size \in 0..taskqueue_max_size
    /\ added \in 0..MaxTasks /\ joining \in 0..Min
    /\ pc \in [Threads -> Places]

(* No task is ever run, and the pool never grows or shrinks: the tasks     *)
(* that are added one after the other end up in the queue, the last        *)
(* taskqueue_max_size of them, as each later one is written over the       *)
(* oldest.                                                                 *)
Stored == added + IF pc[Main] = "signal" THEN 1 ELSE 0

NoTaskRuns ==
    /\ MyPoolTypeOK
    /\ \A t \in Threads : pc[t] # "beyond"
    /\ {taskqueue[s] : s \in DOMAIN taskqueue} \ {0}
          = {k \in 1..Stored : k > Stored - taskqueue_max_size}

(* Who is between lock and unlock has the lock, although every unlock      *)
(* frees it whoever has it; unless create initialised it in use.           *)
LockIsHeld ==
    caught = {} =>
        \A t \in Threads : pc[t] \in {"check", "look", "awake", "add", "destroy"} => lock = t

(* Every call of main returns, destroy with its joins among them, unless   *)
(* the manager waits for the lock that it holds, or create initialised     *)
(* what a thread had in use.  destroy sets shutdown with the lock in hand  *)
(* and broadcasts for each thread it joins, so no worker misses it.        *)
ManagerStuck == lock = Manager /\ pc[Manager] = "lock"

MainReturns ==
    (pc[Main] \notin {"idle", "done"}) ~>
        (pc[Main] \in {"idle", "done"} \/ ManagerStuck \/ caught # {})

=============================================================================
