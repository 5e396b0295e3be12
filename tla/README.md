# Verification of the concurrent programs of this repository

TLA+ models, TLC runs and TLAPS proofs for *Advanced Programming in the UNIX Environment*, a
collection of C and C++ programs. The repository is not one program: it is an elastic thread pool,
several producer/consumer and reader/writer programs, a timer list with a server built on it, a
family of echo servers (select, poll, epoll, an epoll reactor), and many short demos of one system
call each. What follows lists all of them, says which are modelled and how, and what has been
checked and proved. All paths are under `src/`.

## 1. Inventory

### Thread pool - `thread/thread_pool/thread_pool.c`
- **State**: a struct with a mutex, the condition variables `queue_not_full` and `queue_not_empty`,
  a ring of tasks (`queue_front`, `queue_rear`, `queue_size`), the counters `live_thr_num`,
  `busy_thr_num` (under a mutex of its own) and `wait_exit_thr_num`, an array of thread ids, and
  `shutdown`, which no lock guards.
- **Operations**: `threadpool_create`, `threadpool_add`, the worker `threadpool_thread`, the
  manager `adjust_thread` (grows and shrinks the pool every 10 s), `threadpool_destroy`,
  `threadpool_free`.
- **Interaction**: shared memory only; adds signal workers, dequeues broadcast to adds, the manager
  asks workers to retire by a counter and by signals, destroy sets a flag, broadcasts and joins.
- **Hard**: an add that meets shutdown unlocks and goes on without the lock; a worker answers *any*
  wakeup by retiring first; destroy joins the first `live_thr_num` slots, which after a shrink are
  not the live ones; arguments are freed by a later add to the same slot; the manager acts on values
  it sampled earlier; uninitialised memory (`wait_exit_thr_num`, the slots' arguments).
- **Correct when**: mutual exclusion; the ring never overflows and is first-in first-out; no wakeup
  is lost and every queued task runs; adds go on returning; the counters count; an argument lives as long
  as its task; the pool is freed after its last worker.

### Producers and consumers
- `process/semaphore/produecr_consumer/main.c`: two counting semaphores and a mutex around a buffer
  whose one index moves up for producers and down for consumers.
- `thread/synchronization/condition_val/producer_consumer.c`: the same buffer with two condition
  variables, one signal per change.
- **Hard**: a slot is counted before or after it changes; both wraps of the index must agree on the
  slot; a signalled thread may lose the race to the mutex, or wake with no signal.
- **Correct when**: no item is overwritten or read twice, the buffer is a bounded *stack* (not a
  queue), signals suffice, everyone goes on.

### Readers and writer - `process/semaphore/reader_writer/main.c`
Reader preference with `count_sem` and `write_sem`, and a handshake for an empty buffer: the first
reader that finds no data gives up the readers' `write_sem`, waits on `data_sem`, and the writer
posts it when an unguarded `flag` is set. **Correct when**: nobody reads beside a writer or before
there is data, `write_sem` is neither lost nor posted twice, no reader is left behind.

### Timers
- `timer/timer_list/timer_list.{h,cpp}`: a sorted doubly linked list (`addTimer`, its helper,
  `deleteTimer`, `adjust`, `tick`, destructor). **Correct when**: the list stays whole and sorted, a
  tick runs all that is due, calls return.
- `timer/timer_list/main.cpp`: a server that is to close clients that stay silent for three slots.
  **State**: `users[]` (timer and descriptor of each connection), the timer list, the flags `timeout`
  and `stop_server`, the bytes in a socket pair. **Operations**: accept, receive, the callback
  `cb_func` (from the loop and from `tick`), the signal handler, the tick. **Hard**: data, the end of
  a connection, a new connection and the signal in one batch of events; a signal at any point; the
  alarm that is set again only after a tick; a callback that closes the wrong descriptor.
  **Correct when**: timers and connections match, only silent clients are given up, no signal is lost.
- `timer/timer_wheel/`: unfinished.

### Servers - `unix网络编程/IO多路复用/`
- `select/`, `poll/`, `epoll/epoll_LT/`, `epoll/epoll_ET/`: single-threaded echo servers with a
  table of clients (select, poll) or none (epoll). All calls block.
- `epoll/epoll_reactor/server.c`: a table of events with callbacks, pointers to which epoll holds.
- `epoll/reactor/`: a second reactor in separate files, which exits where the first closes a
  connection, and never gives a slot back.
- **Hard**: readiness learnt before is acted upon after other descriptors were accepted, closed and
  reused; a full table; the descriptor limits given to select and poll; edges.
- **Correct when**: the loop never blocks in a read, table and kernel agree, a client gets its own
  bytes back, connections are accepted and bytes are read, a server ends only for a cause.

### Second thread pool - `thread/mythreadpool/thread_pool.c`
**State**: as the first, with `cur_thread_num` and `cur_work_num` for the counters. **Operations**:
`threadpool_create`, `threadpool_addtask`, the worker `threadpool_runtask`, the manager
`threadpool_manage`, `threadpool_destroy`; main makes the calls, one after the other. **Hard**: the
threads run before their lock is initialised; the manager's loop comes back to its lock without
having released it; tasks are not counted; destroy must not miss a worker that is about to wait.
**Correct when**: the lock excludes, calls return, tasks run (they do not).

### The rest
`process/processpool/` (its loops are empty and it does not
compile), `process/CGI_server/`, and demos of processes, pipes, signals, sockets, files and locks:
straight-line programs with little or no state. `PROJECT.json` lists each with the reason it is left
out.

## 2. Modules

| Module | Models | Kind |
| --- | --- | --- |
| `ThreadPool` | `thread_pool.c` | detailed |
| `TaskQueue` | what a pool promises: a bounded first-in first-out queue, each task started once | abstract |
| `MCThreadPool` | producers, uninitialised values and symmetry for the runs of `ThreadPool` | instance |
| `ThreadPool_proofs` | theorems on `ThreadPool` | proofs |
| `SemProducerConsumer`, `CondProducerConsumer` | the two producer/consumer programs | detailed |
| `BoundedStack` | what both promise | abstract |
| `SemProducerConsumer_proofs`, `CondProducerConsumer_proofs` | theorems on the two, their refinements included | proofs |
| `ReaderWriter` | readers and writer | detailed |
| `ReaderWriter_proofs` | theorems on `ReaderWriter` | proofs |
| `TimerList` | the timer list and the calls made of it | detailed |
| `EchoNet` | the clients and the sockets, shared by the servers | environment |
| `EchoNet_proofs` | what every server may rely on: lemmas, one per step of a client and call of a server | proofs |
| `EchoServers` | select, poll, epoll LT and ET on `EchoNet` | composed |
| `EpollReactor` | the table, the callbacks and the loop of `epoll_reactor` on `EchoNet` | composed |
| `Reactors` | `epoll/reactor` over the same table, and the specification of both reactors | composed |
| `Servers_proofs` | theorems on both reactors and on the four servers of `EchoServers` | proofs |
| `TimerServer` | `timer_list/main.cpp`: `TimerList` and `EchoNet` together, with signals and the clock | composed |
| `Timers_proofs` | theorems on `TimerList` and on `TimerServer` | proofs |
| `MyThreadPool` | `mythreadpool/thread_pool.c` | detailed |
| `MyThreadPool_proofs` | theorems on `MyThreadPool` | proofs |

Operators whose name ends in `Faulty` are slips of the kind a programmer makes (a lock forgotten, a
wrap left out, an `if` for a `while`), written before the operator they imitate. No specification
uses them; replacing the right operator by its slip breaks the property listed with it in
`PROJECT.json` under `mutants`, which shows that the property can fail.

### How the models correspond to the code

**ThreadPool.** One `pc` per thread: `wpc` of each slot of `threads[]`, `ppc` of each caller of
`threadpool_add`, `apc` of the manager, `dpc` of destroy. A critical section is one step unless it
uses something the mutex does not guard. Thus the loops on `queue_size` and `shutdown` are split
(`towait`, `decide`, `dispatch`): `shutdown` may change between the test and the wait, and again
before the second test. An add after shutdown takes the steps `P_SeeShutdown` (unlock),
`P_UnlockedStore`, `P_UnlockedRear`, `P_UnlockedSize` (each index loaded and stored separately) and
`P_ForeignUnlock` (the second unlock). A task is named by the number of its add.
- `pthread_cond_signal` wakes one waiter, chosen freely; waits may return spuriously.
- `pthread_create` may fail (`CreateMayFail`), since its result is ignored.
- `malloc`'s contents are `Garbage` (`wait_exit_thr_num`) and `Leftover` (the arguments in the
  ring): `memset` clears `sizeof(pointer)` bytes of `threads[]` only.
- The slots that the manager reuses are any set of slots with no running thread, because
  `pthread_kill` on a thread that has exited and was not joined may or may not report it.
- `free(Junk)`, and `pthread_join` on an id that was never written, are treated as returning at once.
- After `threadpool_free` has taken the mutex and freed the pool, threads that still use it find the
  mutex held; the memory itself is kept. After an unlock of somebody else's mutex, further races
  *inside* the critical sections then entered twice are not followed to single loads and stores.
  `HoldsLock`, `RingIsRight`, `QueuedArgsKept` and `ProducersWaitOnlyWhenFull` claim nothing from
  the moment an add may overlap destroy (`Orderly`).
- Line 291, `pthread_join(pool_)`, is an unfinished line that does not compile; it is read as absent.

**CondProducerConsumer, SemProducerConsumer, ReaderWriter.** One `pc` per thread, one step per
semaphore operation or per section under the mutex. Items are one of two values; the reader/writer's
text is left out and `datasize` saturates at `MaxData`, since the code tells only 0 from the rest.

**TimerList.** Nodes with `expireTime`, `pre` and `next`, and a heap that says which are live. A call
whose loop walks the list takes one step a node (`pc`, `timer`, `cur`). Stepping onto a null or deleted
node is undefined and ends the behaviour (`pc = "undefined"`). What looks like a slip of the model
and is in the code: insertion in front of the head does not write the old head's `_pre`; insertion in
the middle links two nodes both ways; `adjust` of any but the last timer re-adds it with its old
pointers. The history variable `atEnd` says that so far only the last timer was put off and each new
one was due after all others: the use for which the list works.

**EchoNet, EchoServers, EpollReactor, Reactors.** Bytes are counted per client, up to `MaxBytes` on their way;
`accept` gives the lowest free descriptor, and descriptors are numbered from the listener's. `kind`, chosen
at the start, says which of the `EchoServers` runs. Its steps are a wait, an accept, one read and one write;
clients act in between. The read of a client that has left may fail (reset) and lose its bytes. What is
read is answered before the loop goes on (`pc = "write"`): the write waits (`"blocked"`) while the socket of
a client that has earlier answers to read (`answered`) is full, until the client reads or leaves. The first
write to a client that has left succeeds, the next may raise SIGPIPE: `BrokenPipe` ends the process
(`"ended"`) and closes everything. What the answer says, its capitals, is left out. An `fd_set` is made of
words, which the kernel reads and writes back whole up to the one that holds `nfds - 1`: `Select` clears
the bits there that are not ready, those from `nfds` on included, and keeps the words after (`Beyond`).
`FIRST` is how many descriptors the first word has from the listener's on (61 where the listener is 3)
and `WORD` how many the others have (64). In
`EpollReactor` a step is one callback, with `send` failing for a client that has left; what a partial
`send` leaves is dropped by the code and by the model. `poll`'s `revents` are uninitialised memory (any
subset). `Reactors` adds `version`, chosen at the start, and `exited`. Its callbacks end in
`event_add`, which registers or, where `epoll_ctl` would refuse, exits: `Exit` empties the tables as the
kernel does. `SignalPipe` is the end of either server by SIGPIPE. A second reactor's slot always holds
the event that was reported (`BatchIsFresh`), so not comparing them does no harm; EPOLLET on the first
registration makes no difference, as the first event re-registers.

**TimerServer.** `spc` says where main is: in `epoll_wait`, in a batch, in a tick, past the loop. Each
call of the list is the action of that name of `TimerList`, and main goes on when the list's `pc` is
`idle` again; clients and signals act in between. `batch` is a set, taken from in any order. `users[f]`
keeps the timer and the `confd` that the code stores, which is the listener's; `cb_func` closes that
(`closed`), and the client's descriptor stays in epoll. Using a deleted timer, or `users[-1]` after an
accept without a listener, is undefined and ends the behaviour. A signal handler's step adds a byte to
`pipe` at any moment. `sa_flags` is uninitialised: the second SIGALRM may end the process. A signal that
is due comes before the clock moves on, which loses nothing, as the handler reads no clock. What
becomes of connections still queued when the listener closes is left to their clients. SIGTERM comes
once (until it is seen).

**MyThreadPool.** One `pc` per thread; the steps of a worker are those between its lock, its reads of
`shutdown` and its wait, as `shutdown` is written without the lock by create. `InitLock` and
`InitConditions` overwrite the lock and the set of waiters whoever uses them; `caught` remembers these
threads. Before, `shutdown` and `wait_exit_thread_num` hold garbage; the memory of the mutex and the
conditions is taken to be zero, which is their initial value on Linux. A thread that would run a task
or grow or shrink the pool goes to `beyond`, from which there is no step: no thread reaches it.

## 3. What is checked

Deadlock is checked in `buffer_sem`, `buffer_cond` and `reader_writer`, whose programs never stop. The
others may stop: their callers and clients may have nothing more to ask.

| Run | Instance | Shows |
| --- | --- | --- |
| `pool_elastic` | 1 to 2 workers, 2 producers, ring of 2, 3 adds, destroy at any moment, `wait_exit_thr_num` 0 or 1, arguments null or junk | in orderly use no two threads in a critical section (`HoldsLock`), ring and size agree (`RingIsRight`), no queued argument is freed (`QueuedArgsKept`); at all times the live threads are counted (`LiveIsRight`) |
| `pool_fixed` | 2 workers (both limits), 2 producers, ring of 2, 4 adds, destroy when the adds have returned | no task waits while all workers sleep, the pool is freed last, it implements `TaskQueue`, every queued task runs unless shut down, adds go on returning while a producer is inside one (`AddsGoOn`) |
| `buffer_sem` | 3 producers, 2 consumers, 3 slots, 2 values | the semaphores are the count, implements `BoundedStack` (nothing is overwritten or read twice), every thread is served |
| `buffer_cond` | 3 producers, 2 consumers, 2 slots, 2 values | index and count agree, one signal per change suffices, implements `BoundedStack`, items flow |
| `reader_writer` | 3 readers, 2 writers | exclusion, `write_sem` accounted for through the handshake, who waits for data finds the flag up or the post made (`WakeupKept`), every reader reads |
| `timer_list` | 3 timers, delays 1 and 2, 3 seconds, every sequence of calls | while timers are set at the end: the list is whole and sorted, a tick leaves nothing due, calls return |
| `timer_server` | 2 clients, slots of a second, 4 moments of the clock, one SIGTERM | timers and connections match and the listener is closed with the first timer that goes (`TimersMatch`), there is one alarm (`OneAlarm`), a tick gives up silent clients only (`SilentOnly`), signals are served while the list is in order (`SignalsServed`) |
| `reactors` | 3 clients, table of 2, either reactor | table and epoll agree but for refused connections, no event is stale when its callback runs, no client gets another's bytes, what a served client sends is received; the process ends only for a client that has left or, in the second, one too many (`ExitsForCause`), and the second always ends for one that leaves (`LeavingEndsReactor`) |
| `echo_servers` | 3 clients, table of 2, all four servers, words of 2 descriptors | the loop does not block in accept or read (`NeverBlocks`), the table holds open descriptors only; unless the loop is stuck for ever in a write, or the process has ended, connections are accepted (but for ET, and for a select that has lost its listener's bit) and what is watched is read |
| `my_pool` | 2 workers, queue of 2, 3 tasks, garbage in `shutdown` and `wait_exit_thread_num` | no task ever runs and the queue keeps the last two (`NoTaskRuns`), the lock excludes (`LockIsHeld`) and calls return (`MainReturns`) but for what create initialised in use and a manager that locks itself out |

Where no type invariant is named, the module's is a conjunct of another property of the run
(`SemaphoresCount`, `WriteSemAccounted`, `TableIsRight`, `TableAgreesWithEpoll`, `TimersMatch`,
`NoTaskRuns`); those of `ThreadPool` and `CondProducerConsumer` are proved, and that of `TimerList` is part of `TimersMatch` and of the
invariant proved of it.

### Disagreements found (runs that must fail)

| Run | Property | What the code does |
| --- | --- | --- |
| `pool_lost_wakeup` | `QueuedTaskRuns` | `thread_pool.c:176`: a worker woken for a task retires first because of an old request to shrink; the signal is gone and the task stays queued while another worker sleeps. |
| `pool_freed` | `PoolFreedLast` | `thread_pool.c:293`: after a shrink destroy joins slots of retired threads and frees the pool with a worker alive. |

More were seen while modelling and are noted under `hazards`; each can be reproduced by checking the
property in brackets, or by dropping the condition named:
- `thread_pool.c:145`: an add frees the argument left in its slot while the task that was given it
  still runs (`ArgOutlivesTask`, with a ring of one slot).
- `thread_pool.c:292`: destroy may hang, as its one broadcast can fall between a worker's test and its
  wait (`DestroyReturns`). The second pool, whose destroy sets `shutdown` under the lock, does not have this.
- `thread_pool.c:142`: an add after shutdown can overfill the ring (`QueueWithinCapacity`).
- `timer_list.cpp:48`: an insertion in the middle leaves a cycle of two nodes (`ListIsRight`). In the
  server two clients that connect in one second suffice; when the first then sends, `adjust` walks the
  cycle for ever (`SignalsServed` without `~atEnd`).
- `main.cpp:100`: the callback closes the listener, never a client; the server takes no connection from
  the first client on that leaves or is silent too long, and then deletes a timer twice.
- `poll/server.c:105`: poll stops watching the slots above the one just filled (`WatchedAreRead` without
  `IsWatched`).
- `epoll/epoll_ET/server.c:94`: of two connections that come together one stays in the backlog (`AllAccepted` without
  the exception of ET).
- `select/server.c:77`: select, given `maxfd` for `maxfd + 1`, looks at no new client, and clears its bit
  when the first word of the set is written back. Up to its 60th connection (listener 3, words of 64) the
  server does nothing but accept, which is proved (`SelectOnlyAccepts`). The 61st has descriptor 64, whose word
  select does not touch: the bit stays, is watched from the next connection on, and when it is ready with no
  new connection the bit of the listener is lost for good (`AllAccepted` without the exception of select).
  Past the second word `retfd` may count a descriptor that was refused a slot; the scan then goes on to the
  client just accepted, in the slot and descriptor of an earlier one, and its read blocks
  (`NeverBlocks` without its exception, with four clients and words of 1).
- All four servers: a client that sends and never reads keeps the only thread in `write`
  (`AllAccepted` and `WatchedAreRead` without `NeverStuck`), and one that has left may end the process by SIGPIPE
  (`BrokenPipe`, with whoever is connected or waits; `AllAccepted` claims nothing after it).
- `mythreadpool/thread_pool.c:80` and `:172`: no task is run; the manager locks itself out, and main
  with it, unless destroy comes before the manager's first look.

### Bounds, and why they are enough
- **Threads**: the mutexes and conditions are used by two kinds of threads. Two of a kind that
  compete and a third party are the least with a stolen wakeup or a missed broadcast; 3 + 2 with 2 or
  3 slots lets both kinds fill and drain the buffer and sleep at once. `main` starts 3 + 1 with 5
  slots; the theorems of section 4 hold for every number, here as in the components below.
- **Ring and adds**: a ring of 2 and 3 adds fills it, blocks a producer and goes once round. In
  `pool_fixed` 4 adds fill it and let both producers sleep on `queue_not_full` at once.
  `pool_lost_wakeup` needs 4 adds. In `my_pool` 3 tasks overrun the queue of 2.
- **Pool sizes**: 1 to 2 workers is the smallest pool that can grow and shrink; `Vary` (10 in the
  code) is 2 or 1, so that a request to shrink may outlast what can be retired.
- **Timers**: three nodes are the least with a head, a middle and a tail. In `timer_server` a client is
  due three slots after it was heard; the clock goes to 3, the moment at which a client heard at once
  is given up and one heard later must not be; two clients let the end of one, data of the other, a
  new connection and a signal share a batch.
- **Servers**: three clients with two slots fill the table, overflow it and reuse a slot and a
  descriptor. In `reactors` two bytes on their way give partial and full reads. In `echo_servers` there is
  one: a client that has sent more is, once the server is done with it, like one that has sent again, so a
  partial read is not told apart. Words of 2, with the listener the last of the first, let three clients
  come to the second word: the bit of the first stays and is watched, the second's is cleared, and the
  listener's may be lost while the third waits. The limit never passes the second word, nor is
  the end of the table by a scan (`ToRead = {}`), for which a descriptor past the second word must have been
  refused a slot. The theorems have neither bound.
- `MaxAdds`, `MaxTime`, `MaxBytes` and `MaxData` appear in guards to make the state finite. No property rests
  on calls running out: `AddsGoOn` is about adds as a whole, because with adds without end one producer
  may find its slot taken by another for ever, and `QueuedTaskRuns` does not depend on how many follow.

### Fairness
- Threads: strong fairness of each thread's steps. The loops have no end, nothing in them blocks but
  mutexes and semaphores, and a thread that keeps finding one free now and then gets it. POSIX does
  not promise this of its mutexes; without it any thread could be starved, whatever the code does.
- Task functions return. Single-threaded loops (servers, the calls of the timer list): weak fairness. In
  `EchoServers` this means that a call that can return does. A write need not: whether a client ever reads is
  the client's affair, so `AllAccepted` and `WatchedAreRead` are about behaviours in which the loop is not stuck
  for ever in one (`NeverStuck`), and say so in their premise.
- In `MyThreadPool` main has strong fairness within a call, as it takes the lock there.
- No signal has to be delivered and the clock need not go on.
- Nobody has to call `threadpool_add`, `threadpool_destroy` or the timer list; no client has to
  connect, send or leave; no wakeup has to be spurious.

## 4. What is proved

For every value of the constants that satisfies the modules' assumptions; these say only that bounds
are natural numbers, thread sets are finite (where counted) and disjoint, and sentinels are distinct.

**`ThreadPool_proofs`.** Invariants are proved in a chain, each using the ones before:
1. `TypeCorrect`: `PoolTypeOK`.
2. `Overlap` (who can be in the unlocked part of an add, and only after shutdown) gives `LockHeld`:
   in orderly use whoever is in a critical section holds the mutex. Alone `HoldsLock` is not
   inductive: it must be known that no foreign unlock can come while use is orderly.
3. `Sections` says what a thread knows between its test and its next step (a worker about to take:
   the queue is not empty; a producer about to put: it is not full; a sleeping producer: it is full).
   From it follow `SleepOnlyWhenFull` and `RingCorrect` (with lemmas on indices modulo `QMax`).
4. `BusyCorrect`, and `LiveCorrect` when `pthread_create` never fails: the counters count, the latter
   through `NoneStopped` (before shutdown no thread has stopped) and cardinality lemmas.
5. `NoLostWakeup` and `FreedLast` for a pool whose two limits are equal and whose threads were all
   created (`Fixed`): by `Staffed` no worker ever retires, which is exactly what fails in an elastic
   pool; and the slots joined are all slots.
6. `ArgsKept`: an add never frees an argument that is still queued, since the slots of the queue are
   distinct from the rear unless it is full, and each add brings an argument of its own.
7. The refinement of `TaskQueue`. `TasksOnce` is the invariant it needs: a task is in one place only,
   in one slot of the queue, with one producer, with one worker or done. The queue of the mapping is
   the sequence of the slots from `queue_front` on, at indices that go round; a put appends to it
   (`PutIsLast`, `AppendIs`), a take is its tail (`TakeIsFirst`, `TailIs`), and lemmas on moving
   one task say that every other step leaves the queue and the sets of tasks alone or runs one. Step by
   step that is `QueueStep`, as long as use is orderly. `ImplementsQueue` is `Spec => QueueSpec` for
   pools destroyed after their adds, as main does, or never; `QueueUntilOverlap` says the same of every
   step up to an add that meets shutdown, for pools destroyed at any moment.

**`CondProducerConsumer_proofs`.** The inductive invariant `BufferInv` is the type invariant,
`HasLock` (who is inside holds the mutex), `Room` (who is about to store finds room, who is about to
take finds an item) and `IndexIsCount`. It gives `TypeCorrect` and `IndexCorrect`. `Enough` states one half
of `WakeupsSuffice` for either kind of thread; the lemmas about it (giving, taking, signalling,
sleeping) are on cardinalities of sets of threads and used for both halves: `WakeupsCorrect`, and from
it `NeverAllAsleep`. `ImplementsStack` is the refinement `Spec => StackSpec`: under `BufferInv` the stack
of the mapping is the sequence of the first `count` slots (`StackIsItems`), a store appends to it, a
take drops its last, and every other step leaves the buffer alone.

**`SemProducerConsumer_proofs`.** There is no count in this program, so the invariant `SemInv` says
that there *is* a number `n` of items for which `Holds(n)` (the items are the slots below `n`, and
the index is `n`, but for a producer that has stored and a wrap under way) and `Counted(n)` (each
semaphore, with the threads between their wait and their post, makes up `n` or `MAX - n`). A step of
the buffer moves `n` by one; the others keep it, by lemmas on moving one thread from one set to
another. It gives `SemaphoresCorrect`, `NeverAllBlocked` (with `HolderInside`: a locked mutex has its
holder between lock and unlock) and `ImplementsStack`.

**`ReaderWriter_proofs`.** `RWInv` has three parts besides types: `RWCounts` (who is where, for each
semaphore and `readcount`), `RWData` (who knows that there are data; nobody waits for data while
another reads) and `RWFlag`. The last is the handshake: a reader about to wait has `flag` up or a post
waiting, and the writer that is about to clear the flag has posted for the reader that sleeps. What
makes it inductive is that a reader at `giveup` still has the group's `write_sem`, and so no writer
writes. It gives `ExclusionCorrect`, `WriteSemCorrect`, `WakeupCorrect` and `NeverAllBlocked`, the last by
cases on who holds what.

**`MyThreadPool_proofs`.** `QuietInv` holds that `taskqueue_cur_size` stays 0, that nobody is
`beyond`, and that the ring holds the last tasks added (`RingHolds`, with lemmas on indices modulo the
queue's size): `NothingRuns`. `HeldInv` adds that nothing is caught before the initialisation: `LockHeld`.

**`EchoNet_proofs`.** `NetInv`: a client is in the backlog or on a descriptor, once, and only if it has
come. From it follows, by counting, that an accept finds a free descriptor (`DescriptorFree`). One lemma
for a client's steps and one each for accept, read and close says that it is kept.

**`Servers_proofs`.** *The reactors.* `ReactorsInv` is `NetInv`, the four properties, and what they lean on:
`SlotsRight` (a slot in use is the listener's or a connection's), `RefusedGone` (a refused client does
not come back), `BatchReady` (an event for reading still is readable when its callback runs) and
`Ended`. `BatchIsFresh` is inductive because no two events of a batch share a slot, and a callback
changes only the slot of its own event and slots that are free. They give `TableCorrect`,
`BatchCorrect`, `EchoCorrect` and `ExitCorrect`.
*Select, poll, epoll LT and ET.* Neither `TableIsRight` nor `NeverBlocks` is inductive: the scan looks
at slots of which `poll` has said nothing, and only the count in `retfd` keeps it from reading there. So
`EchoInv` adds `PollCounts`: the ready slots still to come are as many as `retfd` says, and come
before any other that looks ready (the slot just filled, whose `revents` are of an earlier client or of
nobody, included). It also has `ReportIsFresh` (what epoll has reported, each descriptor once,
is still open and readable when its turn comes), `SelectSees` and `PlaceOfKind` (each server is
only where its own loop goes). `SelectSees` says what is left of the set: while the limit is within the first
word, the listener is watched and select's server is only where it waits or accepts; within the second, one
client at most can be ready, the one whose descriptor starts the word, and the count is right. They give
`ClientTableCorrect`, `ServersNeverBlock` (but for select past its second word) and `SelectOnlyAccepts`.

**`Timers_proofs`.** *The list.* While it is used at its end, at every step no pointer leads to a
deleted node (`NoneDangling`), and there is a sequence `s` of nodes that is the list (`Listing(s)`: linked
both ways, no repetition, all live timers, in order; during an append or a tick also what is under way).
That one sequence is the invariant's witness in each lemma: an append makes it longer, a deletion
shorter at either end or in between (`ShorterListing`, `LongerListing`). It is then
shown to be what `EndListIsRight` defines by following `next` (`ListingIsRight`): `ListCorrect`. A tick
ends with an empty list or at a timer that is not due; in order, none after it is: `TickCorrect`.
*The server.* `AlarmInv` says that of the alarm armed, the alarms in the pipe and `timeout` there is
exactly one: `AlarmCorrect`. `ServerInv` is the list's invariant, `NetInv`, and that timers and open
descriptors are paired for good (`Paired`: as the callback never closes a client's descriptor, even a
deleted timer stays some connection's), that a live timer is due three slots after its client was heard
(`Punctual`), and that the listener is closed once some connection has no timer (`ListenerIsRight`).
That an accept finds a timer nobody has used follows by counting (`UnbornTimer`). From it
`MatchCorrect` and `SilentCorrect`; in the latter a tick deletes only what is due, and what is due by
`Punctual` is of a client silent for three slots.

`TasksOnce`, `SemInv`, `RWInv`, `QuietInv`, `HeldInv`, `ReactorsInv`, `EchoInv` and `ServerInv`, each with
all its parts, also hold in every state of the instance of their component's run.

**Only model-checked.** Everything under fairness, which is out of the proof system's reach
(`QueuedTaskRuns`, `AddsGoOn`, `EveryoneServed`, `ItemsFlow`, `ReadersServed`, `CallsReturn`,
`SignalsServed`, `MainReturns`, `AllAccepted`, `WatchedAreRead`, `BytesReceivedWhileUp`,
`LeavingEndsReactor`). Every invariant and every refinement that a passing run checks is also a
theorem.

## 5. What is not modelled, and why
- The timer wheel, the process pool and its CGI worker: unfinished code, most of it undefined or empty.
- The demos: straight-line programs of one or two system calls.
- Within the modelled parts: printing, addresses, the failure path of `threadpool_create`, read-only
  accessors, what the answers of `EchoServers` say, a full send buffer in the reactors (`ReadyOn` takes an
  open socket as ready for writing), the overflow of the reader/writer's buffer,
  failing set-up calls of the servers (they exit before anything is served), and the code of
  `mythreadpool` that no thread reaches (lines 111 to 131 and 149 to 163).

## 6. Plan
Done in the order of weight: pool, its proofs, buffers and their proof, reader/writer, timer list,
reactor, echo servers; then the server with timers, the second reactor and the second pool; then the
proofs about the buffers with semaphores, readers and writer, both reactors, the timers, the server with
timers and the second pool; last the refinement of `TaskQueue` and the servers of
`EchoServers`. What is left are the properties under fairness, which stay with TLC, and the parts of
section 5, should their code be completed.
