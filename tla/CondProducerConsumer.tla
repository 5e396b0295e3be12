------------------------ MODULE CondProducerConsumer ------------------------
(***************************************************************************)
(* The producers and consumers of                                          *)
(* src/thread/synchronization/condition_val/producer_consumer.c: a mutex   *)
(* guards the buffer, its index i and its count; producers sleep on        *)
(* empty_cond while the buffer is full, consumers on full_cond while it is *)
(* empty, and every change of count signals one sleeper of the other kind. *)
(* Everything the threads share is used under the mutex, so a step is a    *)
(* section of code between taking, waiting for, signalling and releasing.  *)
(***************************************************************************)
EXTENDS Integers, FiniteSets, Sequences

CONSTANTS
    Producers, Consumers,
    MAX,        \* slots of the buffer
    Items,      \* what a producer may write: rand() % 100 + 1
    NoOne       \* the holder of a mutex that is free

Slots == 0..MAX-1
Threads == Producers \cup Consumers
None == 0       \* what a consumer leaves in a slot

ASSUME CondAssumption ==
    /\ MAX \in Nat \ {0}
    /\ IsFiniteSet(Producers) /\ IsFiniteSet(Consumers)
    /\ Producers # {} /\ Consumers # {} /\ Producers \cap Consumers = {}
    /\ NoOne \notin Threads /\ None \notin Items

VARIABLES mutex, queue, count, i, pc

buffer == <<queue, count, i>>
vars == <<mutex, buffer, pc>>

Init ==
    /\ mutex = NoOne
    /\ queue = [s \in Slots |-> None] /\ count = 0 /\ i = 0
    /\ pc = [t \in Threads |-> "start"]

At(S, labels) == {t \in S : pc[t] \in labels}

(* t finds the mutex free, entering or inside pthread_cond_wait, and finds *)
(* the loop's condition true: it waits, and the mutex is free again.       *)
Sleep(t, blocked) ==
    /\ mutex = NoOne /\ blocked
    /\ pc[t] \in {"start", "woken"} /\ pc' = [pc EXCEPT ![t] = "asleep"]
    /\ UNCHANGED <<mutex, buffer>>

EnterFaulty(t, blocked) ==                    \* if for while
    /\ mutex = NoOne /\ (~blocked \/ pc[t] = "woken") /\ mutex' = t
    /\ pc[t] \in {"start", "woken"} /\ pc' = [pc EXCEPT ![t] = "inside"]
    /\ UNCHANGED buffer
Enter(t, blocked) ==
    /\ mutex = NoOne /\ ~blocked /\ mutex' = t
    /\ pc[t] \in {"start", "woken"} /\ pc' = [pc EXCEPT ![t] = "inside"]
    /\ UNCHANGED buffer

\* pthread_cond_signal wakes one of the sleepers, if there is one.
SignalAndLeave(t, sleepers) ==
    /\ pc[t] = "signal"
    /\ \/ sleepers = {} /\ pc' = [pc EXCEPT ![t] = "start"]
       \/ \E s \in sleepers : pc' = [pc EXCEPT ![t] = "start", ![s] = "woken"]
    /\ mutex' = NoOne
    /\ UNCHANGED buffer

\* pthread_cond_wait may return with no signal.
Spurious(t) ==
    /\ pc[t] = "asleep" /\ pc' = [pc EXCEPT ![t] = "woken"]
    /\ UNCHANGED <<mutex, buffer>>

-----------------------------------------------------------------------------
(* producer *)

Full == count = MAX

P_Store(p) ==
    /\ pc[p] = "inside" /\ pc' = [pc EXCEPT ![p] = "signal"]
    /\ \E v \in Items : queue' = [queue EXCEPT ![i % MAX] = v]
    /\ count' = count + 1
    /\ i' = (i % MAX) + 1
    /\ UNCHANGED mutex

P_Signal(p) == SignalAndLeave(p, At(Consumers, {"asleep"}))

-----------------------------------------------------------------------------
(* consumer *)

Empty == count = 0

C_TakeFaulty(c) ==                            \* queue[i--] for queue[--i]
    /\ pc[c] = "inside" /\ pc' = [pc EXCEPT ![c] = "signal"]
    /\ i' = i - 1
    /\ queue' = [queue EXCEPT ![i] = None]
    /\ count' = count - 1
    /\ UNCHANGED mutex
\* Prints queue[i - 1] and clears it; the case i = 0 wraps first.
C_Take(c) ==
    /\ pc[c] = "inside" /\ pc' = [pc EXCEPT ![c] = "signal"]
    /\ i' = (IF i = 0 THEN MAX ELSE i) - 1
    /\ queue' = [queue EXCEPT ![i'] = None]
    /\ count' = count - 1
    /\ UNCHANGED mutex

C_SignalFaulty(c) == SignalAndLeave(c, At(Consumers, {"asleep"}))  \* full_cond
C_Signal(c) == SignalAndLeave(c, At(Producers, {"asleep"}))

-----------------------------------------------------------------------------
ProducerStep(p) == Sleep(p, Full) \/ Enter(p, Full) \/ P_Store(p) \/ P_Signal(p)

ConsumerStep(c) == Sleep(c, Empty) \/ Enter(c, Empty) \/ C_Take(c) \/ C_Signal(c)

Next ==
    \/ \E p \in Producers : ProducerStep(p) \/ Spurious(p)
    \/ \E c \in Consumers : ConsumerStep(c) \/ Spurious(c)

Spec == Init /\ [][Next]_vars

(* A thread that keeps finding the mutex free now and then gets it; no     *)
(* wakeup has to be spurious.                                              *)
FairSpec ==
    /\ Spec
    /\ \A p \in Producers : SF_vars(ProducerStep(p))
    /\ \A c \in Consumers : SF_vars(ConsumerStep(c))

-----------------------------------------------------------------------------
(* Properties *)

CondTypeOK ==
    /\ mutex \in Threads \cup {NoOne}
    /\ queue \in [Slots -> Items \cup {None}]
    /\ count \in 0..MAX /\ i \in 0..MAX
    /\ pc \in [Threads -> {"start", "asleep", "woken", "inside", "signal"}]

(* The slots below count hold an item and the others none, and i is count: *)
(* the wrap of i never fires in anger, and the first printf of consumer,   *)
(* which reads queue[i - 1] before the test i == 0, stays in the buffer.   *)
IndexIsCount ==
    /\ i = count
    /\ \A s \in Slots : queue[s] # None <=> s < count

Awake(S) == S \ At(S, {"asleep"})

(* One signal per item is enough although it wakes one thread only, and    *)
(* that thread may lose the race to the mutex: while a consumer sleeps     *)
(* there are as many consumers awake as items, but for the item whose      *)
(* producer is about to signal; and likewise for the free slots.           *)
WakeupsSuffice ==
    /\ Consumers # Awake(Consumers) =>
          count <= Cardinality(Awake(Consumers)) + Cardinality(At(Producers, {"signal"}))
    /\ Producers # Awake(Producers) =>
          MAX - count <= Cardinality(Awake(Producers)) + Cardinality(At(Consumers, {"signal"}))

(* The threads never all sleep.                                            *)
SomeoneAwake == Awake(Threads) # {}

Depth == Cardinality({s \in Slots : queue[s] # None})

Stack == INSTANCE BoundedStack
    WITH Capacity <- MAX, stack <- [k \in 1..Depth |-> queue[k - 1]]

(* The buffer is a stack of at most MAX items.                             *)
StackSpec == Stack!Spec

(* Items go on being consumed, and produced, whatever the order in which   *)
(* the threads win the mutex.                                              *)
ItemsFlow ==
    /\ []<>(\E c \in Consumers : pc[c] = "signal")
    /\ []<>(\E p \in Producers : pc[p] = "signal")

=============================================================================
