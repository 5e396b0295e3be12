------------------------ MODULE SemProducerConsumer ------------------------
(***************************************************************************)
(* The producers and consumers of                                          *)
(* src/process/semaphore/produecr_consumer/main.c: two counting semaphores *)
(* say how many slots are free and how many are filled, a mutex guards the *)
(* buffer and its only index i.                                            *)
(***************************************************************************)
EXTENDS Integers, FiniteSets, Sequences

CONSTANTS
    Producers, Consumers,
    MAX,        \* slots of the buffer
    Items,      \* what a producer may write: rand() % 100 + 1
    NoOne       \* the holder of a mutex that is free

Slots == 0..MAX-1
Threads == Producers \cup Consumers
None == 0       \* what a consumer leaves in a slot

ASSUME SemAssumption ==
    /\ MAX \in Nat \ {0}
    /\ IsFiniteSet(Threads) /\ Producers \cap Consumers = {}
    /\ NoOne \notin Threads /\ None \notin Items

VARIABLES empty_sem, full_sem, mutex, queue, i, pc

buffer == <<queue, i>>
vars == <<empty_sem, full_sem, mutex, buffer, pc>>

Init ==
    /\ empty_sem = MAX /\ full_sem = 0 /\ mutex = NoOne
    /\ queue = [s \in Slots |-> None] /\ i = 0
    /\ pc = [t \in Threads |-> "idle"]

Go(t, from, to) == pc[t] = from /\ pc' = [pc EXCEPT ![t] = to]
At(S, labels) == {t \in S : pc[t] \in labels}

LockFaulty(t) ==                              \* forgets pthread_mutex_lock
    /\ Go(t, "lock", "inside")
    /\ UNCHANGED <<empty_sem, full_sem, mutex, buffer>>
Lock(t) ==
    /\ mutex = NoOne /\ mutex' = t
    /\ Go(t, "lock", "inside")
    /\ UNCHANGED <<empty_sem, full_sem, buffer>>

-----------------------------------------------------------------------------
(* producer *)

P_WaitEmpty(p) ==
    /\ empty_sem > 0 /\ empty_sem' = empty_sem - 1
    /\ Go(p, "idle", "lock")
    /\ UNCHANGED <<full_sem, mutex, buffer>>

P_Store(p) ==
    /\ Go(p, "inside", "stored")
    /\ \E v \in Items : queue' = [queue EXCEPT ![i] = v]
    /\ UNCHANGED <<empty_sem, full_sem, mutex, i>>

AdvanceFaulty == i' = IF i + 1 = MAX THEN i ELSE i + 1    \* stays at the end
Advance == i' = (i + 1) % MAX

P_Advance(p) ==
    /\ Go(p, "stored", "post")
    /\ Advance
    /\ mutex' = NoOne
    /\ UNCHANGED <<empty_sem, full_sem, queue>>

P_PostFull(p) ==
    /\ Go(p, "post", "idle")
    /\ full_sem' = full_sem + 1
    /\ UNCHANGED <<empty_sem, mutex, buffer>>

-----------------------------------------------------------------------------
(* consumer *)

C_WaitFull(c) ==
    /\ full_sem > 0 /\ full_sem' = full_sem - 1
    /\ Go(c, "idle", "lock")
    /\ UNCHANGED <<empty_sem, mutex, buffer>>

Wrap == IF i = 0 THEN MAX ELSE i

\* Then it prints queue[i - 1].
C_Wrap(c) ==
    /\ Go(c, "inside", "wrapped")
    /\ i' = Wrap
    /\ UNCHANGED <<empty_sem, full_sem, mutex, queue>>

C_Take(c) ==
    /\ Go(c, "wrapped", "post")
    /\ i' = i - 1
    /\ queue' = [queue EXCEPT ![i'] = None]
    /\ mutex' = NoOne
    /\ UNCHANGED <<empty_sem, full_sem>>

C_PostEmptyFaulty(c) ==                       \* posts the other semaphore
    /\ Go(c, "post", "idle")
    /\ full_sem' = full_sem + 1
    /\ UNCHANGED <<empty_sem, mutex, buffer>>
C_PostEmpty(c) ==
    /\ Go(c, "post", "idle")
    /\ empty_sem' = empty_sem + 1
    /\ UNCHANGED <<full_sem, mutex, buffer>>

-----------------------------------------------------------------------------
ProducerStep(p) ==
    P_WaitEmpty(p) \/ Lock(p) \/ P_Store(p) \/ P_Advance(p) \/ P_PostFull(p)

ConsumerStep(c) ==
    C_WaitFull(c) \/ Lock(c) \/ C_Wrap(c) \/ C_Take(c) \/ C_PostEmpty(c)

Next ==
    \/ \E p \in Producers : ProducerStep(p)
    \/ \E c \in Consumers : ConsumerStep(c)

Spec == Init /\ [][Next]_vars

(* The loops have no end and nothing in them blocks but the semaphores and *)
(* the mutex: a thread that keeps finding one free now and then gets it.   *)
FairSpec ==
    /\ Spec
    /\ \A p \in Producers : SF_vars(ProducerStep(p))
    /\ \A c \in Consumers : SF_vars(ConsumerStep(c))

-----------------------------------------------------------------------------
(* Properties *)

SemTypeOK ==
    /\ empty_sem \in 0..MAX /\ full_sem \in 0..MAX
    /\ mutex \in Threads \cup {NoOne}
    /\ queue \in [Slots -> Items \cup {None}]
    /\ i \in 0..MAX
    /\ pc \in [Threads -> {"idle", "lock", "inside", "stored", "wrapped", "post"}]

Occupied == {s \in Slots : queue[s] # None}
Depth == Cardinality(Occupied)

(* main.c keeps no count of the items: the two semaphores are the count.   *)
(* A free slot is counted by empty_sem, or promised to a producer that is  *)
(* about to fill it, or has just been freed by a consumer that has yet to  *)
(* post it; and likewise for full_sem.                                     *)
SemaphoresCount ==
    /\ SemTypeOK
    /\ MAX - Depth = empty_sem + Cardinality(At(Producers, {"lock", "inside"}))
                               + Cardinality(At(Consumers, {"post"}))
    /\ Depth = full_sem + Cardinality(At(Producers, {"stored", "post"}))
                        + Cardinality(At(Consumers, {"lock", "inside", "wrapped"}))

(* The single index i makes the buffer a stack of at most MAX items: no    *)
(* producer writes over an item that nobody has consumed, and no consumer  *)
(* reads a slot that holds none.                                           *)
Stack == INSTANCE BoundedStack
    WITH Capacity <- MAX, stack <- [k \in 1..Depth |-> queue[k - 1]]

StackSpec == Stack!Spec

(* Every thread goes round its loop again and again.                       *)
EveryoneServed == \A t \in Threads : []<>(pc[t] = "post")

=============================================================================
