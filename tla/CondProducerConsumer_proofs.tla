-------------------- MODULE CondProducerConsumer_proofs --------------------
(***************************************************************************)
(* Theorems about CondProducerConsumer, for every number of producers and  *)
(* consumers and every size of the buffer.                                 *)
(*                                                                         *)
(* BufferInv says who holds the mutex and what a thread inside knows of    *)
(* count; with it the index, the wakeups and the stack follow.             *)
(***************************************************************************)
EXTENDS CondProducerConsumer, FiniteSetTheorems, SequenceTheorems, TLAPS

USE DEF buffer, Threads

LEMMA ModInRange ==
    ASSUME NEW x \in Nat, x < MAX
    PROVE  x % MAX = x /\ x \in Slots
  BY CondAssumption DEF Slots

-----------------------------------------------------------------------------
(* The mutex, the types and the index.                                     *)

HasLock == \A t \in Threads : pc[t] \in {"inside", "signal"} => mutex = t

\* What a thread inside has seen of count is still so.
Room ==
    /\ \A p \in Producers : pc[p] = "inside" => count < MAX
    /\ \A c \in Consumers : pc[c] = "inside" => count > 0

BufferInv == CondTypeOK /\ HasLock /\ Room /\ IndexIsCount

LEMMA BufferInit == Init => BufferInv
  BY CondAssumption DEF Init, BufferInv, CondTypeOK, HasLock, Room, IndexIsCount, Slots

LEMMA StoreStep ==
    ASSUME BufferInv, NEW p \in Producers, P_Store(p)
    PROVE  /\ BufferInv'
           /\ count < MAX /\ count' = count + 1 /\ mutex = p
           /\ \E v \in Items : queue' = [queue EXCEPT ![count] = v]
<1> USE DEF BufferInv
<1>1. count \in Nat /\ count < MAX /\ i = count /\ mutex = p
  BY CondAssumption DEF P_Store, Room, HasLock, IndexIsCount, CondTypeOK
<1>2. i % MAX = count /\ count \in Slots
  BY <1>1, ModInRange
<1>3. PICK v \in Items : queue' = [queue EXCEPT ![count] = v]
  BY <1>2 DEF P_Store
<1>4. i' = count + 1 /\ count' = count + 1
  BY <1>1, <1>2 DEF P_Store
<1>5. CondTypeOK'
  BY <1>1, <1>2, <1>3, <1>4, CondAssumption DEF P_Store, CondTypeOK
<1>6. HasLock' /\ Room'
  BY <1>1, CondAssumption DEF P_Store, CondTypeOK, HasLock, Room
<1>7. IndexIsCount'
  BY <1>1, <1>2, <1>3, <1>4, CondAssumption DEF IndexIsCount, CondTypeOK, Slots
<1> QED
  BY <1>1, <1>3, <1>4, <1>5, <1>6, <1>7

LEMMA TakeStep ==
    ASSUME BufferInv, NEW c \in Consumers, C_Take(c)
    PROVE  /\ BufferInv'
           /\ count > 0 /\ count' = count - 1 /\ mutex = c
           /\ queue' = [queue EXCEPT ![count - 1] = None]
<1> USE DEF BufferInv
<1>1. count \in 0..MAX /\ count > 0 /\ i = count /\ mutex = c
  BY CondAssumption DEF C_Take, Room, HasLock, IndexIsCount, CondTypeOK
<1>2. i' = count - 1 /\ count' = count - 1 /\ count - 1 \in Slots
  BY <1>1, CondAssumption DEF C_Take, Slots
<1>3. queue' = [queue EXCEPT ![count - 1] = None]
  BY <1>2 DEF C_Take
<1>4. CondTypeOK'
  BY <1>1, <1>2, <1>3, CondAssumption DEF C_Take, CondTypeOK, Slots
<1>5. HasLock' /\ Room'
  BY <1>1, CondAssumption DEF C_Take, CondTypeOK, HasLock, Room
<1>6. IndexIsCount'
  BY <1>1, <1>2, <1>3, CondAssumption DEF IndexIsCount, CondTypeOK, Slots
<1> QED
  BY <1>1, <1>2, <1>3, <1>4, <1>5, <1>6

\* A step of the synchronisation only: the buffer stays as it is.
SyncStep ==
    \/ \E p \in Producers :
          Sleep(p, Full) \/ Enter(p, Full) \/ P_Signal(p) \/ Spurious(p)
    \/ \E c \in Consumers :
          Sleep(c, Empty) \/ Enter(c, Empty) \/ C_Signal(c) \/ Spurious(c)

LEMMA NextCases ==
    ASSUME Next
    PROVE  \/ SyncStep
           \/ \E p \in Producers : P_Store(p)
           \/ \E c \in Consumers : C_Take(c)
  BY DEF Next, ProducerStep, ConsumerStep, SyncStep

LEMMA SyncKeepsBuffer == SyncStep => UNCHANGED buffer
  BY DEF SyncStep, Sleep, Enter, P_Signal, C_Signal, SignalAndLeave, Spurious

LEMMA SyncStepInv ==
    ASSUME BufferInv, SyncStep
    PROVE  BufferInv'
<1> USE DEF BufferInv
<1>1. UNCHANGED buffer
  BY SyncKeepsBuffer
<1>2. CondTypeOK'
  BY <1>1, CondAssumption DEF SyncStep, Sleep, Enter, P_Signal, C_Signal,
     SignalAndLeave, Spurious, CondTypeOK, At
<1>3. HasLock'
  BY CondAssumption DEF SyncStep, Sleep, Enter, P_Signal, C_Signal,
     SignalAndLeave, Spurious, CondTypeOK, At, HasLock
<1>4. Room'
  BY <1>1, CondAssumption DEF SyncStep, Sleep, Enter, P_Signal, C_Signal,
     SignalAndLeave, Spurious, CondTypeOK, At, Room, Full, Empty
<1>5. IndexIsCount'
  BY <1>1 DEF IndexIsCount
<1> QED
  BY <1>2, <1>3, <1>4, <1>5

LEMMA StutterInv == BufferInv /\ UNCHANGED vars => BufferInv'
  BY DEF BufferInv, CondTypeOK, HasLock, Room, IndexIsCount, vars

LEMMA BufferCorrect == Spec => []BufferInv
<1>1. BufferInv /\ [Next]_vars => BufferInv'
  BY NextCases, StoreStep, TakeStep, SyncStepInv, StutterInv
<1> QED
  BY <1>1, BufferInit, PTL DEF Spec

(* The variables keep their types; above all count never leaves 0..MAX.    *)
THEOREM TypeCorrect == Spec => []CondTypeOK
<1>1. BufferInv => CondTypeOK
  BY DEF BufferInv
<1> QED
  BY <1>1, BufferCorrect, PTL

(* producer and consumer: i is count, and the items are the slots below.   *)
THEOREM IndexCorrect == Spec => []IndexIsCount
<1>1. BufferInv => IndexIsCount
  BY DEF BufferInv
<1> QED
  BY <1>1, BufferCorrect, PTL

-----------------------------------------------------------------------------
(* The wakeups.                                                            *)

Signallers(S) == At(S, {"signal"})

LEMMA AwakeFinite ==
    ASSUME NEW S, IsFiniteSet(S)
    PROVE  /\ IsFiniteSet(Awake(S)) /\ Cardinality(Awake(S)) \in Nat
           /\ IsFiniteSet(Signallers(S)) /\ Cardinality(Signallers(S)) \in Nat
<1>1. Awake(S) \in SUBSET S /\ Signallers(S) \in SUBSET S
  BY DEF Awake, Signallers, At
<1> QED
  BY <1>1, FS_Subset, FS_CardinalityType

\* WakeupsSuffice for one kind of sleeper: takers of n things, given by givers.
Enough(n, takers, givers) ==
    takers # Awake(takers) =>
        n <= Cardinality(Awake(takers)) + Cardinality(Signallers(givers))

LEMMA WakeupsAreEnough ==
    WakeupsSuffice <=> Enough(count, Consumers, Producers)
                       /\ Enough(MAX - count, Producers, Consumers)
  BY DEF WakeupsSuffice, Enough, Signallers

\* A giver that stores something is about to signal.
LEMMA GiveKeepsEnough ==
    ASSUME BufferInv, NEW takers, NEW givers, NEW g \in givers, NEW n \in Int,
           IsFiniteSet(takers), IsFiniteSet(givers), takers \cap givers = {},
           takers \cup givers \subseteq Threads,
           pc[g] = "inside", pc' = [pc EXCEPT ![g] = "signal"],
           Enough(n, takers, givers)
    PROVE  Enough(n + 1, takers, givers)'
<1>1. Awake(takers)' = Awake(takers)
  BY DEF Awake, At, BufferInv, CondTypeOK
<1>2. Signallers(givers)' = Signallers(givers) \cup {g} /\ g \notin Signallers(givers)
  BY DEF Signallers, At, BufferInv, CondTypeOK
<1>3. Cardinality(Signallers(givers)') = Cardinality(Signallers(givers)) + 1
  BY <1>2, AwakeFinite, FS_AddElement
<1> QED
  BY <1>1, <1>3, AwakeFinite DEF Enough

\* A taker that takes something leaves more than enough.
LEMMA TakeKeepsEnough ==
    ASSUME BufferInv, NEW takers, NEW givers, NEW t \in takers, NEW n \in Int,
           IsFiniteSet(takers), IsFiniteSet(givers), takers \cap givers = {},
           takers \cup givers \subseteq Threads,
           pc[t] = "inside", pc' = [pc EXCEPT ![t] = "signal"],
           Enough(n, takers, givers)
    PROVE  Enough(n - 1, takers, givers)'
<1>1. Awake(takers)' = Awake(takers) /\ Signallers(givers)' = Signallers(givers)
  BY DEF Awake, Signallers, At, BufferInv, CondTypeOK
<1> QED
  BY <1>1, AwakeFinite DEF Enough

\* The signal of a giver wakes a taker, unless all are awake.
LEMMA SignalKeepsEnough ==
    ASSUME BufferInv, NEW takers, NEW givers, NEW g \in givers, NEW n \in Int,
           IsFiniteSet(takers), IsFiniteSet(givers), takers \cap givers = {},
           takers \cup givers \subseteq Threads,
           SignalAndLeave(g, At(takers, {"asleep"})),
           Enough(n, takers, givers)
    PROVE  Enough(n, takers, givers)'
<1>1. CASE At(takers, {"asleep"}) = {}
  <2>1. Awake(takers)' = takers
    BY <1>1 DEF SignalAndLeave, Awake, At, BufferInv, CondTypeOK
  <2> QED
    BY <2>1 DEF Enough
<1>2. CASE At(takers, {"asleep"}) # {}
  <2>1. PICK s \in At(takers, {"asleep"}) :
           pc' = [pc EXCEPT ![g] = "start", ![s] = "woken"]
    BY <1>2 DEF SignalAndLeave
  <2>2. Awake(takers)' = Awake(takers) \cup {s} /\ s \notin Awake(takers)
    BY <2>1 DEF SignalAndLeave, Awake, At, BufferInv, CondTypeOK
  <2>3. Signallers(givers)' = Signallers(givers) \ {g} /\ g \in Signallers(givers)
    BY <2>1 DEF SignalAndLeave, Signallers, At, BufferInv, CondTypeOK
  <2>4. /\ Cardinality(Awake(takers)') = Cardinality(Awake(takers)) + 1
        /\ Cardinality(Signallers(givers)') = Cardinality(Signallers(givers)) - 1
    BY <2>2, <2>3, AwakeFinite, FS_AddElement, FS_RemoveElement
  <2>5. takers # Awake(takers)
    BY <2>1 DEF Awake, At
  <2> QED
    BY <2>4, <2>5, AwakeFinite DEF Enough
<1> QED
  BY <1>1, <1>2

\* The signal of a taker wakes givers only.
LEMMA OtherSignalKeepsEnough ==
    ASSUME BufferInv, NEW takers, NEW givers, NEW t \in takers, NEW n \in Int,
           IsFiniteSet(takers), IsFiniteSet(givers), takers \cap givers = {},
           takers \cup givers \subseteq Threads,
           SignalAndLeave(t, At(givers, {"asleep"})),
           Enough(n, takers, givers)
    PROVE  Enough(n, takers, givers)'
<1>1. Awake(takers)' = Awake(takers) /\ Signallers(givers)' = Signallers(givers)
  BY DEF SignalAndLeave, Awake, Signallers, At, BufferInv, CondTypeOK
<1> QED
  BY <1>1 DEF Enough

\* A step that gives or takes nothing: it puts a taker to sleep only when
\* there is nothing to take.
LEMMA IdleKeepsEnough ==
    ASSUME NEW takers, NEW givers, NEW n \in Int,
           IsFiniteSet(takers), IsFiniteSet(givers),
           Signallers(givers)' = Signallers(givers),
           n <= 0 \/ Awake(takers) \subseteq Awake(takers)',
           Enough(n, takers, givers)
    PROVE  Enough(n, takers, givers)'
<1>1. /\ IsFiniteSet(Awake(takers)) /\ Cardinality(Awake(takers)) \in Nat
      /\ IsFiniteSet(Awake(takers)') /\ Cardinality(Awake(takers)') \in Nat
  <2>1. Awake(takers) \in SUBSET takers /\ Awake(takers)' \in SUBSET takers
    BY DEF Awake
  <2> QED
    BY <2>1, FS_Subset, FS_CardinalityType
<1>2. Cardinality(Signallers(givers)') \in Nat
  BY AwakeFinite
<1>3. CASE n <= 0
  <2>1. n <= Cardinality(Awake(takers)') + Cardinality(Signallers(givers)')
    BY <1>1, <1>2, <1>3
  <2> QED
    BY <2>1 DEF Enough
<1>4. CASE Awake(takers) \subseteq Awake(takers)'
  <2>1. Cardinality(Awake(takers)) <= Cardinality(Awake(takers)')
    BY <1>1, <1>4, FS_Subset
  <2>2. takers # Awake(takers)' => takers # Awake(takers)
    BY <1>4 DEF Awake
  <2>3. Cardinality(Signallers(givers)') = Cardinality(Signallers(givers))
    OBVIOUS
  <2>4. CASE takers = Awake(takers)'
    BY <2>4 DEF Enough
  <2>5. CASE takers # Awake(takers)'
    <3>1. n <= Cardinality(Awake(takers)) + Cardinality(Signallers(givers))
      BY <2>2, <2>5 DEF Enough
    <3>2. n <= Cardinality(Awake(takers)') + Cardinality(Signallers(givers)')
      BY <1>1, <1>2, <2>1, <2>3, <3>1
    <3> QED
      BY <3>2 DEF Enough
  <2> QED
    BY <2>4, <2>5
<1> QED
  BY <1>3, <1>4

LEMMA IdleStep ==
    ASSUME BufferInv, NEW t \in Threads, UNCHANGED buffer,
           \/ Spurious(t)
           \/ t \in Producers /\ (Sleep(t, Full) \/ Enter(t, Full))
           \/ t \in Consumers /\ (Sleep(t, Empty) \/ Enter(t, Empty))
    PROVE  /\ Signallers(Producers)' = Signallers(Producers)
           /\ Signallers(Consumers)' = Signallers(Consumers)
           /\ count <= 0 \/ Awake(Consumers) \subseteq Awake(Consumers)'
           /\ MAX - count <= 0 \/ Awake(Producers) \subseteq Awake(Producers)'
<1>1. /\ Signallers(Producers)' = Signallers(Producers)
      /\ Signallers(Consumers)' = Signallers(Consumers)
  BY CondAssumption DEF Spurious, Sleep, Enter, Signallers, At, BufferInv, CondTypeOK
<1>2. CASE Spurious(t) \/ Enter(t, Full) \/ Enter(t, Empty)
  <2>1. /\ Awake(Consumers) \subseteq Awake(Consumers)'
        /\ Awake(Producers) \subseteq Awake(Producers)'
    BY <1>2, CondAssumption DEF Spurious, Enter, Awake, At, BufferInv, CondTypeOK
  <2> QED
    BY <1>1, <2>1
<1>3. CASE t \in Producers /\ Sleep(t, Full)
  <2>1. MAX - count <= 0
    BY <1>3, CondAssumption DEF Sleep, Full
  <2>2. Awake(Consumers) \subseteq Awake(Consumers)'
    BY <1>3, CondAssumption DEF Sleep, Awake, At, BufferInv, CondTypeOK
  <2> QED
    BY <1>1, <2>1, <2>2
<1>4. CASE t \in Consumers /\ Sleep(t, Empty)
  <2>1. count <= 0
    BY <1>4 DEF Sleep, Empty
  <2>2. Awake(Producers) \subseteq Awake(Producers)'
    BY <1>4, CondAssumption DEF Sleep, Awake, At, BufferInv, CondTypeOK
  <2> QED
    BY <1>1, <2>1, <2>2
<1> QED
  BY <1>2, <1>3, <1>4

LEMMA WakeupsStep ==
    ASSUME BufferInv, WakeupsSuffice, Next
    PROVE  WakeupsSuffice'
<1>0. /\ IsFiniteSet(Producers) /\ IsFiniteSet(Consumers)
      /\ Producers \cap Consumers = {} /\ Consumers \cap Producers = {}
      /\ Producers \cup Consumers \subseteq Threads
      /\ Consumers \cup Producers \subseteq Threads
  BY CondAssumption
<1>1. PICK items \in Int : items = count
  BY DEF BufferInv, CondTypeOK
<1>2. PICK free \in Int : free = MAX - count
  BY CondAssumption DEF BufferInv, CondTypeOK
<1>3. Enough(items, Consumers, Producers) /\ Enough(free, Producers, Consumers)
  BY <1>1, <1>2, WakeupsAreEnough DEF Enough
<1>4. CASE \E p \in Producers : P_Store(p)
  <2>1. PICK p \in Producers : P_Store(p)
    BY <1>4
  <2>2. pc[p] = "inside" /\ pc' = [pc EXCEPT ![p] = "signal"]
    BY <2>1 DEF P_Store
  <2>3. Enough(items + 1, Consumers, Producers)'
    BY <1>0, <1>3, <2>2, GiveKeepsEnough
  <2>4. Enough(free - 1, Producers, Consumers)'
    BY <1>0, <1>3, <2>2, TakeKeepsEnough
  <2>5. count' = items + 1 /\ MAX - count' = free - 1
    BY <1>1, <1>2, <2>1, StoreStep, CondAssumption
  <2> QED
    BY <2>3, <2>4, <2>5 DEF WakeupsSuffice, Enough, Signallers
<1>5. CASE \E c \in Consumers : C_Take(c)
  <2>1. PICK c \in Consumers : C_Take(c)
    BY <1>5
  <2>2. pc[c] = "inside" /\ pc' = [pc EXCEPT ![c] = "signal"]
    BY <2>1 DEF C_Take
  <2>3. Enough(items - 1, Consumers, Producers)'
    BY <1>0, <1>3, <2>2, TakeKeepsEnough
  <2>4. Enough(free + 1, Producers, Consumers)'
    BY <1>0, <1>3, <2>2, GiveKeepsEnough
  <2>5. count' = items - 1 /\ MAX - count' = free + 1
    BY <1>1, <1>2, <2>1, TakeStep, CondAssumption
  <2> QED
    BY <2>3, <2>4, <2>5 DEF WakeupsSuffice, Enough, Signallers
<1>6. CASE SyncStep
  <2>1. count' = items /\ MAX - count' = free
    BY <1>1, <1>2, <1>6, SyncKeepsBuffer
  <2>2. Enough(items, Consumers, Producers)' /\ Enough(free, Producers, Consumers)'
    <3>1. CASE \E p \in Producers : P_Signal(p)
      <4>1. PICK p \in Producers : SignalAndLeave(p, At(Consumers, {"asleep"}))
        BY <3>1 DEF P_Signal
      <4> QED
        BY <1>0, <1>3, <4>1, SignalKeepsEnough, OtherSignalKeepsEnough
    <3>2. CASE \E c \in Consumers : C_Signal(c)
      <4>1. PICK c \in Consumers : SignalAndLeave(c, At(Producers, {"asleep"}))
        BY <3>2 DEF C_Signal
      <4> QED
        BY <1>0, <1>3, <4>1, SignalKeepsEnough, OtherSignalKeepsEnough
    <3>3. CASE ~(\E p \in Producers : P_Signal(p)) /\ ~(\E c \in Consumers : C_Signal(c))
      <4>1. PICK t \in Threads :
               \/ Spurious(t)
               \/ t \in Producers /\ (Sleep(t, Full) \/ Enter(t, Full))
               \/ t \in Consumers /\ (Sleep(t, Empty) \/ Enter(t, Empty))
        BY <1>6, <3>3 DEF SyncStep
      <4>2. UNCHANGED buffer
        BY <1>6, SyncKeepsBuffer
      <4>3. /\ Signallers(Producers)' = Signallers(Producers)
            /\ Signallers(Consumers)' = Signallers(Consumers)
            /\ items <= 0 \/ Awake(Consumers) \subseteq Awake(Consumers)'
            /\ free <= 0 \/ Awake(Producers) \subseteq Awake(Producers)'
        BY <1>1, <1>2, <4>1, <4>2, IdleStep
      <4> QED
        BY <1>0, <1>3, <4>3, IdleKeepsEnough
    <3> QED
      BY <3>1, <3>2, <3>3
  <2> QED
    BY <2>1, <2>2 DEF WakeupsSuffice, Enough, Signallers
<1> QED
  BY <1>4, <1>5, <1>6, NextCases

(* pthread_cond_signal and pthread_cond_wait: although a signal wakes one  *)
(* thread and that thread may come too late, the awake consumers are never *)
(* fewer than the items they are needed for, nor the awake producers than  *)
(* the free slots.                                                         *)
THEOREM WakeupsCorrect == Spec => []WakeupsSuffice
<1>1. Init => WakeupsSuffice
  BY CondAssumption DEF Init, WakeupsSuffice, Awake, At
<1>2. UNCHANGED vars /\ WakeupsSuffice => WakeupsSuffice'
  BY DEF vars, WakeupsSuffice, Awake, At
<1>3. BufferInv /\ WakeupsSuffice /\ [Next]_vars => WakeupsSuffice'
  BY <1>2, WakeupsStep
<1> QED
  BY <1>1, <1>3, BufferCorrect, PTL DEF Spec

(* As long as there is a slot, a thread is awake: the threads never wait   *)
(* for one another.                                                        *)
THEOREM NeverAllAsleep == Spec => []SomeoneAwake
<1>1. ASSUME BufferInv, WakeupsSuffice
      PROVE  SomeoneAwake
  <2>1. SUFFICES ASSUME Awake(Threads) = {} PROVE FALSE
    BY DEF SomeoneAwake
  <2>2. /\ Awake(Producers) = {} /\ At(Consumers, {"signal"}) = {}
        /\ Awake(Consumers) = {} /\ At(Producers, {"signal"}) = {}
    BY <2>1 DEF Awake, At
  <2>3. Producers # {} /\ Consumers # {} /\ MAX \in Nat \ {0} /\ count \in Int
    BY <1>1, CondAssumption DEF BufferInv, CondTypeOK
  <2>4. count <= 0 /\ MAX - count <= 0
    BY <1>1, <2>2, <2>3, FS_EmptySet DEF WakeupsSuffice
  <2> QED
    BY <2>3, <2>4
<1> QED
  BY <1>1, BufferCorrect, WakeupsCorrect, PTL

-----------------------------------------------------------------------------
(* The stack.                                                              *)

items == [k \in 1..count |-> queue[k - 1]]

theStack == [k \in 1..Depth |-> queue[k - 1]]

LEMMA StackIsItems == BufferInv => theStack = items
<1> SUFFICES ASSUME BufferInv
             PROVE  Depth = count
  BY DEF items, theStack
<1>1. count \in 0..MAX
  BY DEF BufferInv, CondTypeOK
<1>2. {s \in Slots : queue[s] # None} = 0..(count - 1)
  BY <1>1, CondAssumption DEF BufferInv, IndexIsCount, Slots
<1>3. Cardinality(0..(count - 1)) = IF 0 > count - 1 THEN 0 ELSE count - 1 - 0 + 1
  BY <1>1, CondAssumption, FS_Interval
<1>4. Cardinality(0..(count - 1)) = count
  BY <1>1, <1>3, CondAssumption
<1> QED
  BY <1>2, <1>4 DEF Depth

LEMMA ItemsAreSeq ==
    BufferInv => items \in Seq(Items) /\ Len(items) = count
<1> SUFFICES ASSUME BufferInv
             PROVE  items \in Seq(Items) /\ Len(items) = count
  OBVIOUS
<1>1. count \in Nat
  BY CondAssumption DEF BufferInv, CondTypeOK
<1>2. \A k \in 1..count : queue[k - 1] \in Items
  BY <1>1, CondAssumption DEF BufferInv, CondTypeOK, IndexIsCount, Slots
<1> QED
  BY <1>1, <1>2 DEF items

LEMMA AppendIs ==
    ASSUME NEW S, NEW s \in Seq(S), NEW t \in Seq(S), NEW v \in S,
           Len(t) = Len(s) + 1, t[Len(s) + 1] = v,
           \A k \in 1..Len(s) : t[k] = s[k]
    PROVE  t = Append(s, v)
<1>1. Append(s, v) \in Seq(S) /\ Len(Append(s, v)) = Len(t)
  OBVIOUS
<1>2. ASSUME NEW k \in 1..Len(t) PROVE t[k] = Append(s, v)[k]
  OBVIOUS
<1> QED
  BY <1>1, <1>2, SeqEqual

LEMMA FrontIs ==
    ASSUME NEW S, NEW s \in Seq(S), NEW t \in Seq(S),
           Len(s) = Len(t) + 1, \A k \in 1..Len(t) : t[k] = s[k]
    PROVE  t = SubSeq(s, 1, Len(s) - 1)
<1>1. Len(t) \in Nat /\ Len(s) - 1 = Len(t)
  OBVIOUS
<1>2. SubSeq(s, 1, Len(t)) \in Seq(S) /\ Len(SubSeq(s, 1, Len(t))) = Len(t)
  BY <1>1
<1>3. ASSUME NEW k \in 1..Len(t) PROVE t[k] = SubSeq(s, 1, Len(t))[k]
  BY <1>1
<1> QED
  BY <1>1, <1>2, <1>3, SeqEqual

LEMMA StorePushes ==
    ASSUME BufferInv, NEW p \in Producers, P_Store(p)
    PROVE  Len(items) < MAX /\ \E v \in Items : items' = Append(items, v)
<1>1. PICK v \in Items : queue' = [queue EXCEPT ![count] = v]
  BY StoreStep
<1>2. count \in Nat /\ count < MAX /\ count' = count + 1 /\ BufferInv'
  BY StoreStep, CondAssumption DEF BufferInv, CondTypeOK
<1>3. items \in Seq(Items) /\ Len(items) = count
  BY ItemsAreSeq
<1>4. (items \in Seq(Items) /\ Len(items) = count)'
  BY <1>2, ItemsAreSeq, PTL
<1>5. \A k \in 1..count' : items'[k] = queue'[k - 1]
  BY DEF items
<1>6. \A k \in 1..count : items[k] = queue[k - 1]
  BY DEF items
<1>7. DOMAIN queue = Slots /\ count \in Slots
  BY <1>2, CondAssumption DEF BufferInv, CondTypeOK, Slots
<1>8. items'[count + 1] = v
  BY <1>1, <1>2, <1>5, <1>7
<1>9. \A k \in 1..count : items'[k] = items[k]
  BY <1>1, <1>2, <1>5, <1>6, <1>7, CondAssumption DEF Slots
<1> QED
  BY <1>2, <1>3, <1>4, <1>8, <1>9, AppendIs

LEMMA TakePops ==
    ASSUME BufferInv, NEW c \in Consumers, C_Take(c)
    PROVE  items # <<>> /\ items' = SubSeq(items, 1, Len(items) - 1)
<1>1. queue' = [queue EXCEPT ![count - 1] = None]
  BY TakeStep
<1>2. count \in Nat /\ count > 0 /\ count <= MAX /\ count' = count - 1 /\ BufferInv'
  BY TakeStep, CondAssumption DEF BufferInv, CondTypeOK
<1>3. items \in Seq(Items) /\ Len(items) = count
  BY ItemsAreSeq
<1>4. (items \in Seq(Items) /\ Len(items) = count)'
  BY <1>2, ItemsAreSeq, PTL
<1>5. \A k \in 1..count' : items'[k] = queue'[k - 1]
  BY DEF items
<1>6. \A k \in 1..count : items[k] = queue[k - 1]
  BY DEF items
<1>7. DOMAIN queue = Slots
  BY DEF BufferInv, CondTypeOK
<1>8. \A k \in 1..count' : items'[k] = items[k]
  BY <1>1, <1>2, <1>5, <1>6, <1>7, CondAssumption DEF Slots
<1>9. items' = SubSeq(items, 1, Len(items) - 1)
  BY <1>2, <1>3, <1>4, <1>8, FrontIs
<1> QED
  BY <1>2, <1>3, <1>9

(* producer and consumer together implement a stack of at most MAX items:  *)
(* every step pushes, pops or leaves it as it is.                          *)
THEOREM ImplementsStack == Spec => StackSpec
<1>1. Init => items = <<>>
  BY DEF Init, items
<1>2. ASSUME BufferInv, Next
      PROVE  \/ Len(items) < MAX /\ \E v \in Items : items' = Append(items, v)
             \/ items # <<>> /\ items' = SubSeq(items, 1, Len(items) - 1)
             \/ items' = items
  <2>1. SyncStep => items' = items
    BY SyncKeepsBuffer DEF items
  <2> QED
    BY <1>2, <2>1, NextCases, StorePushes, TakePops
<1>3. UNCHANGED vars => items' = items
  BY DEF vars, items
<1>4. Init => Stack!Init
  BY <1>1, BufferInit, StackIsItems DEF Stack!Init, theStack
<1>5. BufferInv /\ BufferInv' /\ [Next]_vars => [Stack!Next]_theStack
  <2>1. BufferInv' => (theStack = items)'
    BY StackIsItems, PTL
  <2>2. [Stack!Next]_theStack <=>
           \/ Len(theStack) < MAX /\ \E v \in Items : theStack' = Append(theStack, v)
           \/ theStack # <<>> /\ theStack' = SubSeq(theStack, 1, Len(theStack) - 1)
           \/ theStack' = theStack
    BY DEF Stack!Next, Stack!Push, Stack!Pop, theStack
  <2> QED
    BY <1>2, <1>3, <2>1, <2>2, StackIsItems
<1> QED
  BY <1>4, <1>5, BufferCorrect, PTL DEF Spec, StackSpec, Stack!Spec, theStack

=============================================================================
