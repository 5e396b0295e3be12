--------------------- MODULE SemProducerConsumer_proofs ---------------------
(***************************************************************************)
(* Theorems about SemProducerConsumer, for every number of producers and   *)
(* consumers and every size of the buffer.                                 *)
(*                                                                         *)
(* Nothing in the code compares an index with the number of items: that a  *)
(* thread inside has a slot, or an item, follows from the two semaphores   *)
(* alone.  SemInv says so, with where i stands at each place.              *)
(***************************************************************************)
EXTENDS SemProducerConsumer, FiniteSetTheorems, SequenceTheorems, TLAPS

USE DEF buffer, Threads

LEMMA ModInRange ==
    ASSUME NEW x \in Nat, x < MAX
    PROVE  x % MAX = x /\ x \in Slots
  BY SemAssumption DEF Slots

LEMMA ModAtEnd == MAX % MAX = 0
  BY SemAssumption

-----------------------------------------------------------------------------
(* Counting the threads at a place.                                        *)

Filling == At(Producers, {"lock", "inside"})
Filled == At(Producers, {"stored", "post"})
Emptying == At(Consumers, {"lock", "inside", "wrapped"})
Emptied == At(Consumers, {"post"})

LEMMA AtFinite ==
    ASSUME NEW S \in SUBSET Threads, NEW L
    PROVE  IsFiniteSet(At(S, L)) /\ Cardinality(At(S, L)) \in Nat
<1>1. IsFiniteSet(S)
  BY SemAssumption, FS_Subset
<1>2. At(S, L) \in SUBSET S
  BY DEF At
<1> QED
  BY <1>1, <1>2, FS_Subset, FS_CardinalityType

One(cond) == IF cond THEN 1 ELSE 0

\* A thread that goes from one place to another is counted there, not here.
LEMMA GoCounts ==
    ASSUME NEW S \in SUBSET Threads, NEW L, NEW t \in Threads, NEW from, NEW to,
           DOMAIN pc = Threads, Go(t, from, to)
    PROVE  Cardinality(At(S, L)') = Cardinality(At(S, L))
                                    + One(t \in S /\ to \in L)
                                    - One(t \in S /\ from \in L)
<1>0. IsFiniteSet(At(S, L)) /\ Cardinality(At(S, L)) \in Nat
  BY AtFinite
<1>1. pc[t] = from /\ pc' = [pc EXCEPT ![t] = to]
  BY DEF Go
<1>2. CASE t \in S /\ to \in L /\ from \notin L
  <2>1. At(S, L)' = At(S, L) \cup {t} /\ t \notin At(S, L)
    BY <1>1, <1>2 DEF At
  <2>2. Cardinality(At(S, L)') = Cardinality(At(S, L)) + 1
    BY <1>0, <2>1, FS_AddElement
  <2> QED
    BY <1>0, <1>2, <2>2 DEF One
<1>3. CASE t \in S /\ to \notin L /\ from \in L
  <2>1. At(S, L)' = At(S, L) \ {t} /\ t \in At(S, L)
    BY <1>1, <1>3 DEF At
  <2>2. Cardinality(At(S, L)') = Cardinality(At(S, L)) - 1
    BY <1>0, <2>1, FS_RemoveElement
  <2> QED
    BY <1>0, <1>3, <2>2 DEF One
<1>4. CASE t \notin S \/ (to \in L <=> from \in L)
  <2>1. At(S, L)' = At(S, L)
    BY <1>1, <1>4 DEF At
  <2> QED
    BY <1>0, <1>4, <2>1 DEF One
<1> QED
  BY <1>2, <1>3, <1>4

-----------------------------------------------------------------------------
(* The inductive invariant.                                                *)

HasLock ==
    \A t \in Threads : pc[t] \in {"inside", "stored", "wrapped"} => mutex = t

\* The items are in the slots below n, and i is n, but for a producer that
\* has stored and yet to advance, and for the end of the buffer.
Holds(n) ==
    /\ \A s \in Slots : queue[s] # None <=> s < n
    /\ IF At(Producers, {"stored"}) # {} THEN i = n - 1
       ELSE IF At(Consumers, {"wrapped"}) # {} THEN i = n
       ELSE i = n % MAX

\* The semaphores, given that there are n items.
Counted(n) ==
    /\ MAX - n = empty_sem + Cardinality(Filling) + Cardinality(Emptied)
    /\ n = full_sem + Cardinality(Filled) + Cardinality(Emptying)

\* Producers are in the code of producers, consumers in that of consumers.
OwnCode ==
    /\ \A p \in Producers : pc[p] # "wrapped"
    /\ \A c \in Consumers : pc[c] # "stored"

SemInv ==
    /\ SemTypeOK /\ HasLock /\ OwnCode
    /\ \E n \in 0..MAX : Holds(n) /\ Counted(n)

LEMMA DepthIs ==
    ASSUME NEW n \in 0..MAX, \A s \in Slots : queue[s] # None <=> s < n
    PROVE  Depth = n
<1>1. Occupied = 0..(n - 1)
  BY SemAssumption DEF Occupied, Slots
<1>2. Cardinality(0..(n - 1)) = n
  BY SemAssumption, FS_Interval
<1> QED
  BY <1>1, <1>2 DEF Depth

LEMMA SemInit == Init => SemInv
<1> SUFFICES ASSUME Init PROVE SemInv
  OBVIOUS
<1>1. SemTypeOK /\ HasLock /\ OwnCode
  BY SemAssumption DEF Init, SemTypeOK, HasLock, OwnCode, Slots
<1>2. /\ Filling = {} /\ Filled = {} /\ Emptying = {} /\ Emptied = {}
      /\ At(Producers, {"stored"}) = {} /\ At(Consumers, {"wrapped"}) = {}
  BY DEF Init, Filling, Filled, Emptying, Emptied, At
<1>3. Holds(0) /\ Counted(0)
  <2>1. Holds(0)
    BY <1>2, ModInRange, SemAssumption DEF Init, Holds, Slots
  <2>2. Counted(0)
    BY <1>2, SemAssumption, FS_EmptySet DEF Init, Counted
  <2> QED
    BY <2>1, <2>2
<1> QED
  BY <1>1, <1>3, SemAssumption DEF SemInv

-----------------------------------------------------------------------------
(* The steps.                                                              *)

LEMMA ProducerCounts ==
    ASSUME SemTypeOK, NEW p \in Producers, NEW from, NEW to, Go(p, from, to)
    PROVE  /\ Cardinality(Filling') = Cardinality(Filling)
                 + One(to \in {"lock", "inside"}) - One(from \in {"lock", "inside"})
           /\ Cardinality(Filled') = Cardinality(Filled)
                 + One(to \in {"stored", "post"}) - One(from \in {"stored", "post"})
           /\ Emptying' = Emptying /\ Emptied' = Emptied
<1>1. p \in Threads /\ p \notin Consumers /\ DOMAIN pc = Threads
  BY SemAssumption DEF SemTypeOK
<1>2. Emptying' = Emptying /\ Emptied' = Emptied
  BY <1>1 DEF Go, Emptying, Emptied, At
<1>3. Producers \in SUBSET Threads
  OBVIOUS
<1> QED
  BY <1>1, <1>2, <1>3, GoCounts DEF Filling, Filled

LEMMA ConsumerCounts ==
    ASSUME SemTypeOK, NEW c \in Consumers, NEW from, NEW to, Go(c, from, to)
    PROVE  /\ Cardinality(Emptying') = Cardinality(Emptying)
                 + One(to \in {"lock", "inside", "wrapped"})
                 - One(from \in {"lock", "inside", "wrapped"})
           /\ Cardinality(Emptied') = Cardinality(Emptied)
                 + One(to \in {"post"}) - One(from \in {"post"})
           /\ Filling' = Filling /\ Filled' = Filled
<1>1. c \in Threads /\ c \notin Producers /\ DOMAIN pc = Threads
  BY SemAssumption DEF SemTypeOK
<1>2. Filling' = Filling /\ Filled' = Filled
  BY <1>1 DEF Go, Filling, Filled, At
<1>3. Consumers \in SUBSET Threads
  OBVIOUS
<1> QED
  BY <1>1, <1>2, <1>3, GoCounts DEF Emptying, Emptied

LEMMA CountsAreNat ==
    /\ Cardinality(Filling) \in Nat /\ Cardinality(Filled) \in Nat
    /\ Cardinality(Emptying) \in Nat /\ Cardinality(Emptied) \in Nat
<1>1. Producers \in SUBSET Threads /\ Consumers \in SUBSET Threads
  OBVIOUS
<1> QED
  BY <1>1, AtFinite DEF Filling, Filled, Emptying, Emptied

LEMMA SomeoneThere ==
    ASSUME NEW S \in SUBSET Threads, NEW L, NEW t \in At(S, L)
    PROVE  Cardinality(At(S, L)) > 0
  BY AtFinite, FS_EmptySet

\* The semaphores never count more than there is.
LEMMA CountsBound ==
    ASSUME NEW n \in 0..MAX, Counted(n), empty_sem \in Nat, full_sem \in Nat
    PROVE  empty_sem \in 0..MAX /\ full_sem \in 0..MAX
  BY CountsAreNat, SemAssumption DEF Counted

\* A producer with the lock has a slot, a consumer with it an item.
LEMMA InsideHasSlot ==
    ASSUME SemTypeOK, NEW n \in 0..MAX, Counted(n)
    PROVE  /\ \A p \in Producers : pc[p] = "inside" => n < MAX
           /\ \A c \in Consumers : pc[c] \in {"inside", "wrapped"} => n > 0
<1>0. Producers \in SUBSET Threads /\ Consumers \in SUBSET Threads
  OBVIOUS
<1>1. ASSUME NEW p \in Producers, pc[p] = "inside"
      PROVE  n < MAX
  <2>1. p \in Filling
    BY <1>1 DEF Filling, At
  <2>2. Cardinality(Filling) > 0
    BY <1>0, <2>1, SomeoneThere DEF Filling
  <2> QED
    BY <2>2, CountsAreNat, SemAssumption DEF Counted, SemTypeOK
<1>2. ASSUME NEW c \in Consumers, pc[c] \in {"inside", "wrapped"}
      PROVE  n > 0
  <2>1. c \in Emptying
    BY <1>2 DEF Emptying, At
  <2>2. Cardinality(Emptying) > 0
    BY <1>0, <2>1, SomeoneThere DEF Emptying
  <2> QED
    BY <2>2, CountsAreNat, SemAssumption DEF Counted, SemTypeOK
<1> QED
  BY <1>1, <1>2

\* With the lock at "inside" nobody has stored or wrapped.
LEMMA InsideAlone ==
    ASSUME HasLock, NEW t \in Threads, pc[t] = "inside"
    PROVE  At(Producers, {"stored"}) = {} /\ At(Consumers, {"wrapped"}) = {}
  BY DEF HasLock, At

\* Every step but these four leaves the buffer, and who is in it, alone.
Sync(t, from, to) ==
    /\ Go(t, from, to) /\ UNCHANGED buffer
    /\ \/ from = "idle" /\ to = "lock" /\ UNCHANGED mutex
       \/ from = "lock" /\ to = "inside" /\ mutex = NoOne /\ mutex' = t
       \/ from = "post" /\ to = "idle" /\ UNCHANGED mutex

LEMMA SyncKeeps ==
    ASSUME SemTypeOK, HasLock, OwnCode, NEW t \in Threads, NEW from, NEW to,
           Sync(t, from, to), NEW n, Holds(n)
    PROVE  HasLock' /\ OwnCode' /\ Holds(n)'
<1>1. HasLock' /\ OwnCode'
  BY SemAssumption DEF Sync, Go, HasLock, OwnCode, SemTypeOK
<1>2. /\ At(Producers, {"stored"})' = At(Producers, {"stored"})
      /\ At(Consumers, {"wrapped"})' = At(Consumers, {"wrapped"})
  BY DEF Sync, Go, At, SemTypeOK
<1> QED
  BY <1>1, <1>2 DEF Holds, Sync

LEMMA SyncTypes ==
    ASSUME SemTypeOK, NEW t \in Threads, NEW from, NEW to, Sync(t, from, to),
           empty_sem' \in 0..MAX, full_sem' \in 0..MAX
    PROVE  SemTypeOK'
  BY DEF Sync, Go, SemTypeOK

LEMMA WaitEmptyStep ==
    ASSUME SemInv, NEW p \in Producers, P_WaitEmpty(p)
    PROVE  SemInv'
<1>1. PICK n \in 0..MAX : Holds(n) /\ Counted(n)
  BY DEF SemInv
<1>2. Sync(p, "idle", "lock")
  BY DEF P_WaitEmpty, Sync
<1>3. Holds(n)' /\ HasLock' /\ OwnCode'
  BY <1>1, <1>2, SyncKeeps DEF SemInv
<1>4. Counted(n)'
  <2>1. /\ Cardinality(Filling') = Cardinality(Filling) + 1
        /\ Cardinality(Filled') = Cardinality(Filled)
        /\ Emptying' = Emptying /\ Emptied' = Emptied
    BY ProducerCounts, CountsAreNat DEF P_WaitEmpty, SemInv, One
  <2> QED
    BY <1>1, <2>1, CountsAreNat, SemAssumption DEF P_WaitEmpty, Counted, SemInv, SemTypeOK
<1>5. SemTypeOK'
  <2>1. empty_sem' \in 0..MAX /\ full_sem' \in 0..MAX
    BY SemAssumption DEF P_WaitEmpty, SemInv, SemTypeOK
  <2> QED
    BY <1>2, <2>1, SyncTypes DEF SemInv
<1> QED
  BY <1>3, <1>4, <1>5 DEF SemInv

LEMMA WaitFullStep ==
    ASSUME SemInv, NEW c \in Consumers, C_WaitFull(c)
    PROVE  SemInv'
<1>1. PICK n \in 0..MAX : Holds(n) /\ Counted(n)
  BY DEF SemInv
<1>2. Sync(c, "idle", "lock")
  BY DEF C_WaitFull, Sync
<1>3. Holds(n)' /\ HasLock' /\ OwnCode'
  BY <1>1, <1>2, SyncKeeps DEF SemInv
<1>4. Counted(n)'
  <2>1. /\ Cardinality(Emptying') = Cardinality(Emptying) + 1
        /\ Cardinality(Emptied') = Cardinality(Emptied)
        /\ Filling' = Filling /\ Filled' = Filled
    BY ConsumerCounts, CountsAreNat DEF C_WaitFull, SemInv, One
  <2> QED
    BY <1>1, <2>1, CountsAreNat, SemAssumption DEF C_WaitFull, Counted, SemInv, SemTypeOK
<1>5. SemTypeOK'
  <2>1. empty_sem' \in 0..MAX /\ full_sem' \in 0..MAX
    BY SemAssumption DEF C_WaitFull, SemInv, SemTypeOK
  <2> QED
    BY <1>2, <2>1, SyncTypes DEF SemInv
<1> QED
  BY <1>3, <1>4, <1>5 DEF SemInv

LEMMA CountsBoundNext ==
    ASSUME NEW n \in 0..MAX, Counted(n)', empty_sem' \in Nat, full_sem' \in Nat
    PROVE  empty_sem' \in 0..MAX /\ full_sem' \in 0..MAX
<1>1. (/\ Cardinality(Filling) \in Nat /\ Cardinality(Filled) \in Nat
       /\ Cardinality(Emptying) \in Nat /\ Cardinality(Emptied) \in Nat)'
  BY CountsAreNat, PTL
<1> QED
  BY <1>1, SemAssumption DEF Counted

LEMMA PostFullStep ==
    ASSUME SemInv, NEW p \in Producers, P_PostFull(p)
    PROVE  SemInv'
<1>1. PICK n \in 0..MAX : Holds(n) /\ Counted(n)
  BY DEF SemInv
<1>2. Sync(p, "post", "idle")
  BY DEF P_PostFull, Sync
<1>3. Holds(n)' /\ HasLock' /\ OwnCode'
  BY <1>1, <1>2, SyncKeeps DEF SemInv
<1>4. Counted(n)'
  <2>1. /\ Cardinality(Filling') = Cardinality(Filling)
        /\ Cardinality(Filled') = Cardinality(Filled) - 1
        /\ Emptying' = Emptying /\ Emptied' = Emptied
    BY ProducerCounts, CountsAreNat DEF P_PostFull, SemInv, One
  <2> QED
    BY <1>1, <2>1, CountsAreNat, SemAssumption DEF P_PostFull, Counted, SemInv, SemTypeOK
<1>5. SemTypeOK'
  <2>1. empty_sem' \in Nat /\ full_sem' \in Nat
    BY DEF P_PostFull, SemInv, SemTypeOK
  <2>2. empty_sem' \in 0..MAX /\ full_sem' \in 0..MAX
    BY <1>4, <2>1, CountsBoundNext
  <2> QED
    BY <1>2, <2>2, SyncTypes DEF SemInv
<1> QED
  BY <1>3, <1>4, <1>5 DEF SemInv

LEMMA PostEmptyStep ==
    ASSUME SemInv, NEW c \in Consumers, C_PostEmpty(c)
    PROVE  SemInv'
<1>1. PICK n \in 0..MAX : Holds(n) /\ Counted(n)
  BY DEF SemInv
<1>2. Sync(c, "post", "idle")
  BY DEF C_PostEmpty, Sync
<1>3. Holds(n)' /\ HasLock' /\ OwnCode'
  BY <1>1, <1>2, SyncKeeps DEF SemInv
<1>4. Counted(n)'
  <2>1. /\ Cardinality(Emptying') = Cardinality(Emptying)
        /\ Cardinality(Emptied') = Cardinality(Emptied) - 1
        /\ Filling' = Filling /\ Filled' = Filled
    BY ConsumerCounts, CountsAreNat DEF C_PostEmpty, SemInv, One
  <2> QED
    BY <1>1, <2>1, CountsAreNat, SemAssumption DEF C_PostEmpty, Counted, SemInv, SemTypeOK
<1>5. SemTypeOK'
  <2>1. empty_sem' \in Nat /\ full_sem' \in Nat
    BY DEF C_PostEmpty, SemInv, SemTypeOK
  <2>2. empty_sem' \in 0..MAX /\ full_sem' \in 0..MAX
    BY <1>4, <2>1, CountsBoundNext
  <2> QED
    BY <1>2, <2>2, SyncTypes DEF SemInv
<1> QED
  BY <1>3, <1>4, <1>5 DEF SemInv

LEMMA LockStep ==
    ASSUME SemInv, NEW t \in Threads, Lock(t)
    PROVE  SemInv'
<1>1. PICK n \in 0..MAX : Holds(n) /\ Counted(n)
  BY DEF SemInv
<1>2. Sync(t, "lock", "inside")
  BY DEF Lock, Sync
<1>3. Holds(n)' /\ HasLock' /\ OwnCode'
  BY <1>1, <1>2, SyncKeeps DEF SemInv
<1>4. Counted(n)'
  <2>1. /\ Filling' = Filling /\ Filled' = Filled
        /\ Emptying' = Emptying /\ Emptied' = Emptied
    BY DEF Lock, Go, SemInv, SemTypeOK, Filling, Filled, Emptying, Emptied, At
  <2> QED
    BY <1>1, <2>1 DEF Lock, Counted
<1>5. SemTypeOK'
  <2>1. empty_sem' \in 0..MAX /\ full_sem' \in 0..MAX
    BY DEF Lock, SemInv, SemTypeOK
  <2> QED
    BY <1>2, <2>1, SyncTypes DEF SemInv
<1> QED
  BY <1>3, <1>4, <1>5 DEF SemInv

-----------------------------------------------------------------------------
(* The steps inside.                                                       *)

LEMMA StoreStep ==
    ASSUME SemInv, NEW p \in Producers, P_Store(p),
           NEW n \in 0..MAX, Holds(n), Counted(n)
    PROVE  /\ n < MAX /\ i = n /\ mutex = p
           /\ \E v \in Items : queue' = [queue EXCEPT ![n] = v]
           /\ Holds(n + 1)' /\ SemInv'
<1>1. pc[p] = "inside" /\ Go(p, "inside", "stored") /\ p \in Threads /\ p \notin Consumers
  BY SemAssumption DEF P_Store, Go
<1>2. n < MAX /\ n + 1 \in 0..MAX
  BY <1>1, InsideHasSlot, SemAssumption DEF SemInv
<1>3. i = n /\ n \in Slots /\ mutex = p
  BY <1>1, <1>2, InsideAlone, ModInRange DEF SemInv, Holds, HasLock
<1>4. PICK v \in Items : queue' = [queue EXCEPT ![n] = v]
  BY <1>3 DEF P_Store
<1>5. Holds(n + 1)'
  <2>1. \A s \in Slots : queue'[s] # None <=> s < n + 1
    BY <1>2, <1>3, <1>4, SemAssumption DEF SemInv, SemTypeOK, Holds, Slots
  <2>2. p \in At(Producers, {"stored"})'
    BY <1>1 DEF Go, At, SemInv, SemTypeOK
  <2>3. i' = n + 1 - 1
    BY <1>3 DEF P_Store
  <2> QED
    BY <2>1, <2>2, <2>3 DEF Holds
<1>6. Counted(n + 1)'
  <2>1. /\ Cardinality(Filling') = Cardinality(Filling) - 1
        /\ Cardinality(Filled') = Cardinality(Filled) + 1
        /\ Emptying' = Emptying /\ Emptied' = Emptied
    BY <1>1, ProducerCounts, CountsAreNat DEF SemInv, One
  <2> QED
    BY <2>1, CountsAreNat, SemAssumption DEF P_Store, Counted, SemInv, SemTypeOK
<1>7. SemTypeOK'
  BY <1>1, <1>3, <1>4 DEF P_Store, Go, SemInv, SemTypeOK
<1>8. HasLock' /\ OwnCode'
  BY <1>1 DEF P_Store, Go, SemInv, SemTypeOK, HasLock, OwnCode
<1>9. SemInv'
  BY <1>2, <1>5, <1>6, <1>7, <1>8 DEF SemInv
<1> QED
  BY <1>2, <1>3, <1>4, <1>5, <1>9

LEMMA AdvanceStep ==
    ASSUME SemInv, NEW p \in Producers, P_Advance(p)
    PROVE  SemInv'
<1>1. PICK n \in 0..MAX : Holds(n) /\ Counted(n)
  BY DEF SemInv
<1>2. pc[p] = "stored" /\ Go(p, "stored", "post") /\ p \in Threads /\ p \notin Consumers
  BY SemAssumption DEF P_Advance, Go
<1>3. mutex = p /\ i = n - 1
  BY <1>1, <1>2 DEF SemInv, HasLock, Holds, At
<1>4. \A t \in Threads : pc'[t] \notin {"inside", "stored", "wrapped"}
  BY <1>2, <1>3 DEF Go, SemInv, SemTypeOK, HasLock
<1>5. i' = n % MAX /\ i' \in 0..MAX
  BY <1>3, SemAssumption DEF P_Advance, Advance, SemInv, SemTypeOK
<1>6. Holds(n)'
  <2>1. At(Producers, {"stored"})' = {} /\ At(Consumers, {"wrapped"})' = {}
    BY <1>4 DEF At
  <2> QED
    BY <1>1, <1>5, <2>1 DEF P_Advance, Holds
<1>7. Counted(n)'
  <2>1. /\ Cardinality(Filling') = Cardinality(Filling)
        /\ Cardinality(Filled') = Cardinality(Filled)
        /\ Emptying' = Emptying /\ Emptied' = Emptied
    BY <1>2, ProducerCounts, CountsAreNat DEF SemInv, One
  <2> QED
    BY <1>1, <2>1 DEF P_Advance, Counted
<1>8. SemTypeOK'
  BY <1>2, <1>5 DEF P_Advance, Go, SemInv, SemTypeOK
<1>9. HasLock' /\ OwnCode'
  BY <1>4 DEF HasLock, OwnCode
<1> QED
  BY <1>6, <1>7, <1>8, <1>9 DEF SemInv

LEMMA WrapStep ==
    ASSUME SemInv, NEW c \in Consumers, C_Wrap(c)
    PROVE  SemInv'
<1>1. PICK n \in 0..MAX : Holds(n) /\ Counted(n)
  BY DEF SemInv
<1>2. pc[c] = "inside" /\ Go(c, "inside", "wrapped") /\ c \in Threads /\ c \notin Producers
  BY SemAssumption DEF C_Wrap, Go
<1>3. n > 0 /\ i = n % MAX
  BY <1>1, <1>2, InsideHasSlot, InsideAlone DEF SemInv, Holds
<1>4. i' = n
  BY <1>3, ModInRange, ModAtEnd, SemAssumption DEF C_Wrap, Wrap
<1>5. Holds(n)'
  <2>1. c \in At(Consumers, {"wrapped"})' /\ At(Producers, {"stored"})' = {}
    BY <1>2, InsideAlone DEF Go, At, SemInv, SemTypeOK
  <2> QED
    BY <1>1, <1>4, <2>1 DEF C_Wrap, Holds
<1>6. Counted(n)'
  <2>1. /\ Cardinality(Emptying') = Cardinality(Emptying)
        /\ Cardinality(Emptied') = Cardinality(Emptied)
        /\ Filling' = Filling /\ Filled' = Filled
    BY <1>2, ConsumerCounts, CountsAreNat DEF SemInv, One
  <2> QED
    BY <1>1, <2>1 DEF C_Wrap, Counted
<1>7. SemTypeOK'
  BY <1>2, <1>4 DEF C_Wrap, Go, SemInv, SemTypeOK
<1>8. HasLock' /\ OwnCode'
  BY <1>2 DEF C_Wrap, Go, SemInv, SemTypeOK, HasLock, OwnCode
<1> QED
  BY <1>5, <1>6, <1>7, <1>8 DEF SemInv

LEMMA TakeStep ==
    ASSUME SemInv, NEW c \in Consumers, C_Take(c),
           NEW n \in 0..MAX, Holds(n), Counted(n)
    PROVE  /\ n > 0 /\ i = n /\ mutex = c
           /\ queue' = [queue EXCEPT ![n - 1] = None]
           /\ Holds(n - 1)' /\ SemInv'
<1>1. pc[c] = "wrapped" /\ Go(c, "wrapped", "post") /\ c \in Threads /\ c \notin Producers
  BY SemAssumption DEF C_Take, Go
<1>2. mutex = c /\ At(Producers, {"stored"}) = {} /\ c \in At(Consumers, {"wrapped"})
  BY <1>1 DEF SemInv, HasLock, At
<1>3. n > 0 /\ i = n /\ n - 1 \in 0..MAX /\ n - 1 \in Slots /\ n - 1 < MAX
  BY <1>1, <1>2, InsideHasSlot, SemAssumption DEF SemInv, Holds, Slots
<1>4. queue' = [queue EXCEPT ![n - 1] = None] /\ i' = n - 1
  BY <1>3 DEF C_Take
<1>5. \A t \in Threads : pc'[t] \notin {"inside", "stored", "wrapped"}
  BY <1>1, <1>2 DEF Go, SemInv, SemTypeOK, HasLock
<1>6. Holds(n - 1)'
  <2>1. \A s \in Slots : queue'[s] # None <=> s < n - 1
    BY <1>3, <1>4, SemAssumption DEF SemInv, SemTypeOK, Holds, Slots
  <2>2. At(Producers, {"stored"})' = {} /\ At(Consumers, {"wrapped"})' = {}
    BY <1>5 DEF At
  <2>3. i' = (n - 1) % MAX
    BY <1>3, <1>4, ModInRange
  <2> QED
    BY <2>1, <2>2, <2>3 DEF Holds
<1>7. Counted(n - 1)'
  <2>1. /\ Cardinality(Emptying') = Cardinality(Emptying) - 1
        /\ Cardinality(Emptied') = Cardinality(Emptied) + 1
        /\ Filling' = Filling /\ Filled' = Filled
    BY <1>1, ConsumerCounts, CountsAreNat DEF SemInv, One
  <2> QED
    BY <2>1, CountsAreNat, SemAssumption DEF C_Take, Counted, SemInv, SemTypeOK
<1>8. SemTypeOK'
  BY <1>1, <1>3, <1>4 DEF C_Take, Go, SemInv, SemTypeOK
<1>9. HasLock' /\ OwnCode'
  BY <1>5 DEF HasLock, OwnCode
<1>10. SemInv'
  BY <1>3, <1>6, <1>7, <1>8, <1>9 DEF SemInv
<1> QED
  BY <1>2, <1>3, <1>4, <1>6, <1>10

-----------------------------------------------------------------------------
(* The invariant holds.                                                    *)

\* A step on the semaphores or the mutex only.
SyncStep ==
    \/ \E p \in Producers : P_WaitEmpty(p) \/ Lock(p) \/ P_PostFull(p)
    \/ \E c \in Consumers : C_WaitFull(c) \/ Lock(c) \/ C_PostEmpty(c)

LEMMA NextCases ==
    ASSUME Next
    PROVE  \/ SyncStep
           \/ \E p \in Producers : P_Store(p) \/ P_Advance(p)
           \/ \E c \in Consumers : C_Wrap(c) \/ C_Take(c)
  BY DEF Next, ProducerStep, ConsumerStep, SyncStep

LEMMA SyncStepInv ==
    ASSUME SemInv, SyncStep
    PROVE  SemInv'
<1>1. ASSUME NEW p \in Producers, P_WaitEmpty(p) \/ Lock(p) \/ P_PostFull(p)
      PROVE  SemInv'
  BY <1>1, WaitEmptyStep, LockStep, PostFullStep
<1>2. ASSUME NEW c \in Consumers, C_WaitFull(c) \/ Lock(c) \/ C_PostEmpty(c)
      PROVE  SemInv'
  BY <1>2, WaitFullStep, LockStep, PostEmptyStep
<1> QED
  BY <1>1, <1>2 DEF SyncStep

LEMMA StoreOrTakeInv ==
    /\ \A p \in Producers : SemInv /\ P_Store(p) => SemInv'
    /\ \A c \in Consumers : SemInv /\ C_Take(c) => SemInv'
<1>1. ASSUME SemInv, NEW p \in Producers, P_Store(p)
      PROVE  SemInv'
  <2>1. PICK n \in 0..MAX : Holds(n) /\ Counted(n)
    BY <1>1 DEF SemInv
  <2> QED
    BY <1>1, <2>1, StoreStep
<1>2. ASSUME SemInv, NEW c \in Consumers, C_Take(c)
      PROVE  SemInv'
  <2>1. PICK n \in 0..MAX : Holds(n) /\ Counted(n)
    BY <1>2 DEF SemInv
  <2> QED
    BY <1>2, <2>1, TakeStep
<1> QED
  BY <1>1, <1>2

LEMMA StutterInv == SemInv /\ UNCHANGED vars => SemInv'
  BY DEF vars, SemInv, SemTypeOK, HasLock, OwnCode, Holds, Counted,
     Filling, Filled, Emptying, Emptied, At

LEMMA SemCorrect == Spec => []SemInv
<1>1. SemInv /\ [Next]_vars => SemInv'
  BY NextCases, SyncStepInv, StoreOrTakeInv, AdvanceStep, WrapStep, StutterInv
<1> QED
  BY <1>1, SemInit, PTL DEF Spec

(* producer and consumer: empty_sem and full_sem, with the threads between *)
(* a wait and a post, always add up to the slots and to the items.         *)
THEOREM SemaphoresCorrect == Spec => []SemaphoresCount
<1>1. ASSUME SemInv PROVE SemaphoresCount
  <2>1. PICK n \in 0..MAX : Holds(n) /\ Counted(n)
    BY <1>1 DEF SemInv
  <2>2. Depth = n
    BY <2>1, DepthIs DEF Holds
  <2> QED
    BY <1>1, <2>1, <2>2 DEF SemInv, SemaphoresCount, Counted,
       Filling, Filled, Emptying, Emptied
<1> QED
  BY <1>1, SemCorrect, PTL

-----------------------------------------------------------------------------
(* Nobody waits for ever for everybody else.                               *)

HolderInside ==
    mutex # NoOne => pc[mutex] \in {"inside", "stored", "wrapped"}

\* t waits for nothing, or for what there is.
CanGo(t) ==
    \/ pc[t] = "idle" /\ t \in Producers /\ empty_sem > 0
    \/ pc[t] = "idle" /\ t \in Consumers /\ full_sem > 0
    \/ pc[t] = "lock" /\ mutex = NoOne
    \/ pc[t] \in {"inside", "stored", "wrapped", "post"}

SomeoneCanGo ==
    Producers # {} /\ Consumers # {} => \E t \in Threads : CanGo(t)

LEMMA HolderStep ==
    ASSUME SemInv, HolderInside, Next
    PROVE  HolderInside'
<1> USE DEF SemInv, SemTypeOK, HolderInside, Go
<1>1. ASSUME NEW p \in Producers, ProducerStep(p)
      PROVE  HolderInside'
  BY <1>1, SemAssumption DEF ProducerStep, P_WaitEmpty, Lock, P_Store, P_Advance, P_PostFull
<1>2. ASSUME NEW c \in Consumers, ConsumerStep(c)
      PROVE  HolderInside'
  BY <1>2, SemAssumption DEF ConsumerStep, C_WaitFull, Lock, C_Wrap, C_Take, C_PostEmpty
<1> QED
  BY <1>1, <1>2 DEF Next

(* sem_wait before pthread_mutex_lock, on both sides: as long as there is  *)
(* a producer and a consumer, one thread at least can go on.               *)
THEOREM NeverAllBlocked == Spec => []SomeoneCanGo
<1>1. Init => HolderInside
  BY DEF Init, HolderInside
<1>2. SemInv /\ HolderInside /\ [Next]_vars => HolderInside'
  BY HolderStep DEF vars, HolderInside
<1>3. ASSUME SemInv, HolderInside PROVE SomeoneCanGo
  <2>1. SUFFICES ASSUME NEW p \in Producers, NEW c \in Consumers,
                        \A t \in Threads : ~CanGo(t)
                 PROVE  FALSE
    BY DEF SomeoneCanGo
  <2>2. mutex = NoOne
    BY <1>3, <2>1 DEF SemInv, SemTypeOK, HolderInside, CanGo
  <2>3. \A t \in Threads : pc[t] = "idle"
    BY <1>3, <2>1, <2>2 DEF SemInv, SemTypeOK, CanGo
  <2>4. Filling = {} /\ Filled = {} /\ Emptying = {} /\ Emptied = {}
    BY <2>3 DEF Filling, Filled, Emptying, Emptied, At
  <2>5. PICK n \in 0..MAX : Counted(n)
    BY <1>3 DEF SemInv
  <2>6. empty_sem = MAX - n /\ full_sem = n
    BY <1>3, <2>4, <2>5, FS_EmptySet, SemAssumption DEF Counted, SemInv, SemTypeOK
  <2>7. ~(empty_sem > 0) /\ ~(full_sem > 0)
    BY <2>1, <2>3 DEF CanGo
  <2> QED
    BY <2>6, <2>7, SemAssumption
<1> QED
  BY <1>1, <1>2, <1>3, SemCorrect, PTL DEF Spec

-----------------------------------------------------------------------------
(* The stack.                                                              *)

theStack == [k \in 1..Depth |-> queue[k - 1]]

StackHas(n) ==
    /\ theStack = [k \in 1..n |-> queue[k - 1]]
    /\ theStack \in Seq(Items) /\ Len(theStack) = n

StackIsRight == \A n \in 0..MAX : SemTypeOK /\ Holds(n) => StackHas(n)

LEMMA StackIs == StackIsRight
<1> SUFFICES ASSUME NEW n \in 0..MAX, SemTypeOK, Holds(n)
             PROVE  StackHas(n)
  BY DEF StackIsRight
<1>1. Depth = n
  BY DepthIs DEF Holds
<1>2. \A k \in 1..n : queue[k - 1] \in Items
  BY SemAssumption DEF SemTypeOK, Holds, Slots
<1> QED
  BY <1>1, <1>2, SemAssumption DEF theStack, StackHas

LEMMA StackIsNext ==
    ASSUME SemInv', NEW n \in 0..MAX, Holds(n)'
    PROVE  /\ theStack' = [k \in 1..n |-> queue'[k - 1]]
           /\ theStack' \in Seq(Items) /\ Len(theStack') = n
<1>1. StackIsRight'
  BY StackIs, PTL
<1> QED
  BY <1>1 DEF SemInv, StackIsRight, StackHas

LEMMA AppendIs ==
    ASSUME NEW S, NEW s \in Seq(S), NEW t \in Seq(S), NEW v \in S,
           Len(t) = Len(s) + 1, t[Len(s) + 1] = v,
           \A k \in 1..Len(s) : t[k] = s[k]
    PROVE  t = Append(s, v)
<1>1. Append(s, v) \in Seq(S) /\ Len(Append(s, v)) = Len(t)
  OBVIOUS
<1>2. ASSUME NEW k \in 1..Len(t) PROVE t[k] = Append(s, v)[k]
  OBVIOUS
<1> QED
  BY <1>1, <1>2, SeqEqual

LEMMA FrontIs ==
    ASSUME NEW S, NEW s \in Seq(S), NEW t \in Seq(S),
           Len(s) = Len(t) + 1, \A k \in 1..Len(t) : t[k] = s[k]
    PROVE  t = SubSeq(s, 1, Len(s) - 1)
<1>1. Len(t) \in Nat /\ Len(s) - 1 = Len(t)
  OBVIOUS
<1>2. SubSeq(s, 1, Len(t)) \in Seq(S) /\ Len(SubSeq(s, 1, Len(t))) = Len(t)
  BY <1>1
<1>3. ASSUME NEW k \in 1..Len(t) PROVE t[k] = SubSeq(s, 1, Len(t))[k]
  BY <1>1
<1> QED
  BY <1>1, <1>2, <1>3, SeqEqual

LEMMA StorePushes ==
    ASSUME SemInv, NEW p \in Producers, P_Store(p)
    PROVE  /\ Len(theStack) < MAX
           /\ \E v \in Items : theStack' = Append(theStack, v)
<1>1. PICK n \in 0..MAX : Holds(n) /\ Counted(n)
  BY DEF SemInv
<1>2. n < MAX /\ n + 1 \in 0..MAX /\ n \in Slots /\ Holds(n + 1)' /\ SemInv'
  BY <1>1, StoreStep, SemAssumption DEF Slots
<1>3. PICK v \in Items : queue' = [queue EXCEPT ![n] = v]
  BY <1>1, StoreStep
<1>4. /\ theStack = [k \in 1..n |-> queue[k - 1]]
      /\ theStack \in Seq(Items) /\ Len(theStack) = n
  BY <1>1, StackIs DEF SemInv, StackIsRight, StackHas
<1>5. /\ theStack' = [k \in 1..(n + 1) |-> queue'[k - 1]]
      /\ theStack' \in Seq(Items) /\ Len(theStack') = n + 1
  BY <1>2, StackIsNext
<1>6. DOMAIN queue = Slots
  BY DEF SemInv, SemTypeOK
<1>7. theStack'[n + 1] = v
  BY <1>2, <1>3, <1>5, <1>6
<1>8. \A k \in 1..n : theStack'[k] = theStack[k]
  BY <1>2, <1>3, <1>4, <1>5, <1>6, SemAssumption DEF Slots
<1>9. theStack' = Append(theStack, v)
  <2>1. /\ Len(theStack') = Len(theStack) + 1 /\ theStack'[Len(theStack) + 1] = v
        /\ \A k \in 1..Len(theStack) : theStack'[k] = theStack[k]
    BY <1>4, <1>5, <1>7, <1>8
  <2>2. theStack \in Seq(Items) /\ theStack' \in Seq(Items)
    BY <1>4, <1>5
  <2> QED
    BY <2>1, <2>2, AppendIs
<1> QED
  BY <1>2, <1>4, <1>9

LEMMA TakePops ==
    ASSUME SemInv, NEW c \in Consumers, C_Take(c)
    PROVE  theStack # <<>> /\ theStack' = SubSeq(theStack, 1, Len(theStack) - 1)
<1>1. PICK n \in 0..MAX : Holds(n) /\ Counted(n)
  BY DEF SemInv
<1>2. n > 0 /\ n - 1 \in 0..MAX /\ n - 1 \in Slots /\ Holds(n - 1)' /\ SemInv'
  BY <1>1, TakeStep, SemAssumption DEF Slots
<1>3. queue' = [queue EXCEPT ![n - 1] = None]
  BY <1>1, TakeStep
<1>4. /\ theStack = [k \in 1..n |-> queue[k - 1]]
      /\ theStack \in Seq(Items) /\ Len(theStack) = n
  BY <1>1, StackIs DEF SemInv, StackIsRight, StackHas
<1>5. /\ theStack' = [k \in 1..(n - 1) |-> queue'[k - 1]]
      /\ theStack' \in Seq(Items) /\ Len(theStack') = n - 1
  BY <1>2, StackIsNext
<1>6. DOMAIN queue = Slots
  BY DEF SemInv, SemTypeOK
<1>7. \A k \in 1..(n - 1) : theStack'[k] = theStack[k]
  BY <1>2, <1>3, <1>4, <1>5, <1>6, SemAssumption DEF Slots
<1>8. theStack' = SubSeq(theStack, 1, Len(theStack) - 1)
  <2>0. n \in Nat
    BY SemAssumption
  <2>1. Len(theStack) = n /\ Len(theStack') = n - 1
    BY <1>4, <1>5, Zenon
  <2>2. \A k \in 1..Len(theStack') : theStack'[k] = theStack[k]
    BY <1>7, <2>1
  <2>3. theStack \in Seq(Items) /\ theStack' \in Seq(Items)
    BY <1>4, <1>5
  <2> QED
    BY <2>0, <2>1, <2>2, <2>3, FrontIs
<1> QED
  BY <1>2, <1>4, <1>8

LEMMA OthersKeepStack ==
    ASSUME UNCHANGED queue
    PROVE  theStack' = theStack
  BY DEF theStack, Depth, Occupied

(* producer and consumer together implement a stack of at most MAX items,  *)
(* with one index and no count.                                            *)
THEOREM ImplementsStack == Spec => StackSpec
<1>1. ASSUME Init PROVE Stack!Init
  <2>1. 0 \in 0..MAX /\ \A s \in Slots : queue[s] # None <=> s < 0
    BY <1>1, SemAssumption DEF Init, Slots
  <2>2. Depth = 0
    BY <2>1, DepthIs
  <2> QED
    BY <2>2 DEF Stack!Init
<1>2. ASSUME SemInv, Next
      PROVE  \/ Len(theStack) < MAX /\ \E v \in Items : theStack' = Append(theStack, v)
             \/ theStack # <<>> /\ theStack' = SubSeq(theStack, 1, Len(theStack) - 1)
             \/ theStack' = theStack
  <2>1. SyncStep => UNCHANGED queue
    BY DEF SyncStep, P_WaitEmpty, Lock, P_PostFull, C_WaitFull, C_PostEmpty
  <2>2. \A p \in Producers : P_Advance(p) => UNCHANGED queue
    BY DEF P_Advance
  <2>3. \A c \in Consumers : C_Wrap(c) => UNCHANGED queue
    BY DEF C_Wrap
  <2> QED
    BY <1>2, <2>1, <2>2, <2>3, NextCases, StorePushes, TakePops, OthersKeepStack
<1>3. UNCHANGED vars => theStack' = theStack
  BY OthersKeepStack DEF vars
<1>4. SemInv /\ [Next]_vars => [Stack!Next]_theStack
  BY <1>2, <1>3 DEF Stack!Next, Stack!Push, Stack!Pop, theStack
<1> QED
  BY <1>1, <1>4, SemCorrect, PTL DEF Spec, StackSpec, Stack!Spec, theStack

=============================================================================
