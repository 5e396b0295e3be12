------------------------- MODULE ReaderWriter_proofs -------------------------
(***************************************************************************)
(* Theorems about ReaderWriter, for every number of readers and writers.   *)
(*                                                                         *)
(* Each semaphore is accounted for by the threads that hold it (RWCounts), *)
(* and whoever is past the check of datasize knows that there are data     *)
(* (RWData).  The exclusion of readers and writers follows from the two.   *)
(***************************************************************************)
EXTENDS ReaderWriter, FiniteSetTheorems, TLAPS

Threads == Readers \cup Writers

USE DEF Threads

-----------------------------------------------------------------------------
(* Counting the threads at a place.                                        *)

LEMMA AtFinite ==
    ASSUME NEW S \in SUBSET Threads, NEW L
    PROVE  IsFiniteSet(At(S, L)) /\ Cardinality(At(S, L)) \in Nat
<1>1. IsFiniteSet(Threads)
  BY ReaderWriterAssumption, FS_Union
<1>2. IsFiniteSet(S)
  BY <1>1, FS_Subset
<1>3. At(S, L) \in SUBSET S
  BY DEF At
<1> QED
  BY <1>2, <1>3, FS_Subset, FS_CardinalityType

One(cond) == IF cond THEN 1 ELSE 0

\* A thread that goes from one place to another is counted there, not here.
LEMMA GoCounts ==
    ASSUME NEW S \in SUBSET Threads, NEW L, NEW t \in Threads, NEW from, NEW to,
           DOMAIN pc = Threads, Go(t, from, to)
    PROVE  Cardinality(At(S, L)') = Cardinality(At(S, L))
                                    + One(t \in S /\ to \in L)
                                    - One(t \in S /\ from \in L)
<1>0. IsFiniteSet(At(S, L)) /\ Cardinality(At(S, L)) \in Nat
  BY AtFinite
<1>1. pc[t] = from /\ pc' = [pc EXCEPT ![t] = to]
  BY DEF Go
<1>2. CASE t \in S /\ to \in L /\ from \notin L
  <2>1. At(S, L)' = At(S, L) \cup {t} /\ t \notin At(S, L)
    BY <1>1, <1>2 DEF At
  <2>2. Cardinality(At(S, L)') = Cardinality(At(S, L)) + 1
    BY <1>0, <2>1, FS_AddElement
  <2> QED
    BY <1>0, <1>2, <2>2 DEF One
<1>3. CASE t \in S /\ to \notin L /\ from \in L
  <2>1. At(S, L)' = At(S, L) \ {t} /\ t \in At(S, L)
    BY <1>1, <1>3 DEF At
  <2>2. Cardinality(At(S, L)') = Cardinality(At(S, L)) - 1
    BY <1>0, <2>1, FS_RemoveElement
  <2> QED
    BY <1>0, <1>3, <2>2 DEF One
<1>4. CASE t \notin S \/ (to \in L <=> from \in L)
  <2>1. At(S, L)' = At(S, L)
    BY <1>1, <1>4 DEF At
  <2> QED
    BY <1>0, <1>4, <2>1 DEF One
<1> QED
  BY <1>2, <1>3, <1>4

\* Who counts as one of at most one is alone.
LEMMA AloneThere ==
    ASSUME NEW S \in SUBSET Threads, NEW L, NEW t \in At(S, L),
           Cardinality(At(S, L)) <= 1
    PROVE  Cardinality(At(S, L)) = 1 /\ At(S, L) = {t}
<1>1. IsFiniteSet(At(S, L)) /\ Cardinality(At(S, L)) \in Nat
  BY AtFinite
<1>2. Cardinality(At(S, L)) # 0
  BY <1>1, FS_EmptySet
<1>3. Cardinality(At(S, L)) = 1
  BY <1>1, <1>2
<1>4. PICK x : At(S, L) = {x}
  BY <1>1, <1>3, FS_Singleton
<1> QED
  BY <1>3, <1>4

-----------------------------------------------------------------------------
(* The inductive invariant.                                                *)

ReaderCode == {"start", "entering", "counted", "checking", "giveup", "nodata",
               "again", "checked", "reading", "leaving"}
WriterCode == {"start", "writing", "written", "posted", "clear"}

OwnCode ==
    /\ \A r \in Readers : pc[r] \in ReaderCode
    /\ \A w \in Writers : pc[w] \in WriterCode

Counting == At(Readers, {"entering", "leaving"})
Sizing == At(Readers, {"checking", "giveup", "nodata", "again", "checked"})
Inside == At(Readers, {"counted", "checking", "giveup", "nodata", "again",
                       "checked", "reading", "leaving"})

\* Who holds each semaphore, and what readcount counts.
RWCounts ==
    /\ count_sem = 1 - Cardinality(Counting)
    /\ datasize_sem = 1 - Cardinality(Sizing)
    /\ readcount = Cardinality(Inside)
    /\ write_sem = 1 - Cardinality(Writing)
                     - (IF readcount > 0 /\ WaitForData = {} THEN 1 ELSE 0)

\* Who knows that there are data, and that no reader waits for them.
RWData ==
    /\ data_sem > 0 => datasize > 0
    /\ \A r \in Readers : pc[r] \in {"again", "checked", "reading"} => datasize > 0
    /\ \A w \in Writers : pc[w] \in {"written", "posted", "clear"} => datasize > 0
    /\ \A q, r \in Readers : pc[q] \in {"giveup", "nodata", "again"} => pc[r] # "reading"

\* The handshake over flag.
RWFlag ==
    /\ \A r \in Readers : pc[r] \in {"giveup", "nodata"} => flag \/ data_sem > 0
    /\ \A r \in Readers, w \in Writers :
          pc[r] = "nodata" /\ pc[w] = "clear" => data_sem > 0
    /\ \A r \in Readers : pc[r] = "giveup" => datasize = 0

RWInv == ReaderWriterTypeOK /\ OwnCode /\ RWCounts /\ RWData /\ RWFlag

LEMMA RWInit == Init => RWInv
<1> SUFFICES ASSUME Init PROVE RWInv
  OBVIOUS
<1>1. ReaderWriterTypeOK /\ OwnCode
  <2>1. ReaderWriterTypeOK
    <3>1. datasize \in 0..MaxData
      BY ReaderWriterAssumption DEF Init
    <3>2. /\ count_sem \in 0..1 /\ write_sem \in 0..1 /\ datasize_sem \in 0..1
          /\ data_sem \in Nat /\ readcount \in Nat
      BY DEF Init
    <3>3. flag \in BOOLEAN
      BY DEF Init
    <3>4. pc \in [Threads -> {"start"}]
      BY DEF Init
    <3> QED
      BY <3>1, <3>2, <3>3, <3>4 DEF ReaderWriterTypeOK
  <2>2. OwnCode
    BY DEF Init, OwnCode, ReaderCode, WriterCode
  <2> QED
    BY <2>1, <2>2
<1>2. Counting = {} /\ Sizing = {} /\ Inside = {} /\ Writing = {}
  BY DEF Init, Counting, Sizing, Inside, Writing, At
<1>3. RWCounts
  BY <1>2, FS_EmptySet DEF Init, RWCounts
<1>4. RWData /\ RWFlag
  BY DEF Init, RWData, RWFlag
<1> QED
  BY <1>1, <1>3, <1>4 DEF RWInv

LEMMA CountsAreNat ==
    /\ Cardinality(Counting) \in Nat /\ Cardinality(Sizing) \in Nat
    /\ Cardinality(Inside) \in Nat /\ Cardinality(Writing) \in Nat
<1>1. Readers \in SUBSET Threads /\ Writers \in SUBSET Threads
  OBVIOUS
<1> QED
  BY <1>1, AtFinite DEF Counting, Sizing, Inside, Writing

-----------------------------------------------------------------------------
(* What the semaphores say of who is where.                                *)

SizingAlone ==
    \A q, r \in Readers : q \in Sizing /\ r \in Sizing => q = r

\* A reader at "giveup" still has the group's write_sem.
GiveUpExcludes ==
    \A r \in Readers : pc[r] = "giveup" => Writing = {}

LEMMA RWExcludes == RWInv => SizingAlone /\ GiveUpExcludes
<1> SUFFICES ASSUME RWInv PROVE SizingAlone /\ GiveUpExcludes
  OBVIOUS
<1> USE DEF RWInv
<1>0. Readers \in SUBSET Threads /\ Writers \in SUBSET Threads
  OBVIOUS
<1>1. Cardinality(Sizing) <= 1
  BY CountsAreNat DEF RWCounts, ReaderWriterTypeOK
<1>2. SizingAlone
  BY <1>0, <1>1, AloneThere DEF SizingAlone, Sizing
<1>3. ASSUME NEW r \in Readers, pc[r] = "giveup" PROVE Writing = {}
  <2>1. r \in Inside /\ r \in Sizing
    BY <1>3 DEF Inside, Sizing, At
  <2>2. readcount > 0
    BY <1>0, <2>1, CountsAreNat, AtFinite, FS_EmptySet DEF RWCounts, Inside
  <2>3. WaitForData = {}
    BY <1>2, <1>3, <2>1 DEF WaitForData, Sizing, SizingAlone, At
  <2>4. Cardinality(Writing) = 0
    BY <2>2, <2>3, CountsAreNat DEF RWCounts, ReaderWriterTypeOK
  <2> QED
    BY <1>0, <2>4, AtFinite, FS_EmptySet DEF Writing
<1> QED
  BY <1>2, <1>3 DEF GiveUpExcludes

(* Readers and writers exclude each other by the counts alone.             *)
LEMMA InvExcludes == RWInv => ReadersExcludeWriters /\ WriteSemAccounted /\ WakeupKept
<1> SUFFICES ASSUME RWInv PROVE ReadersExcludeWriters /\ WriteSemAccounted /\ WakeupKept
  OBVIOUS
<1> USE DEF RWInv
<1>0. Readers \in SUBSET Threads /\ Writers \in SUBSET Threads
  OBVIOUS
<1>1. WriteSemAccounted /\ WakeupKept
  BY DEF RWCounts, WriteSemAccounted, WakeupKept, RWFlag, At
<1>2. ASSUME NEW r \in Reading
      PROVE  Writing = {} /\ WaitForData = {} /\ datasize > 0
  <2>1. r \in Readers /\ pc[r] = "reading" /\ r \in Inside
    BY <1>2 DEF Reading, Inside, At
  <2>2. WaitForData = {} /\ datasize > 0
    BY <2>1 DEF RWData, WaitForData, At
  <2>3. readcount > 0
    BY <1>0, <2>1, CountsAreNat, AtFinite, FS_EmptySet DEF RWCounts, Inside
  <2>4. Cardinality(Writing) = 0
    BY <2>2, <2>3, CountsAreNat DEF RWCounts, ReaderWriterTypeOK
  <2> QED
    BY <1>0, <2>2, <2>4, AtFinite, FS_EmptySet DEF Writing
<1>3. ASSUME NEW v \in Writing, NEW w \in Writing
      PROVE  v = w
  <2>1. Cardinality(Writing) <= 1
    BY CountsAreNat DEF RWCounts, ReaderWriterTypeOK
  <2>2. Writing = {v} /\ Writing = {w}
    BY <1>0, <2>1, AloneThere DEF Writing
  <2> QED
    BY <2>2
<1> QED
  BY <1>1, <1>2, <1>3 DEF ReadersExcludeWriters

-----------------------------------------------------------------------------
(* How a step changes the counts.                                          *)

LEMMA ReaderCounts ==
    ASSUME ReaderWriterTypeOK, NEW r \in Readers, NEW from, NEW to, Go(r, from, to)
    PROVE  /\ Cardinality(Counting') = Cardinality(Counting)
                 + One(to \in {"entering", "leaving"})
                 - One(from \in {"entering", "leaving"})
           /\ Cardinality(Sizing') = Cardinality(Sizing)
                 + One(to \in {"checking", "giveup", "nodata", "again", "checked"})
                 - One(from \in {"checking", "giveup", "nodata", "again", "checked"})
           /\ Cardinality(Inside') = Cardinality(Inside)
                 + One(to \in {"counted", "checking", "giveup", "nodata", "again",
                               "checked", "reading", "leaving"})
                 - One(from \in {"counted", "checking", "giveup", "nodata", "again",
                                 "checked", "reading", "leaving"})
           /\ Writing' = Writing
<1>1. r \in Threads /\ r \notin Writers /\ DOMAIN pc = Threads
  BY ReaderWriterAssumption DEF ReaderWriterTypeOK
<1>2. Writing' = Writing
  BY <1>1 DEF Go, Writing, At
<1>3. Readers \in SUBSET Threads
  OBVIOUS
<1> QED
  BY <1>1, <1>2, <1>3, GoCounts DEF Counting, Sizing, Inside

LEMMA WriterCounts ==
    ASSUME ReaderWriterTypeOK, NEW w \in Writers, NEW from, NEW to, Go(w, from, to)
    PROVE  /\ Cardinality(Writing') = Cardinality(Writing)
                 + One(to \in {"writing", "written"}) - One(from \in {"writing", "written"})
           /\ Counting' = Counting /\ Sizing' = Sizing /\ Inside' = Inside
           /\ WaitForData' = WaitForData
<1>1. w \in Threads /\ w \notin Readers /\ DOMAIN pc = Threads
  BY ReaderWriterAssumption DEF ReaderWriterTypeOK
<1>2. /\ Counting' = Counting /\ Sizing' = Sizing /\ Inside' = Inside
      /\ WaitForData' = WaitForData
  BY <1>1 DEF Go, Counting, Sizing, Inside, WaitForData, At
<1>3. Writers \in SUBSET Threads
  OBVIOUS
<1> QED
  BY <1>1, <1>2, <1>3, GoCounts DEF Writing

LEMMA CountsAreNatNext ==
    /\ Cardinality(Counting') \in Nat /\ Cardinality(Sizing') \in Nat
    /\ Cardinality(Inside') \in Nat /\ Cardinality(Writing') \in Nat
<1>1. (/\ Cardinality(Counting) \in Nat /\ Cardinality(Sizing) \in Nat
       /\ Cardinality(Inside) \in Nat /\ Cardinality(Writing) \in Nat)'
  BY CountsAreNat, PTL
<1> QED
  BY <1>1

\* The counts keep the semaphores below 2, the guards keep them above -1.
LEMMA TypesNext ==
    ASSUME ReaderWriterTypeOK, RWCounts', NEW t \in Threads, NEW from,
           NEW to \in ReaderCode \cup WriterCode, Go(t, from, to),
           count_sem' \in Nat, write_sem' \in Nat, datasize_sem' \in Nat,
           data_sem' \in Nat, datasize' \in 0..MaxData, flag' \in BOOLEAN
    PROVE  ReaderWriterTypeOK'
<1>1. count_sem' \in 0..1 /\ datasize_sem' \in 0..1 /\ write_sem' \in 0..1
      /\ readcount' \in Nat
  <2>1. /\ count_sem' = 1 - Cardinality(Counting')
        /\ datasize_sem' = 1 - Cardinality(Sizing')
        /\ readcount' = Cardinality(Inside')
        /\ \E g \in 0..1 : write_sem' = 1 - Cardinality(Writing') - g
    BY DEF RWCounts
  <2> QED
    BY <2>1, CountsAreNatNext
<1>2. pc' \in [Threads -> ReaderCode \cup WriterCode]
  <2>1. pc \in [Threads -> ReaderCode \cup WriterCode]
    BY DEF ReaderWriterTypeOK, ReaderCode, WriterCode
  <2> QED
    BY <2>1 DEF Go
<1> QED
  BY <1>1, <1>2 DEF ReaderWriterTypeOK, ReaderCode, WriterCode

\* The last conjunct of RWCounts, where a step has nothing to do with it.
LEMMA GroupKept ==
    ASSUME ReaderWriterTypeOK, RWCounts, NEW r \in Readers, NEW from, NEW to,
           Go(r, from, to), UNCHANGED <<write_sem, readcount>>,
           to \in {"nodata", "again"} <=> from \in {"nodata", "again"}
    PROVE  write_sem' = 1 - Cardinality(Writing')
                          - (IF readcount' > 0 /\ WaitForData' = {} THEN 1 ELSE 0)
<1>1. WaitForData' = WaitForData
  BY DEF Go, WaitForData, At, ReaderWriterTypeOK
<1>2. Writing' = Writing
  BY ReaderCounts
<1> QED
  BY <1>1, <1>2 DEF RWCounts

-----------------------------------------------------------------------------
(* The counts, step by step.                                               *)

LEMMA SizeSteps ==
    ASSUME RWInv, NEW r \in Readers,
           R_WaitSize(r) \/ R_HasData(r) \/ R_NoData(r) \/ R_WaitData(r) \/ R_PostSize(r)
    PROVE  RWCounts'
<1> USE DEF RWInv
<1>1. CASE R_WaitSize(r)
  <2>1. /\ Cardinality(Counting') = Cardinality(Counting)
        /\ Cardinality(Sizing') = Cardinality(Sizing) + 1
        /\ Cardinality(Inside') = Cardinality(Inside)
    BY <1>1, ReaderCounts, CountsAreNat DEF R_WaitSize, One
  <2>2. write_sem' = 1 - Cardinality(Writing')
                       - (IF readcount' > 0 /\ WaitForData' = {} THEN 1 ELSE 0)
    BY <1>1, GroupKept DEF R_WaitSize, data
  <2> QED
    BY <1>1, <2>1, <2>2, CountsAreNat DEF R_WaitSize, data, RWCounts
<1>2. CASE R_HasData(r) \/ R_NoData(r) \/ R_WaitData(r)
  <2>1. PICK from, to \in ReaderCode :
            /\ Go(r, from, to)
            /\ <<from, to>> \in {<<"checking", "checked">>, <<"checking", "giveup">>,
                                 <<"nodata", "again">>}
    BY <1>2 DEF R_HasData, R_NoData, R_WaitData, ReaderCode
  <2>2. /\ Cardinality(Counting') = Cardinality(Counting)
        /\ Cardinality(Sizing') = Cardinality(Sizing)
        /\ Cardinality(Inside') = Cardinality(Inside)
    BY <2>1, ReaderCounts, CountsAreNat DEF One
  <2>3. UNCHANGED <<count_sem, datasize_sem, write_sem, readcount>>
    BY <1>2 DEF R_HasData, R_NoData, R_WaitData, sems, data
  <2>4. write_sem' = 1 - Cardinality(Writing')
                       - (IF readcount' > 0 /\ WaitForData' = {} THEN 1 ELSE 0)
    BY <2>1, <2>3, GroupKept
  <2> QED
    BY <2>2, <2>3, <2>4 DEF RWCounts
<1>3. CASE R_PostSize(r)
  <2>1. /\ Cardinality(Counting') = Cardinality(Counting)
        /\ Cardinality(Sizing') = Cardinality(Sizing) - 1
        /\ Cardinality(Inside') = Cardinality(Inside)
    BY <1>3, ReaderCounts, CountsAreNat DEF R_PostSize, One
  <2>2. write_sem' = 1 - Cardinality(Writing')
                       - (IF readcount' > 0 /\ WaitForData' = {} THEN 1 ELSE 0)
    BY <1>3, GroupKept DEF R_PostSize, data
  <2> QED
    BY <1>3, <2>1, <2>2, CountsAreNat DEF R_PostSize, data, RWCounts
<1> QED
  BY <1>1, <1>2, <1>3

\* A reader that is inside is counted in readcount.
LEMMA InsideCounts ==
    ASSUME RWCounts
    PROVE  /\ \A r \in Inside : readcount > 0
           /\ readcount = 0 => WaitForData = {}
           /\ \A r \in Inside : readcount = 1 => Inside = {r}
<1>0. Readers \in SUBSET Threads
  OBVIOUS
<1>1. \A r \in Inside : readcount > 0
  BY <1>0, CountsAreNat, AtFinite, FS_EmptySet DEF RWCounts, Inside
<1>2. WaitForData \subseteq Inside
  BY DEF WaitForData, Inside, At
<1>3. ASSUME NEW r \in Inside, readcount = 1 PROVE Inside = {r}
  <2>1. Cardinality(Inside) <= 1
    BY <1>3 DEF RWCounts
  <2> QED
    BY <1>0, <2>1, AloneThere DEF Inside
<1> QED
  BY <1>1, <1>2, <1>3

LEMMA CountStep ==
    ASSUME RWInv, NEW r \in Readers, R_Count(r)
    PROVE  RWCounts'
<1> USE DEF RWInv
<1>1. /\ Cardinality(Counting') = Cardinality(Counting) + 1
      /\ Cardinality(Sizing') = Cardinality(Sizing)
      /\ Cardinality(Inside') = Cardinality(Inside)
  <2>1. CASE Go(r, "start", "entering")
    BY <2>1, ReaderCounts, CountsAreNat DEF One
  <2>2. CASE Go(r, "reading", "leaving")
    BY <2>2, ReaderCounts, CountsAreNat DEF One
  <2> QED
    BY <2>1, <2>2 DEF R_Count
<1>2. UNCHANGED <<write_sem, readcount, datasize_sem>> /\ count_sem' = count_sem - 1
  BY DEF R_Count, data
<1>3. write_sem' = 1 - Cardinality(Writing')
                     - (IF readcount' > 0 /\ WaitForData' = {} THEN 1 ELSE 0)
  BY <1>2, GroupKept DEF R_Count
<1> QED
  BY <1>1, <1>2, <1>3, CountsAreNat DEF RWCounts, ReaderWriterTypeOK

LEMMA EnterStep ==
    ASSUME RWInv, NEW r \in Readers, R_Enter(r)
    PROVE  RWCounts'
<1> USE DEF RWInv
<1>1. /\ Cardinality(Counting') = Cardinality(Counting) - 1
      /\ Cardinality(Sizing') = Cardinality(Sizing)
      /\ Cardinality(Inside') = Cardinality(Inside) + 1
      /\ Writing' = Writing
  BY ReaderCounts, CountsAreNat DEF R_Enter, One
<1>2. WaitForData' = WaitForData
  BY DEF R_Enter, Go, WaitForData, At, ReaderWriterTypeOK
<1>3. write_sem' = 1 - Cardinality(Writing')
                     - (IF readcount' > 0 /\ WaitForData' = {} THEN 1 ELSE 0)
  BY <1>1, <1>2, InsideCounts, CountsAreNat DEF R_Enter, RWCounts, ReaderWriterTypeOK
<1> QED
  BY <1>1, <1>3, CountsAreNat DEF R_Enter, RWCounts, ReaderWriterTypeOK

LEMMA LeaveStep ==
    ASSUME RWInv, NEW r \in Readers, R_Leave(r)
    PROVE  RWCounts' /\ readcount > 0
<1> USE DEF RWInv
<1>1. /\ Cardinality(Counting') = Cardinality(Counting) - 1
      /\ Cardinality(Sizing') = Cardinality(Sizing)
      /\ Cardinality(Inside') = Cardinality(Inside) - 1
      /\ Writing' = Writing
  BY ReaderCounts, CountsAreNat DEF R_Leave, One
<1>2. WaitForData' = WaitForData
  BY DEF R_Leave, Go, WaitForData, At, ReaderWriterTypeOK
<1>3. r \in Inside /\ r \notin WaitForData /\ WaitForData \subseteq Inside
  BY DEF R_Leave, Go, Inside, WaitForData, At
<1>4. readcount > 0 /\ (readcount = 1 => WaitForData = {})
  BY <1>3, InsideCounts
<1>5. write_sem' = 1 - Cardinality(Writing')
                     - (IF readcount' > 0 /\ WaitForData' = {} THEN 1 ELSE 0)
  <2>1. /\ write_sem' = write_sem + (IF readcount = 1 THEN 1 ELSE 0)
        /\ readcount' = readcount - 1 /\ readcount \in Nat
        /\ write_sem = 1 - Cardinality(Writing)
                         - (IF readcount > 0 /\ WaitForData = {} THEN 1 ELSE 0)
    BY DEF R_Leave, RWCounts, ReaderWriterTypeOK
  <2>2. CASE readcount = 1
    BY <1>1, <1>2, <1>4, <2>1, <2>2, CountsAreNat
  <2>3. CASE readcount > 1
    BY <1>1, <1>2, <2>1, <2>3, CountsAreNat
  <2> QED
    BY <1>4, <2>1, <2>2, <2>3
<1> QED
  BY <1>1, <1>4, <1>5, CountsAreNat DEF R_Leave, RWCounts, ReaderWriterTypeOK

LEMMA GiveUpStep ==
    ASSUME RWInv, NEW r \in Readers, R_GiveUp(r)
    PROVE  RWCounts'
<1> USE DEF RWInv
<1>1. /\ Cardinality(Counting') = Cardinality(Counting)
      /\ Cardinality(Sizing') = Cardinality(Sizing)
      /\ Cardinality(Inside') = Cardinality(Inside)
      /\ Writing' = Writing
  BY ReaderCounts, CountsAreNat DEF R_GiveUp, One
<1>2. r \in Inside /\ r \in Sizing /\ r \notin WaitForData
  BY DEF R_GiveUp, Go, Inside, Sizing, WaitForData, At
<1>3. WaitForData = {}
  BY <1>2, RWExcludes DEF SizingAlone, Sizing, WaitForData, At
<1>4. readcount > 0
  BY <1>2, InsideCounts
<1>5. r \in WaitForData'
  BY DEF R_GiveUp, Go, WaitForData, At, ReaderWriterTypeOK
<1>6. write_sem' = 1 - Cardinality(Writing')
                     - (IF readcount' > 0 /\ WaitForData' = {} THEN 1 ELSE 0)
  BY <1>1, <1>3, <1>4, <1>5, CountsAreNat DEF R_GiveUp, RWCounts, ReaderWriterTypeOK
<1> QED
  BY <1>1, <1>6 DEF R_GiveUp, data, RWCounts

LEMMA AgainStep ==
    ASSUME RWInv, NEW r \in Readers, R_Again(r)
    PROVE  RWCounts'
<1> USE DEF RWInv
<1>1. /\ Cardinality(Counting') = Cardinality(Counting)
      /\ Cardinality(Sizing') = Cardinality(Sizing)
      /\ Cardinality(Inside') = Cardinality(Inside)
      /\ Writing' = Writing
  BY ReaderCounts, CountsAreNat DEF R_Again, One
<1>2. r \in Inside /\ r \in Sizing /\ r \in WaitForData
  BY DEF R_Again, Go, Inside, Sizing, WaitForData, At
<1>3. \A q \in WaitForData : q = r
  BY <1>2, RWExcludes DEF SizingAlone, Sizing, WaitForData, At
<1>4. readcount > 0
  BY <1>2, InsideCounts
<1>5. WaitForData' = {}
  BY <1>3 DEF R_Again, Go, WaitForData, At, ReaderWriterTypeOK
<1>6. write_sem' = 1 - Cardinality(Writing')
                     - (IF readcount' > 0 /\ WaitForData' = {} THEN 1 ELSE 0)
  BY <1>1, <1>2, <1>4, <1>5, CountsAreNat DEF R_Again, data, RWCounts, ReaderWriterTypeOK
<1> QED
  BY <1>1, <1>6 DEF R_Again, data, RWCounts

LEMMA WriterSteps ==
    ASSUME RWInv, NEW w \in Writers, WriterStep(w)
    PROVE  RWCounts'
<1> USE DEF RWInv
<1>0. ASSUME NEW from, NEW to, Go(w, from, to),
             NEW d \in {-1, 0, 1},
             d = One(to \in {"writing", "written"}) - One(from \in {"writing", "written"}),
             UNCHANGED <<count_sem, datasize_sem, readcount>>,
             write_sem' = write_sem - d
      PROVE  RWCounts'
  <2>1. /\ Cardinality(Writing') = Cardinality(Writing) + d
        /\ Counting' = Counting /\ Sizing' = Sizing /\ Inside' = Inside
        /\ WaitForData' = WaitForData
    <3>1. One(to \in {"writing", "written"}) \in Int /\ One(from \in {"writing", "written"}) \in Int
      BY DEF One
    <3> QED
      BY <1>0, <3>1, WriterCounts, CountsAreNat
  <2>2. /\ count_sem' = 1 - Cardinality(Counting')
        /\ datasize_sem' = 1 - Cardinality(Sizing')
        /\ readcount' = Cardinality(Inside')
    BY <1>0, <2>1 DEF RWCounts
  <2>3. write_sem' = 1 - Cardinality(Writing')
                       - (IF readcount' > 0 /\ WaitForData' = {} THEN 1 ELSE 0)
    BY <1>0, <2>1, CountsAreNat DEF RWCounts, ReaderWriterTypeOK
  <2> QED
    BY <2>2, <2>3 DEF RWCounts
<1>1. CASE W_Wait(w)
  BY <1>0, <1>1 DEF W_Wait, One, data, ReaderWriterTypeOK
<1>2. CASE W_Post(w)
  BY <1>0, <1>2 DEF W_Post, One, data, ReaderWriterTypeOK
<1>3. CASE W_Write(w)
  BY <1>0, <1>3 DEF W_Write, One, sems, ReaderWriterTypeOK
<1>4. CASE W_NoFlag(w) \/ W_PostData(w) \/ W_Clear(w)
  BY <1>0, <1>4 DEF W_NoFlag, W_PostData, W_Clear, One, sems, data, ReaderWriterTypeOK
<1> QED
  BY <1>1, <1>2, <1>3, <1>4 DEF WriterStep

-----------------------------------------------------------------------------
(* The data and the flag, step by step.                                    *)

LEMMA ReaderData ==
    ASSUME RWInv, NEW r \in Readers, ReaderStep(r)
    PROVE  RWData' /\ RWFlag' /\ OwnCode'
<1> USE DEF RWInv
<1>1. SizingAlone
  BY RWExcludes
<1>2. \A q \in Readers : pc[r] \in {"checking", "giveup", "nodata", "again", "checked"}
                         /\ pc[q] \in {"giveup", "nodata", "again"} => q = r
  BY <1>1 DEF SizingAlone, Sizing, At
<1>3. r \in Threads /\ r \notin Writers
  BY ReaderWriterAssumption
<1> USE DEF Go, ReaderWriterTypeOK, OwnCode, ReaderCode, WriterCode, sems, data
<1>4. OwnCode'
  BY <1>3 DEF ReaderStep, R_Count, R_Enter, R_WaitSize, R_HasData, R_NoData, R_GiveUp,
     R_WaitData, R_Again, R_PostSize, R_Leave
<1>5. CASE R_Count(r) \/ R_Enter(r) \/ R_WaitSize(r) \/ R_Leave(r)
  BY <1>3, <1>4, <1>5 DEF R_Count, R_Enter, R_WaitSize, R_Leave, RWData, RWFlag
<1>6. CASE R_HasData(r)
  BY <1>2, <1>3, <1>4, <1>6 DEF R_HasData, RWData, RWFlag
<1>7. CASE R_NoData(r)
  BY <1>2, <1>3, <1>4, <1>7 DEF R_NoData, RWData, RWFlag
<1>8. CASE R_GiveUp(r)
  BY <1>2, <1>3, <1>4, <1>8 DEF R_GiveUp, RWData, RWFlag
<1>9. CASE R_WaitData(r)
  BY <1>2, <1>3, <1>4, <1>9 DEF R_WaitData, RWData, RWFlag
<1>10. CASE R_Again(r)
  BY <1>2, <1>3, <1>4, <1>10 DEF R_Again, RWData, RWFlag
<1>11. CASE R_PostSize(r)
  BY <1>2, <1>3, <1>4, <1>11 DEF R_PostSize, RWData, RWFlag
<1> QED
  BY <1>5, <1>6, <1>7, <1>8, <1>9, <1>10, <1>11 DEF ReaderStep

LEMMA WriterData ==
    ASSUME RWInv, NEW w \in Writers, WriterStep(w)
    PROVE  RWData' /\ RWFlag' /\ OwnCode'
<1> USE DEF RWInv
<1>1. w \in Threads /\ w \notin Readers
  BY ReaderWriterAssumption
<1>2. \A r \in Readers : pc[r] = "giveup" => pc[w] # "writing"
  BY RWExcludes DEF GiveUpExcludes, Writing, At
<1> USE DEF Go, ReaderWriterTypeOK, OwnCode, ReaderCode, WriterCode, sems, data
<1>3. OwnCode'
  BY <1>1 DEF WriterStep, W_Wait, W_Write, W_Post, W_NoFlag, W_PostData, W_Clear
<1>4. CASE W_Wait(w) \/ W_Post(w) \/ W_NoFlag(w)
  BY <1>1, <1>3, <1>4 DEF W_Wait, W_Post, W_NoFlag, RWData, RWFlag
<1>5. CASE W_Write(w)
  <2>1. datasize' > 0
    BY <1>5, ReaderWriterAssumption DEF W_Write
  <2> QED
    BY <1>1, <1>2, <1>3, <1>5, <2>1 DEF W_Write, RWData, RWFlag
<1>6. CASE W_PostData(w)
  BY <1>1, <1>3, <1>6 DEF W_PostData, RWData, RWFlag
<1>7. CASE W_Clear(w)
  BY <1>1, <1>3, <1>7 DEF W_Clear, RWData, RWFlag
<1> QED
  BY <1>4, <1>5, <1>6, <1>7 DEF WriterStep

-----------------------------------------------------------------------------
(* The invariant holds.                                                    *)

LEMMA ReaderStepCounts ==
    ASSUME RWInv, NEW r \in Readers, ReaderStep(r)
    PROVE  RWCounts'
  BY CountStep, EnterStep, SizeSteps, GiveUpStep, AgainStep, LeaveStep DEF ReaderStep

LEMMA ReaderTypes ==
    ASSUME RWInv, NEW r \in Readers, ReaderStep(r)
    PROVE  ReaderWriterTypeOK'
<1> USE DEF RWInv
<1>1. PICK from, to \in ReaderCode \cup WriterCode : Go(r, from, to)
  BY DEF ReaderStep, R_Count, R_Enter, R_WaitSize, R_HasData, R_NoData, R_GiveUp,
     R_WaitData, R_Again, R_PostSize, R_Leave, ReaderCode
<1>2. count_sem' \in Nat /\ datasize_sem' \in Nat /\ data_sem' \in Nat
  BY DEF ReaderStep, R_Count, R_Enter, R_WaitSize, R_HasData, R_NoData, R_GiveUp,
     R_WaitData, R_Again, R_PostSize, R_Leave, ReaderWriterTypeOK, sems
<1>3. write_sem' \in Nat
  BY DEF ReaderStep, R_Count, R_Enter, R_WaitSize, R_HasData, R_NoData, R_GiveUp,
     R_WaitData, R_Again, R_PostSize, R_Leave, ReaderWriterTypeOK, sems
<1>4. datasize' \in 0..MaxData /\ flag' \in BOOLEAN
  <2>1. UNCHANGED datasize /\ (flag' = flag \/ flag' = TRUE)
    BY DEF ReaderStep, R_Count, R_Enter, R_WaitSize, R_HasData, R_NoData, R_GiveUp,
       R_WaitData, R_Again, R_PostSize, R_Leave, data
  <2> QED
    BY <2>1 DEF ReaderWriterTypeOK
<1> QED
  BY <1>1, <1>2, <1>3, <1>4, ReaderStepCounts, TypesNext

LEMMA WriterTypes ==
    ASSUME RWInv, NEW w \in Writers, WriterStep(w)
    PROVE  ReaderWriterTypeOK'
<1> USE DEF RWInv
<1>1. PICK from, to \in ReaderCode \cup WriterCode : Go(w, from, to)
  BY DEF WriterStep, W_Wait, W_Write, W_Post, W_NoFlag, W_PostData, W_Clear, WriterCode
<1>2. count_sem' \in Nat /\ datasize_sem' \in Nat /\ data_sem' \in Nat /\ write_sem' \in Nat
  BY DEF WriterStep, W_Wait, W_Write, W_Post, W_NoFlag, W_PostData, W_Clear,
     ReaderWriterTypeOK, sems
<1>3. datasize' \in 0..MaxData
  BY ReaderWriterAssumption
     DEF WriterStep, W_Wait, W_Write, W_Post, W_NoFlag, W_PostData, W_Clear,
         ReaderWriterTypeOK, data
<1>4. flag' \in BOOLEAN
  <2>1. flag' = flag \/ flag' = FALSE
    BY DEF WriterStep, W_Wait, W_Write, W_Post, W_NoFlag, W_PostData, W_Clear, data
  <2> QED
    BY <2>1 DEF ReaderWriterTypeOK
<1> QED
  BY <1>1, <1>2, <1>3, <1>4, WriterSteps, TypesNext

LEMMA RWCorrect == Spec => []RWInv
<1>1. ASSUME RWInv, Next PROVE RWInv'
  <2>1. \A r \in Readers : ReaderStep(r) => RWInv'
    BY <1>1, ReaderStepCounts, ReaderTypes, ReaderData DEF RWInv
  <2>2. \A w \in Writers : WriterStep(w) => RWInv'
    BY <1>1, WriterSteps, WriterTypes, WriterData DEF RWInv
  <2> QED
    BY <1>1, <2>1, <2>2 DEF Next
<1>2. RWInv /\ UNCHANGED vars => RWInv'
  BY DEF vars, sems, data, RWInv, ReaderWriterTypeOK, OwnCode, RWCounts, RWData, RWFlag,
     Counting, Sizing, Inside, Writing, WaitForData, At
<1> QED
  BY <1>1, <1>2, RWInit, PTL DEF Spec

(* reader and writer: nobody reads while the buffer is written, or empty,  *)
(* or while another reader has the group's write_sem given up.             *)
THEOREM ExclusionCorrect == Spec => []ReadersExcludeWriters
<1>1. RWInv => ReadersExcludeWriters
  BY InvExcludes
<1> QED
  BY <1>1, RWCorrect, PTL

(* write_sem is positive exactly when neither a writer nor the group of    *)
(* readers has it, whichever reader took it and whichever gives it back.   *)
THEOREM WriteSemCorrect == Spec => []WriteSemAccounted
<1>1. RWInv => WriteSemAccounted
  BY InvExcludes
<1> QED
  BY <1>1, RWCorrect, PTL

(* flag, which no semaphore guards: a reader that is to wait for data_sem  *)
(* is never forgotten.                                                     *)
THEOREM WakeupCorrect == Spec => []WakeupKept
<1>1. RWInv => WakeupKept
  BY InvExcludes
<1> QED
  BY <1>1, RWCorrect, PTL

-----------------------------------------------------------------------------
(* Nobody waits for ever for everybody else.                               *)

\* t waits for nothing, or for a semaphore that is positive.
CanGo(t) ==
    \/ pc[t] \in {"start", "reading"} /\ t \in Readers /\ count_sem > 0
    \/ pc[t] = "start" /\ t \in Writers /\ write_sem > 0
    \/ pc[t] = "entering" /\ (readcount = 0 => write_sem > 0)
    \/ pc[t] = "counted" /\ datasize_sem > 0
    \/ pc[t] = "nodata" /\ data_sem > 0
    \/ pc[t] = "again" /\ write_sem > 0
    \/ pc[t] \in {"checking", "giveup", "checked", "leaving",
                  "writing", "written", "posted", "clear"}

SomeoneCanGo == Writers # {} => \E t \in Threads : CanGo(t)

(* Five semaphores are waited for, some with others in hand: as long as    *)
(* there is a writer, one thread at least can go on.                       *)
THEOREM NeverAllBlocked == Spec => []SomeoneCanGo
<1>1. ASSUME RWInv PROVE SomeoneCanGo
  <2> SUFFICES ASSUME NEW w \in Writers, \A t \in Threads : ~CanGo(t)
               PROVE  FALSE
    BY DEF SomeoneCanGo
  <2>0. Readers \in SUBSET Threads /\ Writers \in SUBSET Threads
    OBVIOUS
  <2>1. \A v \in Writers : pc[v] = "start"
    BY <1>1 DEF RWInv, OwnCode, WriterCode, CanGo
  <2>2. Writing = {} /\ write_sem = 0
    BY <1>1, <2>1 DEF Writing, At, CanGo, RWInv, ReaderWriterTypeOK
  <2>3. readcount > 0 /\ WaitForData = {}
    BY <1>1, <2>2, FS_EmptySet DEF RWInv, RWCounts
  <2>4. \A r \in Readers : pc[r] \in {"start", "counted", "reading"}
    BY <1>1, <2>3 DEF RWInv, OwnCode, ReaderCode, CanGo, WaitForData, At
  <2>5. Counting = {} /\ Sizing = {}
    BY <2>4 DEF Counting, Sizing, At
  <2>6. count_sem = 1 /\ datasize_sem = 1
    BY <1>1, <2>5, FS_EmptySet DEF RWInv, RWCounts
  <2>7. Readers = {}
    BY <2>4, <2>6 DEF CanGo
  <2>8. Inside = {}
    BY <2>7 DEF Inside, At
  <2> QED
    BY <1>1, <2>3, <2>8, FS_EmptySet DEF RWInv, RWCounts
<1> QED
  BY <1>1, RWCorrect, PTL

=============================================================================
