---------------------------- MODULE ReaderWriter ----------------------------
(***************************************************************************)
(* The readers and the writer of src/process/semaphore/reader_writer/      *)
(* main.c, reader preference.  write_sem is held by the writer or by the   *)
(* readers as a group; the first reader that finds the buffer empty gives  *)
(* the group's write_sem up until the writer has posted data_sem.          *)
(*                                                                         *)
(* The text in buf is left out.  datasize is kept up to MaxData, where it  *)
(* stays: the code only tells 0 from the rest.  (It never stops growing;   *)
(* the write past buf_size that follows is not modelled.)                  *)
(***************************************************************************)
EXTENDS Integers, FiniteSets

CONSTANTS Readers, Writers,
          MaxData       \* bound: datasize is told apart up to here

ASSUME ReaderWriterAssumption ==
    /\ IsFiniteSet(Readers) /\ IsFiniteSet(Writers) /\ Readers \cap Writers = {}
    /\ MaxData \in Nat \ {0}

VARIABLES count_sem, write_sem, data_sem, datasize_sem,
          datasize, readcount, flag, pc

sems == <<count_sem, write_sem, data_sem, datasize_sem>>
data == <<datasize, readcount, flag>>
vars == <<sems, data, pc>>

Init ==
    /\ count_sem = 1 /\ write_sem = 1 /\ data_sem = 0 /\ datasize_sem = 1
    /\ datasize = 0 /\ readcount = 0 /\ flag = FALSE
    /\ pc = [t \in Readers \cup Writers |-> "start"]

Go(t, from, to) == pc[t] = from /\ pc' = [pc EXCEPT ![t] = to]
At(S, labels) == {t \in S : pc[t] \in labels}

-----------------------------------------------------------------------------
(* reader *)

R_Count(r) ==
    /\ count_sem > 0 /\ count_sem' = count_sem - 1
    /\ Go(r, "start", "entering") \/ Go(r, "reading", "leaving")
    /\ UNCHANGED <<write_sem, data_sem, datasize_sem, data>>

\* The first reader waits for the writer, with count_sem in its hands.
R_Enter(r) ==
    /\ Go(r, "entering", "counted")
    /\ readcount = 0 => write_sem > 0
    /\ write_sem' = write_sem - (IF readcount = 0 THEN 1 ELSE 0)
    /\ readcount' = readcount + 1
    /\ count_sem' = count_sem + 1
    /\ UNCHANGED <<data_sem, datasize_sem, datasize, flag>>

R_WaitSizeFaulty(r) ==                        \* forgets datasize_sem
    /\ Go(r, "counted", "checking")
    /\ UNCHANGED <<sems, data>>
R_WaitSize(r) ==
    /\ datasize_sem > 0 /\ datasize_sem' = datasize_sem - 1
    /\ Go(r, "counted", "checking")
    /\ UNCHANGED <<count_sem, write_sem, data_sem, data>>

R_HasData(r) ==
    /\ datasize # 0
    /\ Go(r, "checking", "checked")
    /\ UNCHANGED <<sems, data>>

R_NoDataFaulty(r) ==                          \* forgets the flag
    /\ datasize = 0
    /\ Go(r, "checking", "giveup")
    /\ UNCHANGED <<sems, data>>
R_NoData(r) ==
    /\ datasize = 0
    /\ Go(r, "checking", "giveup")
    /\ flag' = TRUE
    /\ UNCHANGED <<sems, datasize, readcount>>

R_GiveUp(r) ==
    /\ Go(r, "giveup", "nodata")
    /\ write_sem' = write_sem + 1
    /\ UNCHANGED <<count_sem, data_sem, datasize_sem, data>>

R_WaitData(r) ==
    /\ data_sem > 0 /\ data_sem' = data_sem - 1
    /\ Go(r, "nodata", "again")
    /\ UNCHANGED <<count_sem, write_sem, datasize_sem, data>>

R_AgainFaulty(r) ==                           \* forgets to take write_sem back
    /\ Go(r, "again", "checked")
    /\ UNCHANGED <<sems, data>>
R_Again(r) ==
    /\ write_sem > 0 /\ write_sem' = write_sem - 1
    /\ Go(r, "again", "checked")
    /\ UNCHANGED <<count_sem, data_sem, datasize_sem, data>>

R_PostSize(r) ==
    /\ Go(r, "checked", "reading")
    /\ datasize_sem' = datasize_sem + 1
    /\ UNCHANGED <<count_sem, write_sem, data_sem, data>>

\* Has read the buffer; the last reader lets the writer in.
R_Leave(r) ==
    /\ Go(r, "leaving", "start")
    /\ readcount' = readcount - 1
    /\ write_sem' = write_sem + (IF readcount = 1 THEN 1 ELSE 0)
    /\ count_sem' = count_sem + 1
    /\ UNCHANGED <<data_sem, datasize_sem, datasize, flag>>

-----------------------------------------------------------------------------
(* writer *)

W_Wait(w) ==
    /\ write_sem > 0 /\ write_sem' = write_sem - 1
    /\ Go(w, "start", "writing")
    /\ UNCHANGED <<count_sem, data_sem, datasize_sem, data>>

W_Write(w) ==
    /\ Go(w, "writing", "written")
    /\ datasize' = IF datasize < MaxData THEN datasize + 1 ELSE datasize
    /\ UNCHANGED <<sems, readcount, flag>>

W_Post(w) ==
    /\ Go(w, "written", "posted")
    /\ write_sem' = write_sem + 1
    /\ UNCHANGED <<count_sem, data_sem, datasize_sem, data>>

\* flag is read and cleared with no semaphore held.
W_NoFlag(w) ==
    /\ ~flag
    /\ Go(w, "posted", "start")
    /\ UNCHANGED <<sems, data>>

W_PostData(w) ==
    /\ flag
    /\ Go(w, "posted", "clear")
    /\ data_sem' = data_sem + 1
    /\ UNCHANGED <<count_sem, write_sem, datasize_sem, data>>

W_Clear(w) ==
    /\ Go(w, "clear", "start")
    /\ flag' = FALSE
    /\ UNCHANGED <<sems, datasize, readcount>>

-----------------------------------------------------------------------------
ReaderStep(r) ==
    \/ R_Count(r) \/ R_Enter(r) \/ R_WaitSize(r) \/ R_HasData(r) \/ R_NoData(r)
    \/ R_GiveUp(r) \/ R_WaitData(r) \/ R_Again(r) \/ R_PostSize(r) \/ R_Leave(r)

WriterStep(w) ==
    \/ W_Wait(w) \/ W_Write(w) \/ W_Post(w) \/ W_NoFlag(w) \/ W_PostData(w)
    \/ W_Clear(w)

Next ==
    \/ \E r \in Readers : ReaderStep(r)
    \/ \E w \in Writers : WriterStep(w)

Spec == Init /\ [][Next]_vars

(* The loops have no end.  A thread that keeps finding a semaphore it      *)
(* waits for positive now and then gets it.                                *)
FairSpec ==
    /\ Spec
    /\ \A r \in Readers : SF_vars(ReaderStep(r))
    /\ \A w \in Writers : SF_vars(WriterStep(w))

-----------------------------------------------------------------------------
(* Properties *)

ReaderWriterTypeOK ==
    /\ count_sem \in 0..1 /\ write_sem \in 0..1 /\ datasize_sem \in 0..1
    /\ data_sem \in Nat /\ datasize \in 0..MaxData
    /\ readcount \in Nat /\ flag \in BOOLEAN
    /\ pc \in [Readers \cup Writers ->
                  {"start", "entering", "counted", "checking", "giveup", "nodata",
                   "again", "checked", "reading", "leaving",
                   "writing", "written", "posted", "clear"}]

Writing == At(Writers, {"writing", "written"})
Reading == At(Readers, {"reading"})
\* Readers inside that have given the group's write_sem up for now.
WaitForData == At(Readers, {"nodata", "again"})

(* Whoever reads the buffer finds data in it, no writer at it and no other *)
(* reader waiting for data, however the giving up of write_sem by one      *)
(* reader falls among the comings and goings of the others; and no two     *)
(* writers write at once.                                                  *)
ReadersExcludeWriters ==
    /\ Reading # {} => Writing = {} /\ WaitForData = {} /\ datasize > 0
    /\ \A v, w \in Writing : v = w

(* write_sem is taken by a writer that writes, or else once for all the    *)
(* readers inside, unless one of them has given it up to wait for data.    *)
WriteSemAccounted ==
    /\ ReaderWriterTypeOK
    /\ write_sem = 1 - Cardinality(Writing)
                     - (IF readcount > 0 /\ WaitForData = {} THEN 1 ELSE 0)

(* The flag is set, read and cleared without a lock, and still nobody is   *)
(* forgotten: a reader that is to wait for data finds the flag up until a  *)
(* writer has posted data_sem for it.                                      *)
WakeupKept ==
    At(Readers, {"giveup", "nodata"}) # {} => flag \/ data_sem > 0

(* Every reader gets to read, although the handshake about an empty buffer *)
(* goes over a flag that is read, set and cleared without a lock.          *)
ReadersServed == \A r \in Readers : []<>(pc[r] = "reading")

=============================================================================
