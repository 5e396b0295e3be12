---------------------------- MODULE Servers_proofs ----------------------------
(***************************************************************************)
(* Theorems about the servers on EchoNet: the two reactors, then the four  *)
(* of EchoServers, for every number of clients, slots and bytes.           *)
(*                                                                         *)
(* ReactorsInv puts together what the table, epoll, the connections and    *)
(* the batch of events say of each other.  Both reactors change them in    *)
(* four ways, a lemma for each: a slot is registered again, closed, or     *)
(* given to a new connection, or the process ends.                         *)
(*                                                                         *)
(* EchoInv says the same of the table, the count retfd and what epoll has  *)
(* reported, and of the few descriptors that select can watch; it has a    *)
(* lemma for each step of the four loops.                                  *)
(***************************************************************************)
EXTENDS Reactors, EchoServers, EchoNet_proofs, SequenceTheorems

USE DEF serverVars, netVars, ownVars

SlotRecord == [fd : FDs, events : Events, status : 0..1, len : 0..BUFLEN,
               call_back : {"none", "acceptconn", "recvdata", "senddata"},
               from : Clients \cup {NoClient}]

\* A slot of a connection waits for its bytes or for room to send them.
Serves(e) ==
    \/ e.events = "in" /\ e.call_back = "recvdata"
    \/ e.events = "out" /\ e.call_back = "senddata"

SlotsRight ==
    /\ \A s \in Slots \ {Listener} :
          slot[s].status = 1 => slot[s].fd \in Open /\ Serves(slot[s])
    /\ slot[Listener].status = 1 =>
          /\ slot[Listener].fd = lfd /\ slot[Listener].events = "in"
          /\ slot[Listener].call_back = "acceptconn"
    /\ ~exited => slot[Listener].status = 1

\* Who was refused does not come again.
RefusedGone ==
    \A c \in refused : phase[c] # "away" /\ \A k \in 1..Len(backlog) : backlog[k] # c

\* What was reported is still to be had when its callback is called.
BatchReady == \A k \in 1..Len(batch) : batch[k].events = "in" => Readable(batch[k].fd)

Ended == exited => batch = <<>> /\ \A f \in FDs : epoll[f] = Off

OwnTypes == version \in Versions /\ exited \in BOOLEAN

ReactorsInv ==
    /\ OwnTypes /\ NetInv /\ TableAgreesWithEpoll /\ SlotsRight /\ RefusedGone
    /\ BatchIsFresh /\ BatchReady /\ EchoIsOwn /\ Ended /\ ExitsForCause

LEMMA SlotsAre ==
    /\ Listener \in Slots /\ Slots \subseteq Nat /\ IsFiniteSet(Slots)
    /\ IsFiniteSet(Slots \ {Listener}) /\ Cardinality(Slots \ {Listener}) = MAX_EVENTS
<1>1. MAX_EVENTS \in Nat \ {0} /\ Slots = 0..MAX_EVENTS /\ 0 \in Int /\ MAX_EVENTS \in Int
  BY ReactorAssumption DEF Slots
<1>2. IsFiniteSet(Slots) /\ Cardinality(Slots) = MAX_EVENTS + 1
  BY <1>1, FS_Interval
<1>3. Listener \in Slots /\ Slots \subseteq Nat
  BY <1>1 DEF Listener
<1>4. IsFiniteSet(Slots \ {Listener}) /\ Cardinality(Slots \ {Listener}) = Cardinality(Slots) - 1
  BY <1>2, <1>3, FS_RemoveElement
<1> QED
  BY <1>1, <1>2, <1>3, <1>4

LEMMA ReactorsInitInv == ReactorsInit => ReactorsInv
<1> SUFFICES ASSUME ReactorsInit PROVE ReactorsInv
  OBVIOUS
<1> USE DEF ReactorsInit, Init
<1>1. NetInv /\ NetTypeOK
  BY NetInitInv DEF NetInv
<1>2. slot \in [Slots -> SlotRecord]
  <2>1. Cleared \in SlotRecord
    <3>1. lfd \in FDs /\ 0 \in 0..1 /\ 0 \in 0..BUFLEN
      BY FDsAre, ReactorAssumption
    <3> QED
      BY <3>1 DEF Cleared, SlotRecord, Events
  <2>2. [Cleared EXCEPT !.events = "in", !.call_back = "acceptconn", !.status = 1] \in SlotRecord
    <3>1. 1 \in 0..1
      OBVIOUS
    <3> QED
      BY <2>1, <3>1 DEF SlotRecord, Events
  <2> QED
    BY <2>1, <2>2
<1>3. epoll \in [FDs -> [ptr : Slots, events : Events]]
  BY SlotsAre, ReactorAssumption DEF Off, Events, Slots
<1>4. ReactorTypeOK
  BY <1>1, <1>2, <1>3 DEF ReactorTypeOK, SlotRecord
<1>5. \A s \in Slots \ {Listener} : slot[s].status = 0
  BY DEF Cleared
<1>6. /\ slot[Listener].status = 1 /\ slot[Listener].fd = lfd
      /\ slot[Listener].events = "in" /\ slot[Listener].call_back = "acceptconn"
  BY SlotsAre DEF Cleared
<1>7. epoll[lfd] = [ptr |-> Listener, events |-> "in"] /\ \A f \in FDs \ {lfd} : epoll[f] = Off
  BY FDsAre
<1>8. Registered = {lfd} /\ Open = {}
  BY <1>7, FDsAre DEF Registered, Open, Off, NetInit
<1>9. TableAgreesWithEpoll
  BY <1>4, <1>5, <1>6, <1>7, <1>8 DEF TableAgreesWithEpoll
<1>10. SlotsRight /\ EchoIsOwn
  BY <1>5, <1>6 DEF SlotsRight, EchoIsOwn
<1>11. BatchIsFresh /\ BatchReady /\ RefusedGone
  <2>1. 1..Len(batch) = {} /\ refused = {}
    OBVIOUS
  <2> QED
    BY <2>1 DEF BatchIsFresh, BatchReady, RefusedGone
<1>12. OwnTypes /\ Ended /\ ExitsForCause
  BY DEF OwnTypes, Ended, ExitsForCause
<1> QED
  BY <1>1, <1>9, <1>10, <1>11, <1>12 DEF ReactorsInv

LEMMA BatchTyped ==
    ASSUME ReactorTypeOK
    PROVE  \A k \in 1..Len(batch) : batch[k] \in [ptr : Slots, events : Events, fd : FDs]
                                   /\ batch[k].ptr \in Slots /\ batch[k].fd \in FDs
<1>1. batch \in Seq([ptr : Slots, events : Events, fd : FDs])
  BY DEF ReactorTypeOK
<1>2. \A k \in 1..Len(batch) : batch[k] \in [ptr : Slots, events : Events, fd : FDs]
  BY <1>1, ElementOfSeq
<1> QED
  BY <1>2

-----------------------------------------------------------------------------
(* epoll_wait and the clients *)

\* Events come from different descriptors, and so from different slots.
LEMMA WaitStep ==
    ASSUME ReactorsInv, epoll_wait, UNCHANGED ownVars
    PROVE  ReactorsInv'
<1> USE DEF ReactorsInv
<1>1. /\ Ready # {} /\ UNCHANGED <<slot, epoll, refused, conn, backlog, phase, inbox>>
      /\ version' = version /\ exited' = exited
  BY DEF epoll_wait
<1>2. \A r \in Ready : /\ r \in [ptr : Slots, events : Events, fd : FDs]
                       /\ epoll[r.fd] # Off /\ ReadyOn(r.fd)
                       /\ r.ptr = epoll[r.fd].ptr /\ r.events = epoll[r.fd].events
  BY DEF Ready, TableAgreesWithEpoll, ReactorTypeOK
<1>3. \A r \in Ready : /\ slot[r.ptr].status = 1 /\ slot[r.ptr].fd = r.fd
                       /\ slot[r.ptr].events = r.events
  <2> SUFFICES ASSUME NEW r \in Ready
               PROVE  /\ slot[r.ptr].status = 1 /\ slot[r.ptr].fd = r.fd
                      /\ slot[r.ptr].events = r.events
    OBVIOUS
  <2>1. r.fd \in Registered /\ r.ptr \in Slots /\ r.ptr = epoll[r.fd].ptr
        /\ r.events = epoll[r.fd].events
    BY <1>2 DEF Registered
  <2>2. slot[r.ptr].status = 1 /\ slot[r.ptr].fd = r.fd
    BY <2>1 DEF TableAgreesWithEpoll
  <2>3. epoll[r.fd] = [ptr |-> r.ptr, events |-> slot[r.ptr].events]
    BY <2>1, <2>2 DEF TableAgreesWithEpoll
  <2> QED
    BY <2>1, <2>2, <2>3
<1>4. Cardinality(Ready) \in Nat
  <2> DEFINE g == [r \in Ready |-> r.fd]
  <2>1. \A r, q \in Ready : r.fd = q.fd => r = q
    BY DEF Ready
  <2>2. g \in Injection(Ready, FDs)
    BY <1>2, <2>1 DEF Injection, IsInjective
  <2> QED
    BY <2>2, FDsAre, FS_Injection, FS_CardinalityType
<1>5. batch' \in Seq(Ready) /\ \A i, j \in 1..Len(batch') : i # j => batch'[i] # batch'[j]
  BY <1>4 DEF epoll_wait, SetToSeqs
<1>6. \A k \in 1..Len(batch') : batch'[k] \in Ready
  BY <1>5
<1>7. ReactorTypeOK'
  <2>1. batch' \in Seq([ptr : Slots, events : Events, fd : FDs])
    <3>1. Ready \subseteq [ptr : Slots, events : Events, fd : FDs]
      BY <1>2
    <3> QED
      BY <1>5, <3>1, SeqMonotonic
  <2> QED
    BY <1>1, <2>1 DEF TableAgreesWithEpoll, ReactorTypeOK, NetTypeOK
<1>8. BatchIsFresh'
  <2>1. ASSUME NEW i \in 1..Len(batch'), NEW j \in 1..Len(batch'), i # j
        PROVE  batch'[i].ptr # batch'[j].ptr
    <3>1. batch'[i] \in Ready /\ batch'[j] \in Ready /\ batch'[i] # batch'[j]
      BY <1>5, <1>6, <2>1
    <3>2. batch'[i].fd # batch'[j].fd
      BY <3>1 DEF Ready
    <3> QED
      BY <1>3, <3>1, <3>2
  <2> QED
    BY <1>1, <1>3, <1>6, <2>1 DEF BatchIsFresh
<1>9. BatchReady'
  <2>1. \A f \in FDs : Readable(f)' = Readable(f)
    BY <1>1 DEF Readable, Open
  <2> QED
    BY <1>2, <1>6, <2>1 DEF BatchReady, ReadyOn
<1>10. exited = FALSE
  BY <1>1, <1>2 DEF Ended, OwnTypes
<1>11. TableAgreesWithEpoll' /\ SlotsRight' /\ EchoIsOwn'
  BY <1>1, <1>7 DEF TableAgreesWithEpoll, SlotsRight, EchoIsOwn, Registered, Open
<1>12. NetInv' /\ RefusedGone'
  BY <1>1 DEF NetInv, NetTypeOK, RefusedGone
<1> QED
  BY <1>1, <1>8, <1>9, <1>10, <1>11, <1>12 DEF OwnTypes, Ended, ExitsForCause

\* What the clients do takes nothing away from what was reported.
LEMMA ClientStep ==
    ASSUME ReactorsInv, NEW c \in Clients, ~exited, ClientActs(c), UNCHANGED ownVars
    PROVE  ReactorsInv'
<1> USE DEF ReactorsInv
<1>1. /\ UNCHANGED <<slot, epoll, batch, refused, conn>>
      /\ version' = version /\ exited' = exited
  BY DEF ClientActs, Connect, SendByte, Leave
<1>2. NetInv' /\ NetTypeOK'
  BY ClientNet DEF ClientActs, NetInv
<1>3. ReactorTypeOK'
  BY <1>1, <1>2 DEF TableAgreesWithEpoll, ReactorTypeOK
<1>4. TableAgreesWithEpoll' /\ SlotsRight' /\ EchoIsOwn' /\ BatchIsFresh'
  BY <1>1, <1>3 DEF TableAgreesWithEpoll, SlotsRight, EchoIsOwn, BatchIsFresh, Registered, Open
<1>5. \A f \in FDs : Readable(f) => Readable(f)'
  <2>1. backlog # <<>> => backlog' # <<>>
    BY DEF ClientActs, Connect, SendByte, Leave, NetInv, NetTypeOK
  <2>2. \A d \in Clients : /\ inbox[d] > 0 => inbox'[d] > 0
                           /\ phase[d] = "left" => phase'[d] = "left"
    BY DEF ClientActs, Connect, SendByte, Leave, NetInv, NetTypeOK
  <2>3. \A f \in Open : conn[f] \in Clients
    BY DEF Open, NetInv, NetTypeOK
  <2> QED
    BY <1>1, <2>1, <2>2, <2>3 DEF Readable, Open
<1>6. BatchReady'
  <2>1. \A k \in 1..Len(batch) : batch[k].fd \in FDs
    BY BatchTyped DEF TableAgreesWithEpoll
  <2> QED
    BY <1>1, <1>5, <2>1 DEF BatchReady
<1>7. RefusedGone'
  <2> SUFFICES ASSUME NEW d \in refused
               PROVE  phase'[d] # "away" /\ \A k \in 1..Len(backlog') : backlog'[k] # d
    BY <1>1 DEF RefusedGone
  <2>1. d \in Clients /\ phase[d] # "away" /\ \A k \in 1..Len(backlog) : backlog[k] # d
    BY DEF RefusedGone, TableAgreesWithEpoll, ReactorTypeOK
  <2>2. phase \in [Clients -> {"away", "here", "left"}] /\ backlog \in Seq(Clients)
    BY DEF NetInv, NetTypeOK
  <2>3. phase'[d] # "away"
    BY <2>1, <2>2 DEF ClientActs, Connect, SendByte, Leave
  <2>4. CASE Connect(c)
    <3>1. backlog' = Append(backlog, c) /\ c # d
      BY <2>1, <2>4 DEF Connect
    <3> QED
      BY <2>1, <2>2, <2>3, <3>1
  <2>5. CASE backlog' = backlog
    BY <2>1, <2>3, <2>5
  <2> QED
    BY <2>4, <2>5 DEF ClientActs, SendByte, Leave
<1> QED
  BY <1>1, <1>2, <1>4, <1>6, <1>7 DEF OwnTypes, Ended, ExitsForCause

-----------------------------------------------------------------------------
(* The next event, and what taking it off the batch leaves *)

LEMMA HeadOfBatch ==
    ASSUME ReactorsInv, batch # <<>>
    PROVE  LET b == Head(batch)
           IN  /\ ~exited /\ b = batch[1] /\ 1 \in 1..Len(batch)
               /\ b.ptr \in Slots /\ b.fd \in FDs
               /\ slot[b.ptr].status = 1 /\ slot[b.ptr].events = b.events
               /\ slot[b.ptr].fd = b.fd
               /\ b.events = "in" => Readable(b.fd)
               /\ slot[b.ptr] \in SlotRecord
<1> USE DEF ReactorsInv
<1>1. ReactorTypeOK /\ batch \in Seq([ptr : Slots, events : Events, fd : FDs])
  BY DEF TableAgreesWithEpoll, ReactorTypeOK
<1>2. Head(batch) = batch[1] /\ 1 \in 1..Len(batch)
  BY <1>1
<1>3. batch[1].ptr \in Slots /\ batch[1].fd \in FDs
  BY <1>1, <1>2, BatchTyped
<1>4. slot[batch[1].ptr] \in SlotRecord
  BY <1>1, <1>3 DEF ReactorTypeOK, SlotRecord
<1>5. ~exited
  BY DEF Ended
<1> QED
  BY <1>2, <1>3, <1>4, <1>5 DEF BatchIsFresh, BatchReady

LEMMA RestOfBatch ==
    ASSUME ReactorsInv, batch # <<>>, batch' = Tail(batch)
    PROVE  /\ batch' \in Seq([ptr : Slots, events : Events, fd : FDs])
           /\ \A k \in 1..Len(batch') :
                 /\ k + 1 \in 1..Len(batch) /\ batch'[k] = batch[k + 1]
                 /\ batch'[k].ptr \in Slots /\ batch'[k].ptr # Head(batch).ptr
                 /\ batch'[k].fd \in FDs /\ batch'[k].fd # Head(batch).fd
<1> USE DEF ReactorsInv
<1>1. ReactorTypeOK /\ batch \in Seq([ptr : Slots, events : Events, fd : FDs])
  BY DEF TableAgreesWithEpoll, ReactorTypeOK
<1>2. /\ batch' \in Seq([ptr : Slots, events : Events, fd : FDs])
      /\ \A k \in 1..Len(batch') : k + 1 \in 1..Len(batch) /\ batch'[k] = batch[k + 1]
                                /\ k + 1 # 1
  BY <1>1
<1>3. Head(batch) = batch[1] /\ 1 \in 1..Len(batch)
  BY <1>1
<1>4. ASSUME NEW k \in 1..Len(batch')
      PROVE  /\ batch'[k].ptr \in Slots /\ batch'[k].ptr # Head(batch).ptr
             /\ batch'[k].fd \in FDs /\ batch'[k].fd # Head(batch).fd
  <2> DEFINE b == batch[k + 1]
  <2>1. /\ k + 1 \in 1..Len(batch) /\ batch'[k] = b
        /\ b.ptr \in Slots /\ b.fd \in FDs /\ b.ptr # batch[1].ptr
    BY <1>1, <1>2, <1>3, BatchTyped DEF BatchIsFresh
  <2>2. /\ slot[b.ptr].status = 1 /\ slot[b.ptr].fd = b.fd
        /\ slot[batch[1].ptr].status = 1 /\ slot[batch[1].ptr].fd = batch[1].fd
        /\ batch[1].ptr \in Slots
    BY <1>1, <1>3, <2>1, BatchTyped DEF BatchIsFresh
  <2>3. epoll[b.fd].ptr = b.ptr /\ epoll[batch[1].fd].ptr = batch[1].ptr
    <3>1. ASSUME NEW t \in Slots, slot[t].status = 1
          PROVE  epoll[slot[t].fd].ptr = t
      <4>1. epoll[slot[t].fd] = [ptr |-> t, events |-> slot[t].events]
        BY <3>1 DEF TableAgreesWithEpoll
      <4> QED
        BY <4>1
    <3> HIDE DEF b
    <3>2. epoll[slot[b.ptr].fd].ptr = b.ptr
      BY <2>1, <2>2, <3>1
    <3>3. epoll[slot[batch[1].ptr].fd].ptr = batch[1].ptr
      BY <2>2, <3>1
    <3> QED
      BY <2>2, <3>2, <3>3
  <2> QED
    BY <1>3, <2>1, <2>3
<1> QED
  BY <1>2, <1>4

\* The slots of the rest of the batch and their connections are left alone.
LEMMA RestKept ==
    ASSUME ReactorsInv, batch # <<>>, batch' = Tail(batch),
           \A s \in Slots : slot[s].status = 1 /\ s # Head(batch).ptr => slot'[s] = slot[s],
           \A f \in FDs : f # Head(batch).fd /\ Readable(f) => Readable(f)'
    PROVE  BatchIsFresh' /\ BatchReady'
<1> USE DEF ReactorsInv
<1>1. \A k \in 1..Len(batch') : /\ slot'[batch'[k].ptr] = slot[batch'[k].ptr]
                               /\ k + 1 \in 1..Len(batch) /\ batch'[k] = batch[k + 1]
  BY RestOfBatch DEF BatchIsFresh
<1>2. BatchIsFresh'
  <2> SUFFICES ASSUME NEW k \in 1..Len(batch')
               PROVE  /\ slot'[batch'[k].ptr].status = 1
                      /\ slot'[batch'[k].ptr].events = batch'[k].events
                      /\ slot'[batch'[k].ptr].fd = batch'[k].fd
                      /\ \A j \in 1..Len(batch') : j # k => batch'[j].ptr # batch'[k].ptr
    BY DEF BatchIsFresh
  <2>1. /\ slot'[batch'[k].ptr].status = 1
        /\ slot'[batch'[k].ptr].events = batch'[k].events
        /\ slot'[batch'[k].ptr].fd = batch'[k].fd
    <3>1. k + 1 \in 1..Len(batch) /\ batch'[k] = batch[k + 1]
          /\ slot'[batch'[k].ptr] = slot[batch'[k].ptr]
      BY <1>1
    <3>2. /\ slot[batch[k + 1].ptr].status = 1
          /\ slot[batch[k + 1].ptr].events = batch[k + 1].events
          /\ slot[batch[k + 1].ptr].fd = batch[k + 1].fd
      BY <3>1 DEF BatchIsFresh
    <3> QED
      BY <3>1, <3>2
  <2>2. ASSUME NEW j \in 1..Len(batch'), j # k
        PROVE  batch'[j].ptr # batch'[k].ptr
    <3>1. j + 1 # k + 1
      BY <2>2
    <3>2. j + 1 \in 1..Len(batch) /\ k + 1 \in 1..Len(batch)
      BY <1>1
    <3>3. batch[j + 1].ptr # batch[k + 1].ptr
      BY <3>1, <3>2 DEF BatchIsFresh
    <3> QED
      BY <1>1, <3>3
  <2> QED
    BY <2>1, <2>2
<1>3. BatchReady'
  BY <1>1, RestOfBatch DEF BatchReady
<1> QED
  BY <1>2, <1>3

-----------------------------------------------------------------------------
(* What the callbacks do to the table *)

\* The first two parts of TableAgreesWithEpoll.
SlotsPoint ==
    \A s \in Slots : slot[s].status = 1 =>
        epoll[slot[s].fd] = [ptr |-> s, events |-> slot[s].events]
EpollPoints ==
    \A f \in FDs : epoll[f] # Off =>
        epoll[f].ptr \in Slots /\ slot[epoll[f].ptr].status = 1 /\ slot[epoll[f].ptr].fd = f

LEMMA TableFacts ==
    ASSUME ReactorsInv
    PROVE  /\ SlotsPoint /\ EpollPoints
           /\ slot \in [Slots -> SlotRecord]
           /\ epoll \in [FDs -> [ptr : Slots, events : Events]]
           /\ conn \in [FDs -> Clients \cup {NoClient}]
           /\ \A f \in FDs : epoll[f] # Off <=>
                 (f = lfd /\ ~exited) \/ (f \in Open /\ conn[f] \notin refused)
<1>1. ReactorTypeOK /\ SlotsPoint
  BY DEF ReactorsInv, TableAgreesWithEpoll, SlotsPoint
<1>2. EpollPoints
  BY <1>1 DEF ReactorsInv, TableAgreesWithEpoll, EpollPoints, ReactorTypeOK, Registered
<1>3. epoll[lfd] # Off <=> ~exited
  <2>1. CASE exited
    BY <2>1, FDsAre DEF ReactorsInv, Ended
  <2>2. CASE ~exited
    <3>1. slot[Listener].status = 1 /\ slot[Listener].fd = lfd /\ slot[Listener].events = "in"
      BY <2>2 DEF ReactorsInv, SlotsRight
    <3>2. epoll[lfd] = [ptr |-> Listener, events |-> "in"]
      BY <1>1, <3>1, SlotsAre DEF SlotsPoint
    <3> QED
      BY <2>2, <3>2 DEF Off
  <2> QED
    BY <2>1, <2>2
<1>4. \A f \in FDs \ {lfd} : epoll[f] # Off <=> f \in Open /\ conn[f] \notin refused
  BY DEF ReactorsInv, TableAgreesWithEpoll, Registered
<1>5. lfd \notin Open
  BY DEF Open
<1>6. /\ slot \in [Slots -> SlotRecord] /\ epoll \in [FDs -> [ptr : Slots, events : Events]]
      /\ conn \in [FDs -> Clients \cup {NoClient}]
  BY <1>1 DEF ReactorTypeOK, SlotRecord, NetTypeOK
<1>7. \A f \in FDs : epoll[f] # Off <=>
         (f = lfd /\ ~exited) \/ (f \in Open /\ conn[f] \notin refused)
  <2> SUFFICES ASSUME NEW f \in FDs
               PROVE  epoll[f] # Off <=>
                        (f = lfd /\ ~exited) \/ (f \in Open /\ conn[f] \notin refused)
    OBVIOUS
  <2>1. CASE f = lfd
    BY <1>3, <1>5, <2>1
  <2>2. CASE f # lfd
    BY <1>4, <2>2
  <2> QED
    BY <2>1, <2>2
<1> QED
  BY <1>1, <1>2, <1>6, <1>7

\* A slot of its own is registered, for the first time or once more.
Registers(s, e) ==
    /\ slot' = [slot EXCEPT ![s] = e]
    /\ epoll' = [epoll EXCEPT ![e.fd] = [ptr |-> s, events |-> e.events]]

LEMMA RegistersTable ==
    ASSUME ReactorsInv, NEW s \in Slots, NEW e \in SlotRecord, Registers(s, e),
           e.status = 1, Serves(e), slot[s].status = 1 => slot[s].fd = e.fd,
           \A t \in Slots \ {s} : slot[t].status = 1 => slot[t].fd # e.fd
    PROVE  /\ SlotsPoint' /\ EpollPoints'
           /\ slot' \in [Slots -> SlotRecord]
           /\ epoll' \in [FDs -> [ptr : Slots, events : Events]]
           /\ slot'[s] = e /\ \A t \in Slots \ {s} : slot'[t] = slot[t]
           /\ \A f \in FDs : epoll'[f] # Off <=> epoll[f] # Off \/ f = e.fd
<1>1. /\ SlotsPoint /\ EpollPoints /\ slot \in [Slots -> SlotRecord]
      /\ epoll \in [FDs -> [ptr : Slots, events : Events]]
  BY TableFacts
<1>2. e.fd \in FDs /\ e.events \in Events /\ e.events # "none"
  BY DEF SlotRecord, Serves
<1>3. /\ slot' \in [Slots -> SlotRecord] /\ epoll' \in [FDs -> [ptr : Slots, events : Events]]
  BY <1>1, <1>2 DEF Registers
<1>4. slot'[s] = e /\ \A t \in Slots \ {s} : slot'[t] = slot[t]
  BY <1>1 DEF Registers
<1>5. /\ epoll'[e.fd] = [ptr |-> s, events |-> e.events] /\ epoll'[e.fd] # Off
      /\ \A f \in FDs \ {e.fd} : epoll'[f] = epoll[f]
  BY <1>1, <1>2 DEF Registers, Off
<1>6. SlotsPoint'
  <2> SUFFICES ASSUME NEW t \in Slots, slot'[t].status = 1
               PROVE  epoll'[slot'[t].fd] = [ptr |-> t, events |-> slot'[t].events]
    BY DEF SlotsPoint
  <2>1. CASE t = s
    BY <1>4, <1>5, <2>1
  <2>2. CASE t # s
    <3>1. slot'[t] = slot[t] /\ slot[t].status = 1 /\ slot[t].fd # e.fd /\ slot[t].fd \in FDs
      BY <1>1, <1>4, <2>2 DEF SlotRecord
    <3>2. epoll[slot[t].fd] = [ptr |-> t, events |-> slot[t].events]
      BY <1>1, <3>1 DEF SlotsPoint
    <3> QED
      BY <1>5, <3>1, <3>2
  <2> QED
    BY <2>1, <2>2
<1>7. EpollPoints'
  <2> SUFFICES ASSUME NEW f \in FDs, epoll'[f] # Off
               PROVE  /\ epoll'[f].ptr \in Slots /\ slot'[epoll'[f].ptr].status = 1
                      /\ slot'[epoll'[f].ptr].fd = f
    BY DEF EpollPoints
  <2>1. CASE f = e.fd
    <3>1. epoll'[f].ptr = s
      BY <1>5, <2>1
    <3> QED
      BY <1>4, <2>1, <3>1
  <2>2. CASE f # e.fd
    <3>1. epoll'[f] = epoll[f] /\ epoll[f].ptr \in Slots
          /\ slot[epoll[f].ptr].status = 1 /\ slot[epoll[f].ptr].fd = f
      BY <1>1, <1>5, <2>2 DEF EpollPoints
    <3>2. slot'[epoll[f].ptr] = slot[epoll[f].ptr]
      BY <1>4, <2>2, <3>1
    <3> QED
      BY <3>1, <3>2
  <2> QED
    BY <2>1, <2>2
<1>8. \A f \in FDs : epoll'[f] # Off <=> epoll[f] # Off \/ f = e.fd
  BY <1>5
<1> QED
  BY <1>3, <1>4, <1>6, <1>7, <1>8

\* TableAgreesWithEpoll again, from its parts.
LEMMA TablePutTogether ==
    ASSUME SlotsPoint', EpollPoints', slot' \in [Slots -> SlotRecord],
           epoll' \in [FDs -> [ptr : Slots, events : Events]], NetInv',
           batch' \in Seq([ptr : Slots, events : Events, fd : FDs]),
           refused' \subseteq Clients,
           \A f \in FDs \ {lfd} : epoll'[f] # Off <=>
               conn'[f] # NoClient /\ conn'[f] \notin refused'
    PROVE  TableAgreesWithEpoll'
<1>1. ReactorTypeOK'
  BY DEF ReactorTypeOK, SlotRecord, NetInv
<1>2. (Registered \ {lfd})' = {f \in Open : conn[f] \notin refused}'
  BY DEF Registered, Open
<1>3. \A f \in Registered' : slot'[epoll'[f].ptr].status = 1 /\ slot'[epoll'[f].ptr].fd = f
  BY DEF EpollPoints, Registered
<1>4. \A s \in Slots : slot'[s].status = 1 =>
         epoll'[slot'[s].fd] = [ptr |-> s, events |-> slot'[s].events]
  BY DEF SlotsPoint
<1> QED
  BY <1>1, <1>2, <1>3, <1>4 DEF TableAgreesWithEpoll

\* A callback of a connection has it wait for the other event.
LEMMA Reregistered ==
    ASSUME ReactorsInv, batch # <<>>, batch' = Tail(batch),
           NEW s \in Slots \ {Listener}, s = Head(batch).ptr,
           NEW e \in SlotRecord, Registers(s, e), e.fd = slot[s].fd, e.status = 1, Serves(e),
           e.call_back = "senddata" => e.len > 0 /\ e.from = conn[e.fd],
           inbox' \in [Clients -> 0..MaxBytes],
           \A c \in Clients : c # conn[e.fd] => inbox'[c] = inbox[c],
           conn' = conn, backlog' = backlog, phase' = phase, refused' = refused,
           exited' = exited, version' = version
    PROVE  ReactorsInv'
<1>1. /\ slot[s].status = 1 /\ slot[s].fd = Head(batch).fd /\ ~exited /\ e.fd \in Open
      /\ e.fd \in FDs
  BY HeadOfBatch DEF ReactorsInv, SlotsRight, Open
<1>2. /\ SlotsPoint /\ EpollPoints /\ conn \in [FDs -> Clients \cup {NoClient}]
      /\ \A f \in FDs : epoll[f] # Off <=>
            (f = lfd /\ ~exited) \/ (f \in Open /\ conn[f] \notin refused)
  BY TableFacts
<1>3. epoll[e.fd] = [ptr |-> s, events |-> slot[s].events] /\ epoll[e.fd] # Off
  <2>1. slot[s].events # "none"
    BY <1>1 DEF ReactorsInv, SlotsRight, Serves
  <2>2. epoll[e.fd] = [ptr |-> s, events |-> slot[s].events]
    BY <1>1, <1>2 DEF SlotsPoint
  <2> QED
    BY <2>1, <2>2 DEF Off
<1>4. \A t \in Slots \ {s} : slot[t].status = 1 => slot[t].fd # e.fd
  <2> SUFFICES ASSUME NEW t \in Slots \ {s}, slot[t].status = 1, slot[t].fd = e.fd PROVE FALSE
    OBVIOUS
  <2>1. epoll[e.fd] = [ptr |-> t, events |-> slot[t].events]
    BY <1>2 DEF SlotsPoint
  <2> QED
    BY <1>3, <2>1
<1>5. /\ SlotsPoint' /\ EpollPoints' /\ slot' \in [Slots -> SlotRecord]
      /\ epoll' \in [FDs -> [ptr : Slots, events : Events]]
      /\ slot'[s] = e /\ \A t \in Slots \ {s} : slot'[t] = slot[t]
      /\ \A f \in FDs : epoll'[f] # Off <=> epoll[f] # Off
  BY <1>1, <1>3, <1>4, RegistersTable
<1>6. NetInv' /\ refused' \subseteq Clients
  BY ReadNet DEF ReactorsInv, TableAgreesWithEpoll, ReactorTypeOK
<1>7. TableAgreesWithEpoll'
  <2>1. \A f \in FDs \ {lfd} : epoll'[f] # Off <=>
            conn'[f] # NoClient /\ conn'[f] \notin refused'
    BY <1>2, <1>5 DEF Open
  <2> QED
    BY <1>5, <1>6, <2>1, RestOfBatch, TablePutTogether
<1>8. BatchIsFresh' /\ BatchReady'
  <2>1. \A f \in FDs : f # Head(batch).fd /\ Readable(f) => Readable(f)'
    <3> SUFFICES ASSUME NEW f \in FDs, f # Head(batch).fd, Readable(f) PROVE Readable(f)'
      OBVIOUS
    <3>1. CASE f = lfd
      <4>1. lfd \notin Open
        BY DEF Open
      <4> QED
        BY <3>1, <4>1 DEF Readable
    <3>2. CASE f # lfd
      <4>1. f \in Open /\ conn[f] \in Clients /\ conn[f] # conn[e.fd]
        BY <1>1, <1>2, <3>2 DEF Readable, Open, ReactorsInv, NetInv
      <4> QED
        BY <3>2, <4>1 DEF Readable, Open
    <3> QED
      BY <3>1, <3>2
  <2> QED
    BY <1>5, <2>1, RestKept
<1>9. SlotsRight' /\ EchoIsOwn'
  <2>1. Open' = Open
    BY DEF Open
  <2>2. SlotsRight'
    BY <1>1, <1>5, <2>1, SlotsAre DEF ReactorsInv, SlotsRight
  <2>3. EchoIsOwn'
    BY <1>5 DEF ReactorsInv, EchoIsOwn
  <2> QED
    BY <2>2, <2>3
<1>10. RefusedGone' /\ OwnTypes' /\ Ended' /\ ExitsForCause'
  BY <1>1 DEF ReactorsInv, RefusedGone, OwnTypes, Ended, ExitsForCause
<1> QED
  BY <1>6, <1>7, <1>8, <1>9, <1>10 DEF ReactorsInv

\* A connection is closed, and its slot is free again.
LEMMA Closed ==
    ASSUME ReactorsInv, batch # <<>>, batch' = Tail(batch),
           NEW s \in Slots \ {Listener}, s = Head(batch).ptr, Close(s, slot[s]),
           UNCHANGED <<backlog, inbox, phase, refused, version, exited>>
    PROVE  ReactorsInv'
<1> DEFINE f == slot[s].fd
<1>1. /\ slot[s].status = 1 /\ f = Head(batch).fd /\ ~exited
      /\ f \in FDs \ {lfd} /\ slot[s] \in SlotRecord
  BY HeadOfBatch DEF ReactorsInv, SlotsRight, Open
<1> HIDE DEF f
<1>2. /\ SlotsPoint /\ EpollPoints /\ slot \in [Slots -> SlotRecord]
      /\ epoll \in [FDs -> [ptr : Slots, events : Events]]
      /\ conn \in [FDs -> Clients \cup {NoClient}]
      /\ \A g \in FDs : epoll[g] # Off <=>
            (g = lfd /\ ~exited) \/ (g \in Open /\ conn[g] \notin refused)
  BY TableFacts
<1>3. /\ conn' = [conn EXCEPT ![f] = NoClient] /\ epoll' = [epoll EXCEPT ![f] = Off]
      /\ slot' = [slot EXCEPT ![s] = [slot[s] EXCEPT !.status = 0]]
  BY DEF Close, eventdel, f
<1>4. /\ slot' \in [Slots -> SlotRecord] /\ epoll' \in [FDs -> [ptr : Slots, events : Events]]
  <2>1. [slot[s] EXCEPT !.status = 0] \in SlotRecord
    <3>1. 0 \in 0..1
      OBVIOUS
    <3> QED
      BY <1>1, <3>1 DEF SlotRecord
  <2>2. Off \in [ptr : Slots, events : Events]
    BY ReactorAssumption DEF Off, Slots, Events
  <2> QED
    BY <1>2, <1>3, <2>1, <2>2
<1>5. /\ slot'[s].status = 0 /\ \A t \in Slots \ {s} : slot'[t] = slot[t]
      /\ epoll'[f] = Off /\ \A g \in FDs \ {f} : epoll'[g] = epoll[g]
      /\ conn'[f] = NoClient /\ \A g \in FDs \ {f} : conn'[g] = conn[g]
  <2>1. slot'[s] = [slot[s] EXCEPT !.status = 0]
    BY <1>2, <1>3
  <2>2. slot'[s].status = 0
    BY <1>1, <2>1 DEF SlotRecord
  <2> QED
    BY <1>1, <1>2, <1>3, <2>2
<1>6. epoll[f] = [ptr |-> s, events |-> slot[s].events]
  BY <1>1, <1>2 DEF SlotsPoint, f
<1>7. \A t \in Slots \ {s} : slot[t].status = 1 => slot[t].fd \in FDs \ {f}
  <2> SUFFICES ASSUME NEW t \in Slots \ {s}, slot[t].status = 1 PROVE slot[t].fd \in FDs \ {f}
    OBVIOUS
  <2>1. epoll[slot[t].fd] = [ptr |-> t, events |-> slot[t].events]
    BY <1>2 DEF SlotsPoint
  <2>2. slot[t].fd \in FDs
    BY <1>2 DEF SlotRecord
  <2> QED
    BY <1>6, <2>1, <2>2
<1>8. SlotsPoint'
  BY <1>5, <1>7, <1>2 DEF SlotsPoint
<1>9. EpollPoints'
  <2> SUFFICES ASSUME NEW g \in FDs, epoll'[g] # Off
               PROVE  /\ epoll'[g].ptr \in Slots /\ slot'[epoll'[g].ptr].status = 1
                      /\ slot'[epoll'[g].ptr].fd = g
    BY DEF EpollPoints
  <2>1. g # f /\ epoll'[g] = epoll[g]
    BY <1>5
  <2>2. /\ epoll[g].ptr \in Slots /\ slot[epoll[g].ptr].status = 1
        /\ slot[epoll[g].ptr].fd = g
    BY <1>2, <2>1 DEF EpollPoints
  <2>3. epoll[g].ptr # s
    BY <2>1, <2>2 DEF f
  <2> QED
    BY <1>5, <2>1, <2>2, <2>3
<1>10. NetInv' /\ refused' \subseteq Clients
  BY <1>1, <1>3, CloseNet DEF ReactorsInv, TableAgreesWithEpoll, ReactorTypeOK
<1>11. TableAgreesWithEpoll'
  <2>1. \A g \in FDs \ {lfd} : epoll'[g] # Off <=>
            conn'[g] # NoClient /\ conn'[g] \notin refused'
    BY <1>2, <1>5 DEF Open
  <2> QED
    BY <1>4, <1>8, <1>9, <1>10, <2>1, RestOfBatch, TablePutTogether
<1>12. BatchIsFresh' /\ BatchReady'
  <2>1. \A g \in FDs : g # Head(batch).fd /\ Readable(g) => Readable(g)'
    BY <1>1, <1>5 DEF Readable, Open
  <2> QED
    BY <1>5, <2>1, RestKept
<1>13. SlotsRight' /\ EchoIsOwn'
  <2>1. SlotsRight'
    <3>1. \A t \in Slots \ {Listener} :
             slot'[t].status = 1 => slot'[t].fd \in Open' /\ Serves(slot'[t])
      BY <1>5, <1>7 DEF ReactorsInv, SlotsRight, Open
    <3>2. slot'[Listener] = slot[Listener]
      BY <1>5, SlotsAre
    <3> QED
      BY <1>1, <3>1, <3>2 DEF ReactorsInv, SlotsRight, Serves
  <2>2. EchoIsOwn'
    BY <1>5, <1>7 DEF ReactorsInv, EchoIsOwn
  <2> QED
    BY <2>1, <2>2
<1>14. RefusedGone' /\ OwnTypes' /\ Ended' /\ ExitsForCause'
  BY <1>1 DEF ReactorsInv, RefusedGone, OwnTypes, Ended, ExitsForCause
<1> QED
  BY <1>10, <1>11, <1>12, <1>13, <1>14 DEF ReactorsInv

-----------------------------------------------------------------------------
(* accept *)

\* The listener alone accepts, and there is a connection to be had.
LEMMA Accepting ==
    ASSUME ReactorsInv, batch # <<>>, NEW s, s = Head(batch).ptr,
           slot[s].call_back = "acceptconn"
    PROVE  s = Listener /\ Head(batch).fd = lfd /\ backlog # <<>> /\ ~exited
<1>1. /\ s \in Slots /\ slot[s].status = 1 /\ slot[s].events = Head(batch).events
      /\ slot[s].fd = Head(batch).fd /\ ~exited
      /\ Head(batch).events = "in" => Readable(Head(batch).fd)
  BY HeadOfBatch
<1>2. s = Listener
  BY <1>1 DEF ReactorsInv, SlotsRight, Serves
<1>3. Head(batch).fd = lfd /\ Head(batch).events = "in"
  BY <1>1, <1>2 DEF ReactorsInv, SlotsRight
<1>4. lfd \notin Open
  BY DEF Open
<1> QED
  BY <1>1, <1>2, <1>3, <1>4 DEF Readable

\* What the other descriptors and the refused clients see of it.
LEMMA TakenFacts ==
    ASSUME ReactorsInv, TakeConnection, phase' = phase, inbox' = inbox
    PROVE  /\ NetInv' /\ backlog # <<>> /\ backlog' = Tail(backlog)
           /\ FreeFD \in FDs \ {lfd} /\ FreeFD \notin Open /\ Head(backlog) \in Clients
           /\ conn'[FreeFD] = Head(backlog) /\ \A f \in FDs \ {FreeFD} : conn'[f] = conn[f]
           /\ \A f \in FDs : f # lfd /\ Readable(f) => Readable(f)'
           /\ \A k \in 1..Len(backlog') : backlog'[k] # Head(backlog)
           /\ \A c \in refused : c # Head(backlog) /\ phase[c] # "away"
                                /\ \A k \in 1..Len(backlog') : backlog'[k] # c
           /\ phase[Head(backlog)] # "away"
<1>1. /\ NetInv /\ backlog # <<>> /\ backlog' = Tail(backlog)
      /\ conn' = [conn EXCEPT ![FreeFD] = Head(backlog)]
  BY DEF ReactorsInv, TakeConnection
<1>2. /\ FreeFD \in FDs \ {lfd} /\ conn[FreeFD] = NoClient /\ Head(backlog) \in Clients
      /\ Head(backlog) = backlog[1]
  BY <1>1, DescriptorFree
<1>3. conn'[FreeFD] = Head(backlog) /\ \A f \in FDs \ {FreeFD} : conn'[f] = conn[f]
  BY <1>1, <1>2 DEF NetInv, NetTypeOK
<1>4. /\ 1 \in 1..Len(backlog)
      /\ \A k \in 1..Len(backlog') : /\ k + 1 \in 1..Len(backlog)
                                    /\ backlog'[k] = backlog[k + 1] /\ backlog'[k] # backlog[1]
  BY <1>1, TailOfBacklog
<1>5. \A f \in FDs : f # lfd /\ Readable(f) => Readable(f)'
  BY <1>2, <1>3 DEF Readable, Open
<1>6. \A c \in refused : c # Head(backlog) /\ phase[c] # "away"
                         /\ \A k \in 1..Len(backlog') : backlog'[k] # c
  BY <1>2, <1>4 DEF ReactorsInv, RefusedGone
<1>7. FreeFD \notin Open /\ phase[Head(backlog)] # "away"
  BY <1>2, <1>4 DEF Open, ReactorsInv, NetInv
<1> QED
  BY <1>1, <1>2, <1>3, <1>4, <1>5, <1>6, <1>7, AcceptNet

LEMMA AcceptRefused ==
    ASSUME ReactorsInv, batch # <<>>, batch' = Tail(batch), Head(batch).fd = lfd, ~exited,
           TakeConnection, refused' = refused \cup {Head(backlog)},
           UNCHANGED <<slot, epoll, phase, inbox, version, exited>>
    PROVE  ReactorsInv'
<1>1. /\ NetInv' /\ FreeFD \in FDs \ {lfd} /\ FreeFD \notin Open /\ Head(backlog) \in Clients
      /\ conn'[FreeFD] = Head(backlog) /\ \A f \in FDs \ {FreeFD} : conn'[f] = conn[f]
      /\ \A f \in FDs : f # lfd /\ Readable(f) => Readable(f)'
      /\ \A k \in 1..Len(backlog') : backlog'[k] # Head(backlog)
      /\ \A c \in refused : c # Head(backlog) /\ phase[c] # "away"
                           /\ \A k \in 1..Len(backlog') : backlog'[k] # c
      /\ phase[Head(backlog)] # "away"
  BY TakenFacts
<1>2. /\ SlotsPoint /\ EpollPoints /\ slot \in [Slots -> SlotRecord]
      /\ epoll \in [FDs -> [ptr : Slots, events : Events]]
      /\ \A f \in FDs : epoll[f] # Off <=>
            (f = lfd /\ ~exited) \/ (f \in Open /\ conn[f] \notin refused)
  BY TableFacts
<1>3. SlotsPoint' /\ EpollPoints' /\ slot' = slot /\ epoll' = epoll
  BY <1>2 DEF SlotsPoint, EpollPoints
<1>4. refused \subseteq Clients /\ refused' \subseteq Clients
  BY <1>1 DEF ReactorsInv, TableAgreesWithEpoll, ReactorTypeOK
<1>5. \A f \in FDs \ {lfd} : epoll'[f] # Off <=> conn'[f] # NoClient /\ conn'[f] \notin refused'
  <2> SUFFICES ASSUME NEW f \in FDs \ {lfd}
               PROVE  epoll[f] # Off <=> conn'[f] # NoClient /\ conn'[f] \notin refused'
    BY <1>3
  <2>1. CASE f = FreeFD
    BY <1>1, <1>2, <2>1
  <2>2. CASE f # FreeFD
    <3>1. conn[f] # Head(backlog)
      BY DescriptorFree, NetAssumption DEF TakeConnection, ReactorsInv, NetInv, NetTypeOK
    <3> QED
      BY <1>1, <1>2, <2>2, <3>1 DEF Open
  <2> QED
    BY <2>1, <2>2
<1>6. TableAgreesWithEpoll'
  BY <1>1, <1>2, <1>3, <1>4, <1>5, RestOfBatch, TablePutTogether
<1>7. BatchIsFresh' /\ BatchReady'
  <2>1. \A f \in FDs : f # Head(batch).fd /\ Readable(f) => Readable(f)'
    BY <1>1
  <2> QED
    BY <1>3, <2>1, RestKept
<1>8. SlotsRight' /\ EchoIsOwn'
  <2>1. \A f \in Open : f \in Open' /\ conn'[f] = conn[f]
    BY <1>1 DEF Open
  <2>2. SlotsRight'
    BY <1>3, <2>1 DEF ReactorsInv, SlotsRight
  <2>3. \A s \in Slots : slot[s].status = 1 /\ slot[s].call_back = "senddata" => slot[s].fd \in Open
    BY DEF ReactorsInv, SlotsRight
  <2>4. EchoIsOwn'
    BY <1>3, <2>1, <2>3 DEF ReactorsInv, EchoIsOwn
  <2> QED
    BY <2>2, <2>4
<1>9. RefusedGone'
  BY <1>1 DEF RefusedGone
<1>10. OwnTypes' /\ Ended' /\ ExitsForCause'
  BY DEF ReactorsInv, OwnTypes, Ended, ExitsForCause
<1> QED
  BY <1>1, <1>6, <1>7, <1>8, <1>9, <1>10 DEF ReactorsInv

LEMMA AcceptStored ==
    ASSUME ReactorsInv, batch # <<>>, batch' = Tail(batch), Head(batch).fd = lfd, ~exited,
           Head(batch).ptr = Listener,
           NEW s \in Slots \ {Listener}, slot[s].status = 0,
           NEW e \in SlotRecord, e.fd = FreeFD, e.status = 1, e.events = "in",
           e.call_back = "recvdata",
           TakeConnection, Registers(s, e), refused' = refused,
           UNCHANGED <<phase, inbox, version, exited>>
    PROVE  ReactorsInv'
<1>1. /\ NetInv' /\ FreeFD \in FDs \ {lfd} /\ FreeFD \notin Open /\ Head(backlog) \in Clients
      /\ conn'[FreeFD] = Head(backlog) /\ \A f \in FDs \ {FreeFD} : conn'[f] = conn[f]
      /\ \A f \in FDs : f # lfd /\ Readable(f) => Readable(f)'
      /\ \A c \in refused : c # Head(backlog) /\ phase[c] # "away"
                           /\ \A k \in 1..Len(backlog') : backlog'[k] # c
  BY TakenFacts
<1>2. /\ SlotsPoint /\ EpollPoints /\ slot \in [Slots -> SlotRecord]
      /\ \A f \in FDs : epoll[f] # Off <=>
            (f = lfd /\ ~exited) \/ (f \in Open /\ conn[f] \notin refused)
  BY TableFacts
<1>3. \A t \in Slots : slot[t].status = 1 => slot[t].fd # FreeFD
  BY <1>1 DEF ReactorsInv, SlotsRight
<1>4. Serves(e)
  BY DEF Serves
<1>5. /\ SlotsPoint' /\ EpollPoints' /\ slot' \in [Slots -> SlotRecord]
      /\ epoll' \in [FDs -> [ptr : Slots, events : Events]]
      /\ slot'[s] = e /\ \A t \in Slots \ {s} : slot'[t] = slot[t]
      /\ \A f \in FDs : epoll'[f] # Off <=> epoll[f] # Off \/ f = e.fd
  BY <1>3, <1>4, RegistersTable
<1>6. refused' \subseteq Clients
  BY DEF ReactorsInv, TableAgreesWithEpoll, ReactorTypeOK
<1>7. \A f \in FDs \ {lfd} : epoll'[f] # Off <=> conn'[f] # NoClient /\ conn'[f] \notin refused'
  <2> SUFFICES ASSUME NEW f \in FDs \ {lfd}
               PROVE  epoll'[f] # Off <=> conn'[f] # NoClient /\ conn'[f] \notin refused'
    OBVIOUS
  <2>1. CASE f = FreeFD
    BY <1>1, <1>5, <2>1, NetAssumption
  <2>2. CASE f # FreeFD
    BY <1>1, <1>2, <1>5, <2>2 DEF Open
  <2> QED
    BY <2>1, <2>2
<1>8. TableAgreesWithEpoll'
  BY <1>1, <1>5, <1>6, <1>7, RestOfBatch, TablePutTogether
<1>9. BatchIsFresh' /\ BatchReady'
  <2>1. \A f \in FDs : f # Head(batch).fd /\ Readable(f) => Readable(f)'
    BY <1>1
  <2>2. \A t \in Slots : slot[t].status = 1 /\ t # Head(batch).ptr => slot'[t] = slot[t]
    BY <1>5
  <2> QED
    BY <2>1, <2>2, RestKept
<1>10. SlotsRight' /\ EchoIsOwn'
  <2>1. /\ \A f \in Open : f \in Open' /\ conn'[f] = conn[f]
        /\ e.fd \in Open'
    BY <1>1, NetAssumption DEF Open
  <2>2. SlotsRight'
    <3>1. \A t \in Slots \ {Listener} :
             slot'[t].status = 1 => slot'[t].fd \in Open' /\ Serves(slot'[t])
      BY <1>4, <1>5, <2>1 DEF ReactorsInv, SlotsRight
    <3>2. slot'[Listener] = slot[Listener]
      BY <1>5, SlotsAre
    <3> QED
      BY <3>1, <3>2 DEF ReactorsInv, SlotsRight, Serves
  <2>3. \A t \in Slots : slot[t].status = 1 /\ slot[t].call_back = "senddata" => slot[t].fd \in Open
    BY DEF ReactorsInv, SlotsRight
  <2>4. EchoIsOwn'
    BY <1>5, <2>1, <2>3 DEF ReactorsInv, EchoIsOwn
  <2> QED
    BY <2>2, <2>4
<1>11. RefusedGone' /\ OwnTypes' /\ Ended' /\ ExitsForCause'
  BY <1>1 DEF ReactorsInv, RefusedGone, OwnTypes, Ended, ExitsForCause
<1> QED
  BY <1>1, <1>8, <1>9, <1>10, <1>11 DEF ReactorsInv

-----------------------------------------------------------------------------
(* The end of the process *)

LEMMA Exits ==
    ASSUME ReactorsInv, Exit, batch' = <<>>,
           backlog' = backlog \/ (backlog # <<>> /\ backlog' = Tail(backlog)),
           inbox' \in [Clients -> 0..MaxBytes], UNCHANGED <<phase, refused, version>>,
           \/ \E c \in Clients : phase[c] = "left"
           \/ version = "reactor" /\ Cardinality(Connected) > MAX_EVENTS
    PROVE  ReactorsInv'
<1>1. /\ exited' = TRUE /\ slot' = [s \in Slots |-> Cleared]
      /\ epoll' = [f \in FDs |-> Off] /\ conn' = [f \in FDs |-> NoClient]
  BY DEF Exit
<1>2. /\ backlog' \in Seq(Clients)
      /\ \A k \in 1..Len(backlog') : \E j \in 1..Len(backlog) : backlog'[k] = backlog[j]
      /\ \A i, j \in 1..Len(backlog') : backlog'[i] = backlog'[j] => i = j
      /\ \A k \in 1..Len(backlog') : backlog'[k] \in Clients
  <2>1. CASE backlog' = backlog
    BY <2>1, ElementOfSeq DEF ReactorsInv, NetInv, NetTypeOK
  <2>2. CASE backlog # <<>> /\ backlog' = Tail(backlog)
    BY <2>2, TailOfBacklog, ElementOfSeq DEF ReactorsInv
  <2> QED
    BY <2>1, <2>2
<1>3. NetInv'
  <2>1. NetTypeOK'
    BY <1>1, <1>2 DEF ReactorsInv, NetInv, NetTypeOK
  <2>2. \A k \in 1..Len(backlog') : phase[backlog'[k]] # "away" /\ backlog'[k] # NoClient
    BY <1>2, NetAssumption DEF ReactorsInv, NetInv
  <2> QED
    BY <1>1, <1>2, <2>1, <2>2, FDsAre DEF NetInv
<1>4. /\ slot' \in [Slots -> SlotRecord] /\ \A s \in Slots : slot'[s].status = 0
      /\ epoll' \in [FDs -> [ptr : Slots, events : Events]]
  <2>1. Cleared \in SlotRecord
    <3>1. lfd \in FDs /\ 0 \in 0..1 /\ 0 \in 0..BUFLEN
      BY FDsAre, ReactorAssumption
    <3> QED
      BY <3>1 DEF Cleared, SlotRecord, Events
  <2>2. Off \in [ptr : Slots, events : Events]
    BY ReactorAssumption DEF Off, Slots, Events
  <2>3. Cleared.status = 0
    BY DEF Cleared
  <2> QED
    BY <1>1, <2>1, <2>2, <2>3
<1>5. /\ SlotsPoint' /\ EpollPoints'
      /\ \A f \in FDs \ {lfd} : epoll'[f] # Off <=>
            conn'[f] # NoClient /\ conn'[f] \notin refused'
  BY <1>1, <1>4 DEF SlotsPoint, EpollPoints
<1>6. refused' \subseteq Clients
  BY DEF ReactorsInv, TableAgreesWithEpoll, ReactorTypeOK
<1>7. TableAgreesWithEpoll'
  BY <1>3, <1>4, <1>5, <1>6, EmptySeq, TablePutTogether
<1>8. SlotsRight' /\ EchoIsOwn'
  BY <1>1, <1>4, SlotsAre DEF SlotsRight, EchoIsOwn
<1>9. BatchIsFresh' /\ BatchReady'
  <2>1. 1..Len(batch') = {}
    OBVIOUS
  <2> QED
    BY <2>1 DEF BatchIsFresh, BatchReady
<1>10. RefusedGone'
  BY <1>2 DEF ReactorsInv, RefusedGone
<1>11. OwnTypes' /\ Ended'
  BY <1>1 DEF ReactorsInv, OwnTypes, Ended
<1>12. ExitsForCause'
  BY DEF ExitsForCause, Connected
<1> QED
  BY <1>3, <1>7, <1>8, <1>9, <1>10, <1>11, <1>12 DEF ReactorsInv

\* The clients of the slots and the one to be accepted have all connected.
LEMMA TableFull ==
    ASSUME ReactorsInv, backlog # <<>>, FreeSlots = {}
    PROVE  Cardinality(Connected) > MAX_EVENTS
<1> DEFINE S == Slots \ {Listener}
           newcomer == Head(backlog)
           others == Connected \ {newcomer}
           g == [s \in S |-> conn[slot[s].fd]]
<1>1. newcomer \in Connected /\ \A f \in FDs : conn[f] # newcomer
  BY DescriptorFree DEF ReactorsInv, NetInv, NetTypeOK, Connected
<1>2. \A s \in S : slot[s].status = 1 /\ slot[s].fd \in Open
  <2>1. \A s \in S : slot[s].status \in 0..1 /\ slot[s].status # 0
    BY TableFacts DEF FreeSlots, SlotRecord
  <2> QED
    BY <2>1 DEF ReactorsInv, SlotsRight
<1>3. g \in Injection(S, others)
  <2>1. ASSUME NEW s \in S PROVE conn[slot[s].fd] \in others
    <3>1. slot[s].fd \in FDs /\ conn[slot[s].fd] # NoClient
      BY <1>2 DEF Open
    <3>2. conn[slot[s].fd] \in Clients /\ phase[conn[slot[s].fd]] # "away"
      BY <3>1 DEF ReactorsInv, NetInv, NetTypeOK
    <3> QED
      BY <1>1, <3>1, <3>2 DEF Connected
  <2>2. ASSUME NEW s \in S, NEW t \in S, g[s] = g[t] PROVE s = t
    <3>1. slot[s].fd = slot[t].fd
      BY <1>2, <2>2 DEF Open, ReactorsInv, NetInv
    <3>2. /\ epoll[slot[s].fd] = [ptr |-> s, events |-> slot[s].events]
          /\ epoll[slot[t].fd] = [ptr |-> t, events |-> slot[t].events]
      BY <1>2, TableFacts DEF SlotsPoint
    <3> QED
      BY <3>1, <3>2
  <2> QED
    BY <2>1, <2>2 DEF Injection, IsInjective
<1>4. IsFiniteSet(Connected)
  BY NetAssumption, FS_Subset DEF Connected
<1>5. IsFiniteSet(others) /\ Cardinality(others) = Cardinality(Connected) - 1
  BY <1>1, <1>4, FS_RemoveElement
<1>6. Cardinality(S) <= Cardinality(others)
  BY <1>3, <1>5, FS_Injection
<1>7. Cardinality(Connected) \in Nat /\ Cardinality(S) = MAX_EVENTS /\ MAX_EVENTS \in Nat
  BY <1>4, FS_CardinalityType, SlotsAre, ReactorAssumption
<1> QED
  BY <1>5, <1>6, <1>7

-----------------------------------------------------------------------------
(* The callbacks of either server *)

LEMMA ReceivedIs ==
    ASSUME ReactorsInv, NEW c \in Clients
    PROVE  /\ inbox[c] \in 0..MaxBytes /\ Received(c) \in 0..BUFLEN
           /\ Received(c) <= inbox[c] /\ (Received(c) = 0 => inbox[c] = 0)
<1>1. inbox[c] \in Nat /\ BUFLEN \in Nat \ {0} /\ inbox[c] \in 0..MaxBytes
  BY ReactorAssumption, NetAssumption DEF ReactorsInv, NetInv, NetTypeOK
<1>2. Received(c) \in {inbox[c], BUFLEN} /\ Received(c) <= inbox[c] /\ Received(c) <= BUFLEN
  BY <1>1, MinIsLeast DEF Received
<1> QED
  BY <1>1, <1>2

\* The slot whose callback is next: the listener's, or one of an open
\* connection that can be read, if that is what it waits for.
LEMMA NextSlot ==
    ASSUME ReactorsInv, batch # <<>>
    PROVE  LET s == Head(batch).ptr
               e == slot[s]
           IN  /\ ~exited /\ s \in Slots /\ e \in SlotRecord /\ e.status = 1
               /\ e.events = Head(batch).events /\ e.fd = Head(batch).fd
               /\ e.call_back \in {"recvdata", "senddata"} =>
                     /\ s # Listener /\ e.fd \in Open /\ e.fd \in FDs /\ conn[e.fd] \in Clients
               /\ e.call_back = "recvdata" =>
                     inbox[conn[e.fd]] > 0 \/ phase[conn[e.fd]] = "left"
               /\ e.call_back = "senddata" => e.len > 0 /\ e.from = conn[e.fd]
<1> DEFINE s == Head(batch).ptr
           e == slot[s]
<1>1. /\ ~exited /\ s \in Slots /\ e \in SlotRecord /\ e.status = 1
      /\ e.events = Head(batch).events /\ e.fd = Head(batch).fd
      /\ Head(batch).events = "in" => Readable(Head(batch).fd)
  BY HeadOfBatch
<1> HIDE DEF s
<1>2. e.call_back \in {"recvdata", "senddata"} => s # Listener /\ e.fd \in Open /\ Serves(e)
  BY <1>1 DEF ReactorsInv, SlotsRight
<1>3. e.call_back \in {"recvdata", "senddata"} => e.fd \in FDs /\ conn[e.fd] \in Clients
  BY <1>2 DEF Open, ReactorsInv, NetInv, NetTypeOK
<1>4. e.call_back = "recvdata" => inbox[conn[e.fd]] > 0 \/ phase[conn[e.fd]] = "left"
  BY <1>1, <1>2 DEF Serves, Readable, Open
<1>5. e.call_back = "senddata" => e.len > 0 /\ e.from = conn[e.fd]
  BY <1>1 DEF ReactorsInv, EchoIsOwn
<1> QED
  BY <1>1, <1>2, <1>3, <1>4, <1>5 DEF s

\* The slot that a new connection gets.
LEMMA FreeSlotIs ==
    ASSUME ReactorsInv, FreeSlots # {}
    PROVE  /\ Min(FreeSlots) \in Slots \ {Listener} /\ slot[Min(FreeSlots)].status = 0
           /\ slot[Min(FreeSlots)] \in SlotRecord
<1>1. FreeSlots \subseteq Nat
  BY SlotsAre DEF FreeSlots
<1>2. Min(FreeSlots) \in FreeSlots
  BY <1>1, MinIsLeast
<1> QED
  BY <1>2, TableFacts DEF FreeSlots

-----------------------------------------------------------------------------
(* epoll_reactor/server.c *)

LEMMA DispatchStep ==
    ASSUME ReactorsInv, Dispatch, UNCHANGED ownVars
    PROVE  ReactorsInv'
<1> DEFINE s == Head(batch).ptr
           e == slot[s]
<1>1. batch # <<>> /\ batch' = Tail(batch) /\ phase' = phase /\ version' = version
      /\ exited' = exited
  BY DEF Dispatch
<1>2. /\ ~exited /\ s \in Slots /\ e \in SlotRecord /\ e.status = 1
      /\ e.events = Head(batch).events /\ e.fd = Head(batch).fd
      /\ e.call_back \in {"recvdata", "senddata"} =>
            /\ s # Listener /\ e.fd \in Open /\ e.fd \in FDs /\ conn[e.fd] \in Clients
  BY <1>1, NextSlot
<1>3. acceptconn(s) \/ recvdata(s) \/ senddata(s)
  BY <1>2 DEF Dispatch
<1>4. CASE acceptconn(s)
  <2>1. e.call_back = "acceptconn" /\ TakeConnection /\ inbox' = inbox
    BY <1>4 DEF acceptconn
  <2>2. s = Listener /\ Head(batch).fd = lfd
    BY <1>1, <2>1, Accepting
  <2>3. CASE FreeSlots = {}
    <3>1. refused' = refused \cup {Head(backlog)} /\ slot' = slot /\ epoll' = epoll
      BY <1>4, <2>3 DEF acceptconn
    <3> QED
      BY <1>1, <1>2, <2>1, <2>2, <3>1, AcceptRefused
  <2>4. CASE FreeSlots # {}
    <3> DEFINE i == Min(FreeSlots)
               new == [slot[i] EXCEPT !.fd = FreeFD, !.call_back = "recvdata",
                                      !.events = "in", !.status = 1]
    <3>1. /\ eventadd(i, eventset(slot[i], FreeFD, "recvdata"), "in") /\ refused' = refused
      BY <1>4, <2>4 DEF acceptconn
    <3>2. i \in Slots \ {Listener} /\ slot[i].status = 0 /\ slot[i] \in SlotRecord
      BY <2>4, FreeSlotIs
    <3>3. FreeFD \in FDs /\ 1 \in 0..1
      BY <2>1, TakenFacts, <1>1
    <3> HIDE DEF i
    <3>4. /\ new \in SlotRecord /\ new.fd = FreeFD /\ new.status = 1 /\ new.events = "in"
          /\ new.call_back = "recvdata"
      BY <3>2, <3>3 DEF SlotRecord, Events
    <3>5. Registers(i, new)
      BY <3>1, <3>2 DEF eventadd, eventset, Registers, SlotRecord
    <3> QED
      BY <1>1, <1>2, <2>1, <2>2, <3>1, <3>2, <3>4, <3>5, AcceptStored
  <2> QED
    BY <2>3, <2>4
<1>5. CASE recvdata(s)
  <2> DEFINE c == conn[e.fd]
             n == Received(c)
             new == [e EXCEPT !.len = n, !.from = c, !.call_back = "senddata",
                              !.events = "out", !.status = 1]
  <2>1. /\ e.call_back = "recvdata" /\ refused' = refused /\ backlog' = backlog
        /\ s \in Slots \ {Listener} /\ e.fd \in FDs /\ c \in Clients
    BY <1>2, <1>5 DEF recvdata
  <2>2. CASE Close(s, e) /\ inbox' = inbox
    BY <1>1, <2>1, <2>2, Closed
  <2>3. CASE /\ n > 0 /\ inbox' = [inbox EXCEPT ![c] = @ - n] /\ conn' = conn
             /\ eventadd(s, eventset(Fill(eventdel(e), n, c), e.fd, "senddata"), "out")
    <3>1. inbox[c] \in 0..MaxBytes /\ n \in 0..BUFLEN /\ n <= inbox[c]
      BY <2>1, ReceivedIs
    <3> HIDE DEF n
    <3>2. /\ new \in SlotRecord /\ new.fd = e.fd /\ new.status = 1 /\ Serves(new)
          /\ new.len > 0 /\ new.from = c
      BY <1>2, <2>1, <2>3, <3>1 DEF SlotRecord, Events, Serves
    <3>3. Registers(s, new)
      BY <1>2, <2>3 DEF eventadd, eventset, eventdel, Fill, Registers, SlotRecord
    <3>4. /\ inbox' \in [Clients -> 0..MaxBytes]
          /\ \A d \in Clients : d # c => inbox'[d] = inbox[d]
      <4>1. inbox \in [Clients -> 0..MaxBytes]
        BY DEF ReactorsInv, NetInv, NetTypeOK
      <4>2. inbox[c] - n \in 0..MaxBytes
        BY <3>1, ReactorAssumption, NetAssumption
      <4> QED
        BY <2>3, <4>1, <4>2
    <3> QED
      BY <1>1, <2>1, <2>3, <3>2, <3>3, <3>4, Reregistered
  <2> QED
    BY <1>5, <2>2, <2>3 DEF recvdata
<1>6. CASE senddata(s)
  <2> DEFINE new == [e EXCEPT !.call_back = "recvdata", !.events = "in", !.status = 1]
  <2>1. /\ e.call_back = "senddata" /\ refused' = refused /\ backlog' = backlog
        /\ inbox' = inbox /\ s \in Slots \ {Listener} /\ e.fd \in FDs
    BY <1>2, <1>6 DEF senddata
  <2>2. CASE Close(s, e)
    BY <1>1, <2>1, <2>2, Closed
  <2>3. CASE /\ eventadd(s, eventset(eventdel(e), e.fd, "recvdata"), "in") /\ conn' = conn
    <3>1. /\ new \in SlotRecord /\ new.fd = e.fd /\ new.status = 1 /\ Serves(new)
          /\ new.call_back # "senddata"
      BY <1>2, <2>1 DEF SlotRecord, Events, Serves
    <3>2. Registers(s, new)
      BY <1>2, <2>3 DEF eventadd, eventset, eventdel, Registers, SlotRecord
    <3>3. inbox' \in [Clients -> 0..MaxBytes]
      BY <2>1 DEF ReactorsInv, NetInv, NetTypeOK
    <3> QED
      BY <1>1, <2>1, <2>3, <3>1, <3>2, <3>3, Reregistered
  <2> QED
    BY <1>6, <2>2, <2>3 DEF senddata
<1> QED
  BY <1>3, <1>4, <1>5, <1>6

-----------------------------------------------------------------------------
(* reactor/server.c: what epoll_ctl is asked for can be done, unless the   *)
(* descriptor has just been closed.                                        *)

LEMMA CallBackStep ==
    ASSUME ReactorsInv, CallBack
    PROVE  ReactorsInv'
<1> DEFINE s == Head(batch).ptr
           e == slot[s]
<1>1. /\ batch # <<>> /\ batch' = (IF exited' THEN <<>> ELSE Tail(batch))
      /\ version' = version /\ refused' = refused /\ phase' = phase
      /\ acceptconnect(s) \/ reactor_recvdata(s) \/ reactor_senddata(s)
      /\ version = "reactor"
  BY DEF CallBack
<1>2. /\ exited = FALSE /\ s \in Slots /\ e \in SlotRecord /\ e.status = 1
      /\ e.events = Head(batch).events /\ e.fd = Head(batch).fd
      /\ e.call_back \in {"recvdata", "senddata"} =>
            /\ s # Listener /\ e.fd \in Open /\ e.fd \in FDs /\ conn[e.fd] \in Clients
      /\ e.call_back = "recvdata" =>
            inbox[conn[e.fd]] > 0 \/ phase[conn[e.fd]] = "left"
  BY <1>1, NextSlot DEF ReactorsInv, OwnTypes
<1>3. /\ slot \in [Slots -> SlotRecord] /\ epoll \in [FDs -> [ptr : Slots, events : Events]]
      /\ \A f \in FDs : epoll[f] # Off <=>
            (f = lfd /\ ~exited) \/ (f \in Open /\ conn[f] \notin refused)
  BY TableFacts
<1>4. inbox \in [Clients -> 0..MaxBytes] /\ conn \in [FDs -> Clients \cup {NoClient}]
  BY DEF ReactorsInv, NetInv, NetTypeOK
<1>5. CASE acceptconnect(s)
  <2>1. /\ slot[s].call_back = "acceptconn" /\ inbox' = inbox
        /\ backlog # <<>> /\ backlog' = Tail(backlog)
    BY <1>5 DEF acceptconnect
  <2>2. s = Listener /\ Head(batch).fd = lfd
    BY <1>1, <2>1, Accepting
  <2>3. CASE FreeSlots = {}
    <3>1. Exit
      BY <1>5, <2>3 DEF acceptconnect
    <3>2. batch' = <<>>
      BY <1>1, <3>1 DEF Exit
    <3>3. Cardinality(Connected) > MAX_EVENTS
      BY <2>1, <2>3, TableFull
    <3> QED
      BY <1>1, <1>4, <2>1, <3>1, <3>2, <3>3, Exits
  <2>4. CASE FreeSlots # {}
    <3> DEFINE i == Min(FreeSlots)
               set == event_set(slot[i], FreeFD, "in", "recvdata")
               new == [set EXCEPT !.status = 1]
               open == [conn EXCEPT ![FreeFD] = Head(backlog)]
    <3>1. event_add(i, set, epoll, open)
      BY <1>5, <2>4 DEF acceptconnect
    <3>2. i \in Slots \ {Listener} /\ slot[i].status = 0 /\ slot[i] \in SlotRecord
      BY <2>4, FreeSlotIs
    <3>3. /\ FreeFD \in FDs \ {lfd} /\ conn[FreeFD] = NoClient
          /\ Head(backlog) \in Clients /\ 1 \in 0..1
      BY <2>1, DescriptorFree DEF ReactorsInv
    <3> HIDE DEF i
    <3>4. /\ set.fd = FreeFD /\ set.status = 0
          /\ new \in SlotRecord /\ new.fd = FreeFD /\ new.status = 1 /\ new.events = "in"
          /\ new.call_back = "recvdata"
      BY <3>2, <3>3 DEF event_set, SlotRecord, Events
    <3>5. epoll[FreeFD] = Off
      BY <1>3, <3>3 DEF Open
    <3>6. open[FreeFD] # NoClient
      BY <1>4, <3>3, NetAssumption
    <3>7. /\ slot' = [slot EXCEPT ![i] = new]
          /\ epoll' = [epoll EXCEPT ![set.fd] = [ptr |-> i, events |-> set.events]]
          /\ conn' = open /\ exited' = exited
      BY <3>1, <3>4, <3>5, <3>6 DEF event_add
    <3>8. Registers(i, new)
      BY <3>4, <3>7 DEF Registers, event_set, SlotRecord
    <3>9. TakeConnection /\ batch' = Tail(batch)
      BY <1>1, <1>2, <2>1, <3>7 DEF TakeConnection
    <3> QED
      BY <1>1, <1>2, <2>1, <2>2, <3>2, <3>4, <3>7, <3>8, <3>9, AcceptStored
  <2> QED
    BY <2>3, <2>4
<1>6. CASE reactor_recvdata(s)
  <2> DEFINE c == conn[e.fd]
             n == Received(c)
             set == event_set(Fill(e, n, c), e.fd, "out", "senddata")
             new == [set EXCEPT !.status = 1]
             without == [epoll EXCEPT ![e.fd] = Off]
  <2>1. /\ e.call_back = "recvdata" /\ backlog' = backlog
        /\ s \in Slots \ {Listener} /\ e.fd \in FDs /\ e.fd \in Open /\ c \in Clients
        /\ inbox[c] > 0 \/ phase[c] = "left"
    BY <1>2, <1>6 DEF reactor_recvdata
  <2>2. inbox[c] \in 0..MaxBytes /\ n \in 0..BUFLEN /\ n <= inbox[c] /\ (n = 0 => inbox[c] = 0)
    BY <2>1, ReceivedIs
  <2>3. event_del(e) = without
    BY <1>2 DEF event_del
  <2> HIDE DEF n
  <2>4. /\ set.fd = e.fd /\ set.status = 0 /\ new \in SlotRecord /\ new.fd = e.fd
        /\ new.status = 1 /\ Serves(new) /\ new.len = n /\ new.from = c
        /\ new.events = set.events
    <3>1. 1 \in 0..1
      OBVIOUS
    <3> QED
      BY <1>2, <2>1, <2>2, <3>1 DEF event_set, Fill, SlotRecord, Events, Serves
  <2>5. without[e.fd] = Off
    BY <1>3, <2>1
  <2> HIDE DEF set
  <2>6. CASE Exit /\ inbox' = inbox /\ phase[c] = "left"
    <3>1. batch' = <<>>
      BY <1>1, <2>6 DEF Exit
    <3> QED
      BY <1>1, <1>4, <2>1, <2>6, <3>1, Exits
  <2>7. CASE /\ n > 0 /\ inbox' = [inbox EXCEPT ![c] = @ - n]
             /\ event_add(s, set, event_del(e), conn)
    <3>1. conn[set.fd] # NoClient
      BY <2>1, <2>4, NetAssumption
    <3>2. /\ slot' = [slot EXCEPT ![s] = new]
          /\ epoll' = [without EXCEPT ![e.fd] = [ptr |-> s, events |-> set.events]]
          /\ conn' = conn /\ exited' = exited
      BY <2>3, <2>4, <2>5, <2>7, <3>1 DEF event_add
    <3>3. epoll' = [epoll EXCEPT ![e.fd] = [ptr |-> s, events |-> set.events]]
      BY <1>3, <2>1, <3>2
    <3>4. Registers(s, new) /\ batch' = Tail(batch)
      BY <1>1, <1>2, <2>4, <3>2, <3>3 DEF Registers
    <3>5. inbox[c] - n \in 0..MaxBytes
      BY <2>2, ReactorAssumption, NetAssumption
    <3>6. inbox' \in [Clients -> 0..MaxBytes] /\ \A d \in Clients : d # c => inbox'[d] = inbox[d]
      BY <1>4, <2>7, <3>5
    <3> QED
      BY <1>1, <2>1, <2>4, <2>7, <3>2, <3>4, <3>6, Reregistered
  <2>8. CASE /\ n = 0 /\ inbox' = inbox
             /\ event_add(s, set, event_del(e), [conn EXCEPT ![e.fd] = NoClient])
    <3>1. [conn EXCEPT ![e.fd] = NoClient][e.fd] = NoClient
      BY <1>4, <2>1
    <3>2. Exit
      BY <2>4, <2>8, <3>1 DEF event_add
    <3>3. phase[c] = "left"
      BY <2>1, <2>2, <2>8
    <3>4. batch' = <<>>
      BY <1>1, <3>2 DEF Exit
    <3> QED
      BY <1>1, <1>4, <2>1, <2>8, <3>2, <3>3, <3>4, Exits
  <2> QED
    BY <1>6, <2>6, <2>7, <2>8 DEF reactor_recvdata, set, n
<1>7. CASE reactor_senddata(s)
  <2> DEFINE c == conn[e.fd]
             set == event_set(e, e.fd, "in", "recvdata")
             new == [set EXCEPT !.status = 1]
             without == [epoll EXCEPT ![e.fd] = Off]
  <2>1. /\ e.call_back = "senddata" /\ backlog' = backlog /\ inbox' = inbox
        /\ s \in Slots \ {Listener} /\ e.fd \in FDs /\ e.fd \in Open /\ c \in Clients
    BY <1>2, <1>7 DEF reactor_senddata
  <2>2. event_del(e) = without
    BY <1>2 DEF event_del
  <2>3. /\ set.fd = e.fd /\ set.status = 0 /\ new \in SlotRecord /\ new.fd = e.fd
        /\ new.status = 1 /\ Serves(new) /\ new.call_back = "recvdata"
        /\ new.events = set.events
    <3>1. 1 \in 0..1
      OBVIOUS
    <3> QED
      BY <1>2, <2>1, <3>1 DEF event_set, SlotRecord, Events, Serves
  <2>4. without[e.fd] = Off /\ conn[e.fd] # NoClient
    BY <1>3, <2>1, NetAssumption
  <2> HIDE DEF set
  <2>5. CASE phase[c] = "left" /\ Exit
    <3>1. batch' = <<>>
      BY <1>1, <2>5 DEF Exit
    <3> QED
      BY <1>1, <1>4, <2>1, <2>5, <3>1, Exits
  <2>6. CASE event_add(s, set, event_del(e), conn)
    <3>1. /\ slot' = [slot EXCEPT ![s] = new]
          /\ epoll' = [without EXCEPT ![e.fd] = [ptr |-> s, events |-> set.events]]
          /\ conn' = conn /\ exited' = exited
      BY <2>2, <2>3, <2>4, <2>6 DEF event_add
    <3>2. epoll' = [epoll EXCEPT ![e.fd] = [ptr |-> s, events |-> set.events]]
      BY <1>3, <2>1, <3>1
    <3>3. Registers(s, new) /\ batch' = Tail(batch)
      BY <1>1, <1>2, <2>3, <3>1, <3>2 DEF Registers
    <3> QED
      BY <1>1, <1>4, <2>1, <2>3, <3>1, <3>3, Reregistered
  <2> QED
    BY <1>7, <2>5, <2>6 DEF reactor_senddata, set
<1> QED
  BY <1>1, <1>5, <1>6, <1>7

LEMMA SignalStep ==
    ASSUME ReactorsInv, SignalPipe
    PROVE  ReactorsInv'
<1>1. /\ batch # <<>> /\ batch' = <<>> /\ Exit
      /\ UNCHANGED <<version, refused, backlog, phase, inbox>>
      /\ slot[Head(batch).ptr].call_back = "senddata"
      /\ phase[conn[slot[Head(batch).ptr].fd]] = "left"
  BY DEF SignalPipe
<1>2. conn[slot[Head(batch).ptr].fd] \in Clients
  BY <1>1, NextSlot
<1>3. inbox' \in [Clients -> 0..MaxBytes]
  BY <1>1 DEF ReactorsInv, NetInv, NetTypeOK
<1> QED
  BY <1>1, <1>2, <1>3, Exits

-----------------------------------------------------------------------------
(* The theorems *)

LEMMA ReactorsStutter ==
    ASSUME ReactorsInv, UNCHANGED reactorVars
    PROVE  ReactorsInv'
<1>1. /\ UNCHANGED <<slot, epoll, batch, refused>> /\ UNCHANGED <<version, exited>>
      /\ UNCHANGED <<conn, backlog, phase, inbox>>
  BY DEF reactorVars, vars
<1>2. NetInv' /\ OwnTypes' /\ Ended' /\ ExitsForCause' /\ RefusedGone'
  BY <1>1 DEF ReactorsInv, NetInv, NetTypeOK, OwnTypes, Ended, ExitsForCause, Connected,
     RefusedGone
<1>3. TableAgreesWithEpoll' /\ SlotsRight' /\ EchoIsOwn'
  BY <1>1 DEF ReactorsInv, TableAgreesWithEpoll, ReactorTypeOK, NetTypeOK, Registered, Open,
     SlotsRight, EchoIsOwn
<1>4. BatchIsFresh' /\ BatchReady'
  BY <1>1 DEF ReactorsInv, BatchIsFresh, BatchReady, Readable, Open
<1> QED
  BY <1>2, <1>3, <1>4 DEF ReactorsInv

\* The inductive invariant of the two reactors.
LEMMA ReactorsCorrect == ReactorsInit /\ [][ReactorsNext]_reactorVars => []ReactorsInv
<1>1. ReactorsInv /\ [ReactorsNext]_reactorVars => ReactorsInv'
  BY ReactorsStutter, WaitStep, DispatchStep, CallBackStep, SignalStep, ClientStep
  DEF ReactorsNext
<1> QED
  BY <1>1, ReactorsInitInv, PTL

(* Of either server: a slot in use is registered with its own descriptor   *)
(* and event, epoll points at slots in use only, and every open connection *)
(* is registered but those refused.                                        *)
THEOREM TableCorrect == ReactorsSpec => []TableAgreesWithEpoll
<1>1. ReactorsInv => TableAgreesWithEpoll
  BY DEF ReactorsInv
<1> QED
  BY <1>1, ReactorsCorrect, PTL DEF ReactorsSpec

(* No callback runs for an event that has become old while the callbacks   *)
(* before it ran, although the second server does not look.                *)
THEOREM BatchCorrect == ReactorsSpec => []BatchIsFresh
<1>1. ReactorsInv => BatchIsFresh
  BY DEF ReactorsInv
<1> QED
  BY <1>1, ReactorsCorrect, PTL DEF ReactorsSpec

(* A client is sent only what it has sent itself, although slots and       *)
(* descriptors are used again and buffers are not cleared.                 *)
THEOREM EchoCorrect == ReactorsSpec => []EchoIsOwn
<1>1. ReactorsInv => EchoIsOwn
  BY DEF ReactorsInv
<1> QED
  BY <1>1, ReactorsCorrect, PTL DEF ReactorsSpec

(* A server ends only for a client that has left, or the second for one    *)
(* client more than its table holds: epoll_ctl never fails otherwise.      *)
THEOREM ExitCorrect == ReactorsSpec => []ExitsForCause
<1>1. ReactorsInv => ExitsForCause
  BY DEF ReactorsInv
<1> QED
  BY <1>1, ReactorsCorrect, PTL DEF ReactorsSpec

-----------------------------------------------------------------------------
(* The servers of select, poll and epoll                                   *)

USE DEF tableVars, epollVars

Served == pc \in {"write", "blocked"}
Tabled == kind \in {"select", "poll"}

\* Slots that poll has found ready and the scan has yet to come to, before all
\* the others that look ready.
Pending(P, from) ==
    /\ \A s \in P : s >= from /\ client[s] # NoFD /\ revents[s] /\ Readable(client[s])
    /\ \A t \in TableSlots \ P : t >= from /\ revents[t] => \A s \in P : s < t

\* retfd counts them, and the listener or the slot that is dealt with now.
Counts(P) ==
    /\ Pending(P, IF Served THEN cursor + 1 ELSE cursor)
    /\ retfd = Cardinality(P) + (IF Served \/ (pc = "accept" /\ revents[0]) THEN 1 ELSE 0)

PollCounts ==
    kind = "poll" /\ (pc \in {"accept", "scan"} \/ Served) => \E P \in SUBSET TableSlots : Counts(P)

PlaceOfKind ==
    /\ pc \in {"accept", "scan"} => Tabled
    /\ pc = "dispatch" => ~Tabled
    /\ Tabled => reported = <<>> /\ ~edge
    /\ ~Tabled => (pc = "dispatch" \/ Served <=> reported # <<>>)
    /\ ~Tabled => \A s \in TableSlots : client[s] = NoFD
    /\ pc \in {"accept", "scan"} \/ (Served /\ Tabled) => retfd > 0
    /\ pc \in {"wait", "accept"} \/ ~Tabled => cursor = 1
    /\ pc = "accept" /\ Listening => backlog # <<>>
    /\ Served => Target \in Open /\ (Tabled => cursor \in TableSlots)

\* Of the first two words of descriptors select watches only one, FIRST: the
\* others are not below maxfd when they are accepted, and have no bit any more
\* when maxfd has passed them.  So nothing else is closed, and slot s is for
\* descriptor s.
SelectsSecond == FIRST \in reset /\ FIRST < limit

FirstWords ==
    /\ \A f \in Open : f <= limit
    /\ \A f \in FDs \ {lfd} : f \notin Open => f >= limit \/ f = FIRST
    /\ \A s \in TableSlots : client[s] = IF s \in Open THEN s ELSE NoFD
    /\ \A f \in reset \ {lfd} : f \in Open /\ (f >= limit \/ f = FIRST)
    /\ pc = "accept" =>
          /\ reset \ {lfd} \subseteq {FIRST, FIRST + WORD}
          /\ SelectsSecond => Readable(FIRST)
          /\ retfd = (IF lfd \in reset THEN 1 ELSE 0) + (IF SelectsSecond THEN 1 ELSE 0)
    /\ pc = "scan" => cursor = 1 /\ SelectsSecond /\ Readable(FIRST)
    /\ pc = "scan" \/ Served => retfd = 1 /\ FIRST < limit

SelectSees ==
    kind = "select" =>
        /\ limit > 0
        /\ limit <= FIRST + WORD /\ pc # "ended" => FirstWords
        /\ limit <= FIRST => pc \in {"wait", "accept"} /\ lfd \in reset

\* What epoll_wait has returned is still ready, and an edge of the listener
\* comes with a connection that the last one did not.
ReportIsFresh ==
    /\ \A k \in 1..Len(reported) : Readable(reported[k]) \/ (k = 1 /\ Served)
    /\ \A j, k \in 1..Len(reported) : reported[j] = reported[k] => j = k
    /\ edge => kind = "ET" /\ backlog # <<>>
    /\ edge /\ (\E k \in 1..Len(reported) : reported[k] = lfd) => Len(backlog) >= 2

EchoInv ==
    /\ NetInv /\ TableIsRight /\ PollCounts /\ PlaceOfKind /\ SelectSees
    /\ ReportIsFresh

LEMMA TableSlotsAre ==
    TableSlots \subseteq Nat /\ IsFiniteSet(TableSlots) /\ 0 \notin TableSlots
<1>1. CLIENT_COUNT \in Int /\ 1 \in Int
  BY EchoAssumption
<1> QED
  BY <1>1, FS_Interval DEF TableSlots

-----------------------------------------------------------------------------
(* What the calls leave ready                                              *)

\* accept gives the connection the lowest descriptor that is not open.
LEMMA AcceptLeaves ==
    ASSUME NetInv, TakeConnection, phase' = phase, inbox' = inbox
    PROVE  /\ NetInv' /\ backlog # <<>> /\ Len(backlog') = Len(backlog) - 1
           /\ FreeFD \in FDs \ {lfd} /\ FreeFD \notin Open
           /\ Open' = Open \cup {FreeFD}
           /\ \A f \in FDs \ {lfd} : f \notin Open => f >= FreeFD
           /\ \A f \in FDs \ {lfd} : Readable(f) => Readable(f)'
<1>1. NetInv' /\ backlog # <<>>
  BY AcceptNet DEF TakeConnection
<1>2. /\ FreeFD \in FDs \ {lfd} /\ conn[FreeFD] = NoClient
      /\ Head(backlog) \in Clients
  BY <1>1, DescriptorFree
<1>3. conn' = [conn EXCEPT ![FreeFD] = Head(backlog)] /\ DOMAIN conn = FDs
  BY DEF TakeConnection, NetInv, NetTypeOK
<1>4. Open' = Open \cup {FreeFD} /\ FreeFD \notin Open
  BY <1>2, <1>3, NetAssumption DEF Open
<1>5. \A f \in FDs \ {lfd} : f \notin Open => f >= FreeFD
  <2> DEFINE free == {f \in FDs \ {lfd} : conn[f] = NoClient}
  <2>1. free \subseteq Nat /\ FreeFD \in free /\ FreeFD = Min(free)
    BY <1>2, FDsAre DEF FreeFD
  <2>2. \A f \in free : FreeFD <= f
    BY <2>1, MinIsLeast
  <2>3. \A f \in FDs \ {lfd} : f \notin Open => f \in free
    BY DEF Open
  <2> QED
    BY <2>1, <2>2, <2>3
<1>6. Len(backlog') = Len(backlog) - 1
  BY <1>1 DEF TakeConnection, NetInv, NetTypeOK
<1>7. \A f \in Open : conn'[f] = conn[f]
  BY <1>3, <1>4 DEF Open
<1> QED
  BY <1>1, <1>2, <1>4, <1>5, <1>6, <1>7 DEF Readable

LEMMA TakenIs ==
    ASSUME NetInv, NEW f \in Open
    PROVE  Bytes(f) \in 0..MaxBytes /\ Taken(f) \in Nat /\ Taken(f) <= Bytes(f)
<1>1. Bytes(f) \in 0..MaxBytes /\ Bytes(f) \in Nat /\ READ \in Nat
  BY NetAssumption, EchoAssumption DEF Open, Bytes, NetInv, NetTypeOK
<1>2. Taken(f) \in {Bytes(f), READ} /\ \A n \in {Bytes(f), READ} : Taken(f) <= n
  BY <1>1, MinIsLeast DEF Taken
<1> QED
  BY <1>1, <1>2

\* read, and the close at the end of the stream, change nothing of others.
LEMMA ReadLeaves ==
    ASSUME NetInv, NEW f \in Open, ReadBytes(f) \/ ReadFails(f) \/ ReadEnd(f)
    PROVE  /\ NetInv' /\ backlog' = backlog /\ phase' = phase
           /\ conn' = conn \/ ReadEnd(f)
           /\ conn' = conn => Open' = Open
           /\ ReadEnd(f) => Open' = Open \ {f}
           /\ \A g \in FDs : g # f /\ Readable(g) => Readable(g)'
<1>1. f \in FDs \ {lfd} /\ conn[f] \in Clients /\ DOMAIN conn = FDs /\ DOMAIN inbox = Clients
  BY DEF Open, NetInv, NetTypeOK
<1>2. conn' = conn => Open' = Open
  BY DEF Open
<1>3. CASE ReadBytes(f) \/ ReadFails(f)
  <2>1. UNCHANGED <<conn, backlog, phase>>
    BY <1>3 DEF ReadBytes, ReadFails
  <2>2. /\ inbox' \in [Clients -> 0..MaxBytes]
        /\ \A c \in Clients : c # conn[f] => inbox'[c] = inbox[c]
    <3>1. CASE ReadBytes(f)
      <4>1. inbox[conn[f]] - Taken(f) \in 0..MaxBytes
        BY TakenIs, NetAssumption DEF Bytes
      <4> QED
        BY <1>1, <3>1, <4>1 DEF ReadBytes, NetInv, NetTypeOK
    <3>2. CASE ReadFails(f)
      <4>1. 0 \in 0..MaxBytes
        BY NetAssumption
      <4> QED
        BY <1>1, <3>2, <4>1 DEF ReadFails, NetInv, NetTypeOK
    <3> QED
      BY <1>3, <3>1, <3>2
  <2>3. NetInv' /\ ~ReadEnd(f)
    BY <1>3, <2>1, <2>2, ReadNet, TakenIs DEF ReadBytes, ReadFails, ReadEnd
  <2>4. \A g \in Open : g # f => conn[g] # conn[f] /\ conn[g] \in Clients
    BY <1>1 DEF Open, NetInv, NetTypeOK
  <2> QED
    BY <1>2, <2>1, <2>2, <2>3, <2>4 DEF Readable
<1>4. CASE ReadEnd(f)
  <2>1. conn' = [conn EXCEPT ![f] = NoClient] /\ UNCHANGED <<inbox, backlog, phase>>
    BY <1>4 DEF ReadEnd
  <2>2. NetInv'
    BY <1>1, <2>1, CloseNet
  <2>3. Open' = Open \ {f} /\ \A g \in FDs : g # f => conn'[g] = conn[g]
    BY <1>1, <2>1 DEF Open
  <2> QED
    BY <1>2, <1>4, <2>1, <2>2, <2>3 DEF Readable
<1> QED
  BY <1>3, <1>4

\* What clients do takes nothing away from what is ready.
LEMMA ClientLeaves ==
    ASSUME NetInv, NEW c \in Clients, Connect(c) \/ SendByte(c) \/ Leave(c)
    PROVE  /\ NetInv' /\ conn' = conn /\ Open' = Open
           /\ Len(backlog) \in Nat /\ Len(backlog') \in Nat
           /\ Len(backlog') = Len(backlog) + (IF Connect(c) THEN 1 ELSE 0)
           /\ backlog # <<>> => backlog' # <<>>
           /\ Connect(c) => backlog' # <<>>
           /\ \A f \in FDs : Readable(f) => Readable(f)'
<1>1. NetInv' /\ conn' = conn
  BY ClientNet DEF Connect, SendByte, Leave
<1>2. Open' = Open
  BY <1>1 DEF Open
<1>3. /\ Len(backlog) \in Nat /\ Len(backlog') \in Nat
      /\ Len(backlog') = Len(backlog) + (IF Connect(c) THEN 1 ELSE 0)
      /\ backlog # <<>> => backlog' # <<>>
      /\ Connect(c) => backlog' # <<>>
  <2>1. backlog \in Seq(Clients)
    BY DEF NetInv, NetTypeOK
  <2>2. CASE Connect(c)
    <3>1. backlog' = Append(backlog, c)
      BY <2>2 DEF Connect
    <3> QED
      BY <2>1, <2>2, <3>1
  <2>3. CASE ~Connect(c)
    <3>1. backlog' = backlog
      BY <2>3 DEF SendByte, Leave
    <3> QED
      BY <2>1, <2>3, <3>1
  <2> QED
    BY <2>2, <2>3
<1>4. \A d \in Clients : /\ inbox[d] > 0 => inbox'[d] > 0
                         /\ phase[d] = "left" => phase'[d] = "left"
  BY NetAssumption DEF Connect, SendByte, Leave, NetInv, NetTypeOK
<1>5. \A f \in Open : conn[f] \in Clients
  BY DEF Open, NetInv, NetTypeOK
<1> QED
  BY <1>1, <1>2, <1>3, <1>4, <1>5 DEF Readable

-----------------------------------------------------------------------------
(* The steps                                                               *)

LEMMA EchoStart == EchoInit => EchoInv
<1> SUFFICES ASSUME EchoInit PROVE EchoInv
  OBVIOUS
<1> USE DEF EchoInit
<1>1. NetInv
  BY NetInitInv
<1>2. Open = {}
  BY <1>1 DEF NetInit, Open
<1>3. EchoTypeOK
  <2>1. revents \in [0..CLIENT_COUNT -> BOOLEAN]
    OBVIOUS
  <2>2. client \in [TableSlots -> FDs \cup {NoFD}] /\ reported \in Seq(FDs)
    OBVIOUS
  <2>3. limit \in Nat /\ retfd \in Nat /\ cursor \in 1..CLIENT_COUNT + 1 /\ reset \subseteq FDs
    BY FDsAre, EchoAssumption DEF lfd
  <2> QED
    BY <1>1, <2>1, <2>2, <2>3 DEF EchoTypeOK, NetInv
<1>4. TableIsRight /\ PollCounts /\ PlaceOfKind /\ ReportIsFresh
  BY <1>3 DEF TableIsRight, PollCounts, PlaceOfKind, ReportIsFresh, Served
<1>5. SelectSees
  <2>1. \A f \in FDs \ {lfd} : f >= 1
    BY FDsAre
  <2> QED
    BY <1>2, <2>1 DEF SelectSees, FirstWords, Served, lfd
<1> QED
  BY <1>1, <1>4, <1>5 DEF EchoInv

\* The table is not touched, and neither are the descriptors.
LEMMA TableKept ==
    ASSUME TableIsRight, client' = client, Open' = Open, EchoTypeOK'
    PROVE  TableIsRight'
  BY DEF TableIsRight

\* What is ready is ready after a step that leaves the network alone.
LEMMA NetKept ==
    ASSUME NetInv, UNCHANGED netVars
    PROVE  NetInv' /\ Open' = Open /\ \A f : Readable(f)' = Readable(f)
  BY DEF NetInv, NetTypeOK, Open, Readable

\* A bit of a descriptor that is open survives only at the start of a word.
LEMMA BeyondIs ==
    ASSUME limit \in Nat, limit > 0, limit <= FIRST + WORD, NEW f \in Nat, f <= limit, Beyond(f)
    PROVE  f = limit /\ f \in {FIRST, FIRST + WORD}
<1>1. PICK k \in 0..f : limit <= FIRST + k * WORD /\ FIRST + k * WORD <= f
  BY DEF Beyond
<1>2. k \in Nat /\ WORD \in Nat \ {0} /\ FIRST \in Nat
  BY <1>1, EchoAssumption
<1>3. FIRST + k * WORD = limit /\ f = limit
  <2>1. k * WORD \in Nat
    BY <1>2
  <2> QED
    BY <1>1, <1>2, <2>1
<1>4. ASSUME k > 1 PROVE FALSE
  <2>1. PICK j \in Nat : k = 2 + j
    BY <1>2, <1>4
  <2>2. k * WORD = 2 * WORD + j * WORD /\ j * WORD \in Nat
    BY <1>2, <2>1
  <2>3. k * WORD >= 2 * WORD
    BY <1>2, <2>2
  <2> QED
    BY <1>2, <1>3, <2>3
<1>5. k = 0 \/ k = 1
  BY <1>2, <1>4
<1> QED
  BY <1>2, <1>3, <1>5

LEMMA CountOfTwo ==
    ASSUME NEW a, NEW b, a # b, NEW S, S \subseteq {a, b}
    PROVE  Cardinality(S) = (IF a \in S THEN 1 ELSE 0) + (IF b \in S THEN 1 ELSE 0)
<1>1. S = {} \/ S = {a} \/ S = {b} \/ S = {a} \cup {b}
  OBVIOUS
<1>2. IsFiniteSet({a}) /\ Cardinality({a}) = 1 /\ Cardinality({b}) = 1 /\ Cardinality({}) = 0
  BY FS_Singleton, FS_EmptySet
<1>3. Cardinality({a} \cup {b}) = Cardinality({a}) + 1
  BY <1>2, FS_AddElement
<1>4. CASE S = {}
  BY <1>2, <1>4
<1>5. CASE S = {a}
  BY <1>2, <1>5
<1>6. CASE S = {b}
  BY <1>2, <1>6
<1>7. CASE S = {a} \cup {b}
  BY <1>2, <1>3, <1>7
<1> QED
  BY <1>1, <1>4, <1>5, <1>6, <1>7

LEMMA SelectStep ==
    ASSUME EchoInv, Select
    PROVE  EchoInv'
<1> USE DEF EchoInv
<1>1. /\ kind = "select" /\ pc = "wait" /\ pc' = "accept" /\ cursor = 1
      /\ UNCHANGED <<kind, client, revents, limit, cursor, reported, edge, answered,
                     conn, backlog, phase, inbox>>
      /\ reset' = ReadySet \cup {f \in reset : Beyond(f)}
      /\ ReadySet # {} /\ retfd' = Cardinality(ReadySet)
  BY DEF Select, PlaceOfKind
<1>2. NetInv' /\ Open' = Open /\ \A f : Readable(f)' = Readable(f)
  BY <1>1, NetKept
<1>3. /\ limit \in Nat /\ limit > 0 /\ reset \subseteq FDs /\ FDs \subseteq Nat
      /\ FIRST \in Nat \ {0} /\ WORD \in Nat
  BY <1>1, FDsAre, EchoAssumption DEF SelectSees, TableIsRight, EchoTypeOK
<1>4. retfd' \in Nat /\ retfd' > 0
  <2>1. ReadySet \in SUBSET FDs
    BY <1>3 DEF ReadySet
  <2>2. IsFiniteSet(ReadySet)
    BY <2>1, FDsAre, FS_Subset
  <2>3. Cardinality(ReadySet) \in Nat /\ Cardinality(ReadySet) # 0
    BY <1>1, <2>2, FS_CardinalityType, FS_EmptySet
  <2> QED
    BY <1>1, <2>3
<1>5. EchoTypeOK'
  BY <1>1, <1>2, <1>3, <1>4 DEF NetInv, TableIsRight, EchoTypeOK, ReadySet
<1>6. \A f \in reset : Beyond(f) => f >= limit
  <2>1. ASSUME NEW f \in reset, NEW k \in 0..f, limit <= FIRST + k * WORD, FIRST + k * WORD <= f
        PROVE  f >= limit
    <3>1. f \in Nat /\ FIRST + k * WORD \in Nat
      BY <1>3, <2>1, EchoAssumption
    <3> QED
      BY <1>3, <2>1, <3>1
  <2> QED
    BY <2>1 DEF Beyond
<1>7. lfd \in reset' <=> lfd \in ReadySet
  BY <1>1, <1>3, <1>6 DEF lfd
<1>8. PlaceOfKind'
  <2>1. lfd \in reset' => backlog # <<>>
    BY <1>7 DEF ReadySet, Readable, Open
  <2> QED
    BY <1>1, <1>4, <2>1 DEF PlaceOfKind, Tabled, Served, Listening
<1>9. ASSUME limit <= FIRST + WORD
      PROVE  FirstWords' /\ (limit <= FIRST => lfd \in reset')
  <2>1. FirstWords
    BY <1>1, <1>9 DEF SelectSees
  <2>2. ReadySet \subseteq {lfd, FIRST}
    <3>1. \A f \in reset \ {lfd} : f \in Nat /\ (f >= limit \/ f = FIRST)
      BY <1>3, <2>1 DEF FirstWords
    <3>2. ASSUME NEW f \in ReadySet, f # lfd PROVE f = FIRST
      <4>1. f \in reset \ {lfd} /\ f < limit
        BY <3>2 DEF ReadySet
      <4>2. ~(f >= limit)
        BY <1>3, <3>1, <4>1
      <4> QED
        BY <3>1, <4>1, <4>2
    <3> QED
      BY <3>2
  <2>3. \A f \in reset : f # lfd /\ Beyond(f) => f \in {FIRST, FIRST + WORD}
    <3>1. ASSUME NEW f \in reset, f # lfd, Beyond(f) PROVE f \in {FIRST, FIRST + WORD}
      <4>1. f \in Nat /\ f <= limit
        BY <1>3, <2>1, <3>1 DEF FirstWords
      <4> QED
        BY <1>3, <1>9, <3>1, <4>1, BeyondIs
    <3> QED
      BY <3>1
  <2>4. reset' \subseteq reset /\ reset' \ {lfd} \subseteq {FIRST, FIRST + WORD}
    BY <1>1, <2>2, <2>3 DEF ReadySet
  <2>5. SelectsSecond' <=> FIRST \in ReadySet
    BY <1>1, <1>3, <1>6 DEF SelectsSecond, ReadySet
  <2>6. retfd' = (IF lfd \in reset' THEN 1 ELSE 0) + (IF SelectsSecond' THEN 1 ELSE 0)
    <3>1. lfd # FIRST
      BY <1>3 DEF lfd
    <3>2. Cardinality(ReadySet) = (IF lfd \in ReadySet THEN 1 ELSE 0)
                                  + (IF FIRST \in ReadySet THEN 1 ELSE 0)
      BY <2>2, <3>1, CountOfTwo
    <3> QED
      BY <1>1, <1>7, <2>5, <3>2
  <2>7. SelectsSecond' => Readable(FIRST)'
    BY <1>2, <2>5 DEF ReadySet
  <2>8. FirstWords'
    BY <1>1, <1>2, <2>1, <2>4, <2>6, <2>7 DEF FirstWords, Served
  <2>9. limit <= FIRST => ~SelectsSecond'
    BY <1>1, <1>3 DEF SelectsSecond
  <2> QED
    BY <1>4, <2>6, <2>8, <2>9
<1>10. SelectSees'
  <2>1. limit <= FIRST => limit <= FIRST + WORD
    BY <1>3
  <2> QED
    BY <1>1, <1>3, <1>9, <2>1 DEF SelectSees
<1>11. PollCounts' /\ ReportIsFresh'
  <2>1. reported = <<>> /\ ~edge
    BY <1>1 DEF PlaceOfKind, Tabled
  <2> QED
    BY <1>1, <2>1 DEF PollCounts, ReportIsFresh
<1> QED
  BY <1>1, <1>2, <1>5, <1>8, <1>10, <1>11, TableKept

LEMMA PollStep ==
    ASSUME EchoInv, Poll
    PROVE  EchoInv'
<1> USE DEF EchoInv
<1> DEFINE P == {s \in Polled : client[s] # NoFD /\ Readable(client[s])}
           L == {s \in {0} : Readable(lfd)}
<1>1. /\ kind = "poll" /\ pc = "wait" /\ pc' = "accept" /\ cursor = 1
      /\ UNCHANGED <<kind, client, reset, limit, cursor, reported, edge, answered,
                     conn, backlog, phase, inbox>>
      /\ P \cup L # {} /\ retfd' = Cardinality(P \cup L)
      /\ revents' = [s \in 0..CLIENT_COUNT |->
                        IF s \in Polled \cup {0} THEN s \in P \cup L ELSE revents[s]]
  BY DEF Poll, PlaceOfKind
<1>2. /\ P \subseteq TableSlots /\ IsFiniteSet(P) /\ Cardinality(P) \in Nat /\ 0 \notin P
  <2>1. P \subseteq TableSlots
    BY DEF Polled
  <2> QED
    BY <2>1, TableSlotsAre, FS_Subset, FS_CardinalityType
<1>3. retfd' = Cardinality(P) + (IF Readable(lfd) THEN 1 ELSE 0) /\ retfd' > 0
  <2>1. IF Readable(lfd) THEN P \cup L = P \cup {0} ELSE P \cup L = P
    OBVIOUS
  <2> HIDE DEF P, L
  <2>2. CASE Readable(lfd)
    <3>1. Cardinality(P \cup {0}) = Cardinality(P) + 1
      BY <1>2, FS_AddElement
    <3>2. P \cup L = P \cup {0}
      BY <2>1, <2>2
    <3>3. retfd' = Cardinality(P) + 1
      BY <1>1, <3>1, <3>2
    <3> QED
      BY <1>2, <2>2, <3>3
  <2>3. CASE ~Readable(lfd)
    <3>1. P # {} /\ retfd' = Cardinality(P)
      BY <1>1, <2>1, <2>3
    <3>2. Cardinality(P) # 0
      BY <1>2, <3>1, FS_EmptySet
    <3> QED
      BY <1>2, <2>3, <3>1, <3>2
  <2> QED
    BY <2>2, <2>3
<1>4. NetInv' /\ Open' = Open /\ \A f : Readable(f)' = Readable(f)
  BY <1>1, NetKept
<1>5. /\ revents' \in [0..CLIENT_COUNT -> BOOLEAN]
      /\ revents'[0] <=> Readable(lfd)
      /\ \A s \in TableSlots : s <= limit => (revents'[s] <=> s \in P)
  <2>1. 0 \in 0..CLIENT_COUNT /\ TableSlots \subseteq 0..CLIENT_COUNT
    BY EchoAssumption DEF TableSlots
  <2>2. \A s \in TableSlots : s \notin L
    BY TableSlotsAre
  <2>3. 0 \in P \cup L <=> Readable(lfd)
    BY <1>2
  <2>4. \A s \in TableSlots : s <= limit => s \in Polled
    BY DEF Polled
  <2> HIDE DEF P, L
  <2>5. revents' \in [0..CLIENT_COUNT -> BOOLEAN]
    <3>1. \A s \in 0..CLIENT_COUNT : revents[s] \in BOOLEAN
      BY DEF TableIsRight, EchoTypeOK
    <3>2. \A s \in 0..CLIENT_COUNT :
             (IF s \in Polled \cup {0} THEN s \in P \cup L ELSE revents[s]) \in BOOLEAN
      <4> TAKE s \in 0..CLIENT_COUNT
      <4>1. CASE s \in Polled \cup {0}
        <5>1. (s \in P \cup L) \in BOOLEAN
          OBVIOUS
        <5> QED
          BY <4>1, <5>1, Zenon
      <4>2. CASE s \notin Polled \cup {0}
        BY <3>1, <4>2, Zenon
      <4> QED
        BY <4>1, <4>2
    <3> QED
      BY <1>1, <3>2, Zenon
  <2>6. revents'[0] <=> Readable(lfd)
    BY <1>1, <2>1, <2>3
  <2>7. \A s \in TableSlots : s <= limit => (revents'[s] <=> s \in P)
    BY <1>1, <2>1, <2>2, <2>4
  <2> QED
    BY <2>5, <2>6, <2>7
<1>6. EchoTypeOK'
  BY <1>1, <1>2, <1>3, <1>4, <1>5 DEF NetInv, TableIsRight, EchoTypeOK
<1>7. Listening' <=> Readable(lfd)
  BY <1>1, <1>5 DEF Listening
<1>8. \A s \in P : /\ s \in TableSlots /\ s >= 1 /\ s <= limit
                   /\ client[s] # NoFD /\ Readable(client[s])
  BY EchoAssumption DEF Polled, TableSlots
<1>9. \A s \in P : revents'[s] /\ Readable(client[s])'
  <2> HIDE DEF P
  <2>1. \A s \in P : revents'[s]
    BY <1>5, <1>8
  <2> QED
    BY <1>1, <1>4, <1>8, <2>1
<1>10. ASSUME NEW t \in TableSlots \ P, revents'[t], NEW s \in P
       PROVE  s < t
  <2>1. ~(t <= limit)
    BY <1>5, <1>10
  <2>2. t \in Nat /\ s \in Nat /\ limit \in Nat
    BY <1>8, TableSlotsAre DEF TableIsRight, EchoTypeOK
  <2> QED
    BY <1>8, <2>1, <2>2
<1>11. \E Q \in SUBSET TableSlots : Counts(Q)'
  <2> HIDE DEF P
  <2>1. P \in SUBSET TableSlots /\ P' = P
    BY <1>1, <1>2, <1>4 DEF P, Polled
  <2>2. Counts(P)'
    BY <1>1, <1>3, <1>5, <1>8, <1>9, <1>10, <2>1 DEF Counts, Pending, Served
  <2> QED
    BY <2>1, <2>2
<1>12. PlaceOfKind'
  <2>1. Readable(lfd) => backlog # <<>>
    BY DEF Readable, Open
  <2> QED
    BY <1>1, <1>3, <1>7, <2>1 DEF PlaceOfKind, Tabled, Served
<1>13. PollCounts' /\ SelectSees' /\ ReportIsFresh'
  <2>1. reported = <<>> /\ ~edge
    BY <1>1 DEF PlaceOfKind, Tabled
  <2> QED
    BY <1>1, <1>11, <2>1 DEF PollCounts, SelectSees, ReportIsFresh
<1> QED
  BY <1>1, <1>4, <1>6, <1>12, <1>13, TableKept

\* A connection goes to one slot, that was free, or to none.
LEMMA StoreIs ==
    ASSUME TableIsRight, NEW f \in FDs \ {lfd}, f \notin Open, Store(f)
    PROVE  /\ client' \in [TableSlots -> FDs \cup {NoFD}]
           /\ \A s \in TableSlots :
                 client'[s] = client[s] \/ (client[s] = NoFD /\ client'[s] = f)
           /\ \A r, s \in TableSlots : client'[r] = f /\ client'[s] = f => r = s
           /\ limit' \in Nat /\ reset' \subseteq FDs
           /\ kind = "select" => reset' = reset \cup {f} /\ limit' = IF f >= limit THEN f ELSE limit
<1>1. /\ client \in [TableSlots -> FDs \cup {NoFD}]
      /\ \A s \in TableSlots : client[s] # f
      /\ limit \in Nat /\ reset \subseteq FDs /\ f \in Nat
  BY EchoAssumption, FDsAre DEF TableIsRight, EchoTypeOK
<1>2. EmptySlots # {} => Min(EmptySlots) \in EmptySlots
  <2>1. EmptySlots \subseteq Nat
    BY TableSlotsAre DEF EmptySlots
  <2> QED
    BY <2>1, MinIsLeast
<1>3. \A s \in EmptySlots : s \in TableSlots /\ s \in Nat /\ client[s] = NoFD
  BY TableSlotsAre DEF EmptySlots
<1>4. /\ client' \in [TableSlots -> FDs \cup {NoFD}]
      /\ \A s \in TableSlots :
            client'[s] = client[s] \/ (client[s] = NoFD /\ client'[s] = f)
      /\ \A r, s \in TableSlots : client'[r] = f /\ client'[s] = f => r = s
  <2>1. CASE EmptySlots = {}
    <3>1. client' = client
      BY <2>1 DEF Store
    <3> QED
      BY <1>1, <3>1
  <2>2. CASE EmptySlots # {}
    <3>1. PICK m \in EmptySlots : client' = [client EXCEPT ![m] = f]
      BY <1>2, <2>2 DEF Store
    <3> QED
      BY <1>1, <1>3, <3>1
  <2> QED
    BY <2>1, <2>2
<1>5. /\ limit' \in Nat /\ reset' \subseteq FDs
      /\ kind = "select" => reset' = reset \cup {f} /\ limit' = IF f >= limit THEN f ELSE limit
  <2>1. CASE kind = "select"
    <3>1. Max({limit, f}) = IF f >= limit THEN f ELSE limit
      BY <1>1 DEF Max
    <3> QED
      BY <1>1, <2>1, <3>1 DEF Store
  <2>2. CASE kind # "select"
    BY <1>1, <1>2, <1>3, <2>2 DEF Store
  <2> QED
    BY <2>1, <2>2
<1> QED
  BY <1>4, <1>5

\* As long as only descriptors are free that are not below that of a new
\* connection, its slot has its number.
LEMMA SlotOfDescriptor ==
    ASSUME TableIsRight, \A s \in TableSlots : client[s] = IF s \in Open THEN s ELSE NoFD,
           NEW f \in FDs \ {lfd}, f \notin Open, \A g \in FDs \ {lfd} : g \notin Open => g >= f,
           Open' = Open \cup {f}, Store(f)
    PROVE  \A s \in TableSlots : client'[s] = IF s \in Open' THEN s ELSE NoFD
<1>1. /\ client \in [TableSlots -> FDs \cup {NoFD}] /\ f \in Nat /\ f >= 1
      /\ TableSlots \subseteq Nat /\ FDs \subseteq Nat /\ 0 \notin TableSlots
  BY FDsAre, TableSlotsAre DEF TableIsRight, EchoTypeOK
<1>2. \A s \in TableSlots : s \in EmptySlots <=> s \notin Open
  <2>1. \A s \in Open : s # NoFD
    BY EchoAssumption DEF Open
  <2> QED
    BY <2>1 DEF EmptySlots
<1>3. \A s \in EmptySlots : s \in TableSlots /\ s \in Nat /\ s >= f
  <2>1. ASSUME NEW s \in EmptySlots, s < f PROVE FALSE
    <3>1. s \in TableSlots /\ s \in Nat /\ s # 0 /\ s \notin Open
      BY <1>1, <1>2 DEF EmptySlots
    <3>2. s \in 1..Cardinality(Clients)
      BY <1>1, <2>1, <3>1, FDsAre
    <3>3. s \in FDs \ {lfd}
      BY <3>2, FDsAre
    <3>4. s >= f
      BY <3>1, <3>3
    <3> QED
      BY <1>1, <2>1, <3>1, <3>4
  <2> QED
    BY <1>1, <2>1 DEF EmptySlots
<1>4. CASE f \in EmptySlots
  <2>1. Min(EmptySlots) = f
    <3>1. EmptySlots \subseteq Nat /\ EmptySlots # {}
      BY <1>3, <1>4
    <3>2. Min(EmptySlots) \in EmptySlots /\ Min(EmptySlots) <= f
      BY <1>4, <3>1, MinIsLeast
    <3> QED
      BY <1>1, <1>3, <3>2
  <2>2. client' = [client EXCEPT ![f] = f]
    BY <1>4, <2>1 DEF Store
  <2> QED
    BY <1>1, <1>3, <1>4, <2>2
<1>5. CASE f \notin EmptySlots
  <2>1. EmptySlots = {}
    <3>1. ASSUME NEW s \in EmptySlots PROVE FALSE
      <4>1. s \in TableSlots /\ s >= f
        BY <1>3, <3>1
      <4>2. f \in TableSlots
        BY <1>1, <4>1, EchoAssumption DEF TableSlots
      <4> QED
        BY <1>2, <1>5, <4>2
    <3> QED
      BY <3>1
  <2>2. client' = client
    BY <2>1 DEF Store
  <2>3. f \notin TableSlots \/ f \in Open
    BY <1>2, <1>5
  <2> QED
    BY <2>2, <2>3
<1> QED
  BY <1>4, <1>5

LEMMA PassStep ==
    ASSUME EchoInv, TableAccept, ~Listening
    PROVE  EchoInv'
<1> USE DEF EchoInv
<1>1. /\ pc = "accept" /\ pc' = "scan" /\ cursor = 1 /\ Tabled /\ retfd > 0
      /\ UNCHANGED <<kind, client, revents, reset, limit, retfd, cursor, reported, edge, answered,
                     conn, backlog, phase, inbox>>
  BY DEF TableAccept, PlaceOfKind
<1>2. NetInv' /\ Open' = Open /\ \A f : Readable(f)' = Readable(f)
  BY <1>1, NetKept
<1>3. EchoTypeOK'
  BY <1>1, <1>2 DEF NetInv, TableIsRight, EchoTypeOK
<1>4. kind = "poll" => \E P \in SUBSET TableSlots : Counts(P)'
  <2> SUFFICES ASSUME kind = "poll" PROVE \E P \in SUBSET TableSlots : Counts(P)'
    OBVIOUS
  <2>1. PICK P \in SUBSET TableSlots : Counts(P)
    BY <1>1 DEF PollCounts
  <2>2. ~revents[0]
    BY DEF Listening
  <2>3. Counts(P)'
    BY <1>1, <1>2, <2>1, <2>2 DEF Counts, Pending, Served
  <2> QED
    BY <2>3
<1>5. SelectSees'
  <2> SUFFICES ASSUME kind = "select" PROVE SelectSees'
    BY <1>1 DEF SelectSees
  <2>1. lfd \notin reset
    BY DEF Listening
  <2>2. limit > 0 /\ ~(limit <= FIRST)
    BY <1>1, <2>1 DEF SelectSees
  <2>3. ASSUME limit <= FIRST + WORD PROVE FirstWords'
    <3>1. FirstWords
      BY <1>1, <2>3 DEF SelectSees
    <3>2. SelectsSecond /\ Readable(FIRST) /\ retfd = 1
      BY <1>1, <2>1, <3>1 DEF FirstWords
    <3> QED
      BY <1>1, <1>2, <3>1, <3>2 DEF FirstWords, SelectsSecond, Served
  <2> QED
    BY <1>1, <2>2, <2>3 DEF SelectSees
<1>6. PollCounts' /\ PlaceOfKind' /\ ReportIsFresh'
  <2>1. reported = <<>> /\ ~edge
    BY <1>1 DEF PlaceOfKind
  <2> QED
    BY <1>1, <1>4, <2>1 DEF PollCounts, PlaceOfKind, Tabled, Served, ReportIsFresh
<1> QED
  BY <1>1, <1>2, <1>3, <1>5, <1>6, TableKept

LEMMA AcceptStep ==
    ASSUME EchoInv, TableAccept, Listening
    PROVE  EchoInv'
<1> USE DEF EchoInv
<1> DEFINE f == FreeFD
<1>1. /\ pc = "accept" /\ cursor = 1 /\ TakeConnection /\ Store(f) /\ Counted("scan")
      /\ UNCHANGED <<kind, revents, cursor, reported, edge, answered, phase, inbox>>
  BY DEF TableAccept, PlaceOfKind
<1>2. /\ NetInv' /\ f \in FDs \ {lfd} /\ f \notin Open /\ Open' = Open \cup {f}
      /\ \A g \in FDs \ {lfd} : g \notin Open => g >= f
      /\ \A g \in FDs \ {lfd} : Readable(g) => Readable(g)'
  BY <1>1, AcceptLeaves
<1> HIDE DEF f
<1>3. /\ client' \in [TableSlots -> FDs \cup {NoFD}]
      /\ \A s \in TableSlots :
            client'[s] = client[s] \/ (client[s] = NoFD /\ client'[s] = f)
      /\ \A r, s \in TableSlots : client'[r] = f /\ client'[s] = f => r = s
      /\ limit' \in Nat /\ reset' \subseteq FDs
      /\ kind = "select" =>
            reset' = reset \cup {f} /\ limit' = IF f >= limit THEN f ELSE limit
  BY <1>1, <1>2, StoreIs
<1>4. /\ retfd \in Nat /\ retfd > 0 /\ retfd' = retfd - 1 /\ Tabled
      /\ pc' = IF retfd = 1 THEN "wait" ELSE "scan"
  BY <1>1 DEF Counted, TableIsRight, EchoTypeOK, PlaceOfKind
<1>5. EchoTypeOK'
  BY <1>1, <1>2, <1>3, <1>4 DEF NetInv, TableIsRight, EchoTypeOK
<1>6. TableIsRight'
  <2>1. \A s \in TableSlots : client[s] # NoFD => client[s] \in Open /\ client[s] # f
    BY <1>2 DEF TableIsRight
  <2>2. \A s \in TableSlots : client'[s] # NoFD => client'[s] \in Open'
    BY <1>2, <1>3, <2>1
  <2>3. \A r, s \in TableSlots : client'[r] = client'[s] /\ r # s => client'[r] = NoFD
    <3>1. \A r, s \in TableSlots : client[r] = client[s] /\ r # s => client[r] = NoFD
      BY DEF TableIsRight
    <3> QED
      BY <1>3, <2>1, <3>1
  <2> QED
    BY <1>5, <2>2, <2>3 DEF TableIsRight
<1>7. PollCounts'
  <2> SUFFICES ASSUME kind = "poll", retfd # 1 PROVE \E P \in SUBSET TableSlots : Counts(P)'
    BY <1>1, <1>4 DEF PollCounts, Served
  <2>1. PICK P \in SUBSET TableSlots : Counts(P)
    BY <1>1 DEF PollCounts
  <2>2. /\ revents[0] /\ retfd = Cardinality(P) + 1
        /\ \A s \in P : s >= cursor /\ client[s] # NoFD /\ revents[s] /\ Readable(client[s])
        /\ \A t \in TableSlots \ P : t >= cursor /\ revents[t] => \A s \in P : s < t
    BY <1>1, <2>1 DEF Counts, Pending, Served, Listening
  <2>3. \A s \in P : client'[s] = client[s] /\ client[s] \in Open
    BY <1>3, <2>2 DEF TableIsRight
  <2>4. \A s \in P : Readable(client[s])'
    <3>1. \A s \in P : client[s] \in FDs \ {lfd} /\ Readable(client[s])
      BY <2>2, <2>3 DEF Open
    <3>2. \A s \in P : client[s]' = client[s]
      BY <2>3
    <3>3. \A s \in P : \A g \in {client[s]} : Readable(g)'
      BY <1>2, <3>1
    <3> QED
      BY <3>2, <3>3 DEF Readable
  <2>5. Cardinality(P) \in Nat
    BY TableSlotsAre, FS_Subset, FS_CardinalityType
  <2>6. Counts(P)'
    BY <1>1, <1>4, <2>2, <2>3, <2>4, <2>5 DEF Counts, Pending, Served
  <2> QED
    BY <2>6
<1>8. PlaceOfKind' /\ ReportIsFresh'
  <2>1. reported = <<>> /\ ~edge
    BY <1>4 DEF PlaceOfKind
  <2> QED
    BY <1>1, <1>4, <2>1 DEF PlaceOfKind, Tabled, Served, ReportIsFresh
<1>9. SelectSees'
  <2> SUFFICES ASSUME kind = "select" PROVE SelectSees'
    BY <1>1 DEF SelectSees
  <2>1. /\ limit \in Nat /\ f \in Nat /\ limit > 0 /\ FDs \subseteq Nat
        /\ FIRST \in Nat \ {0} /\ WORD \in Nat
        /\ reset' = reset \cup {f} /\ limit' = IF f >= limit THEN f ELSE limit
        /\ limit' >= limit
    BY <1>2, <1>3, FDsAre, EchoAssumption DEF SelectSees, TableIsRight, EchoTypeOK
  <2>2. ASSUME limit <= FIRST + WORD
        PROVE  /\ FirstWords
               /\ retfd = 1 + (IF SelectsSecond THEN 1 ELSE 0)
    <3>1. FirstWords
      BY <1>1, <2>2 DEF SelectSees
    <3>2. lfd \in reset
      BY DEF Listening
    <3> QED
      BY <1>1, <3>1, <3>2 DEF FirstWords
  <2>3. ASSUME limit' <= FIRST + WORD PROVE FirstWords'
    <3>1. FirstWords /\ limit <= FIRST + WORD /\ retfd = 1 + (IF SelectsSecond THEN 1 ELSE 0)
      BY <2>1, <2>2, <2>3
    <3>2. \A g \in Open' : g <= limit'
      <4>1. \A g \in Open : g <= limit /\ g \in Nat
        BY <2>1, <3>1 DEF FirstWords, Open
      <4> QED
        BY <1>2, <2>1, <4>1
    <3>3. \A g \in FDs \ {lfd} : g \notin Open' => g >= limit' \/ g = FIRST
      <4>1. ASSUME NEW g \in FDs \ {lfd}, g \notin Open'
            PROVE  g >= limit' \/ g = FIRST
        <5>1. g \notin Open /\ g >= f /\ (g >= limit \/ g = FIRST)
          BY <1>2, <3>1, <4>1 DEF FirstWords
        <5> QED
          BY <2>1, <5>1
      <4> QED
        BY <4>1
    <3>4. \A s \in TableSlots : client'[s] = IF s \in Open' THEN s ELSE NoFD
      <4>1. \A s \in TableSlots : client[s] = IF s \in Open THEN s ELSE NoFD
        BY <3>1 DEF FirstWords
      <4> QED
        BY <1>1, <1>2, <4>1, SlotOfDescriptor
    <3>5. \A g \in reset' \ {lfd} : g \in Open' /\ (g >= limit' \/ g = FIRST)
      <4>1. ASSUME NEW g \in reset \ {lfd} PROVE g \in Open' /\ (g >= limit' \/ g = FIRST)
        <5>1. g \in Open /\ g \in {FIRST, FIRST + WORD}
          BY <1>1, <3>1, <4>1 DEF FirstWords
        <5> QED
          BY <1>2, <2>1, <2>3, <5>1
      <4>2. f \in Open' /\ (f >= limit' \/ f = FIRST)
        <5>1. f >= limit \/ f = FIRST
          BY <1>2, <3>1 DEF FirstWords
        <5> QED
          BY <1>2, <2>1, <5>1
      <4> QED
        BY <2>1, <4>1, <4>2
    <3>6. ASSUME pc' = "scan"
          PROVE  cursor' = 1 /\ SelectsSecond' /\ Readable(FIRST)' /\ retfd' = 1
      <4>1. retfd = 2 /\ SelectsSecond
        BY <1>4, <3>1, <3>6
      <4>2. Readable(FIRST)
        BY <1>1, <3>1, <4>1 DEF FirstWords
      <4>3. FIRST \in FDs \ {lfd}
        BY <2>1, <4>1 DEF SelectsSecond, TableIsRight, EchoTypeOK, lfd
      <4> QED
        BY <1>1, <1>2, <1>4, <2>1, <4>1, <4>2, <4>3 DEF SelectsSecond
    <3>7. pc' \in {"wait", "scan"}
      BY <1>4
    <3>8. pc' = "scan" => FIRST < limit'
      BY <3>6 DEF SelectsSecond
    <3> QED
      BY <3>2, <3>3, <3>4, <3>5, <3>6, <3>7, <3>8 DEF FirstWords, Served
  <2>4. ASSUME limit' <= FIRST PROVE pc' = "wait" /\ lfd \in reset'
    <3>1. limit <= FIRST /\ limit <= FIRST + WORD
      BY <2>1, <2>4
    <3>2. ~SelectsSecond /\ retfd = 1
      BY <2>1, <2>2, <3>1 DEF SelectsSecond
    <3> QED
      BY <1>4, <2>1, <3>2 DEF Listening
  <2> QED
    BY <1>1, <2>1, <2>3, <2>4 DEF SelectSees
<1> QED
  BY <1>2, <1>6, <1>7, <1>8, <1>9

\* The slot that poll's scan comes to is one of those that retfd counts.
LEMMA NextIsPending ==
    ASSUME EchoInv, pc = "scan", kind = "poll"
    PROVE  \E P \in SUBSET TableSlots :
              /\ Counts(P) /\ retfd = Cardinality(P) /\ Cardinality(P) \in Nat
              /\ IsFiniteSet(P)
              /\ ToRead # {} /\ Min(ToRead) \in P
              /\ \A s \in P : Min(ToRead) <= s
<1> USE DEF EchoInv
<1>1. PICK P \in SUBSET TableSlots : Counts(P) /\ retfd > 0
  BY DEF PollCounts, PlaceOfKind
<1>2. IsFiniteSet(P) /\ Cardinality(P) \in Nat /\ retfd = Cardinality(P)
  <2>1. IsFiniteSet(P) /\ Cardinality(P) \in Nat
    BY TableSlotsAre, FS_Subset, FS_CardinalityType
  <2> QED
    BY <1>1, <2>1 DEF Counts, Served
<1>3. /\ P # {} /\ P \subseteq ToRead
      /\ \A t \in TableSlots \ P : t >= cursor /\ revents[t] => \A s \in P : s < t
  BY <1>1, <1>2, FS_EmptySet DEF Counts, Pending, Served, ToRead, IsSet
<1>4. ToRead # {} /\ ToRead \subseteq Nat /\ ToRead \subseteq TableSlots
  BY <1>3, TableSlotsAre DEF ToRead
<1> DEFINE m == Min(ToRead)
<1>5. m \in ToRead /\ \A s \in ToRead : m <= s
  BY <1>4, MinIsLeast
<1> HIDE DEF m
<1>6. m \in P
  <2> SUFFICES ASSUME m \notin P PROVE FALSE
    OBVIOUS
  <2>1. m \in TableSlots \ P /\ m >= cursor /\ revents[m]
    BY <1>5 DEF ToRead, IsSet
  <2>2. PICK s \in P : s < m /\ m <= s
    BY <1>3, <1>5, <2>1
  <2>3. s \in Nat /\ m \in Nat
    BY <1>3, <1>4, <1>5
  <2> QED
    BY <2>2, <2>3
<1> QED
  BY <1>1, <1>2, <1>3, <1>4, <1>5, <1>6 DEF m

\* Without the slot that is dealt with next, those that retfd counts come after.
LEMMA RestIsPending ==
    ASSUME EchoInv, pc = "scan", kind = "poll"
    PROVE  \E Q \in SUBSET TableSlots :
              /\ retfd = Cardinality(Q) + 1 /\ Cardinality(Q) \in Nat
              /\ Pending(Q, Min(ToRead) + 1)
<1> USE DEF EchoInv
<1>1. PICK P \in SUBSET TableSlots :
         /\ Counts(P) /\ retfd = Cardinality(P) /\ Cardinality(P) \in Nat
         /\ IsFiniteSet(P) /\ ToRead # {} /\ Min(ToRead) \in P
         /\ \A s \in P : Min(ToRead) <= s
  BY NextIsPending
<1>2. PICK m \in P : m = Min(ToRead) /\ \A s \in P : m <= s
  BY <1>1
<1> DEFINE Q == P \ {m}
<1>3. Cardinality(Q) = Cardinality(P) - 1 /\ IsFiniteSet(Q)
  BY <1>1, FS_RemoveElement
<1>4. Cardinality(Q) \in Nat
  BY <1>3, FS_CardinalityType
<1>5. /\ TableSlots \subseteq Nat /\ P \subseteq Nat /\ m \in Nat /\ cursor \in Nat /\ cursor <= m
      /\ \A s \in P : s >= cursor /\ client[s] # NoFD /\ revents[s] /\ Readable(client[s])
      /\ \A t \in TableSlots \ P : t >= cursor /\ revents[t] => \A s \in P : s < t
  BY <1>1, <1>2, TableSlotsAre, EchoAssumption
     DEF Counts, Pending, Served, TableIsRight, EchoTypeOK
<1>6. \A s \in Q : s >= m + 1
  BY <1>2, <1>5
<1>7. \A t \in TableSlots \ Q : t >= m + 1 => t \in TableSlots \ P /\ t >= cursor
  BY <1>5
<1>8. Pending(Q, m + 1)
  BY <1>5, <1>6, <1>7 DEF Pending
<1> QED
  BY <1>1, <1>2, <1>3, <1>4, <1>8

LEMMA ScanStep ==
    ASSUME EchoInv, Scan
    PROVE  EchoInv'
<1> USE DEF EchoInv
<1>1. /\ pc = "scan" /\ Tabled /\ retfd \in Nat /\ retfd > 0 /\ reported = <<>> /\ ~edge
      /\ UNCHANGED <<kind, revents, limit, reported, edge>>
  BY DEF Scan, PlaceOfKind, TableIsRight, EchoTypeOK
<1>2. kind = "select" => limit > 0 /\ ~(limit <= FIRST)
  BY <1>1 DEF SelectSees
<1>3. CASE ToRead = {}
  <2>1. /\ pc' = "wait" /\ cursor' = 1
        /\ UNCHANGED <<client, reset, retfd, answered, conn, backlog, phase, inbox>>
    BY <1>3 DEF Scan
  <2>2. NetInv' /\ Open' = Open /\ \A g : Readable(g)' = Readable(g)
    BY <2>1, NetKept
  <2>3. EchoTypeOK'
    BY <1>1, <2>1, <2>2, EchoAssumption DEF NetInv, TableIsRight, EchoTypeOK
  <2>4. SelectSees'
    BY <1>1, <1>2, <2>1, <2>2 DEF SelectSees, FirstWords, Served
  <2>5. PollCounts' /\ PlaceOfKind' /\ ReportIsFresh'
    BY <1>1, <2>1 DEF PollCounts, PlaceOfKind, Tabled, Served, ReportIsFresh
  <2> QED
    BY <2>1, <2>2, <2>3, <2>4, <2>5, TableKept
<1>4. CASE ToRead # {}
  <2>1. PICK m \in ToRead : m = Min(ToRead)
    BY <1>4, TableSlotsAre, MinIsLeast DEF ToRead
  <2> PICK f : f = client[m]
    OBVIOUS
  <2>2. /\ \/ ReadBytes(f) /\ cursor' = m /\ UNCHANGED <<client, reset, retfd>>
           \/ ReadFails(f) /\ SlotDone(m) /\ UNCHANGED <<client, reset>>
           \/ ReadEnd(f) /\ SlotDone(m) /\ Forget(m) /\ reset' = reset \ {f}
    BY <1>4, <2>1 DEF Scan
  <2>3. kind = "poll" =>
           \E Q \in SUBSET TableSlots :
              retfd = Cardinality(Q) + 1 /\ Cardinality(Q) \in Nat /\ Pending(Q, m + 1)
    BY <1>1, <2>1, RestIsPending
  <2>4. /\ m \in TableSlots /\ m \in 1..CLIENT_COUNT /\ client[m] # NoFD /\ f \in Open
        /\ \A s \in TableSlots : s # m => client[s] # f
        /\ \A s \in TableSlots : client[s] # NoFD => client[s] \in Open
    BY <2>1 DEF ToRead, TableSlots, TableIsRight
  <2>5. /\ NetInv'
        /\ conn' = conn \/ ReadEnd(f)
        /\ conn' = conn => Open' = Open
        /\ ReadEnd(f) => Open' = Open \ {f}
        /\ \A g \in FDs : g # f /\ Readable(g) => Readable(g)'
        /\ backlog' = backlog
    BY <2>2, <2>4, ReadLeaves
  <2>6. /\ client' \in [TableSlots -> FDs \cup {NoFD}] /\ reset' \subseteq reset
        /\ \A s \in TableSlots : s # m => client'[s] = client[s]
        /\ \/ Open' = Open /\ client' = client /\ reset' = reset
           \/ Open' = Open \ {f} /\ client'[m] = NoFD /\ reset' = reset \ {f}
    <3>1. client \in [TableSlots -> FDs \cup {NoFD}]
      BY DEF TableIsRight, EchoTypeOK
    <3>2. ReadBytes(f) \/ ReadFails(f) => conn' = conn
      BY DEF ReadBytes, ReadFails
    <3> QED
      BY <2>2, <2>4, <2>5, <3>1, <3>2 DEF Forget
  <2>7. \/ pc' \in {"write", "blocked"} /\ cursor' = m /\ retfd' = retfd /\ Open' = Open
        \/ retfd = 1 /\ pc' = "wait" /\ retfd' = 0 /\ cursor' = 1
        \/ retfd # 1 /\ pc' = "scan" /\ retfd' = retfd - 1 /\ retfd' > 0 /\ cursor' = m + 1
    <3>1. CASE ReadBytes(f) /\ cursor' = m /\ UNCHANGED <<client, reset, retfd>>
      BY <2>5, <3>1 DEF ReadBytes
    <3>2. CASE SlotDone(m)
      BY <1>1, <3>2 DEF SlotDone, Counted
    <3> QED
      BY <2>2, <3>1, <3>2
  <2>8. EchoTypeOK'
    <3>1. answered' \subseteq answered
      BY <2>2 DEF ReadBytes, ReadFails, ReadEnd
    <3>2. /\ pc' \in {"wait", "scan", "write", "blocked"}
          /\ retfd' \in Nat /\ cursor' \in 1..CLIENT_COUNT + 1
      BY <1>1, <2>4, <2>7, EchoAssumption
    <3> QED
      BY <1>1, <2>5, <2>6, <3>1, <3>2 DEF NetInv, TableIsRight, EchoTypeOK
  <2>9. TableIsRight'
    BY <2>4, <2>6, <2>8 DEF TableIsRight
  <2>10. PollCounts'
    <3> SUFFICES ASSUME kind = "poll", pc' # "wait" PROVE \E P \in SUBSET TableSlots : Counts(P)'
      BY <1>1 DEF PollCounts, Served
    <3>1. PICK Q \in SUBSET TableSlots :
             retfd = Cardinality(Q) + 1 /\ Cardinality(Q) \in Nat /\ Pending(Q, m + 1)
      BY <2>3
    <3>2. /\ \A s \in Q : s >= m + 1 /\ client[s] # NoFD /\ revents[s] /\ Readable(client[s])
          /\ \A t \in TableSlots \ Q : t >= m + 1 /\ revents[t] => \A s \in Q : s < t
      BY <3>1 DEF Pending
    <3>3. \A s \in Q : s # m /\ client'[s] = client[s] /\ client[s] \in FDs /\ client[s] # f
      <4>1. \A s \in Q : s # m
        BY <2>4, <3>2
      <4> QED
        BY <2>4, <2>6, <3>2, <4>1 DEF Open
    <3>4. \A s \in Q : Readable(client[s])'
      <4>1. \A s \in Q : \A g \in {client[s]} : Readable(g)'
        BY <2>5, <3>2, <3>3
      <4> QED
        BY <3>3, <4>1 DEF Readable
    <3>5. Pending(Q, m + 1)'
      BY <1>1, <2>7, <3>2, <3>3, <3>4 DEF Pending
    <3>6. Counts(Q)'
      BY <1>1, <2>7, <3>1, <3>5 DEF Counts, Served
    <3> QED
      BY <3>6
  <2>11. PlaceOfKind' /\ ReportIsFresh'
    <3>1. ~Tabled' => FALSE
      BY <1>1 DEF Tabled
    <3>2. Served' => Target' \in Open' /\ cursor' \in TableSlots
      BY <1>1, <2>4, <2>6, <2>7 DEF Served, Target, Tabled
    <3> QED
      BY <1>1, <2>7, <3>1, <3>2 DEF PlaceOfKind, ReportIsFresh, Served
  <2>12. SelectSees'
    <3> SUFFICES ASSUME kind = "select", limit <= FIRST + WORD PROVE FirstWords'
      BY <1>1, <1>2, <2>7 DEF SelectSees
    <3>1. FirstWords /\ retfd = 1 /\ FIRST < limit
      BY <1>1 DEF SelectSees, FirstWords
    <3>2. m = f /\ (f >= limit \/ f = FIRST)
      <4>1. f \in reset \ {lfd}
        BY <2>1, <2>4 DEF ToRead, IsSet, Open
      <4> QED
        BY <2>4, <3>1, <4>1 DEF FirstWords
    <3>3. pc' \in {"wait", "write", "blocked"} /\ (pc' # "wait" => retfd' = 1)
      BY <2>7, <3>1
    <3>4. \A s \in TableSlots : client'[s] = IF s \in Open' THEN s ELSE NoFD
      BY <2>4, <2>6, <3>1, <3>2 DEF FirstWords
    <3>5. \A g \in FDs \ {lfd} : g \notin Open' => g >= limit' \/ g = FIRST
      BY <1>1, <2>6, <3>1, <3>2 DEF FirstWords
    <3>6. /\ \A g \in Open' : g <= limit'
          /\ \A g \in reset' \ {lfd} : g \in Open' /\ (g >= limit' \/ g = FIRST)
      BY <1>1, <2>6, <3>1 DEF FirstWords
    <3> QED
      BY <1>1, <3>1, <3>3, <3>4, <3>5, <3>6 DEF FirstWords, Served
  <2> QED
    BY <2>5, <2>9, <2>10, <2>11, <2>12
<1> QED
  BY <1>3, <1>4

LEMMA EpollWaitStep ==
    ASSUME EchoInv, EpollWait
    PROVE  EchoInv'
<1> USE DEF EchoInv
<1> DEFINE ready == {f \in Open : Readable(f)} \cup {f \in {lfd} : ListenerReady}
<1>1. /\ kind \in {"LT", "ET"} /\ pc = "wait" /\ pc' = "dispatch" /\ edge' = FALSE
      /\ ready # {} /\ reported' \in SetToSeqs(ready)
      /\ UNCHANGED <<kind, client, revents, reset, limit, retfd, cursor, answered,
                     conn, backlog, phase, inbox>>
  BY DEF EpollWait
<1>2. NetInv' /\ Open' = Open /\ \A f : Readable(f)' = Readable(f)
  BY <1>1, NetKept
<1>3. \A f \in ready : f \in FDs /\ Readable(f)
  <2>1. ListenerReady => Readable(lfd)
    BY DEF ListenerReady, ReportIsFresh, Readable
  <2> QED
    BY <2>1, FDsAre DEF Open
<1>4. IsFiniteSet(ready) /\ Cardinality(ready) \in Nat /\ Cardinality(ready) # 0
  <2>1. ready \in SUBSET FDs
    BY <1>3
  <2> HIDE DEF ready
  <2> QED
    BY <1>1, <2>1, FDsAre, FS_Subset, FS_CardinalityType, FS_EmptySet
<1> HIDE DEF ready
<1>5. /\ reported' \in Seq(ready) /\ Len(reported') = Cardinality(ready)
      /\ \A j, k \in 1..Len(reported') : reported'[j] = reported'[k] => j = k
  BY <1>1, <1>4 DEF SetToSeqs
<1>6. /\ reported' # <<>> /\ reported' \in Seq(FDs)
      /\ \A k \in 1..Len(reported') : Readable(reported'[k])
  <2>1. \A k \in 1..Len(reported') : reported'[k] \in ready
    BY <1>5
  <2>2. ready \subseteq FDs
    BY <1>3
  <2>3. reported' \in Seq(FDs)
    BY <1>5, <2>2, SeqMonotonic
  <2> QED
    BY <1>3, <1>4, <1>5, <2>1, <2>3
<1>7. EchoTypeOK'
  BY <1>1, <1>2, <1>6 DEF NetInv, TableIsRight, EchoTypeOK
<1>8. PollCounts' /\ PlaceOfKind' /\ SelectSees'
  BY <1>1, <1>6 DEF PollCounts, PlaceOfKind, Tabled, Served, SelectSees
<1>9. ReportIsFresh'
  BY <1>1, <1>2, <1>5, <1>6 DEF ReportIsFresh
<1> QED
  BY <1>1, <1>2, <1>7, <1>8, <1>9, TableKept

\* The first of what epoll has returned has been dealt with.
LEMMA ReportedNext ==
    ASSUME EchoInv, pc = "dispatch" \/ Served, ~Tabled, NextReported,
           UNCHANGED <<kind, client, revents, reset, limit, retfd, cursor, edge>>,
           answered' \subseteq Clients, NetInv', Len(backlog') \in Nat,
           \A g \in FDs : g # Head(reported) /\ Readable(g) => Readable(g)',
           edge => backlog' # <<>>,
           edge /\ (\E k \in 2..Len(reported) : reported[k] = lfd) => Len(backlog') >= 2
    PROVE  EchoInv'
<1> USE DEF EchoInv
<1>1. /\ reported \in Seq(FDs) /\ reported # <<>> /\ reported' = Tail(reported)
      /\ \A s \in TableSlots : client[s] = NoFD
      /\ pc' = IF reported' = <<>> THEN "wait" ELSE "dispatch"
  BY DEF NextReported, PlaceOfKind, TableIsRight, EchoTypeOK
<1>2. /\ Head(reported) = reported[1] /\ 1 \in 1..Len(reported) /\ reported' \in Seq(FDs)
      /\ \A k \in 1..Len(reported') :
            k + 1 \in 2..Len(reported) /\ reported'[k] = reported[k + 1] /\ k \in Int
  BY <1>1
<1>3. \A k \in 1..Len(reported') :
         reported'[k] \in FDs /\ reported'[k] # Head(reported) /\ Readable(reported'[k])
  <2>1. ASSUME NEW k \in 1..Len(reported')
        PROVE  reported'[k] \in FDs /\ reported'[k] # Head(reported) /\ Readable(reported'[k])
    <3>1. k + 1 # 1 /\ k + 1 \in 1..Len(reported)
      BY <1>2
    <3> QED
      BY <1>2, <3>1 DEF ReportIsFresh
  <2> QED
    BY <2>1
<1>4. \A j, k \in 1..Len(reported') : reported'[j] = reported'[k] => j = k
  <2>1. ASSUME NEW j \in 1..Len(reported'), NEW k \in 1..Len(reported'),
               reported'[j] = reported'[k]
        PROVE  j = k
    <3>1. j + 1 \in 1..Len(reported) /\ k + 1 \in 1..Len(reported)
      BY <1>2
    <3>2. j + 1 = k + 1
      BY <1>2, <2>1, <3>1 DEF ReportIsFresh
    <3> QED
      BY <3>2
  <2> QED
    BY <2>1
<1>5. \A k \in 1..Len(reported') : Readable(reported[k])'
  <2>1. \A k \in 1..Len(reported') : \A g \in {reported'[k]} : Readable(g)'
    BY <1>3
  <2> QED
    BY <2>1 DEF Readable
<1>6. (\E k \in 1..Len(reported') : reported'[k] = lfd)
      => \E k \in 2..Len(reported) : reported[k] = lfd
  BY <1>2
<1>7. EchoTypeOK' /\ ~Served'
  BY <1>1, <1>2 DEF NetInv, TableIsRight, EchoTypeOK, Served
<1>8. TableIsRight' /\ PollCounts' /\ SelectSees'
  BY <1>1, <1>7 DEF TableIsRight, PollCounts, SelectSees, Tabled
<1>9. PlaceOfKind'
  <2>1. pc' = "dispatch" <=> reported' # <<>>
    BY <1>1
  <2> QED
    BY <1>1, <1>7, <2>1 DEF PlaceOfKind, Tabled
<1>10. ReportIsFresh'
  BY <1>4, <1>5, <1>6 DEF ReportIsFresh
<1> QED
  BY <1>8, <1>9, <1>10

LEMMA EpollDispatchStep ==
    ASSUME EchoInv, EpollDispatch
    PROVE  EchoInv'
<1> USE DEF EchoInv
<1>1. /\ pc = "dispatch" /\ ~Tabled /\ reported # <<>> /\ reported \in Seq(FDs)
      /\ UNCHANGED <<kind, client, revents, reset, limit, retfd, cursor, edge>>
  BY DEF EpollDispatch, PlaceOfKind, TableIsRight, EchoTypeOK
<1>2. PICK h \in FDs : h = Head(reported) /\ h = reported[1] /\ 1 \in 1..Len(reported)
  BY <1>1
<1>3. Readable(h) /\ \A k \in 2..Len(reported) : reported[k] # h
  <2>1. Readable(h)
    BY <1>1, <1>2 DEF ReportIsFresh, Served
  <2>2. \A k \in 2..Len(reported) : k \in 1..Len(reported) /\ k # 1
    BY <1>1
  <2> QED
    BY <1>2, <2>1, <2>2 DEF ReportIsFresh
<1>4. Len(backlog) \in Nat /\ backlog \in Seq(Clients)
  BY DEF NetInv, NetTypeOK
<1>5. answered \subseteq Clients /\ (edge => backlog # <<>>)
      /\ (edge /\ (\E k \in 2..Len(reported) : reported[k] = lfd) => Len(backlog) >= 2)
  <2>1. \A k \in 2..Len(reported) : k \in 1..Len(reported)
    BY <1>1
  <2> QED
    BY <2>1 DEF TableIsRight, EchoTypeOK, ReportIsFresh
<1>6. CASE h = lfd
  <2>1. TakeConnection /\ NextReported /\ UNCHANGED <<inbox, phase, answered>>
    BY <1>2, <1>6 DEF EpollDispatch
  <2>2. /\ NetInv' /\ Len(backlog') = Len(backlog) - 1
        /\ \A g \in FDs \ {lfd} : Readable(g) => Readable(g)'
    BY <2>1, AcceptLeaves
  <2>3. backlog' \in Seq(Clients) /\ Len(backlog') \in Nat
    BY <2>2 DEF NetInv, NetTypeOK
  <2>4. edge => Len(backlog) >= 2
    BY <1>2, <1>6 DEF ReportIsFresh
  <2>5. edge => backlog' # <<>>
    BY <1>4, <2>2, <2>3, <2>4
  <2>6. ~\E k \in 2..Len(reported) : reported[k] = lfd
    BY <1>3, <1>6
  <2> QED
    BY <1>1, <1>2, <1>5, <1>6, <2>1, <2>2, <2>3, <2>5, <2>6, ReportedNext
<1>7. CASE h # lfd
  <2>1. h \in Open
    BY <1>3, <1>7 DEF Readable
  <2>2. \/ ReadBytes(h) /\ UNCHANGED reported
        \/ (ReadFails(h) \/ ReadEnd(h)) /\ NextReported
    BY <1>2, <1>7 DEF EpollDispatch
  <2>3. /\ NetInv' /\ backlog' = backlog
        /\ conn' = conn \/ ReadEnd(h)
        /\ conn' = conn => Open' = Open
        /\ \A g \in FDs : g # h /\ Readable(g) => Readable(g)'
    BY <2>1, <2>2, ReadLeaves
  <2>4. CASE (ReadFails(h) \/ ReadEnd(h)) /\ NextReported
    <3>1. answered' \subseteq Clients
      BY <1>5, <2>4 DEF ReadFails, ReadEnd
    <3> QED
      BY <1>1, <1>2, <1>4, <1>5, <2>3, <2>4, <3>1, ReportedNext
  <2>5. CASE ReadBytes(h) /\ UNCHANGED reported
    <3>1. pc' \in {"write", "blocked"} /\ answered' = answered /\ Open' = Open
      BY <2>3, <2>5 DEF ReadBytes
    <3>2. EchoTypeOK'
      BY <1>1, <2>3, <2>5, <3>1 DEF NetInv, TableIsRight, EchoTypeOK
    <3>3. Served' /\ Target' = h
      <4>1. kind' \in {"LT", "ET"}
        BY <1>1, EchoAssumption DEF Tabled, TableIsRight, EchoTypeOK
      <4> QED
        BY <1>2, <2>5, <3>1, <4>1 DEF Served, Target
    <3>4. PollCounts' /\ PlaceOfKind' /\ SelectSees'
      BY <1>1, <2>1, <2>5, <3>1, <3>3 DEF PollCounts, PlaceOfKind, Tabled, SelectSees
    <3>5. ReportIsFresh'
      <4>1. \A k \in 1..Len(reported) : k = 1 \/ Readable(reported[k])'
        <5>1. ASSUME NEW k \in 1..Len(reported), k # 1
              PROVE  \A g \in {reported[k]} : Readable(g)'
          <6>1. k \in 2..Len(reported)
            BY <1>1, <5>1
          <6>2. reported[k] \in FDs /\ reported[k] # h /\ Readable(reported[k])
            BY <1>1, <1>3, <5>1, <6>1 DEF ReportIsFresh
          <6> QED
            BY <2>3, <6>2
        <5> QED
          BY <2>5, <5>1 DEF Readable
      <4> QED
        BY <1>1, <2>3, <2>5, <3>3, <4>1 DEF ReportIsFresh
    <3> QED
      BY <1>1, <2>3, <3>1, <3>2, <3>4, <3>5, TableKept
  <2> QED
    BY <2>2, <2>4, <2>5
<1> QED
  BY <1>6, <1>7

LEMMA WriteStep ==
    ASSUME EchoInv, Write
    PROVE  EchoInv'
<1> USE DEF EchoInv
<1>1. /\ Served /\ Target \in Open /\ answered' = answered \cup {conn[Target]}
      /\ UNCHANGED <<kind, client, revents, reset, limit, edge, conn, backlog, phase, inbox>>
      /\ \/ ~Tabled /\ NextReported /\ UNCHANGED <<retfd, cursor>>
         \/ Tabled /\ SlotDone(cursor) /\ UNCHANGED reported
  BY DEF Write, Writing, Served, PlaceOfKind, Tabled, TableIsRight, EchoTypeOK, EchoAssumption
<1>2. NetInv' /\ Open' = Open /\ \A f : Readable(f)' = Readable(f)
  BY <1>1, NetKept
<1>3. answered' \subseteq Clients
  <2>1. conn[Target] \in Clients
    BY <1>1 DEF Open, NetInv, NetTypeOK
  <2> QED
    BY <1>1, <2>1 DEF TableIsRight, EchoTypeOK
<1>4. CASE ~Tabled /\ NextReported /\ UNCHANGED <<retfd, cursor>>
  <2>1. Len(backlog') \in Nat
    BY <1>2 DEF NetInv, NetTypeOK
  <2>2. edge => backlog' # <<>>
    BY <1>1 DEF ReportIsFresh
  <2>3. \A k \in 2..Len(reported) : k \in 1..Len(reported)
    BY DEF TableIsRight, EchoTypeOK
  <2>4. edge /\ (\E k \in 2..Len(reported) : reported[k] = lfd) => Len(backlog') >= 2
    BY <1>1, <2>3 DEF ReportIsFresh
  <2> QED
    BY <1>1, <1>2, <1>3, <1>4, <2>1, <2>2, <2>4, ReportedNext
<1>5. CASE Tabled /\ SlotDone(cursor) /\ UNCHANGED reported
  <2>1. /\ retfd \in Nat /\ retfd > 0 /\ cursor \in TableSlots /\ cursor \in 1..CLIENT_COUNT
        /\ reported = <<>> /\ ~edge
    BY <1>1, <1>5 DEF PlaceOfKind, TableSlots, TableIsRight, EchoTypeOK
  <2>2. \/ retfd = 1 /\ pc' = "wait" /\ retfd' = 0 /\ cursor' = 1
        \/ retfd # 1 /\ pc' = "scan" /\ retfd' = retfd - 1 /\ retfd' > 0 /\ cursor' = cursor + 1
    BY <1>5, <2>1 DEF SlotDone, Counted
  <2>3. EchoTypeOK'
    <3>1. retfd' \in Nat /\ cursor' \in 1..CLIENT_COUNT + 1 /\ pc' \in {"wait", "scan"}
      BY <2>1, <2>2, EchoAssumption
    <3> QED
      BY <1>1, <1>2, <1>3, <1>5, <3>1 DEF NetInv, TableIsRight, EchoTypeOK
  <2>4. PollCounts'
    <3> SUFFICES ASSUME kind = "poll", retfd # 1 PROVE \E P \in SUBSET TableSlots : Counts(P)'
      BY <1>1, <2>2 DEF PollCounts, Served
    <3>1. PICK P \in SUBSET TableSlots : Counts(P)
      BY <1>1 DEF PollCounts
    <3>2. Cardinality(P) \in Nat
      BY TableSlotsAre, FS_Subset, FS_CardinalityType
    <3>3. Pending(P, cursor + 1) /\ retfd = Cardinality(P) + 1
      BY <1>1, <3>1 DEF Counts
    <3>4. Counts(P)'
      BY <1>1, <1>2, <2>2, <3>2, <3>3 DEF Counts, Pending, Served
    <3> QED
      BY <3>4
  <2>5. PlaceOfKind' /\ ReportIsFresh'
    BY <1>1, <1>5, <2>1, <2>2 DEF PlaceOfKind, Tabled, Served, ReportIsFresh
  <2>6. SelectSees'
    <3> SUFFICES ASSUME kind = "select" PROVE SelectSees'
      BY <1>1 DEF SelectSees
    <3>1. limit > 0 /\ ~(limit <= FIRST)
      BY <1>1 DEF SelectSees, Served
    <3>2. limit <= FIRST + WORD => FirstWords /\ retfd = 1
      BY <1>1 DEF SelectSees, FirstWords, Served
    <3> QED
      BY <1>1, <1>2, <2>2, <3>1, <3>2 DEF SelectSees, FirstWords, Served
  <2> QED
    BY <1>1, <1>2, <2>3, <2>4, <2>5, <2>6, TableKept
<1> QED
  BY <1>1, <1>4, <1>5

LEMMA BrokenPipeStep ==
    ASSUME EchoInv, BrokenPipe
    PROVE  EchoInv'
<1> USE DEF EchoInv
<1>1. /\ Served /\ pc' = "ended" /\ conn' = [f \in FDs |-> NoClient] /\ backlog' = <<>>
      /\ client' = [s \in TableSlots |-> NoFD] /\ reset' = {} /\ retfd' = 0 /\ cursor' = 1
      /\ reported' = <<>> /\ edge' = FALSE
      /\ UNCHANGED <<kind, revents, limit, answered, phase, inbox>>
  BY DEF BrokenPipe, Writing, Served
<1>2. NetInv' /\ Open' = {}
  <2>1. NetTypeOK'
    BY <1>1 DEF NetInv, NetTypeOK
  <2>2. Open' = {}
    BY <1>1 DEF Open
  <2> QED
    BY <1>1, <2>1, <2>2, FDsAre DEF NetInv
<1>3. EchoTypeOK'
  <2>1. cursor' \in 1..CLIENT_COUNT + 1 /\ retfd' \in Nat /\ pc' = "ended"
    BY <1>1, EchoAssumption
  <2>2. client' \in [TableSlots -> FDs \cup {NoFD}]
    BY <1>1
  <2>3. reported' \in Seq(FDs)
    BY <1>1
  <2>4. edge' \in BOOLEAN /\ reset' \subseteq FDs
    BY <1>1
  <2> QED
    BY <1>1, <1>2, <2>1, <2>2, <2>3, <2>4 DEF NetInv, TableIsRight, EchoTypeOK
<1>4. TableIsRight'
  BY <1>1, <1>3 DEF TableIsRight
<1>5. PollCounts' /\ PlaceOfKind' /\ ReportIsFresh'
  BY <1>1 DEF PollCounts, PlaceOfKind, Tabled, Served, ReportIsFresh
<1>6. SelectSees'
  BY <1>1 DEF SelectSees, Served
<1> QED
  BY <1>2, <1>4, <1>5, <1>6

LEMMA EchoClientStep ==
    ASSUME EchoInv, pc # "ended", NEW c \in Clients, ClientMoves(c)
    PROVE  EchoInv'
<1> USE DEF EchoInv
<1>1. /\ UNCHANGED <<kind, client, revents, reset, limit, retfd, cursor, reported, answered>>
      /\ \/ /\ Connect(c) \/ SendByte(c) \/ Leave(c)
            /\ pc' = pc
            /\ edge' = edge \/ (Connect(c) /\ edge' = (kind = "ET"))
         \/ /\ pc = "blocked" /\ pc' = "write" /\ edge' = edge
            /\ UNCHANGED netVars
  BY DEF ClientMoves, ClientConnects, ClientSendsOrLeaves, ClientReads
<1>2. /\ NetInv' /\ conn' = conn /\ Open' = Open
      /\ Len(backlog) \in Nat /\ Len(backlog') \in Nat /\ Len(backlog') >= Len(backlog)
      /\ backlog # <<>> => backlog' # <<>>
      /\ \A f \in FDs : Readable(f) => Readable(f)'
      /\ edge' => edge \/ (kind = "ET" /\ backlog' # <<>> /\ Len(backlog') >= Len(backlog) + 1)
  <2>1. CASE Connect(c) \/ SendByte(c) \/ Leave(c)
    <3>1. /\ NetInv' /\ conn' = conn /\ Open' = Open
          /\ Len(backlog) \in Nat /\ Len(backlog') \in Nat
          /\ Len(backlog') = Len(backlog) + (IF Connect(c) THEN 1 ELSE 0)
          /\ backlog # <<>> => backlog' # <<>>
          /\ Connect(c) => backlog' # <<>>
          /\ \A f \in FDs : Readable(f) => Readable(f)'
      BY <2>1, ClientLeaves
    <3>2. edge' = edge \/ (Connect(c) /\ edge' = (kind = "ET"))
      BY <1>1
    <3>3. Len(backlog') >= Len(backlog)
      BY <3>1
    <3>4. edge' => edge \/ (kind = "ET" /\ Connect(c))
      BY <3>2
    <3>5. Connect(c) => Len(backlog') >= Len(backlog) + 1
      BY <3>1
    <3> QED
      BY <3>1, <3>3, <3>4, <3>5
  <2>2. CASE edge' = edge /\ UNCHANGED netVars
    BY <2>2, NetKept DEF NetInv, NetTypeOK
  <2> QED
    BY <1>1, <2>1, <2>2
<1>3. /\ Served' = Served /\ Tabled' = Tabled /\ Listening' = Listening
      /\ pc' # pc => Served
      /\ pc' \in {"wait", "accept", "scan", "dispatch", "write", "blocked", "ended"}
  BY <1>1 DEF Served, Tabled, Listening, TableIsRight, EchoTypeOK
<1>4. /\ pc' = "accept" <=> pc = "accept"
      /\ pc' = "scan" <=> pc = "scan"
      /\ pc' = "dispatch" <=> pc = "dispatch"
      /\ pc' = "wait" <=> pc = "wait"
  BY <1>1
<1>5. EchoTypeOK'
  <2>1. edge' \in BOOLEAN
    BY <1>1 DEF TableIsRight, EchoTypeOK
  <2> QED
    BY <1>1, <1>2, <1>3, <2>1 DEF NetInv, TableIsRight, EchoTypeOK
<1>6. TableIsRight'
  BY <1>1, <1>2, <1>5, TableKept
<1>7. PollCounts'
  <2> SUFFICES ASSUME kind = "poll", pc \in {"accept", "scan"} \/ Served
               PROVE  \E P \in SUBSET TableSlots : Counts(P)'
    BY <1>1, <1>3, <1>4 DEF PollCounts
  <2>1. PICK P \in SUBSET TableSlots : Counts(P)
    BY DEF PollCounts
  <2>2. \A s \in P : client[s] # NoFD /\ Readable(client[s])
    BY <2>1 DEF Counts, Pending
  <2>3. \A s \in P : Readable(client[s])'
    <3>1. \A s \in P : client[s] \in FDs
      BY <2>2 DEF TableIsRight, EchoTypeOK
    <3>2. \A s \in P : \A g \in {client[s]} : Readable(g)'
      BY <1>2, <2>2, <3>1
    <3> QED
      BY <1>1, <3>2 DEF Readable
  <2>4. Counts(P)'
    BY <1>1, <1>3, <1>4, <2>1, <2>3 DEF Counts, Pending
  <2> QED
    BY <2>4
<1>8. PlaceOfKind'
  <2>1. Target' = Target
    BY <1>1 DEF Target
  <2>2. Tabled => ~edge'
    BY <1>2 DEF PlaceOfKind, Tabled
  <2> QED
    BY <1>1, <1>2, <1>3, <1>4, <2>1, <2>2 DEF PlaceOfKind
<1>9. SelectSees'
  <2> SUFFICES ASSUME kind = "select" PROVE SelectSees'
    BY <1>1 DEF SelectSees
  <2>1. Readable(FIRST) /\ FIRST \in reset => Readable(FIRST)'
    BY <1>2 DEF TableIsRight, EchoTypeOK
  <2>2. SelectsSecond' = SelectsSecond /\ (SelectsSecond => FIRST \in reset)
    BY <1>1 DEF SelectsSecond
  <2>3. FirstWords => FirstWords'
    BY <1>1, <1>2, <1>3, <1>4, <2>1, <2>2 DEF FirstWords
  <2> QED
    BY <1>1, <1>4, <2>3 DEF SelectSees
<1>10. ReportIsFresh'
  <2>1. \A k \in 1..Len(reported) : Readable(reported[k])' \/ (k = 1 /\ Served)
    <3>1. \A k \in 1..Len(reported) :
             (\A g \in {reported[k]} : Readable(g)') \/ (k = 1 /\ Served)
      BY <1>2 DEF ReportIsFresh, TableIsRight, EchoTypeOK
    <3> QED
      BY <1>1, <3>1 DEF Readable
  <2>2. (\E k \in 1..Len(reported) : reported[k] = lfd) => Len(backlog) >= 1
    <3>1. ASSUME NEW k \in 1..Len(reported), reported[k] = lfd PROVE Readable(lfd)
      <4>1. lfd \notin Open
        BY DEF Open
      <4>2. k = 1 /\ Served => Target = reported[k] \/ Tabled
        BY <3>1, EchoAssumption DEF Target, Tabled, TableIsRight, EchoTypeOK
      <4>3. Tabled => reported = <<>>
        BY DEF PlaceOfKind
      <4> QED
        BY <3>1, <4>1, <4>2, <4>3 DEF ReportIsFresh, PlaceOfKind
    <3>2. Readable(lfd) => backlog # <<>>
      BY DEF Readable, Open
    <3>3. backlog # <<>> => Len(backlog) # 0
      BY DEF NetInv, NetTypeOK
    <3> QED
      BY <1>2, <3>1, <3>2, <3>3
  <2>3. edge' /\ (\E k \in 1..Len(reported) : reported[k] = lfd) => Len(backlog') >= 2
    BY <1>2, <2>2 DEF ReportIsFresh
  <2> QED
    BY <1>1, <1>2, <1>3, <2>1, <2>3 DEF ReportIsFresh
<1> QED
  BY <1>2, <1>6, <1>7, <1>8, <1>9, <1>10

LEMMA EchoServersCorrect == EchoSpec => []EchoInv
<1>1. EchoInv /\ [EchoNext]_echoVars => EchoInv'
  <2> SUFFICES ASSUME EchoInv, [EchoNext]_echoVars PROVE EchoInv'
    OBVIOUS
  <2>1. CASE UNCHANGED echoVars
    <3>1. UNCHANGED <<kind, pc, client, revents, reset, limit, retfd, cursor, reported, edge,
                      answered, conn, backlog, phase, inbox>>
      BY <2>1 DEF echoVars
    <3>2. NetInv' /\ TableIsRight' /\ PlaceOfKind' /\ SelectSees' /\ ReportIsFresh'
      BY <3>1 DEF EchoInv, NetInv, NetTypeOK, TableIsRight, EchoTypeOK, PlaceOfKind, Served,
         Tabled, Target, Listening, SelectSees, FirstWords, SelectsSecond, ReportIsFresh,
         Readable, Open
    <3>3. Served' = Served /\ \A P : Counts(P)' = Counts(P)
      BY <3>1 DEF Counts, Pending, Served, Readable, Open
    <3>4. PollCounts'
      BY <3>1, <3>3 DEF EchoInv, PollCounts
    <3> QED
      BY <3>2, <3>4 DEF EchoInv
  <2> QED
    BY <2>1, SelectStep, PollStep, PassStep, AcceptStep, ScanStep, EpollWaitStep,
       EpollDispatchStep, WriteStep, BrokenPipeStep, EchoClientStep DEF EchoNext, EchoServer
<1> QED
  BY <1>1, EchoStart, PTL DEF EchoSpec

(* In each of the four servers the table holds open descriptors only, each *)
(* once, however clients come, leave and are accepted on descriptors that  *)
(* others had.                                                             *)
THEOREM ClientTableCorrect == EchoSpec => []TableIsRight
<1>1. EchoInv => TableIsRight
  BY DEF EchoInv
<1> QED
  BY <1>1, EchoServersCorrect, PTL

\* A slot that select's scan comes to, in the first two words, is that of FIRST.
LEMMA SelectReadsSecond ==
    ASSUME EchoInv, kind = "select", limit <= FIRST + WORD, pc = "scan", ToRead # {}
    PROVE  client[Min(ToRead)] = FIRST /\ Readable(FIRST)
<1> USE DEF EchoInv
<1>1. FirstWords
  BY DEF SelectSees
<1>2. cursor = 1 /\ FIRST \in reset /\ FIRST < limit /\ Readable(FIRST)
  BY <1>1 DEF FirstWords, SelectsSecond
<1>3. /\ FIRST \in Nat /\ FIRST >= 1 /\ WORD \in Nat /\ limit \in Nat
      /\ FDs \subseteq Nat /\ FIRST # lfd
      /\ TableSlots \subseteq Nat
  BY EchoAssumption, FDsAre, TableSlotsAre DEF TableIsRight, EchoTypeOK, lfd
<1>4. \A s \in ToRead : s \in Open /\ client[s] = s /\ s \in reset \ {lfd} /\ s \in TableSlots
  <2>1. ASSUME NEW s \in ToRead
        PROVE  s \in Open /\ client[s] = s /\ s \in reset \ {lfd} /\ s \in TableSlots
    <3>1. s \in TableSlots /\ client[s] # NoFD /\ client[s] \in reset
      BY DEF ToRead, IsSet
    <3>2. s \in Open /\ client[s] = s
      BY <1>1, <3>1 DEF FirstWords
    <3> QED
      BY <3>1, <3>2 DEF Open
  <2> QED
    BY <2>1
<1>5. PICK m \in ToRead : m = Min(ToRead) /\ \A s \in ToRead : m <= s
  <2>1. ToRead \subseteq Nat
    BY <1>3, <1>4
  <2> QED
    BY <2>1, MinIsLeast
<1>6. ASSUME m # FIRST PROVE FALSE
  <2>1. m >= limit /\ m \in TableSlots /\ m \in Nat
    BY <1>1, <1>3, <1>4, <1>6 DEF FirstWords
  <2>2. FIRST \in TableSlots /\ FIRST < m
    BY <1>2, <1>3, <2>1, EchoAssumption DEF TableSlots
  <2>3. FIRST \in Open /\ client[FIRST] = FIRST
    BY <1>1, <1>2, <1>3, <2>2 DEF FirstWords
  <2>4. FIRST # NoFD
    BY <2>3, EchoAssumption DEF Open
  <2>5. FIRST \in ToRead
    BY <1>2, <1>3, <2>2, <2>3, <2>4 DEF ToRead, IsSet
  <2> QED
    BY <1>3, <1>5, <2>1, <2>2, <2>5
<1> QED
  BY <1>2, <1>4, <1>5, <1>6

(* No server sits in a read or an accept that has nothing to return, but   *)
(* select's past its second word of descriptors: retfd ends the scan of    *)
(* the table before it comes to a slot of which select or poll has said    *)
(* nothing, and nobody takes away what epoll has reported.                 *)
THEOREM ServersNeverBlock == EchoSpec => []NeverBlocks
<1>1. EchoInv => NeverBlocks
  <2> SUFFICES ASSUME EchoInv, ~(kind = "select" /\ limit > FIRST + WORD), NEW f \in Current
               PROVE  Readable(f)
    BY DEF NeverBlocks, Blocked
  <2> USE DEF EchoInv
  <2>1. CASE pc = "accept" /\ Listening
    BY <2>1 DEF Current, PlaceOfKind, Readable
  <2>2. CASE pc = "scan" /\ ToRead # {}
    <3>1. f = client[Min(ToRead)]
      BY <2>2 DEF Current
    <3>2. CASE kind = "poll"
      <4>1. PICK P \in SUBSET TableSlots : Counts(P) /\ Min(ToRead) \in P
        BY <2>2, <3>2, NextIsPending
      <4> QED
        BY <3>1, <4>1 DEF Counts, Pending
    <3>3. CASE kind = "select"
      <4>1. limit <= FIRST + WORD
        BY <3>3, EchoAssumption DEF TableIsRight, EchoTypeOK
      <4> QED
        BY <2>2, <3>1, <3>3, <4>1, SelectReadsSecond
    <3> QED
      BY <2>2, <3>2, <3>3 DEF PlaceOfKind, Tabled
  <2>3. CASE pc = "dispatch"
    <3>1. f = Head(reported) /\ reported # <<>> /\ reported \in Seq(FDs)
      BY <2>3 DEF Current, PlaceOfKind, TableIsRight, EchoTypeOK
    <3>2. f = reported[1] /\ 1 \in 1..Len(reported)
      BY <3>1
    <3> QED
      BY <2>3, <3>2 DEF ReportIsFresh, Served
  <2> QED
    BY <2>1, <2>2, <2>3 DEF Current
<1> QED
  BY <1>1, EchoServersCorrect, PTL

(* Until a descriptor passes the first of the second word (64, of the 61st *)
(* connection, where the listener is 3), select's server only accepts: it  *)
(* comes to no read, and it has the bit of its listener.                   *)
THEOREM SelectOnlyAccepts ==
    EchoSpec => [](kind = "select" /\ limit <= FIRST => pc \in {"wait", "accept"} /\ lfd \in reset)
<1>1. EchoInv => (kind = "select" /\ limit <= FIRST => pc \in {"wait", "accept"} /\ lfd \in reset)
  BY DEF EchoInv, SelectSees
<1> QED
  BY <1>1, EchoServersCorrect, PTL

=============================================================================
