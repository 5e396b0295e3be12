---------------------------- MODULE EpollReactor ----------------------------
(***************************************************************************)
(* The echo server of epoll_reactor/server.c: one thread, a table of       *)
(* events with a callback each, and epoll holding pointers into the table. *)
(* A connection is registered for reading or for writing, never both; each *)
(* callback takes it out of epoll and puts it in again for the other.      *)
(*                                                                         *)
(* A step of the server is one epoll_wait or one callback; clients act in  *)
(* between, so an event that epoll_wait has returned may be old when its   *)
(* callback runs.                                                          *)
(***************************************************************************)
EXTENDS EchoNet, SequencesExt

CONSTANTS
    MAX_EVENTS,     \* slots of g_events, not counting that of the listener
    BUFLEN          \* bytes of a slot's buffer

ASSUME ReactorAssumption == MAX_EVENTS \in Nat \ {0} /\ BUFLEN \in Nat \ {0}

Slots == 0..MAX_EVENTS
Listener == MAX_EVENTS                  \* the slot of the listening socket

VARIABLES
    slot,           \* g_events: fd, events, call_back, status, len, whose bytes
    epoll,          \* what each descriptor is registered with
    batch,          \* returned by epoll_wait, callbacks yet to be called
    refused         \* accepted when the table was full

serverVars == <<slot, epoll, batch, refused>>
vars == <<serverVars, netVars>>

Off == [ptr |-> 0, events |-> "none"]   \* a descriptor not in epoll
Cleared == [fd |-> lfd, events |-> "none", call_back |-> "none", status |-> 0,
            len |-> 0, from |-> NoClient]

\* main has called initlistensocket.
Init ==
    /\ slot = [s \in Slots |->
                  IF s = Listener
                  THEN [Cleared EXCEPT !.events = "in", !.call_back = "acceptconn",
                                       !.status = 1]
                  ELSE Cleared]
    /\ NetInit
    /\ epoll = [f \in FDs |-> IF f = lfd THEN [ptr |-> Listener, events |-> "in"]
                                         ELSE Off]
    /\ batch = <<>> /\ refused = {}

-----------------------------------------------------------------------------
(* eventset, eventadd, eventdel, on a slot e                               *)

\* len and the bytes in buf stay: they are cleared only if len <= 0.
eventset(e, fd, call_back) ==
    [e EXCEPT !.fd = fd, !.call_back = call_back, !.events = "none", !.status = 0]

eventaddFaulty(s, e, events) ==               \* tests status the wrong way round
    /\ slot' = [slot EXCEPT ![s] = [e EXCEPT !.events = events, !.status = 1]]
    /\ epoll' = [epoll EXCEPT ![e.fd] =
                    IF e.status = 1 THEN [ptr |-> s, events |-> events] ELSE Off]
\* With status 1 the op is 0, which epoll_ctl refuses.
eventadd(s, e, events) ==
    /\ slot' = [slot EXCEPT ![s] = [e EXCEPT !.events = events, !.status = 1]]
    /\ epoll' = IF e.status = 0
                THEN [epoll EXCEPT ![e.fd] = [ptr |-> s, events |-> events]]
                ELSE epoll

eventdelFaulty(e) == e                        \* forgets status = 0
\* The slot afterwards; the descriptor leaves epoll with it.
eventdel(e) == [e EXCEPT !.status = 0]

Close(s, e) ==
    /\ conn' = [conn EXCEPT ![e.fd] = NoClient]
    /\ epoll' = [epoll EXCEPT ![e.fd] = Off]
    /\ slot' = [slot EXCEPT ![s] = eventdel(e)]

-----------------------------------------------------------------------------
(* The callbacks *)

FreeSlotsFaulty == {s \in Slots \ {Listener} : slot[s].events # "out"}
FreeSlots == {s \in Slots \ {Listener} : slot[s].status = 0}

\* A connection that finds the table full is neither registered nor closed.
\* (accept has one to take whenever the listener was ready: see BatchIsFresh.)
acceptconn(s) ==
    /\ slot[s].call_back = "acceptconn"
    /\ TakeConnection
    /\ \/ /\ FreeSlots = {}
          /\ refused' = refused \cup {Head(backlog)}
          /\ UNCHANGED <<slot, epoll>>
       \/ /\ FreeSlots # {}
          /\ LET i == Min(FreeSlots)
             IN  eventadd(i, eventset(slot[i], FreeFD, "recvdata"), "in")
          /\ UNCHANGED refused
    /\ UNCHANGED inbox

Received(c) == Min({inbox[c], BUFLEN})

FillFaulty(e, n, c) ==                        \* a buffer in use is not filled again
    IF e.len > 0 THEN e ELSE [e EXCEPT !.len = n, !.from = c]
Fill(e, n, c) == [e EXCEPT !.len = n, !.from = c]

\* Receives what there is, up to the size of the buffer; at the end of the
\* stream, or when the peer has reset the connection, closes.
recvdata(s) ==
    /\ slot[s].call_back = "recvdata"
    /\ LET e == slot[s]
           c == conn[e.fd]
           n == Received(c)
       IN  \/ /\ n > 0
              /\ inbox' = [inbox EXCEPT ![c] = @ - n]
              /\ eventadd(s, eventset(Fill(eventdel(e), n, c), e.fd, "senddata"), "out")
              /\ UNCHANGED conn
           \/ /\ n = 0 \/ phase[c] = "left"
              /\ Close(s, e)
              /\ UNCHANGED inbox
    /\ UNCHANGED <<refused, backlog>>

\* What a partial send leaves behind is dropped, as len is not kept.
senddata(s) ==
    /\ slot[s].call_back = "senddata"
    /\ LET e == slot[s]
           c == conn[e.fd]
       IN  \/ /\ eventadd(s, eventset(eventdel(e), e.fd, "recvdata"), "in")
              /\ UNCHANGED conn
           \/ phase[c] = "left" /\ Close(s, e)
    /\ UNCHANGED <<refused, backlog, inbox>>

-----------------------------------------------------------------------------
(* main *)

ReadyOn(f) == IF epoll[f].events = "out" THEN f \in Open ELSE Readable(f)

\* epoll hands out ptr and events; fd only says what the event was for.
Ready == {[ptr |-> epoll[f].ptr, events |-> epoll[f].events, fd |-> f] :
              f \in {g \in FDs : epoll[g] # Off /\ ReadyOn(g)}}

epoll_wait ==
    /\ batch = <<>> /\ Ready # {}
    /\ batch' \in SetToSeqs(Ready)
    /\ UNCHANGED <<slot, epoll, refused, netVars>>

Dispatch ==
    /\ batch # <<>> /\ batch' = Tail(batch)
    /\ LET s == Head(batch).ptr
       IN  IF slot[s].events = Head(batch).events
           THEN acceptconn(s) \/ recvdata(s) \/ senddata(s)
           ELSE UNCHANGED <<slot, epoll, refused, conn, backlog, inbox>>
    /\ UNCHANGED phase

-----------------------------------------------------------------------------
ClientActs(c) == (Connect(c) \/ SendByte(c) \/ Leave(c)) /\ UNCHANGED serverVars

-----------------------------------------------------------------------------
(* Properties *)

Events == {"none", "in", "out"}

ReactorTypeOK ==
    /\ slot \in [Slots -> [fd : FDs, events : Events, status : 0..1, len : 0..BUFLEN,
                           call_back : {"none", "acceptconn", "recvdata", "senddata"},
                           from : Clients \cup {NoClient}]]
    /\ NetTypeOK
    /\ epoll \in [FDs -> [ptr : Slots, events : Events]]
    /\ batch \in Seq([ptr : Slots, events : Events, fd : FDs])
    /\ refused \subseteq Clients

Registered == {f \in FDs : epoll[f] # Off}

(* The table and epoll tell the same story: a slot in use is registered    *)
(* with its own descriptor and event, epoll points at slots in use only,   *)
(* and every open connection is registered but those refused.              *)
TableAgreesWithEpoll ==
    /\ ReactorTypeOK
    /\ \A s \in Slots : slot[s].status = 1 =>
          epoll[slot[s].fd] = [ptr |-> s, events |-> slot[s].events]
    /\ \A f \in Registered : slot[epoll[f].ptr].status = 1 /\ slot[epoll[f].ptr].fd = f
    /\ Registered \ {lfd} = {f \in Open : conn[f] \notin refused}

(* The events that one epoll_wait has returned stay true of their slots    *)
(* while the callbacks of the others run: none is for a connection that    *)
(* has been closed meanwhile, or a slot that has been given away.          *)
BatchIsFresh ==
    \A k \in 1..Len(batch) :
        /\ slot[batch[k].ptr].status = 1
        /\ slot[batch[k].ptr].events = batch[k].events
        /\ slot[batch[k].ptr].fd = batch[k].fd
        /\ \A j \in 1..Len(batch) : j # k => batch[j].ptr # batch[k].ptr

(* A slot outlives its connections, and so do the bytes in its buffer: a   *)
(* client is sent only what it has itself sent.                            *)
EchoIsOwn ==
    \A s \in Slots : slot[s].status = 1 /\ slot[s].call_back = "senddata" =>
        slot[s].len > 0 /\ slot[s].from = conn[slot[s].fd]

=============================================================================
