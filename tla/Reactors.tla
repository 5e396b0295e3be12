------------------------------ MODULE Reactors ------------------------------
(***************************************************************************)
(* The two reactors of the repository: epoll_reactor/server.c, whose       *)
(* operations are those of EpollReactor, and reactor/server.c with its     *)
(* main.c, whose operations are here.  The second has the same table, the  *)
(* same loop and the same callbacks, but ends the process where the first  *)
(* closes a connection, never gives a slot back, and does not compare the  *)
(* event of a slot with the one reported before it calls back.             *)
(*                                                                         *)
(* The second registers a new connection with EPOLLET.  It makes no        *)
(* difference: the first event is served by a callback that registers the  *)
(* connection again, without it.                                           *)
(***************************************************************************)
EXTENDS EpollReactor

CONSTANT Versions       \* the servers to check, of "epoll_reactor", "reactor"

ASSUME VersionAssumption == Versions \subseteq {"epoll_reactor", "reactor"}

VARIABLES
    version,
    exited              \* the process has ended

ownVars == <<version, exited>>
reactorVars == <<ownVars, vars>>

\* initserversock has registered the listener in the slot past the others.
ReactorsInit == Init /\ version \in Versions /\ exited = FALSE

-----------------------------------------------------------------------------
(* event_set, event_add and event_del, on a slot e                         *)

event_setFaulty(e, fd, events, call_back) ==  \* forgets status = 0
    [e EXCEPT !.fd = fd, !.call_back = call_back, !.events = events]
\* datalen and buf stay unless datalen <= 0.
event_set(e, fd, events, call_back) ==
    [e EXCEPT !.fd = fd, !.call_back = call_back, !.events = events, !.status = 0]

\* epoll after event_del(e), which leaves status as it is.
event_del(e) == IF e.status = 1 THEN [epoll EXCEPT ![e.fd] = Off] ELSE epoll

\* exit, or a signal: the kernel closes what the process had open.
Exit ==
    /\ exited' = TRUE
    /\ slot' = [s \in Slots |-> Cleared]
    /\ epoll' = [f \in FDs |-> Off]
    /\ conn' = [f \in FDs |-> NoClient]

event_addFaulty(s, e, table, open) ==         \* goes on when epoll_ctl fails
    /\ slot' = [slot EXCEPT ![s] = [e EXCEPT !.status = 1]]
    /\ epoll' = [table EXCEPT ![e.fd] = [ptr |-> s, events |-> e.events]]
    /\ conn' = open /\ UNCHANGED exited
\* Slot s becomes e and is registered; table is epoll, and open the
\* connections, as the callback has left them.  epoll_ctl adds a descriptor
\* that is open and not there yet, and modifies one that is there.
event_add(s, e, table, open) ==
    IF open[e.fd] # NoClient /\ (table[e.fd] = Off <=> e.status = 0)
    THEN /\ slot' = [slot EXCEPT ![s] = [e EXCEPT !.status = 1]]
         /\ epoll' = [table EXCEPT ![e.fd] = [ptr |-> s, events |-> e.events]]
         /\ conn' = open /\ UNCHANGED exited
    ELSE Exit

-----------------------------------------------------------------------------
(* The callbacks *)

\* Called back as "acceptconn" is in the other server.
acceptconnect(s) ==
    /\ slot[s].call_back = "acceptconn"
    /\ backlog # <<>> /\ backlog' = Tail(backlog)
    /\ IF FreeSlots = {} THEN Exit
       ELSE LET i == Min(FreeSlots)
            IN  event_add(i, event_set(slot[i], FreeFD, "in", "recvdata"),
                          epoll, [conn EXCEPT ![FreeFD] = Head(backlog)])
    /\ UNCHANGED inbox

\* At the end of the stream the descriptor is closed, which takes it out of
\* epoll, and registered all the same; when the peer has reset the
\* connection recv may fail.
reactor_recvdata(s) ==
    /\ slot[s].call_back = "recvdata"
    /\ LET e == slot[s]
           c == conn[e.fd]
           n == Received(c)
           next == event_set(Fill(e, n, c), e.fd, "out", "senddata")
       IN  \/ /\ n > 0 /\ inbox' = [inbox EXCEPT ![c] = @ - n]
              /\ event_add(s, next, event_del(e), conn)
           \/ /\ n = 0 /\ UNCHANGED inbox
              /\ event_add(s, next, event_del(e), [conn EXCEPT ![e.fd] = NoClient])
           \/ phase[c] = "left" /\ Exit /\ UNCHANGED inbox
    /\ UNCHANGED backlog

\* send may fail when the peer has left.
reactor_senddata(s) ==
    /\ slot[s].call_back = "senddata"
    /\ LET e == slot[s]
       IN  \/ event_add(s, event_set(e, e.fd, "in", "recvdata"), event_del(e), conn)
           \/ phase[conn[e.fd]] = "left" /\ Exit
    /\ UNCHANGED <<backlog, inbox>>

-----------------------------------------------------------------------------
(* main, of either server *)

\* Only EPOLLIN or only EPOLLOUT is ever registered, so that a reported event
\* leads to one call.
CallBack ==
    /\ version = "reactor" /\ batch # <<>>
    /\ LET s == Head(batch).ptr
       IN  acceptconnect(s) \/ reactor_recvdata(s) \/ reactor_senddata(s)
    /\ batch' = IF exited' THEN <<>> ELSE Tail(batch)
    /\ UNCHANGED <<version, refused, phase>>

\* Neither server ignores SIGPIPE, which a second send raises once the peer
\* has reset the connection.
SignalPipe ==
    /\ batch # <<>> /\ batch' = <<>>
    /\ LET e == slot[Head(batch).ptr]
       IN  e.call_back = "senddata" /\ phase[conn[e.fd]] = "left"
    /\ Exit
    /\ UNCHANGED <<version, refused, backlog, phase, inbox>>

Server ==
    \/ epoll_wait /\ UNCHANGED ownVars
    \/ version = "epoll_reactor" /\ Dispatch /\ UNCHANGED ownVars
    \/ CallBack
    \/ SignalPipe

ReactorsNext ==
    \/ epoll_wait /\ UNCHANGED ownVars
    \/ version = "epoll_reactor" /\ Dispatch /\ UNCHANGED ownVars
    \/ CallBack
    \/ SignalPipe
    \/ \E c \in Clients : ~exited /\ ClientActs(c) /\ UNCHANGED ownVars

\* The loop of main goes on; clients do as they like.
ReactorsSpec == ReactorsInit /\ [][ReactorsNext]_reactorVars /\ WF_reactorVars(Server)

-----------------------------------------------------------------------------
(* Properties, besides those of EpollReactor *)

(* A server ends only for a client that has left it, or, if it is the      *)
(* second, for one more than its table holds: never because its table and  *)
(* epoll have come to differ, so that epoll_ctl fails.                     *)
Connected == {c \in Clients : phase[c] # "away"}

ExitsForCause ==
    exited => \/ \E c \in Clients : phase[c] = "left"
              \/ version = "reactor" /\ Cardinality(Connected) > MAX_EVENTS

(* While the server is up and bytes of a client wait to be received, some  *)
(* are, again and again, unless it has been refused or has left.           *)
Waiting(c) == inbox[c] > 0 /\ c \notin refused /\ phase[c] = "here"

BytesReceivedWhileUp ==
    \A c \in Clients :
        <>[](Waiting(c) /\ ~exited) => []<><<inbox'[c] < inbox[c]>>_reactorVars

(* The second server outlives no client that it serves: a descriptor that  *)
(* has been closed cannot be registered, whatever else goes on meanwhile.  *)
LeavingEndsReactor ==
    \A c \in Clients :
        (version = "reactor" /\ phase[c] = "left") ~> exited

=============================================================================
