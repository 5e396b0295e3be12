---------------------------- MODULE EchoServers ----------------------------
(***************************************************************************)
(* The four echo servers of select/server.c, poll/server.c,                *)
(* epoll/epoll_LT/server.c and epoll/epoll_ET/server.c: one loop that      *)
(* waits for descriptors to be readable, accepts at most one connection,   *)
(* reads from the clients that are ready and answers them, all with calls  *)
(* that block.  Of an answer only its way matters: a write may have to     *)
(* wait for room, and to a client that has gone it may end the process.    *)
(*                                                                         *)
(* kind says which server runs.  select and poll keep their clients in a   *)
(* table, scanned after each wait: slot s here is client[s] of poll and    *)
(* client[s - 1] of select.  epoll hands out the descriptors themselves.   *)
(***************************************************************************)
EXTENDS EchoNet, SequencesExt

CONSTANTS
    Kinds,          \* the servers to check, of "select", "poll", "LT", "ET"
    CLIENT_COUNT,   \* slots of the table
    READ,           \* bytes that one read takes at most
    WORD,           \* descriptors in a word of an fd_set
    FIRST,          \* those of the first word from the listener's on
    NoFD            \* -1

ASSUME EchoAssumption ==
    /\ Kinds \subseteq {"select", "poll", "LT", "ET"}
    /\ CLIENT_COUNT \in Nat \ {0} /\ READ \in Nat \ {0}
    /\ WORD \in Nat \ {0} /\ FIRST \in Nat \ {0} /\ NoFD \notin FDs

TableSlots == 1..CLIENT_COUNT

VARIABLES
    kind, pc,
    client,         \* the descriptor in each slot of the table
    revents,        \* of poll: what it last said of each slot; 0, the listener
    reset,          \* of select: the descriptors to watch, then those ready
    limit,          \* maxfd of select, maxindex of poll
    retfd,          \* ready descriptors not yet dealt with
    cursor,         \* the slot the scan has come to
    reported,       \* of epoll: returned by epoll_wait, not yet dealt with
    edge,           \* of ET: connections came since the listener was last returned
    answered        \* the clients that have been written to

tableVars == <<client, revents, reset, limit, retfd, cursor>>
epollVars == <<reported, edge>>
echoVars == <<kind, pc, tableVars, epollVars, answered, netVars>>

\* main has bound and listens.  poll leaves revents uninitialised.
EchoInit ==
    /\ NetInit
    /\ kind \in Kinds /\ pc = "wait"
    /\ client = [s \in TableSlots |-> NoFD]
    /\ \E junk \in SUBSET {s \in TableSlots : kind = "poll"} :
          revents = [s \in 0..CLIENT_COUNT |-> s \in junk]
    /\ reset = {lfd}
    /\ limit = IF kind = "select" THEN lfd + 1 ELSE 0
    /\ retfd = 0 /\ cursor = 1
    /\ reported = <<>> /\ edge = FALSE
    /\ answered = {}

-----------------------------------------------------------------------------
(* select and poll *)

\* nfds is maxfd, not maxfd + 1.  The kernel writes whole words: it clears the
\* bits above nfds in the last one and leaves the words that follow alone.
Beyond(f) == \E k \in 0..f : limit <= FIRST + k * WORD /\ FIRST + k * WORD <= f
ReadySet == {f \in reset : f < limit /\ Readable(f)}

Select ==
    /\ kind = "select" /\ pc = "wait"
    /\ ReadySet # {} /\ retfd' = Cardinality(ReadySet)
    /\ reset' = ReadySet \cup {f \in reset : Beyond(f)}
    /\ pc' = "accept"
    /\ UNCHANGED <<kind, client, revents, limit, cursor, epollVars, answered, netVars>>

\* Slots 0..maxindex; a slot that holds no descriptor is never ready.
PolledFaulty == {s \in TableSlots : s < limit}    \* nfds is maxindex
Polled == {s \in TableSlots : s <= limit}

Poll ==
    /\ kind = "poll" /\ pc = "wait"
    /\ LET ready == {s \in Polled : client[s] # NoFD /\ Readable(client[s])}
                    \cup {s \in {0} : Readable(lfd)}
       IN  /\ ready # {}
           /\ revents' = [s \in 0..CLIENT_COUNT |->
                             IF s \in Polled \cup {0} THEN s \in ready ELSE revents[s]]
           /\ retfd' = Cardinality(ready)
    /\ pc' = "accept"
    /\ UNCHANGED <<kind, client, reset, limit, cursor, epollVars, answered, netVars>>

Listening == IF kind = "select" THEN lfd \in reset ELSE revents[0]
IsSet(s) == IF kind = "select" THEN client[s] \in reset ELSE revents[s]

EmptySlots == {s \in TableSlots : client[s] = NoFD}

\* Puts a new connection f in the first free slot; a full table loses it.
Store(f) ==
    /\ client' = IF EmptySlots = {} THEN client
                 ELSE [client EXCEPT ![Min(EmptySlots)] = f]
    /\ IF kind = "select"
       THEN reset' = reset \cup {f} /\ limit' = Max({limit, f})
       ELSE /\ limit' = IF EmptySlots = {} THEN limit ELSE Min(EmptySlots)
            /\ UNCHANGED reset

\* if(--retfd == 0) continue;
CountedFaulty(more) == retfd' = retfd - 1 /\ pc' = more
Counted(more) == retfd' = retfd - 1 /\ pc' = IF retfd = 1 THEN "wait" ELSE more

TableAccept ==
    /\ pc = "accept"
    /\ \/ ~Listening /\ pc' = "scan" /\ UNCHANGED <<client, reset, limit, retfd, netVars>>
       \/ /\ Listening
          /\ TakeConnection /\ Store(FreeFD) /\ Counted("scan")
          /\ UNCHANGED <<inbox, phase>>
    /\ UNCHANGED <<kind, revents, cursor, epollVars, answered>>

-----------------------------------------------------------------------------
(* read(f): what is there, up to the size asked for.  A client that has    *)
(* left may have reset the connection: read fails and the bytes are gone.  *)

Bytes(f) == inbox[conn[f]]

Taken(f) == Min({Bytes(f), READ})

\* Whether the client's socket has room for the answer shows only now.
ReadBytes(f) ==
    /\ Bytes(f) > 0 /\ pc' \in {"write"} \cup {p \in {"blocked"} : conn[f] \in answered}
    /\ inbox' = [inbox EXCEPT ![conn[f]] = @ - Taken(f)]
    /\ UNCHANGED <<conn, backlog, phase, answered>>

ReadFails(f) ==
    /\ Bytes(f) > 0 /\ phase[conn[f]] = "left"
    /\ inbox' = [inbox EXCEPT ![conn[f]] = 0]
    /\ UNCHANGED <<conn, backlog, phase, answered>>

ReadEnd(f) ==
    /\ Bytes(f) = 0 /\ phase[conn[f]] = "left"
    /\ conn' = [conn EXCEPT ![f] = NoClient]
    /\ answered' = answered \ {conn[f]}
    /\ UNCHANGED <<inbox, backlog, phase>>

-----------------------------------------------------------------------------
(* The scan of the table; a slot it comes to is read unless free.          *)

ToRead == {s \in TableSlots : s >= cursor /\ client[s] # NoFD /\ IsSet(s)}

ForgetFaulty(s) == UNCHANGED client           \* forgets client[i] = -1
Forget(s) == client' = [client EXCEPT ![s] = NoFD]

\* Slot s is done with; the count may end the loop.
SlotDone(s) == Counted("scan") /\ cursor' = IF retfd = 1 THEN 1 ELSE s + 1

\* One slot, or the end of the table if the count has not ended the loop.  What
\* was read is answered; the write of nothing to a client that ended, or of -1
\* bytes after a read that failed, fails and does no harm.
Scan ==
    /\ pc = "scan"
    /\ LET s == Min(ToRead)
           f == client[s]
       IN  IF ToRead = {}
           THEN /\ pc' = "wait" /\ cursor' = 1
                /\ UNCHANGED <<client, reset, retfd, answered, netVars>>
           ELSE \/ ReadBytes(f) /\ cursor' = s /\ UNCHANGED <<client, reset, retfd>>
                \/ ReadFails(f) /\ SlotDone(s) /\ UNCHANGED <<client, reset>>
                \/ ReadEnd(f) /\ SlotDone(s) /\ Forget(s) /\ reset' = reset \ {f}
    /\ UNCHANGED <<kind, revents, limit, epollVars>>

-----------------------------------------------------------------------------
(* epoll.  Every open descriptor is registered, the clients' level-        *)
(* triggered in both servers; only the listener of ET is edge-triggered.   *)

ListenerReadyFaulty == edge                   \* EPOLLET in both servers
ListenerReady == IF kind = "ET" THEN edge ELSE Readable(lfd)

EpollWait ==
    /\ kind \in {"LT", "ET"} /\ pc = "wait"
    /\ LET ready == {f \in Open : Readable(f)} \cup {f \in {lfd} : ListenerReady}
       IN  ready # {} /\ reported' \in SetToSeqs(ready)
    /\ edge' = FALSE
    /\ pc' = "dispatch"
    /\ UNCHANGED <<kind, tableVars, answered, netVars>>

NextReported ==
    /\ reported' = Tail(reported)
    /\ pc' = IF reported' = <<>> THEN "wait" ELSE "dispatch"

EpollDispatch ==
    /\ pc = "dispatch"
    /\ LET f == Head(reported)
       IN  \/ f = lfd /\ TakeConnection /\ NextReported /\ UNCHANGED <<inbox, phase, answered>>
           \/ f # lfd /\ ReadBytes(f) /\ UNCHANGED reported
           \/ f # lfd /\ (ReadFails(f) \/ ReadEnd(f)) /\ NextReported
    /\ UNCHANGED <<kind, tableVars, edge>>

-----------------------------------------------------------------------------
(* write, of what was read, to the client that sent it.                    *)

Target == IF kind \in {"LT", "ET"} THEN Head(reported) ELSE client[cursor]

\* It waits while the client's socket is full, but not for one that has left.
Writing == pc = "write" \/ (pc = "blocked" /\ phase[conn[Target]] = "left")

Write ==
    /\ Writing
    /\ answered' = answered \cup {conn[Target]}
    /\ \/ kind \in {"LT", "ET"} /\ NextReported /\ UNCHANGED <<retfd, cursor>>
       \/ kind \in {"select", "poll"} /\ SlotDone(cursor) /\ UNCHANGED reported
    /\ UNCHANGED <<kind, client, revents, reset, limit, edge, netVars>>

\* A client that has left resets the connection when it is written to; the next
\* write raises SIGPIPE, which no server ignores.  The kernel closes everything.
BrokenPipe ==
    /\ Writing /\ phase[conn[Target]] = "left" /\ conn[Target] \in answered
    /\ pc' = "ended"
    /\ conn' = [f \in FDs |-> NoClient] /\ backlog' = <<>>
    /\ client' = [s \in TableSlots |-> NoFD] /\ reset' = {} /\ retfd' = 0 /\ cursor' = 1
    /\ reported' = <<>> /\ edge' = FALSE
    /\ UNCHANGED <<kind, revents, limit, answered, phase, inbox>>

-----------------------------------------------------------------------------
EchoServer ==
    Select \/ Poll \/ TableAccept \/ Scan \/ EpollWait \/ EpollDispatch \/ Write \/ BrokenPipe

ClientConnects(c) ==
    /\ Connect(c) /\ edge' = (kind = "ET")
    /\ UNCHANGED <<kind, pc, tableVars, reported, answered>>

ClientSendsOrLeaves(c) ==
    /\ SendByte(c) \/ Leave(c)
    /\ UNCHANGED <<kind, pc, tableVars, epollVars, answered>>

ClientReads(c) ==
    /\ phase[c] = "here" /\ pc = "blocked" /\ conn[Target] = c /\ pc' = "write"
    /\ UNCHANGED <<kind, tableVars, epollVars, answered, netVars>>

ClientMoves(c) == ClientConnects(c) \/ ClientSendsOrLeaves(c) \/ ClientReads(c)

EchoNext == EchoServer \/ \E c \in Clients : pc # "ended" /\ ClientMoves(c)

EchoSpec == EchoInit /\ [][EchoNext]_echoVars

\* The loop of main goes on; clients do as they like.
EchoFairSpec == EchoSpec /\ WF_echoVars(EchoServer)

-----------------------------------------------------------------------------
(* Properties *)

EchoTypeOK ==
    /\ NetTypeOK
    /\ kind \in Kinds /\ pc \in {"wait", "accept", "scan", "dispatch", "write", "blocked", "ended"}
    /\ client \in [TableSlots -> FDs \cup {NoFD}]
    /\ revents \in [0..CLIENT_COUNT -> BOOLEAN] /\ reset \subseteq FDs
    /\ limit \in Nat /\ retfd \in Nat /\ cursor \in 1..CLIENT_COUNT + 1
    /\ reported \in Seq(FDs) /\ edge \in BOOLEAN
    /\ answered \subseteq Clients

(* The descriptor that the server reads from, or accepts from, next.         *)
Current ==
    CASE pc = "accept" /\ Listening -> {lfd}
      [] pc = "scan" /\ ToRead # {} -> {client[Min(ToRead)]}
      [] pc = "dispatch" -> {Head(reported)}
      [] OTHER -> {}

Blocked == \E f \in Current : ~Readable(f)

(* The server never sits in a read or an accept while others are ready,    *)
(* although it acts on what it was told before, and poll looks at revents  *)
(* that were never set, or are of an earlier client: the count of retfd    *)
(* always ends the scan before such a slot.  (select loses count when it   *)
(* has come to a third word of descriptors.)                               *)
NeverBlocks == Blocked => kind = "select" /\ limit > FIRST + WORD

(* No slot holds a descriptor that has been closed, perhaps to be given to *)
(* another client, and no two slots hold the same one.                     *)
TableIsRight ==
    /\ EchoTypeOK
    /\ \A s \in TableSlots : client[s] # NoFD => client[s] \in Open
    /\ \A r, s \in TableSlots : client[r] = client[s] /\ r # s => client[r] = NoFD

(* The one thread of a server may wait for ever in a write to a client     *)
(* that sends and does not read; what the server does for the others rests *)
(* on no client being like that.                                           *)
WriteBlocks == pc = "blocked" /\ ~Writing

NeverStuck == []<>~(Blocked \/ WriteBlocks)

(* While the process lives every connection is accepted in the end, but by *)
(* ET, which accepts one connection an edge, and by select once it has     *)
(* lost the bit of its listener, which it never sets again.                *)
AllAccepted ==
    NeverStuck =>
        \A c \in Clients :
            phase[c] # "away" ~> \/ \A k \in DOMAIN backlog : backlog[k] # c
                                 \/ kind = "ET"
                                 \/ kind = "select" /\ lfd \notin reset
                                 \/ pc = "ended"

(* The server has asked the kernel about f, and would read it.             *)
Watched(f) ==
    CASE kind = "select" -> f \in reset /\ f < limit /\ \E s \in TableSlots : client[s] = f
      [] kind = "poll" -> \E s \in TableSlots : s <= limit /\ client[s] = f
      [] OTHER -> f \in Open

IsWatched(c) == \E f \in Open : conn[f] = c /\ Watched(f)

Answers(c) == pc \in {"write", "blocked"} /\ conn[Target] = c

(* A client that is watched and has sent something is read from, and comes *)
(* to be answered, whoever else comes, sends and goes.  (poll stops        *)
(* watching the high slots when a low one is filled again; select watches  *)
(* hardly any client.)                                                     *)
WatchedAreRead ==
    NeverStuck =>
        \A c \in Clients :
            (inbox[c] > 0 /\ IsWatched(c)) ~> (Answers(c) \/ inbox[c] = 0 \/ ~IsWatched(c))

=============================================================================
