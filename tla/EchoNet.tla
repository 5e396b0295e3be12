------------------------------ MODULE EchoNet ------------------------------
(***************************************************************************)
(* The network that the servers under src/unix网络编程/IO多路复用 share:   *)
(* clients that connect, send and leave, the queue of connections not yet  *)
(* accepted, and the descriptors the server has open.  None of it is code  *)
(* of the repository but the clients, which only connect, write and read.  *)
(* Bytes are counted, not told apart.                                      *)
(***************************************************************************)
EXTENDS Integers, FiniteSets, Sequences, FiniteSetsExt

CONSTANTS
    Clients,        \* each connects at most once
    NoClient,
    MaxBytes        \* bound: bytes of a client that are on their way

ASSUME NetAssumption ==
    IsFiniteSet(Clients) /\ NoClient \notin Clients /\ MaxBytes \in Nat

FDs == 0..Cardinality(Clients)
lfd == 0            \* the listening socket; it has no lower one after it

VARIABLES
    conn,           \* the client at the other end of each open descriptor
    backlog,        \* connections not yet accepted
    phase,          \* of a client: "away", "here", "left"
    inbox           \* bytes of a client the server has yet to read

netVars == <<conn, backlog, phase, inbox>>

NetInit ==
    /\ conn = [f \in FDs |-> NoClient]
    /\ backlog = <<>>
    /\ phase = [c \in Clients |-> "away"]
    /\ inbox = [c \in Clients |-> 0]

NetTypeOK ==
    /\ conn \in [FDs -> Clients \cup {NoClient}]
    /\ backlog \in Seq(Clients)
    /\ phase \in [Clients -> {"away", "here", "left"}]
    /\ inbox \in [Clients -> 0..MaxBytes]

-----------------------------------------------------------------------------
(* Clients *)

Connect(c) ==
    /\ phase[c] = "away" /\ phase' = [phase EXCEPT ![c] = "here"]
    /\ backlog' = Append(backlog, c)
    /\ UNCHANGED <<conn, inbox>>

SendByte(c) ==
    /\ phase[c] = "here" /\ inbox[c] < MaxBytes
    /\ inbox' = [inbox EXCEPT ![c] = @ + 1]
    /\ UNCHANGED <<conn, backlog, phase>>

Leave(c) ==
    /\ phase[c] = "here" /\ phase' = [phase EXCEPT ![c] = "left"]
    /\ UNCHANGED <<conn, backlog, inbox>>

-----------------------------------------------------------------------------
(* What the server's calls find *)

Open == {f \in FDs \ {lfd} : conn[f] # NoClient}
FreeFD == Min({f \in FDs \ {lfd} : conn[f] = NoClient})

\* accept: the oldest connection gets the lowest free descriptor.
TakeConnection ==
    /\ backlog # <<>> /\ backlog' = Tail(backlog)
    /\ conn' = [conn EXCEPT ![FreeFD] = Head(backlog)]

\* accept or read on f would not block: there are bytes, or their end.
Readable(f) ==
    \/ f = lfd /\ backlog # <<>>
    \/ f \in Open /\ (inbox[conn[f]] > 0 \/ phase[conn[f]] = "left")

=============================================================================
