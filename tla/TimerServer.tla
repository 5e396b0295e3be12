---------------------------- MODULE TimerServer ----------------------------
(***************************************************************************)
(* The server of src/timer/timer_list/main.cpp, which is to close clients  *)
(* that stay silent for three slots.  It is TimerList and EchoNet put      *)
(* together: each connection has a timer, and SIGALRM, which the handler   *)
(* passes on through a pipe that epoll watches, makes the loop of main     *)
(* call tick.                                                              *)
(*                                                                         *)
(* users[confd].confd is given the listening socket.  The callback of any  *)
(* timer therefore closes the listener, and the descriptor of a client is  *)
(* never closed nor taken out of epoll.                                    *)
(***************************************************************************)
EXTENDS TimerList, EchoNet

CONSTANTS TIMESLOT, BUF_SIZE

ASSUME ServerAssumption ==
    /\ TIMESLOT \in Nat \ {0} /\ BUF_SIZE \in Nat \ {0}
    /\ Delays = {3 * TIMESLOT}
    /\ Cardinality(Timers) = Cardinality(Clients)

VARIABLES
    users,          \* of each descriptor: timer and confd
    closed,         \* descriptors on which close has been called
    batch,          \* returned by epoll_wait, in any order, and still to come
    spc,            \* where main is
    heard,          \* when the client was accepted or last received from
    alarmAt,        \* when SIGALRM is due, or NoAlarm
    pipe,           \* the signals in the pipe
    timeout, stop,  \* what main has read from it
    alarms          \* how often SIGALRM has come, as far as 2

mainVars == <<users, closed, batch, spc, heard, timeout, stop>>
signalVars == <<alarmAt, pipe, alarms>>
serverVars == <<mainVars, signalVars>>
allVars == <<serverVars, vars, netVars>>

Signals == {"ALRM", "TERM"}
Pipe == Cardinality(Clients) + 1        \* pipefd[0], above the others
NoAlarm == -1

\* main has come to its loop, and the first alarm is set.
ServerInit ==
    /\ Init /\ NetInit
    /\ users = [f \in FDs |-> [timer |-> NULL, confd |-> lfd]]
    /\ closed = {} /\ batch = {} /\ spc = "wait"
    /\ heard = [c \in Clients |-> 0]
    /\ alarmAt = TIMESLOT /\ pipe = <<>>
    /\ timeout = FALSE /\ stop = FALSE
    /\ alarms = 0

Running == spc \notin {"ended", "killed"} /\ pc # "undefined"

-----------------------------------------------------------------------------
(* The loop of main, between two calls of the list *)

cb_func(f) == closed' = closed \cup {users[f].confd}

Ready ==
    {f \in FDs \ closed : Readable(f)} \cup {f \in {Pipe} : pipe # <<>>}

EpollWait ==
    /\ spc = "wait" /\ pc = "idle" /\ Ready # {}
    /\ batch' = Ready /\ spc' = "batch"
    /\ UNCHANGED <<users, closed, heard, timeout, stop, signalVars, vars, netVars>>

Takes(f) ==
    /\ spc = "batch" /\ pc = "idle" /\ f \in batch
    /\ batch' = batch \ {f}
    /\ UNCHANGED <<spc, signalVars, phase>>

\* Without a listener accept fails, and users[-1] is written.
AcceptClient ==
    /\ Takes(lfd)
    /\ IF lfd \in closed
       THEN /\ Undefined
            /\ UNCHANGED <<heap, now, atEnd, users, heard, conn, backlog>>
       ELSE LET t == CHOOSE u \in Timers : heap[u] = "unborn"
            IN  /\ TakeConnection
                /\ users' = [users EXCEPT ![FreeFD] = [timer |-> t, confd |-> lfd]]
                /\ heard' = [heard EXCEPT ![Head(backlog)] = now]
                /\ Add(t, 3 * TIMESLOT)
    /\ UNCHANGED <<closed, timeout, stop, inbox>>

ReadPipe ==
    /\ spc = "batch" /\ pc = "idle" /\ Pipe \in batch
    /\ batch' = batch \ {Pipe}
    /\ pipe' = <<>>
    /\ timeout' = (timeout \/ "ALRM" \in ToSet(pipe))
    /\ stop' = (stop \/ "TERM" \in ToSet(pipe))
    /\ UNCHANGED <<spc, users, closed, heard, alarmAt, alarms, vars, netVars>>

PutOffFaulty(t) == UNCHANGED vars             \* forgets setExpireTime and adjust
PutOff(t) ==
    IF t \in Live THEN Adjust(t, 3 * TIMESLOT)
    ELSE Undefined /\ UNCHANGED <<heap, now, atEnd>>

ReceiveBytes(f) ==
    /\ f \in Open /\ Takes(f)
    /\ LET c == conn[f]
           n == Min({inbox[c], BUF_SIZE})
       IN  /\ n > 0 /\ inbox' = [inbox EXCEPT ![c] = @ - n]
           /\ heard' = [heard EXCEPT ![c] = now]
    /\ PutOff(users[f].timer)
    /\ UNCHANGED <<users, closed, timeout, stop, conn, backlog>>

DropFaulty(t) == UNCHANGED vars               \* forgets deleteTimer
Drop(t) ==
    IF t \in Live THEN Delete(t)
    ELSE Undefined /\ UNCHANGED <<heap, now, atEnd>>

\* The end of the stream, or a connection that the peer has reset.
ReceiveEnd(f) ==
    /\ f \in Open /\ Takes(f)
    /\ inbox[conn[f]] = 0 \/ phase[conn[f]] = "left"
    /\ cb_func(f)
    /\ Drop(users[f].timer)
    /\ UNCHANGED <<users, heard, timeout, stop, conn, backlog, inbox>>

-----------------------------------------------------------------------------
(* tick, and the end of the loop *)

AfterBatch == spc = "batch" /\ batch = {} /\ pc = "idle"
GoOnFaulty == spc' = "wait"                   \* while(1)
GoOn == spc' = IF stop THEN "over" ELSE "wait"

NothingDue ==
    /\ AfterBatch /\ ~timeout /\ GoOn
    /\ UNCHANGED <<users, closed, batch, heard, timeout, stop, signalVars, vars, netVars>>

StartTick ==
    /\ AfterBatch /\ timeout /\ spc' = "tick"
    /\ IF head = NULL THEN UNCHANGED vars ELSE Tick
    /\ UNCHANGED <<users, closed, batch, heard, timeout, stop, signalVars, netVars>>

RearmFaulty == alarmAt' = alarmAt             \* forgets alarm
Rearm == alarmAt' = now + TIMESLOT

AfterTick ==
    /\ spc = "tick" /\ pc = "idle" /\ GoOn
    /\ Rearm /\ timeout' = FALSE
    /\ UNCHANGED <<users, closed, batch, heard, stop, pipe, alarms, vars, netVars>>

\* The destructor of timerList, which is static, runs after main.
LeaveMain ==
    /\ spc = "over" /\ spc' = "ended"
    /\ closed' = closed \cup {lfd}
    /\ Destroy
    /\ UNCHANGED <<users, batch, heard, timeout, stop, signalVars, netVars>>

UserOf(t) == CHOOSE f \in Open : users[f].timer = t

\* A call of the list that is under way; tick calls back cb_func.
ListStep ==
    /\ spc # "killed"
    /\ LoopStep
    /\ IF pc = "tick" /\ Live' # Live THEN cb_func(UserOf(cur)) ELSE UNCHANGED closed
    /\ UNCHANGED <<users, batch, spc, heard, timeout, stop, signalVars, netVars>>

-----------------------------------------------------------------------------
(* Signals and time *)

signal_handler(sig) == pipe' = Append(pipe, sig)

\* addsigToHandle sets a flag in sa_flags and leaves the rest as it found it
\* on the stack.  If SA_RESETHAND is in there the first SIGALRM takes the
\* handler away, and the second ends the process.
AlarmFires ==
    /\ Running /\ alarmAt # NoAlarm /\ now >= alarmAt
    /\ alarmAt' = NoAlarm
    /\ signal_handler("ALRM")
    /\ alarms' = Min({alarms + 1, 2})
    /\ spc' \in {spc} \cup {s \in {"killed"} : alarms = 1}
    /\ UNCHANGED <<users, closed, batch, heard, timeout, stop, vars, netVars>>

\* Bound: once, until main has seen it; so it does not matter whether SIGTERM
\* has its handler still.
TermArrives ==
    /\ Running /\ "TERM" \notin ToSet(pipe) /\ ~stop
    /\ signal_handler("TERM")
    /\ UNCHANGED <<mainVars, alarmAt, alarms, vars, netVars>>

ClientActs(c) ==
    /\ Running
    /\ \/ lfd \notin closed /\ Connect(c)
       \/ SendByte(c) \/ Leave(c)
    /\ UNCHANGED <<serverVars, vars>>

\* A signal that is due is delivered before anything else the process does.
TimePasses ==
    /\ Running /\ (alarmAt # NoAlarm => now < alarmAt)
    /\ Second
    /\ UNCHANGED <<serverVars, netVars>>

-----------------------------------------------------------------------------
ServerStep ==
    \/ EpollWait \/ AcceptClient \/ ReadPipe
    \/ \E f \in FDs : ReceiveBytes(f) \/ ReceiveEnd(f)
    \/ NothingDue \/ StartTick \/ AfterTick \/ LeaveMain \/ ListStep

ServerNext ==
    \/ ServerStep
    \/ AlarmFires \/ TermArrives \/ TimePasses
    \/ \E c \in Clients : ClientActs(c)

\* main goes on; clients, signals and the clock do as they like.
ServerSpec == ServerInit /\ [][ServerNext]_allVars /\ WF_allVars(ServerStep)

-----------------------------------------------------------------------------
(* Properties *)

ServerTypeOK ==
    /\ TimerListTypeOK /\ NetTypeOK
    /\ users \in [FDs -> [timer : Timers \cup {NULL}, confd : FDs]]
    /\ closed \subseteq FDs
    /\ batch \subseteq FDs \cup {Pipe}
    /\ spc \in {"wait", "batch", "tick", "over", "ended", "killed"}
    /\ heard \in [Clients -> 0..MaxTime]
    /\ alarmAt \in Nat \cup {NoAlarm}
    /\ pipe \in Seq(Signals)
    /\ timeout \in BOOLEAN /\ stop \in BOOLEAN
    /\ alarms \in 0..2

(* Connections and timers belong together: no two share a timer, no timer  *)
(* is without its connection, each is due three slots after the client was *)
(* last heard, and the listener goes when the first timer is deleted, by   *)
(* tick or because its client has left, and not before.                    *)
TimersMatch ==
    /\ ServerTypeOK
    /\ Running =>
          /\ \A f, g \in Open : users[f].timer = users[g].timer => f = g
          /\ Live \subseteq {users[f].timer : f \in Open}
          /\ \A f \in Open : users[f].timer \in Live =>
                node[users[f].timer].expireTime = heard[conn[f]] + 3 * TIMESLOT
          /\ lfd \in closed <=> \E f \in Open : users[f].timer \notin Live

(* tick gives up only a client that nothing has been received from for     *)
(* three slots, however the signal, the bytes of clients and the clock     *)
(* come together in a batch.                                               *)
SilentOnly ==
    [][\A t \in Live \ Live' : pc = "tick" =>
          now >= heard[conn[UserOf(t)]] + 3 * TIMESLOT]_allVars

(* There is one alarm at any time: still to come, on its way through the   *)
(* pipe, or waiting for main to call tick.                                 *)
OneAlarm ==
    Running =>
        1 = Cardinality({k \in 1..Len(pipe) : pipe[k] = "ALRM"})
            + (IF timeout THEN 1 ELSE 0) + (IF alarmAt # NoAlarm THEN 1 ELSE 0)

(* Signals are served, however busy the clients: the time comes when the   *)
(* pipe is empty and the alarm set again, or main has ended; unless the    *)
(* process is killed, runs into something undefined, or is left with a     *)
(* list out of order, along which a walk may never end: two clients that   *)
(* connect in one second, of which the first then sends, are enough.       *)
SignalsServed ==
    (pipe # <<>> \/ timeout \/ stop) ~>
        (~Running \/ ~atEnd \/ (pipe = <<>> /\ alarmAt # NoAlarm /\ ~stop))

=============================================================================
