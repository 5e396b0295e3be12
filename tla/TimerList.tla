----------------------------- MODULE TimerList -----------------------------
(***************************************************************************)
(* The sorted, doubly linked list of timers of                             *)
(* src/timer/timer_list/timer_list.cpp and the calls that can be made of   *)
(* it: add a timer, put one off, delete one, tick, and the destructor.     *)
(* One thread makes them all.  The loops of addTimer, tick and the         *)
(* destructor go one node at a step: on a broken list they may not end.    *)
(*                                                                         *)
(* To follow a null pointer or one to a deleted node is undefined: the     *)
(* model stops there.                                                      *)
(***************************************************************************)
EXTENDS Integers, FiniteSets, Sequences, SequencesExt

CONSTANTS
    Timers,         \* the nodes; a deleted one is not used again
    NULL,
    Delays,         \* from now to the expiry that a caller sets
    MaxTime         \* bound: the clock stops here

ASSUME TimerAssumption ==
    /\ IsFiniteSet(Timers) /\ NULL \notin Timers
    /\ Delays \subseteq Nat /\ MaxTime \in Nat

VARIABLES
    node,           \* the fields of each MyTimer
    heap,           \* "unborn", "live" or "deleted"
    head, tail,
    now,            \* time(NULL)
    pc, timer, cur, \* the call under way: its argument, the node it looks at
    atEnd           \* so far each timer that was set belonged at the end

pointers == <<node, head, tail>>
list == <<pointers, heap>>
call == <<pc, timer, cur>>
vars == <<list, now, call, atEnd>>

Init ==
    /\ node = [t \in Timers |-> [expireTime |-> 0, pre |-> NULL, next |-> NULL]]
    /\ heap = [t \in Timers |-> "unborn"]
    /\ head = NULL /\ tail = NULL
    /\ now = 0
    /\ pc = "idle" /\ timer = NULL /\ cur = NULL
    /\ atEnd = TRUE

Live == {t \in Timers : heap[t] = "live"}
Dangling(p) == p \notin Live \cup {NULL}
Return == pc' = "idle" /\ timer' = NULL /\ cur' = NULL
WalkFrom(t, h) == pc' = "walk" /\ timer' = t /\ cur' = h
Undefined == pc' = "undefined" /\ UNCHANGED <<pointers, timer, cur>>

-----------------------------------------------------------------------------
(* addTimer(t), on the nodes n and the head h that the caller has left.    *)

AddTimer(t, n, h) ==
    \/ /\ h = NULL
       /\ head' = t /\ tail' = t /\ node' = n
       /\ Return
    \/ /\ h \in Live /\ n[t].expireTime < n[h].expireTime
       /\ node' = [n EXCEPT ![t].next = h, ![t].pre = NULL]
       /\ head' = t /\ UNCHANGED tail
       /\ Return
    \/ /\ h \in Live /\ n[t].expireTime >= n[h].expireTime
       /\ node' = n /\ head' = h /\ UNCHANGED tail
       /\ WalkFrom(t, h)
    \/ Dangling(h) /\ Undefined

\* The helper looks for the first node that is not due before timer.
WalkOn ==
    /\ pc = "walk" /\ cur \in Live
    /\ node[cur].expireTime < node[timer].expireTime
    /\ cur' = node[cur].next
    /\ UNCHANGED <<list, now, pc, timer, atEnd>>

AppendNodeFaulty ==                           \* forgets timer->_pre = tail
    /\ pc = "walk" /\ cur = NULL /\ tail \in Live
    /\ node' = [node EXCEPT ![tail].next = timer]
    /\ tail' = timer
    /\ Return
    /\ UNCHANGED <<heap, head, now, atEnd>>
AppendNode ==
    /\ pc = "walk" /\ cur = NULL /\ tail \in Live
    /\ node' = [node EXCEPT ![tail].next = timer, ![timer].pre = tail]
    /\ tail' = timer
    /\ Return
    /\ UNCHANGED <<heap, head, now, atEnd>>

(* Leaves timer and the node found pointing at each other both ways; the   *)
(* node before them is not told of timer.                                  *)
InsertNode ==
    /\ pc = "walk" /\ cur \in Live
    /\ node[cur].expireTime >= node[timer].expireTime
    /\ node' = [node EXCEPT ![timer].next = cur, ![timer].pre = cur,
                            ![cur].pre = timer, ![cur].next = timer]
    /\ Return
    /\ UNCHANGED <<heap, head, tail, now, atEnd>>

-----------------------------------------------------------------------------
(* deleteTimer(t)                                                          *)

\* The nodes other than t that it writes.
Neighbours(t) ==
    IF head = t /\ tail = t THEN {}
    ELSE IF head = t THEN {node[t].next}
    ELSE IF tail = t THEN {node[t].pre}
    ELSE {node[t].next, node[t].pre}

CanDelete(t) == {t} \cup Neighbours(t) \subseteq Live

\* The only node, the head, the tail or one in between.
Unlink(t) ==
    \/ /\ head = t /\ tail = t
       /\ head' = NULL /\ tail' = NULL /\ UNCHANGED node
    \/ /\ head = t /\ tail # t
       /\ head' = node[t].next /\ node' = [node EXCEPT ![node[t].next].pre = NULL]
       /\ UNCHANGED tail
    \/ /\ head # t /\ tail = t
       /\ tail' = node[t].pre /\ node' = [node EXCEPT ![node[t].pre].next = NULL]
       /\ UNCHANGED head
    \/ /\ t \notin {head, tail}
       /\ node' = [node EXCEPT ![node[t].next].pre = node[t].pre,
                               ![node[t].pre].next = node[t].next]
       /\ UNCHANGED <<head, tail>>

DeleteTimerFaulty(t) ==                       \* forgets the links
    UNCHANGED pointers /\ heap' = [heap EXCEPT ![t] = "deleted"]
DeleteTimer(t) == Unlink(t) /\ heap' = [heap EXCEPT ![t] = "deleted"]

-----------------------------------------------------------------------------
(* The calls.                                                              *)

SetExpireTime(t, d) == [node EXCEPT ![t].expireTime = now + d]
Beyond(t, d) == \A u \in Live \ {t} : node[u].expireTime < now + d

\* new MyTimer, then addTimer.
Add(t, d) ==
    /\ pc = "idle" /\ heap[t] = "unborn"
    /\ heap' = [heap EXCEPT ![t] = "live"]
    /\ atEnd' = (atEnd /\ Beyond(t, d))
    /\ AddTimer(t, SetExpireTime(t, d), head)
    /\ UNCHANGED now

(* setExpireTime to a later time, then adjust: unless the node is still    *)
(* due before the next one it is taken out, its own pointers left as they  *)
(* are, and added again.                                                   *)
Adjust(t, d) ==
    /\ pc = "idle" /\ heap[t] = "live" /\ now + d >= node[t].expireTime
    /\ atEnd' = (atEnd /\ node[t].next = NULL)
    /\ LET n == SetExpireTime(t, d)
           next == n[t].next
           pre == n[t].pre
           stays == next = NULL \/ (next \in Live /\ n[t].expireTime < n[next].expireTime)
       IN  \/ /\ stays
              /\ node' = n /\ UNCHANGED <<head, tail, call>>
           \/ /\ ~stays /\ next \in Live /\ head = t
              /\ AddTimer(t, [n EXCEPT ![next].pre = NULL], next)
           \/ /\ ~stays /\ {pre, next} \subseteq Live /\ head # t
              /\ node' = [n EXCEPT ![next].pre = pre, ![pre].next = next]
              /\ WalkFrom(t, next)
              /\ UNCHANGED <<head, tail>>
           \/ /\ ~stays /\ (next \notin Live \/ (pre \notin Live /\ head # t))
              /\ Undefined
    /\ UNCHANGED <<heap, now>>

Delete(t) ==
    /\ pc = "idle" /\ heap[t] = "live"
    /\ \/ CanDelete(t) /\ DeleteTimer(t) /\ UNCHANGED call
       \/ ~CanDelete(t) /\ Undefined /\ UNCHANGED heap
    /\ UNCHANGED <<now, atEnd>>

Tick ==
    /\ pc = "idle" /\ head # NULL
    /\ pc' = "tick" /\ cur' = head
    /\ UNCHANGED <<list, now, timer, atEnd>>

IsDueFaulty(t) == node[t].expireTime < now
IsDue(t) == node[t].expireTime <= now

\* Calls call_back, steps on and deletes the node it has left.
TickFire ==
    /\ pc = "tick" /\ cur \in Live /\ IsDue(cur)
    /\ CanDelete(cur) /\ DeleteTimer(cur)
    /\ cur' = node[cur].next
    /\ UNCHANGED <<now, pc, timer, atEnd>>

TickEnd ==
    /\ pc = "tick"
    /\ cur = NULL \/ (cur \in Live /\ ~IsDue(cur))
    /\ Return
    /\ UNCHANGED <<list, now, atEnd>>

Destroy ==
    /\ pc = "idle" /\ pc' = "destroy"
    /\ UNCHANGED <<list, now, timer, cur, atEnd>>

DestroyNode ==
    /\ pc = "destroy" /\ head \in Live
    /\ head' = node[head].next
    /\ heap' = [heap EXCEPT ![head] = "deleted"]
    /\ UNCHANGED <<node, tail, now, call, atEnd>>

\* A loop that is under way follows a dangling pointer.
LoopUndefined ==
    /\ \/ pc = "walk" /\ Dangling(cur)
       \/ pc = "walk" /\ cur = NULL /\ tail \notin Live
       \/ pc = "tick" /\ Dangling(cur)
       \/ pc = "tick" /\ cur \in Live /\ IsDue(cur) /\ ~CanDelete(cur)
       \/ pc = "destroy" /\ Dangling(head)
    /\ Undefined
    /\ UNCHANGED <<heap, now, atEnd>>

Second ==
    /\ pc = "idle" /\ now < MaxTime
    /\ now' = now + 1
    /\ UNCHANGED <<list, call, atEnd>>

-----------------------------------------------------------------------------
LoopStep ==
    \/ WalkOn \/ AppendNode \/ InsertNode \/ TickFire \/ TickEnd \/ DestroyNode
    \/ LoopUndefined

Next ==
    \/ LoopStep
    \/ \E t \in Timers, d \in Delays : Add(t, d) \/ Adjust(t, d)
    \/ \E t \in Timers : Delete(t)
    \/ Tick \/ Destroy \/ Second

Spec == Init /\ [][Next]_vars

\* A call that is under way goes on; nobody has to make one.
FairSpec == Spec /\ WF_vars(LoopStep)

-----------------------------------------------------------------------------
(* Properties                                                              *)

Fields == [expireTime : Nat, pre : Timers \cup {NULL}, next : Timers \cup {NULL}]

TimerListTypeOK ==
    /\ node \in [Timers -> Fields]
    /\ heap \in [Timers -> {"unborn", "live", "deleted"}]
    /\ {head, tail, timer, cur} \subseteq Timers \cup {NULL}
    /\ atEnd => ~Dangling(head) /\ ~Dangling(cur)
    /\ now \in 0..MaxTime
    /\ pc \in {"idle", "walk", "tick", "destroy", "undefined"}
    /\ atEnd \in BOOLEAN

\* The timers in the list: the one being added is not there yet.
Listed == IF pc = "walk" THEN Live \ {timer} ELSE Live

\* s is the list, from head to tail by next and back by pre.
IsList(s) ==
    /\ head = IF s = <<>> THEN NULL ELSE s[1]
    /\ pc # "destroy" => tail = IF s = <<>> THEN NULL ELSE s[Len(s)]
    /\ \A k \in 1..Len(s) :
          /\ node[s[k]].next = IF k = Len(s) THEN NULL ELSE s[k + 1]
          /\ k > 1 => node[s[k]].pre = s[k - 1]

\* The comment on the helper addTimer: it puts timer in its proper place.
Sorted(s) ==
    \A k \in 2..Len(s) : node[s[k - 1]].expireTime <= node[s[k]].expireTime

ListIsRight ==
    pc # "undefined" => \E s \in SetToSeqs(Listed) : IsList(s) /\ Sorted(s)

(* As long as only the last timer is put off and a new one is due after    *)
(* all others, the list is whole, in order and never left dangling.        *)
EndListIsRight == atEnd => ListIsRight /\ pc # "undefined"

(* A tick, though it deletes the nodes it walks over, ends with no timer   *)
(* left that is due.                                                       *)
TickIsThorough ==
    [][atEnd /\ pc = "tick" /\ pc' = "idle" =>
          \A t \in Live : node[t].expireTime > now]_vars

(* A call returns: no loop goes round for ever.                            *)
CallsReturn ==
    (atEnd /\ pc \in {"walk", "tick"}) ~> (pc = "idle" \/ ~atEnd)

=============================================================================
